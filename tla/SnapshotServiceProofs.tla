------------------------ MODULE SnapshotServiceProofs ------------------------
(* Proofs about the snapshot service: each of its steps keeps the           *)
(* invariant of its handlers and is a step its store allows a caller, so    *)
(* what is proved of the store under any caller holds under the service.    *)
EXTENDS ServiceInvariant, SnapshotStoreProofs

----------------------------------------------------------------------------
(* The invariants, and what a store step leaves of the service's.          *)

\* The invariants of the store and of the service together.
StoreInv == IInv /\ WorkerInv /\ PromiseInv
AllInv == StoreInv /\ ServiceInv

LEMMA NextPromise ==
    ASSUME StoreInv, [Next]_vars
    PROVE  StoreInv'
<1>1. IInv'
  BY NextInv DEF StoreInv
<1>2. WorkerInv'
  BY <1>1, NextW DEF StoreInv
<1> QED BY <1>1, <1>2, PendingInvStep, LedgerStep, HeldMatchesStep, DirectoryStep, MemoStep
        DEF StoreInv, PromiseInv

----------------------------------------------------------------------------
(* Handlers and the ids they allot.                                        *)

LEMMA RowsAreIds ==
    ASSUME NEW s \in Seq(Ids)
    PROVE  /\ Len(s) \in Nat /\ DOMAIN s = 1..Len(s) /\ Range(s) \subseteq Ids
           /\ \A i \in 1..Len(s) : s[i] \in Range(s) /\ s[i] \in Ids
           /\ \A x \in Range(s) : \E i \in 1..Len(s) : x = s[i]
<1>1. Len(s) \in Nat /\ DOMAIN s = 1..Len(s) /\ \A i \in 1..Len(s) : s[i] \in Ids
  OBVIOUS
<1> QED BY <1>1 DEF Range

LEMMA EmptyRows ==
    /\ <<>> \in Seq(Ids) /\ Len(<<>>) = 0 /\ Range(<<>>) = {} /\ DOMAIN <<>> = {}
    /\ IsInjective(<<>>)
BY DEF Range, IsInjective

LEMMA TaskFacts ==
    ASSUME ServiceTyped
    PROVE  /\ task.rows \in Seq(Ids) /\ Len(task.rows) \in Nat /\ DOMAIN task.rows = 1..Len(task.rows)
           /\ Range(task.rows) \subseteq Ids
           /\ \A i \in 1..Len(task.rows) : task.rows[i] \in Range(task.rows) /\ task.rows[i] \in Ids
           /\ \A x \in Range(task.rows) : \E i \in 1..Len(task.rows) : x = task.rows[i]
           /\ task.pos \in Nat /\ task.pos <= Len(task.rows)
           /\ task.req \in Requests \cup {NoRequest, Recovery} /\ task.step \in Steps
           /\ task.subject \in Ref /\ task.failed \in BOOLEAN
           /\ task.phase \in {"none", "promotion", "branch", "vectors"}
<1>1. task \in Task /\ task.pos <= Len(task.rows)
  BY DEF ServiceTyped
<1>2. task.rows \in Seq(Ids)
  BY <1>1 DEF Task
<1> QED BY <1>1, <1>2, RowsAreIds DEF Task

----------------------------------------------------------------------------
(* What a store step leaves to its caller.                                 *)

\* A worker that is lost, or dead, still holds nothing.
LEMMA LostStep ==
    ASSUME IInv, LostHoldsNothing, [Next]_vars
    PROVE  LostHoldsNothing'
<1>0. /\ attached \in BOOLEAN /\ ready \in BOOLEAN /\ live \in BOOLEAN /\ call \in Call
      /\ DOMAIN Nothing = {} /\ (call.op = "none" => call.pc = "idle")
  BY NothingType DEF IInv, TypeOK, CallInv, CallSteps
<1> DEFINE Quiet == call'.op = "delete" /\ call'.pc = "unlink" => call'.victim = call'.target
<1>1. ASSUME LoseWorker, Quiet PROVE LostHoldsNothing'
  BY <1>0, <1>1 DEF LoseWorker, LostHoldsNothing, Answers
<1>2. ASSUME UNCHANGED workerVars, attached' = attached, pending' \subseteq pending, Quiet
      PROVE  LostHoldsNothing'
  BY <1>2 DEF workerVars, LostHoldsNothing, Answers
<1>3. ASSUME NEW id, NativeDrop(id), attached' = attached, pending' \subseteq pending, Quiet
      PROVE  LostHoldsNothing'
  BY <1>3 DEF NativeDrop, LostHoldsNothing, Answers
<1>4. ASSUME NEW ok, call' = Ended(ok) PROVE Quiet
  BY <1>4, EndedVictim
<1>5. CASE StoreStep
  <2>1. ASSUME NEW id \in known, ReclaimMemory(id) \/ ReclaimDisk(id) PROVE LostHoldsNothing'
    <3>1. call.pc = "expire" /\ call.op # "delete"
      BY <2>1, BusyFacts DEF ReclaimMemory, ReclaimDisk, Expiring
    <3>2. Quiet /\ attached' = attached /\ pending' = pending
      BY <1>0, <2>1, <3>1 DEF ReclaimMemory, ReclaimDisk, Forgets, storeVars, clientVars, Call
    <3> QED BY <1>2, <1>3, <2>1, <3>2 DEF ReclaimMemory, ReclaimDisk, DropIfResident
  <2>2. CASE Unlink
    <3>1. Quiet
      <4>1. CASE call' = Ended(TRUE)
        BY <1>4, <4>1
      <4>2. CASE call.op # "delete" /\ call' = [call EXCEPT !.pc = "expire", !.victim = None]
        BY <1>0, <4>2 DEF Call
      <4> QED BY <2>2, <4>1, <4>2 DEF Unlink
    <3> QED BY <1>2, <2>2, <3>1 DEF Unlink, Forgets, clientVars
  <2>3. CASE ExpireDone
    <3>1. Quiet
      <4>1. CASE call' = Ended(TRUE)
        BY <1>4, <4>1
      <4>2. CASE call' = [call EXCEPT !.pc = call.after, !.after = "idle"]
        BY <1>0, <4>2 DEF Call
      <4> QED BY <2>3, <4>1, <4>2 DEF ExpireDone
    <3> QED BY <1>2, <2>3, <3>1 DEF ExpireDone, storeVars, clientVars
  <2>4. CASE AdmitRow \/ RefuseRow \/ InsertRow \/ Publish \/ PublishFails \/ Retract
    <3>1. UNCHANGED workerVars /\ attached' = attached /\ pending' \subseteq pending
      BY <2>4 DEF AdmitRow, RefuseRow, InsertRow, Publish, PublishFails, Published, Retract, Raises,
         Forgets, Registered, storeVars, clientVars
    <3>2. Quiet
      <4>1. ASSUME NEW ok, call' = Ended(ok) PROVE Quiet
        BY <1>4, <4>1
      <4>2. CASE AdmitRow
        BY <1>0, <4>2 DEF AdmitRow, Call
      <4>3. CASE InsertRow \/ PublishFails
        <5>1. call.pc = "budget" \/ call.pc = "save"
          BY <4>3 DEF InsertRow, PublishFails, Published
        <5>2. call'.pc \in {"idle", "save", "retract"}
          BY <1>0, <4>3, EndedFields DEF InsertRow, PublishFails, Call
        <5> QED BY <5>2
      <4> QED BY <2>4, <4>1, <4>2, <4>3 DEF RefuseRow, Publish, Retract, Raises
    <3> QED BY <1>2, <3>1, <3>2
  <2>5. CASE SaveFails \/ TransportFails
    <3>1. Quiet /\ attached' = attached
      BY <1>4, <2>5 DEF SaveFails, TransportFails, Raises, Forgets
    <3> QED BY <1>1, <1>2, <2>5, <3>1 DEF SaveFails, TransportFails, workerVars
  <2>6. ASSUME NEW c \in known, EvictDisk(c) \/ EvictMemory(c) PROVE LostHoldsNothing'
    <3>1. call.pc = "budget" /\ attached' = attached /\ pending' = pending
      BY <2>6 DEF EvictDisk, EvictMemory, Over, Forgets, Raises, clientVars
    <3>2. Quiet
      BY <1>4, <2>6, <3>1 DEF EvictDisk, EvictMemory, Raises
    <3> QED BY <1>2, <1>3, <2>6, <3>1, <3>2 DEF EvictDisk, EvictMemory
  <2>7. CASE StoreFull \/ LoadRefused
    BY <1>2, <1>4, <2>7 DEF StoreFull, LoadRefused, Raises, clientVars
  <2>8. CASE Load
    <3>1. Quiet
      BY <1>4, <2>8 DEF Load
    <3> QED BY <2>8, <3>1 DEF Load, LostHoldsNothing, Answers, clientVars
  <2>9. CASE DropTarget
    <3>1. NativeDrop(call.target) /\ attached' = attached /\ pending' = pending
      BY <2>9 DEF DropTarget, Forgets, storeVars, clientVars
    <3>2. Quiet
      <4>1. CASE call' = Ended(TRUE)
        BY <1>4, <4>1
      <4>2. CASE call' = [call EXCEPT !.pc = "unlink", !.victim = call.target]
        BY <1>0, <4>2 DEF Call
      <4> QED BY <2>9, <4>1, <4>2 DEF DropTarget
    <3> QED BY <1>3, <3>1, <3>2
  <2> QED BY <1>5, <2>1, <2>2, <2>3, <2>4, <2>5, <2>6, <2>7, <2>8, <2>9 DEF StoreStep
<1>6. CASE Client
  <2>0. Idle => call.pc = "idle"
    BY <1>0 DEF Idle
  <2>1. CASE CallExpire \/ Release
             \/ \E id \in known : Get(id) \/ Lease(id) \/ CallRestore(id) \/ CallDelete(id)
    <3>1. call'.pc # "unlink"
      BY <1>0, <2>0, <2>1, EndedFields DEF CallExpire, Release, Get, Lease, CallRestore, CallDelete,
         Started, Ended, Returns
    <3> QED BY <1>2, <2>1, <3>1 DEF CallExpire, Release, Get, Lease, CallRestore, CallDelete,
            clientVars, storeVars
  <2>2. CASE \E p \in known : ConsultMemo(p) \/ \E c \in known : Memoize(p, c)
    BY <1>2, <1>4, <2>2 DEF ConsultMemo, Memoize, Returns, clientVars
  <2>3. CASE Publishing
    <3>1. Infers /\ \E hs, kind : Publishes(hs, kind)
      BY <2>3 DEF Publishing, Create, CreatePair, Promote, Branch
    <3>2. Quiet
      BY <1>4, <3>1 DEF Publishes, Returns
    <3> QED BY <3>1, <3>2 DEF Infers, Idle, Answers, Publishes, storeVars, LostHoldsNothing
  <2>4. CASE \E id : GiveUp(id)
    BY <1>3, <1>4, <2>4 DEF GiveUp, Returns, storeVars
  <2>5. CASE \E w \in pending, q \in Persistence, b \in Boundaries : Register(w, q, b)
    <3>1. call'.pc # "unlink"
      BY <2>5 DEF Register, CallRegister, Started, Ended
    <3> QED BY <1>2, <2>5, <3>1 DEF Register, CallRegister, storeVars, clientVars
  <2>6. CASE CommandLost
    BY <1>1, <1>4, <2>6 DEF CommandLost
  <2> QED BY <1>6, <2>1, <2>2, <2>3, <2>4, <2>5, <2>6 DEF Client, Publishing
<1>7. CASE WorkerDies
  BY <1>0, <1>7 DEF WorkerDies, LostHoldsNothing, Answers, storeVars, clientVars
<1>8. CASE Attach
  <2>1. Quiet
    BY <1>4, <1>8 DEF Attach, Returns
  <2> QED BY <1>0, <1>8, <2>1 DEF Attach, StartWorker, LoadIndex, LostHoldsNothing, Answers
<1>9. CASE Crash
  <2>1. Quiet
    BY <1>4, <1>9 DEF Crash
  <2> QED BY <1>1, <1>9, <2>1 DEF Crash
<1>10. CASE (\E id : Tick(id)) \/ UNCHANGED vars
  BY <1>2, <1>10 DEF Tick, vars, storeVars, workerVars, clientVars, LostHoldsNothing
<1> QED BY <1>5, <1>6, <1>7, <1>8, <1>9, <1>10 DEF Next

\* Every step of a call leaves it what it was, or ends it.
LEMMA StepOfCall ==
    ASSUME IInv, StoreStep
    PROVE  /\ call.op \in {"expire", "register", "restore", "delete"} /\ attached' = attached
           /\ outer' = outer
           /\ \/ call'.op = call.op /\ call'.target = call.target /\ call'.row = call.row
              \/ call'.op = "none"
<1>0. call \in Call
  BY DEF IInv, TypeOK
<1>1. call.pc # "idle"
  BY DEF StoreStep, ReclaimMemory, ReclaimDisk, Unlink, ExpireDone, AdmitRow, RefuseRow,
     InsertRow, Publish, PublishFails, Published, Retract, SaveFails, EvictDisk, EvictMemory, StoreFull,
     Over, Load, LoadRefused, LoadDue, DropTarget, TransportFails
<1> DEFINE Goes == \/ call'.op = call.op /\ call'.target = call.target /\ call'.row = call.row
                  \/ call'.op = "none"
<1> DEFINE Frame == attached' = attached /\ outer' = outer
<1>2. ASSUME NEW ok, call' = Ended(ok) PROVE Goes
  BY <1>2, EndedVictim
<1>3. ASSUME NEW pc, NEW v, call' = [call EXCEPT !.pc = pc, !.victim = v] \/ call' = [call EXCEPT !.pc = pc]
                               \/ call' = [call EXCEPT !.pc = pc, !.after = v]
      PROVE  Goes
  BY <1>0, <1>3 DEF Call
<1>4. ASSUME UNCHANGED call PROVE Goes
  BY <1>4
<1>5. ASSUME \E id \in known : ReclaimMemory(id) \/ ReclaimDisk(id)
      PROVE  Goes /\ Frame
  BY <1>3, <1>4, <1>5 DEF ReclaimMemory, ReclaimDisk, Forgets, storeVars, clientVars
<1>6. ASSUME Unlink \/ ExpireDone
      PROVE  Goes /\ Frame
  BY <1>2, <1>3, <1>6 DEF Unlink, ExpireDone, Forgets, storeVars, clientVars
<1>7. ASSUME AdmitRow
      PROVE  Goes /\ Frame
  BY <1>0, <1>7 DEF AdmitRow, clientVars, Call
<1>8. ASSUME InsertRow
      PROVE  Goes /\ Frame
  BY <1>2, <1>3, <1>8 DEF InsertRow, Registered, clientVars
<1>9. ASSUME RefuseRow \/ StoreFull \/ LoadRefused \/ TransportFails
      PROVE  Goes /\ Frame
  BY <1>2, <1>9 DEF RefuseRow, StoreFull, LoadRefused, TransportFails, Raises, clientVars
<1>10. ASSUME Publish \/ PublishFails \/ Retract \/ SaveFails
      PROVE  Goes /\ Frame
  BY <1>2, <1>3, <1>10 DEF Publish, PublishFails, Retract, SaveFails, Registered, Forgets, storeVars, clientVars
<1>11. ASSUME \E c \in known : EvictDisk(c) \/ EvictMemory(c)
      PROVE  Goes /\ Frame
  BY <1>2, <1>4, <1>11 DEF EvictDisk, EvictMemory, Forgets, Raises, clientVars
<1>12. ASSUME Load
      PROVE  Goes /\ Frame
  BY <1>2, <1>12 DEF Load, clientVars
<1>13. ASSUME DropTarget
      PROVE  Goes /\ Frame
  BY <1>2, <1>3, <1>13 DEF DropTarget, Forgets, storeVars, clientVars
<1>14. Goes /\ Frame
  BY <1>5, <1>6, <1>7, <1>8, <1>9, <1>10, <1>11, <1>12, <1>13 DEF StoreStep
<1> QED BY <1>1, <1>14, BusyFacts

\* What is registered, held or remembered next was so before, or was pending.
----------------------------------------------------------------------------
(* What a store call does to what its caller sees.                         *)

LEMMA StoreStepSets ==
    ASSUME IInv, WorkerInv, StoreStep, [Next]_vars, LostHoldsNothing'
    PROVE  /\ known' \subseteq known \cup (IF call.op = "register" THEN {call.row.id} ELSE {})
           /\ DOMAIN held' \subseteq DOMAIN held \cup (IF call.op = "restore" THEN {call.target} ELSE {})
           /\ DOMAIN disk' \subseteq DOMAIN disk \cup (IF call.op = "register" THEN {call.row.id} ELSE {})
           /\ pending' \subseteq pending /\ (ready' => ready)
           /\ Memos' \subseteq Memos \cup {None}
<1>0. /\ call.op \in {"expire", "register", "restore", "delete"} /\ attached' = attached /\ attached
      /\ call.pc # "idle" /\ ~Idle /\ call \in Call
  BY StepOfCall DEF Idle, IInv, TypeOK, CallInv, CallSteps, Expiring
<1>1. ~Attach /\ ~Crash /\ ~Infers
  BY <1>0 DEF Attach, Crash, Infers, Idle
<1>2. known' \subseteq known \cup (IF call.op = "register" THEN {call.row.id} ELSE {})
  BY <1>1, FieldsKept DEF Inserts
<1>3. DOMAIN held' \subseteq DOMAIN held \cup (IF call.op = "restore" THEN {call.target} ELSE {})
  <2>1. CASE Serving'
    <3>1. HeldKept \/ Load
      BY <1>1, <2>1, HeldStep
    <3>2. CASE HeldKept
      BY <3>2 DEF HeldKept
    <3>3. CASE Load
      BY <3>3 DEF Load, LoadDue, With
    <3> QED BY <3>1, <3>2, <3>3
  <2>2. CASE ~Serving'
    BY <1>0, <2>2 DEF Serving, LostHoldsNothing, Answers
  <2> QED BY <2>1, <2>2
<1>4. DOMAIN disk' \subseteq DOMAIN disk \cup (IF call.op = "register" THEN {call.row.id} ELSE {})
  <2>1. CASE disk' = disk
    BY <2>1
  <2>2. CASE Unlink \/ Retract
    BY <2>2 DEF Unlink, Retract, Without, Restrict
  <2>3. CASE Publish \/ PublishFails
    BY <1>0, <2>3, BusyFacts DEF Publish, PublishFails, Published, With
  <2> QED BY <1>1, <2>1, <2>2, <2>3, DiskStep DEF diskVars
<1>5. pending' \subseteq pending
  BY <1>0, <1>1, PendingStep
<1>6. ready' => ready
  BY DEF StoreStep, ReclaimMemory, ReclaimDisk, DropIfResident, NativeDrop, Unlink, ExpireDone, AdmitRow,
     RefuseRow, InsertRow, Publish, PublishFails, Published, Retract, SaveFails, EvictDisk, EvictMemory,
     StoreFull, Load, LoadRefused, DropTarget, TransportFails, LoseWorker, workerVars
<1>7. Memos' \subseteq Memos \cup {None}
  <2>1. CASE Unchanged
    BY <2>1 DEF Unchanged, Kept, Memos
  <2>2. ~Remembers
    BY <1>0 DEF Remembers
  <2>3. CASE Publish /\ Marks
    <3>1. known' = known /\ \A x \in known : records'[x].promotionChild = records[x].promotionChild
      BY <2>3 DEF Marks
    <3> QED BY <3>1 DEF Memos
  <2>4. CASE InsertRow /\ Inserts
    BY <2>4 DEF Inserts, Kept, Memos, NewRecord
  <2>5. CASE \E id \in known : Removes(id)
    BY <2>5 DEF Removes, Kept, Memos
  <2>6. ASSUME NEW id \in known, NEW bytes, NEW into, Moved(id, bytes, into)
        PROVE  Memos' \subseteq Memos
    <3>1. records[id] \in Record
      BY DEF IInv, TypeOK
    <3>2. records'[id].promotionChild = records[id].promotionChild
      BY <2>6, <3>1 DEF Moved, Kept, Record
    <3> QED BY <2>6, <3>2 DEF Moved, Kept, Memos
  <2>7. CASE \E c \in known : EvictDisk(c) /\ Moved(c, records[c].hostBytes, FALSE)
    BY <2>6, <2>7
  <2>8. CASE Load /\ Moved(call.target, LoadedBytes(records[call.target]), TRUE)
    <3>1. call.target \in known
      BY <2>8 DEF Load, LoadDue, IInv, CallInv, CallHolds
    <3> QED BY <2>6, <2>8, <3>1
  <2> QED BY <1>1, <2>1, <2>2, <2>3, <2>4, <2>5, <2>7, <2>8, StepEffect
<1> QED BY <1>2, <1>3, <1>4, <1>5, <1>6, <1>7

LEMMA FreshKept ==
    ASSUME IInv, WorkerInv, StoreStep, [Next]_vars, LostHoldsNothing'
    PROVE  Fresh \subseteq Fresh'
<1>1. call.op = "register" => call.row.id \in PendingIds
  BY DEF WorkerInv, PendingIsNew
<1>2. call.op = "restore" => call.target \in known
  BY DEF IInv, CallInv, CallHolds
<1>3. None \notin Ids
  BY IdsAssumption
<1> QED BY <1>1, <1>2, <1>3, StoreStepSets DEF Fresh, PendingIds

\* Nobody begins to refer to an unreferenced snapshot but by registration.
LEMMA ChildlessStays ==
    ASSUME IInv, IInv', StoreStep, [Next]_vars, call.op # "register",
           NEW id \in known, records[id].refcount = 0, id \in known'
    PROVE  records'[id].refcount = 0
<1>1. ~Attach /\ ~Crash
  BY StepOfCall DEF Attach, Crash, Idle, IInv, CallInv, CallSteps
<1>2. /\ \A x \in known \cap known' : Says(records[x], records'[x])
      /\ known' \subseteq known
  BY <1>1, FieldsKept DEF Inserts
<1>3. \A c \in known' : id \notin Refs(records'[c])
  BY <1>2, LooseIsChildless DEF Says, Refs
<1>4. {c \in known' : id \in Refs(records'[c])} = {}
  BY <1>3
<1>5. records'[id].refcount = Cardinality({c \in known' : id \in Refs(records'[c])})
  BY DEF IInv, RegistryInv, RefcountsExact
<1> QED BY <1>4, <1>5, FS_EmptySet

----------------------------------------------------------------------------
(* How the calls end that a handler waits for.                             *)

\* A restore that succeeded left its target resident.
LEMMA RestoreEnds ==
    ASSUME IInv, StoreStep, call.op = "restore", call'.op = "none", call'.ok
    PROVE  records'[call.target].resident
<1>0. call \in Call /\ call.pc \in {"expire", "budget", "unlink"} /\ call.target \in known /\ records \in [known -> Record]
  BY DEF IInv, TypeOK, CallInv, CallSteps, CallHolds, Expiring
<1>1. ASSUME call' = Ended(FALSE) PROVE FALSE
  BY <1>1 DEF Ended
<1>2. ~Raises
  BY <1>1 DEF Raises
<1>3. ASSUME UNCHANGED call \/ \E pc, v : call' = [call EXCEPT !.pc = pc, !.victim = v]
             \/ call' = [call EXCEPT !.pc = call.after, !.after = "idle"]
      PROVE  FALSE
  BY <1>0, <1>3 DEF Call
<1>4. ~(\E id \in known : ReclaimMemory(id) \/ ReclaimDisk(id)) /\ ~Unlink /\ ~ExpireDone
  BY <1>3 DEF ReclaimMemory, ReclaimDisk, Unlink, ExpireDone
<1>5. ~AdmitRow /\ ~RefuseRow /\ ~InsertRow /\ ~Publish /\ ~PublishFails /\ ~Retract /\ ~SaveFails /\ ~DropTarget
  BY <1>0 DEF AdmitRow, RefuseRow, InsertRow, Publish, PublishFails, Published, Retract, SaveFails, DropTarget
<1>6. ~(\E c \in known : EvictDisk(c) \/ EvictMemory(c)) /\ ~StoreFull /\ ~LoadRefused /\ ~TransportFails
  BY <1>2, <1>3 DEF EvictDisk, EvictMemory, StoreFull, LoadRefused, TransportFails
<1>7. Load
  BY <1>4, <1>5, <1>6 DEF StoreStep
<1> QED BY <1>0, <1>7 DEF Load

\* A registration that has ended left its row registered and no longer
\* pending, or unknown.
LEMMA RegisterEnds ==
    ASSUME IInv, IInv', StoreStep, [Next]_vars, call.op = "register",
           call.row.id \in known => Saving
    PROVE  /\ call.row.id \in known' =>
                 \/ Saving' /\ call'.row = call.row
                 \/ call'.op = "none" /\ call'.ok
           /\ call'.op = "none" /\ call'.ok => call.row.id \notin PendingIds'
<1>0. call \in Call /\ attached /\ ~Idle
  BY DEF IInv, TypeOK, CallInv, CallSteps, Idle
<1>1. ~Attach /\ ~Crash
  BY <1>0, StepOfCall DEF Attach, Crash
<1>2. ASSUME call'.op = "none", call'.ok
      PROVE  (InsertRow \/ Publish) /\ call.row.id \notin PendingIds'
  <2>1. ASSUME call' = Ended(FALSE) PROVE FALSE
    BY <1>2, <2>1 DEF Ended
  <2>2. ASSUME UNCHANGED call \/ \E pc, v : call' = [call EXCEPT !.pc = pc, !.victim = v]
               \/ call' = [call EXCEPT !.pc = call.after, !.after = "idle"]
        PROVE  FALSE
    BY <1>0, <1>2, <2>2 DEF Call
  <2>3. ASSUME NEW p, call' = [call EXCEPT !.pc = "expire", !.after = "budget", !.pinned = p]
        PROVE  FALSE
    BY <1>0, <1>2, <2>3 DEF Call
  <2>4. ~(\E id \in known : ReclaimMemory(id) \/ ReclaimDisk(id)) /\ ~Unlink /\ ~ExpireDone
    BY <2>2 DEF ReclaimMemory, ReclaimDisk, Unlink, ExpireDone
  <2>5. ~AdmitRow
    BY <2>3 DEF AdmitRow
  <2>6. ~Raises
    BY <2>1 DEF Raises
  <2>7. ~RefuseRow /\ ~Retract /\ ~SaveFails /\ ~StoreFull /\ ~LoadRefused /\ ~TransportFails
    BY <2>1, <2>6 DEF RefuseRow, Retract, SaveFails, StoreFull, LoadRefused, TransportFails
  <2>8. ~PublishFails
    <3>1. SUFFICES ASSUME call' = [call EXCEPT !.pc = "retract"] PROVE FALSE
      BY DEF PublishFails
    <3> QED BY <1>0, <1>2, <3>1 DEF Call
  <2>9. ~(\E c \in known : EvictDisk(c) \/ EvictMemory(c)) /\ ~Load
    BY <1>0, <2>2, <2>6 DEF EvictDisk, EvictMemory, Load, LoadDue
  <2>10. ~DropTarget
    BY <1>0, BusyFacts DEF DropTarget
  <2>11. InsertRow \/ Publish
    BY <2>4, <2>5, <2>7, <2>8, <2>9, <2>10 DEF StoreStep
  <2>12. pending' = {w \in pending : w.id # call.row.id}
    <3>1. ASSUME call' = [call EXCEPT !.pc = "save"] PROVE FALSE
      BY <1>0, <1>2, <3>1 DEF Call
    <3> QED BY <2>11, <3>1 DEF InsertRow, Publish, Registered
  <2> QED BY <2>11, <2>12 DEF PendingIds
<1>3. CASE Saving
  <2>1. Publish => call'.op = "none" /\ call'.ok
    BY DEF Publish, Ended
  <2>2. Removes(call.row.id) => call.row.id \notin known'
    BY DEF Removes
  <2>3. call.row.id \in known' => (Saving' /\ call'.row = call.row) \/ (call'.op = "none" /\ call'.ok)
    BY <1>1, <1>3, <2>1, <2>2, SavingStep
  <2> QED BY <1>2, <2>3
<1>4. CASE ~Saving
  <2>1. call.row.id \in known' => InsertRow
    BY <1>1, <1>4, FieldsKept
  <2>2. call' = Ended(TRUE) => call'.op = "none" /\ call'.ok
    BY DEF Ended
  <2>3. call' = [call EXCEPT !.pc = "save"] => Saving' /\ call'.row = call.row
    BY <1>0 DEF Call, Saving
  <2>4. InsertRow => call' = Ended(TRUE) \/ call' = [call EXCEPT !.pc = "save"]
    BY DEF InsertRow
  <2> QED BY <1>2, <2>1, <2>2, <2>3, <2>4
<1> QED BY <1>3, <1>4

\* A delete that has ended left its target neither held nor registered, or the
\* worker lost.
LEMMA DeleteEnds ==
    ASSUME IInv, WorkerInv, LostHoldsNothing, LostHoldsNothing', StoreStep, call.op = "delete", call'.op = "none", ready'
    PROVE  call.target \notin known' /\ call.target \notin DOMAIN held'
<1>0. call \in Call /\ call.pc \in {"drop", "unlink"} /\ attached
  BY DEF IInv, TypeOK, CallInv, CallSteps
<1>1. ~LoseWorker
  BY DEF LoseWorker
<1>2. CASE call.pc = "unlink"
  <2>1. Unlink
    BY <1>2 DEF StoreStep, ReclaimMemory, ReclaimDisk, ExpireDone, AdmitRow, RefuseRow,
       InsertRow, Publish, PublishFails, Published, Retract, SaveFails, EvictDisk, EvictMemory, StoreFull,
       Over, Load, LoadRefused, LoadDue, DropTarget, TransportFails
  <2>2. call.victim = call.target
    BY <1>2 DEF LostHoldsNothing
  <2>3. call.victim \notin known'
    BY <2>1 DEF Unlink, Forgets, Forget, Unpin, known
  <2>4. call.victim \notin DOMAIN held
    <3>1. CASE Serving
      BY <3>1 DEF WorkerInv, HeldIsKnown
    <3>2. CASE ~Serving
      BY <1>0, <3>2 DEF Serving, LostHoldsNothing, Answers
    <3> QED BY <3>1, <3>2
  <2> QED BY <2>1, <2>2, <2>3, <2>4 DEF Unlink, workerVars
<1>3. CASE call.pc = "drop"
  <2>1. DropTarget
    BY <1>1, <1>3 DEF StoreStep, ReclaimMemory, ReclaimDisk, Unlink, ExpireDone, AdmitRow, RefuseRow,
       InsertRow, Publish, PublishFails, Published, Retract, SaveFails, EvictDisk, EvictMemory, StoreFull,
       Over, Load, LoadRefused, LoadDue, TransportFails
  <2>2. call' # [call EXCEPT !.pc = "unlink", !.victim = call.target]
    BY <1>0 DEF Call
  <2>3. Forgets(call.target, {}) /\ NativeDrop(call.target)
    BY <2>1, <2>2 DEF DropTarget
  <2> QED BY <2>3 DEF Forgets, Forget, Unpin, known, NativeDrop, Without, Restrict
<1> QED BY <1>0, <1>2, <1>3

----------------------------------------------------------------------------
(* The steps of the store, the worker and the clock.                       *)

LEMMA StoreStepService ==
    ASSUME AllInv, IInv', StoreStep, Forgotten, [Next]_vars, UNCHANGED svcVars
    PROVE  ServiceInv'
<1>0. /\ IInv /\ WorkerInv /\ ServiceTyped /\ Steering /\ Waiting /\ LostHoldsNothing /\ NothingOpen
      /\ UnderLease /\ BranchesFrom30 /\ InOrder /\ AtRow /\ Unwinding
  BY DEF AllInv, StoreInv, ServiceInv
<1>1. /\ task' = task /\ busy' = busy /\ backoff' = backoff /\ scheduled' = scheduled /\ replied' = replied
  BY DEF svcVars
<1>2. /\ call.op \in {"expire", "register", "restore", "delete"} /\ attached' = attached /\ outer' = outer
      /\ \/ call'.op = call.op /\ call'.target = call.target /\ call'.row = call.row
         \/ call'.op = "none"
  BY <1>0, StepOfCall
<1>3. LostHoldsNothing'
  BY <1>0, LostStep
<1>4. /\ known' \subseteq known \cup (IF call.op = "register" THEN {call.row.id} ELSE {})
      /\ DOMAIN held' \subseteq DOMAIN held \cup (IF call.op = "restore" THEN {call.target} ELSE {})
      /\ pending' \subseteq pending /\ (ready' => ready)
  BY <1>0, <1>3, StoreStepSets
<1>5. /\ \A x \in known \cap known' : Says(records[x], records'[x])
      /\ \A x \in known' \ known : x = call.row.id /\ Says(call.row, records'[x])
  <2>1. ~Attach /\ ~Crash
    BY <1>0, <1>2 DEF Attach, Crash, Idle, IInv, CallInv, CallSteps
  <2> QED BY <1>0, <2>1, FieldsKept
<1>6. /\ task.step \in {"expiring", "registering", "restoring", "deleting", "undoing"}
      /\ call.op = "register" <=> task.step = "registering"
      /\ call.op = "restore" <=> task.step = "restoring"
      /\ task.step = "undoing" => call.op = "delete" /\ call.target = task.rows[task.pos]
  BY <1>0, <1>2 DEF Waiting
<1>7. expired \cap known' \subseteq expired'
  BY DEF Forgotten, known
<1>8. ServiceTyped' /\ Steering' /\ Waiting' /\ NothingOpen'
  <2>1. ServiceTyped'
    BY <1>0, <1>1 DEF ServiceTyped
  <2>2. Steering'
    BY <1>0, <1>1, <1>2 DEF Steering, Serves
  <2>3. Waiting'
    BY <1>0, <1>1, <1>2 DEF Waiting
  <2>4. NothingOpen'
    BY <1>0, <1>1, <1>2, <1>4 DEF NothingOpen
  <2> QED BY <2>1, <2>2, <2>3, <2>4
<1>9. UnderLease' /\ BranchesFrom30'
  <2>1. CASE task.step = "restoring"
    <3>1. call.op = "restore" /\ call.target = task.subject
      BY <1>0, <1>2, <1>6, <2>1 DEF Waiting
    <3>2. Fresh \subseteq Fresh'
      BY <1>0, <1>3, FreshKept
    <3>3. call'.op = "none" /\ call'.ok => records'[task.subject].resident
      BY <1>0, <3>1, RestoreEnds
    <3>4. UnderLease'
      BY <1>0, <1>1, <1>2, <1>4, <2>1, <3>2, <3>3 DEF UnderLease
    <3>5. BranchesFrom30'
      BY <1>0, <1>1, <1>4, <1>5, <2>1, <3>1 DEF BranchesFrom30, Says
    <3> QED BY <3>4, <3>5
  <2>2. CASE task.step # "restoring"
    BY <1>1, <1>6, <2>2 DEF UnderLease, BranchesFrom30
  <2> QED BY <2>1, <2>2
<1>10. InOrder' /\ AtRow'
  <2>1. CASE task.step = "registering"
    <3>1. call.op = "register" /\ call.row.id = task.rows[task.pos + 1]
      BY <1>0, <1>6, <2>1 DEF AtRow
    <3>2. /\ call.row.id \in known => Saving
          /\ Refs(call.row) \cap Range(task.rows) # {} => call.row.id = LastId
      BY <1>0, <2>1, <3>1 DEF AtRow
    <3>3. /\ call.row.id \in known' =>
                \/ Saving' /\ call'.row = call.row
                \/ call'.op = "none" /\ call'.ok
          /\ call'.op = "none" /\ call'.ok => call.row.id \notin PendingIds'
      BY <1>0, <3>1, <3>2, RegisterEnds
    <3>4. LastId' = LastId
      BY <1>1 DEF LastId
    <3>5. AtRow'
      BY <1>1, <1>2, <3>1, <3>2, <3>3, <3>4 DEF AtRow
    <3>6. OnlyLastRefers'
      <4>1. \A x \in known \cap known' : Refs(records'[x]) = Refs(records[x])
        BY <1>5 DEF Says, Refs
      <4>2. \A x \in known' \ known : x = call.row.id /\ Refs(records'[x]) = Refs(call.row)
        BY <1>5 DEF Says, Refs
      <4>3. OnlyLastRefers
        BY <1>0, <2>1 DEF InOrder
      <4> QED BY <1>1, <3>2, <3>4, <4>1, <4>2, <4>3 DEF OnlyLastRefers
    <3>7. \A w \in pending' : RowWaits(w)'
      <4>1. \A w \in pending : RowWaits(w)
        BY <1>0, <2>1 DEF InOrder
      <4> QED BY <1>1, <1>2, <1>4, <3>4, <4>1 DEF RowWaits
    <3>8. \A i \in DOMAIN task.rows : i > task.pos + 1 => task.rows[i] \notin known'
      <4>1. /\ IsInjective(task.rows) /\ task.pos < Len(task.rows)
            /\ \A i \in DOMAIN task.rows : i > task.pos + 1 => task.rows[i] \notin known
        BY <1>0, <2>1 DEF InOrder
      <4>2. DOMAIN task.rows = 1..Len(task.rows) /\ task.pos \in Nat /\ Len(task.rows) \in Nat
        BY <1>0, TaskFacts
      <4>3. task.pos + 1 \in DOMAIN task.rows
        BY <4>1, <4>2
      <4>4. ASSUME NEW i \in DOMAIN task.rows, i > task.pos + 1 PROVE task.rows[i] # call.row.id
        BY <3>1, <4>1, <4>2, <4>3, <4>4 DEF IsInjective
      <4> QED BY <1>4, <4>1, <4>4
    <3>9. InOrder'
      BY <1>0, <1>1, <1>2, <2>1, <3>6, <3>7, <3>8 DEF InOrder
    <3> QED BY <3>5, <3>9
  <2>2. CASE task.step # "registering"
    BY <1>1, <1>6, <2>2 DEF InOrder, AtRow
  <2> QED BY <2>1, <2>2
<1>11. Unwinding'
  <2>1. CASE task.step = "undoing"
    <3>1. call.op = "delete" /\ call.target = task.rows[task.pos] /\ task.failed
      BY <1>0, <1>6, <2>1 DEF Steering
    <3>2. known' \subseteq known /\ DOMAIN held' \subseteq DOMAIN held
      BY <1>4, <3>1
    <3> DEFINE GoneNext(id) == id \notin DOMAIN held' /\ (id \in known' => id \in expired')
    <3>3. \A id : Gone(id) => GoneNext(id)
      BY <1>7, <3>2 DEF Gone
    <3>4. \A id \in Range(task.rows) \cap known' : records'[id].refcount = 0
      <4> TAKE id \in Range(task.rows) \cap known'
      <4>1. id \in known /\ records[id].refcount = 0
        BY <1>0, <3>1, <3>2 DEF Unwinding
      <4> QED BY <1>0, <3>1, <4>1, ChildlessStays
    <3>5. call'.op = "none" /\ ready' => GoneNext(task.rows[task.pos])
      BY <1>0, <1>3, <3>1, DeleteEnds
    <3>6. /\ ready' => \A i \in DOMAIN task.rows : i > task.pos => GoneNext(task.rows[i])
          /\ \A w \in pending' : \E i \in DOMAIN task.rows :
                i <= task.pos /\ w.id = task.rows[i] /\ (task.step = "undoing" => i # task.pos)
          /\ task.pos > 0
          /\ outer' # {} => Range(task.rows) \cap known' = {}
      BY <1>0, <1>2, <1>4, <2>1, <3>1, <3>2, <3>3 DEF Unwinding
    <3> QED BY <1>1, <2>1, <3>1, <3>4, <3>5, <3>6 DEF Unwinding, Gone
  <2>2. CASE task.step # "undoing"
    <3>1. ~task.failed
      BY <1>0, <1>6, <2>2 DEF Steering
    <3> QED BY <1>1, <1>6, <2>2, <3>1 DEF Unwinding
  <2> QED BY <2>1, <2>2
<1> QED BY <1>3, <1>8, <1>9, <1>10, <1>11 DEF ServiceInv

\* A death of the worker, and a TTL that passes, change nothing a handler
\* relies on.
LEMMA QuietService ==
    ASSUME AllInv, IInv', LostHoldsNothing', UNCHANGED <<records, disk, outer, attached, ready, call, pending>>,
           DOMAIN held' \subseteq DOMAIN held, expired \cap known \subseteq expired', UNCHANGED svcVars
    PROVE  ServiceInv'
<1>0. /\ IInv /\ WorkerInv /\ ServiceTyped /\ Steering /\ Waiting /\ LostHoldsNothing /\ NothingOpen
      /\ UnderLease /\ BranchesFrom30 /\ InOrder /\ AtRow /\ Unwinding
  BY DEF AllInv, StoreInv, ServiceInv
<1>1. /\ task' = task /\ busy' = busy /\ backoff' = backoff /\ scheduled' = scheduled /\ replied' = replied
      /\ known' = known
  BY DEF svcVars, known
<1>2. ServiceTyped' /\ Steering' /\ Waiting' /\ NothingOpen' /\ BranchesFrom30' /\ AtRow'
  BY <1>0, <1>1 DEF ServiceTyped, Steering, Serves, Waiting, NothingOpen, BranchesFrom30, AtRow, Saving, PendingIds,
     LastId
<1>3. UnderLease'
  <2>1. Fresh \subseteq Fresh'
    BY <1>1 DEF Fresh, Memos
  <2> QED BY <1>0, <1>1, <2>1 DEF UnderLease
<1>4. InOrder'
  BY <1>0, <1>1 DEF InOrder, OnlyLastRefers, RowWaits, LastId
<1>5. Unwinding'
  <2>1. \A id : Gone(id) => Gone(id)'
    BY <1>1 DEF Gone
  <2> QED BY <1>0, <1>1, <2>1 DEF Unwinding
<1> QED BY <1>2, <1>3, <1>4, <1>5 DEF ServiceInv

LEMMA HandlerFacts ==
    ASSUME AllInv, Idle
    PROVE  /\ IInv /\ WorkerInv /\ PromiseInv /\ ServiceTyped /\ Steering /\ Waiting /\ LostHoldsNothing
           /\ NothingOpen /\ UnderLease /\ BranchesFrom30 /\ InOrder /\ AtRow /\ Unwinding
           /\ attached /\ call.op = "none" /\ call.pc = "idle" /\ call.pinned = {} /\ call.victim = None
           /\ PendingIds \cap known = {} /\ ~Saving
<1>1. IInv /\ WorkerInv /\ PromiseInv /\ ServiceInv /\ attached /\ call.op = "none"
  BY DEF AllInv, StoreInv, Idle
<1>2. call.pc = "idle" /\ call.pinned = {} /\ call.victim = None /\ PendingIds \cap known = {}
  BY <1>1 DEF IInv, CallInv, CallSteps, CallPins, Admitted, Expiring, WorkerInv, PendingIsNew
<1> QED BY <1>1, <1>2 DEF ServiceInv, Saving

\* The store as a handler's step leaves it when it asks nothing of it, or
\* only looks a snapshot up.
Rests ==
    /\ UNCHANGED <<attached, records, ready, live, held, disk, partial, outer, pending>>
    /\ call'.op = "none"

LEMMA RestsIf ==
    ASSUME Idle, UNCHANGED storeState \/ \E id : Get(id)
    PROVE  Rests /\ known' = known /\ Fresh' = Fresh /\ PendingIds' = PendingIds
<1>1. CASE UNCHANGED storeState
  BY <1>1 DEF Rests, Idle, storeState, storeVars, workerVars, diskVars, clientVars, known, Fresh, Memos, PendingIds
<1>2. CASE \E id : Get(id)
  BY <1>2, EndedVictim DEF Rests, Get, Returns, workerVars, diskVars, clientVars, known, Fresh, Memos, PendingIds
<1> QED BY <1>1, <1>2

----------------------------------------------------------------------------
(* How a handler's step establishes the invariant.                         *)

HandlerInv == NothingOpen /\ UnderLease /\ BranchesFrom30 /\ InOrder /\ AtRow /\ Unwinding

\* It has nothing open.
LEMMA AtEase ==
    ASSUME task'.step \in Unleased, ~task'.failed, outer' = {}, pending' = {},
           task'.step \notin {"memo", "finish"} => task'.rows = <<>> /\ task'.pos = 0,
           task'.step # "lease" \/ task'.phase # "branch"
             \/ (task'.subject \in known' => records'[task'.subject].depth = 30)
    PROVE  HandlerInv'
<1>1. task'.step \notin {"restore", "restoring", "infer", "register", "registering", "undo", "undoing", "release"}
  BY DEF Unleased
<1>2. NothingOpen' /\ UnderLease' /\ BranchesFrom30'
  BY <1>1 DEF NothingOpen, UnderLease, BranchesFrom30
<1>3. InOrder' /\ AtRow' /\ Unwinding'
  BY <1>1 DEF InOrder, AtRow, Unwinding
<1> QED BY <1>2, <1>3 DEF HandlerInv

LEMMA RaisedTask ==
    ASSUME ServiceTyped, NEW ids \in Seq(Ids)
    PROVE  /\ Raised(ids) \in Task
           /\ Raised(ids).req = task.req /\ Raised(ids).phase = task.phase
           /\ Raised(ids).subject = task.subject /\ Raised(ids).rows = ids
           /\ Raised(ids).pos = Len(ids) /\ Raised(ids).failed = TRUE
           /\ Raised(ids).step = IF outer # {} /\ task.phase \in {"branch", "vectors"} THEN "release" ELSE "undo"
<1> DEFINE next == IF outer # {} /\ task.phase \in {"branch", "vectors"} THEN "release" ELSE "undo"
<1>1. next \in Steps
  BY DEF Steps
<1>2. task \in Task /\ Len(ids) \in Nat
  BY DEF ServiceTyped
<1> HIDE DEF next
<1>3. Raised(ids) = [task EXCEPT !.failed = TRUE, !.rows = ids, !.pos = Len(ids), !.step = next]
  BY DEF Raised, next
<1> QED BY <1>1, <1>2, <1>3 DEF Task, next

\* It raises: what it allotted is not yet referred to, what is pending is of
\* it, and what is undone under a lease was never registered.
LEMMA RaisesService ==
    ASSUME ServiceTyped, Steering, LostHoldsNothing', task.step # "free", attached', call'.op = "none",
           outer' = outer, NEW ids \in Seq(Ids), task' = Raised(ids), busy' = busy,
           backoff' \in BOOLEAN, scheduled' \in BOOLEAN, replied' \subseteq Ids,
           \A x \in Range(ids) \cap known' : records'[x].refcount = 0,
           \A w \in pending' : w.id \in Range(ids),
           outer # {} /\ task.phase \notin {"branch", "vectors"} => Range(ids) \cap known' = {}
    PROVE  ServiceInv'
<1>1. /\ task' \in Task
      /\ task'.req = task.req /\ task'.phase = task.phase /\ task'.rows = ids
      /\ task'.pos = Len(ids) /\ task'.failed = TRUE /\ busy' = busy
      /\ task'.step = IF outer # {} /\ task.phase \in {"branch", "vectors"} THEN "release" ELSE "undo"
  BY RaisedTask
<1>2. /\ Len(ids) \in Nat /\ DOMAIN ids = 1..Len(ids)
      /\ \A x \in Range(ids) : \E i \in 1..Len(ids) : x = ids[i]
  BY RowsAreIds
<1>3. ServiceTyped'
  BY <1>1, <1>2 DEF ServiceTyped
<1>4. Steering' /\ Waiting'
  BY <1>1 DEF Steering, Serves, Waiting
<1>5. NothingOpen' /\ UnderLease' /\ BranchesFrom30' /\ InOrder' /\ AtRow'
  BY <1>1 DEF NothingOpen, Unleased, UnderLease, BranchesFrom30, InOrder, AtRow
<1>6. Unwinding'
  <2>1. \A w \in pending' : \E i \in DOMAIN ids : i <= Len(ids) /\ w.id = ids[i]
    BY <1>2
  <2>2. \A i \in DOMAIN ids : ~(i > Len(ids))
    BY <1>2
  <2>3. task'.step \in {"release", "undo"}
    BY <1>1
  <2>4. task'.step = "undo" /\ outer' # {} => Range(ids) \cap known' = {}
    BY <1>1
  <2> QED BY <1>1, <2>1, <2>2, <2>3, <2>4 DEF Unwinding
<1> QED BY <1>3, <1>4, <1>5, <1>6 DEF ServiceInv

\* A failure that leaves the store at rest, before anything was allotted.
LEMMA FailsAtEase ==
    ASSUME AllInv, LostHoldsNothing', Idle, Rests, Fails,
           task.step \in Unleased \ {"free", "memo", "finish"}
    PROVE  ServiceInv'
<1>1. task.rows = <<>> /\ outer = {} /\ pending = {} /\ ServiceTyped /\ Steering /\ attached
  BY HandlerFacts DEF NothingOpen
<1>2. /\ task' = Raised(<<>>) /\ busy' = busy /\ backoff' \in BOOLEAN /\ scheduled' \in BOOLEAN
      /\ replied' \subseteq Ids /\ outer' = {} /\ pending' = {} /\ attached' /\ call'.op = "none"
  BY <1>1 DEF Fails, Becomes, Rests, ServiceTyped
<1>3. task.step # "free"
  OBVIOUS
<1> QED BY <1>1, <1>2, <1>3, EmptyRows, RaisesService

\* The kinds of request are what they are.
LEMMA RequestKinds ==
    ASSUME NEW r \in Requests
    PROVE  /\ r.kind \in {"create", "decide", "vectors", "delete", "metadata"}
           /\ r # NoRequest /\ r # Recovery
           /\ r.kind = "create" => /\ r.depths \in (SUBSET Depth) \ {{}} /\ r.persistence \in Persistence
                                   /\ r.boundary \in Boundaries
           /\ r.kind = "decide" => r.ref \in Ids /\ r.saves \in Nat
           /\ r.kind \in {"vectors", "delete", "metadata"} => r.ref \in Ids
<1>1. CASE r \in CreateRequests
  BY <1>1 DEF CreateRequests, NoRequest, Recovery
<1>2. CASE r \in Branching(0..32) \cup Branching(0..1) \cup Branching({0})
  BY <1>2 DEF Branching, NoRequest, Recovery
<1>3. CASE r \in ReadRequests
  BY <1>3 DEF ReadRequests, NoRequest, Recovery
<1> QED
  BY <1>1, <1>2, <1>3, ServiceAssumption
  DEF Routed, DecisionRequests, StateEvaluationRequests, RiderRequests

LEMMA HandlerTask ==
    ASSUME NEW r \in Requests \cup {NoRequest, Recovery}, NEW s \in Steps
    PROVE  /\ Handler(r, s) \in Task
           /\ Handler(r, s).req = r /\ Handler(r, s).step = s /\ Handler(r, s).phase = "none"
           /\ Handler(r, s).rows = <<>> /\ Handler(r, s).pos = 0 /\ ~Handler(r, s).failed
           /\ Len(Handler(r, s).rows) = 0
BY EmptyRows DEF Handler, Task, Ref

\* A handler that has nothing open begins, or ends.
LEMMA BeginsService ==
    ASSUME LostHoldsNothing', NEW r \in Requests \cup {NoRequest, Recovery},
           NEW s \in {"free", "recover", "expire", "finish"}, task' = Handler(r, s),
           busy' \in BOOLEAN, backoff' \in BOOLEAN, scheduled' \in BOOLEAN, replied' \subseteq Ids,
           busy' <=> s # "free", s # "free" => attached' /\ r # NoRequest,
           outer' = {}, pending' = {}, call'.op = "none"
    PROVE  ServiceInv'
<1>0. s \in Steps
  BY DEF Steps
<1>1. /\ task' \in Task /\ task'.req = r /\ task'.step = s /\ task'.phase = "none" /\ task'.rows = <<>>
      /\ task'.pos = 0 /\ ~task'.failed /\ Len(task'.rows) = 0
  BY <1>0, HandlerTask
<1>2. ServiceTyped' /\ Steering' /\ Waiting'
  BY <1>1 DEF ServiceTyped, Steering, Waiting
<1>3. HandlerInv'
  BY <1>1, AtEase DEF Unleased
<1> QED BY <1>2, <1>3 DEF HandlerInv, ServiceInv

LEMMA FreeService ==
    ASSUME AllInv, LostHoldsNothing', UNCHANGED storeState, expired' = expired,
           \/ \E r \in Requests : Arrive(r)
           \/ RunRecovery
           \/ ScheduleRecovery \/ BackoffEnds
    PROVE  ServiceInv'
<1>0. ServiceTyped /\ Steering /\ Waiting /\ NothingOpen /\ IInv /\ ServiceInv
  BY DEF AllInv, StoreInv, ServiceInv
<1>1. UNCHANGED <<attached, records, ready, live, held, disk, partial, outer, pending, call, older, residentBytes>>
  BY DEF storeState, storeVars, workerVars, diskVars, clientVars
<1>2. ASSUME ~busy, attached
      PROVE  task.step = "free" /\ outer' = {} /\ pending' = {} /\ call'.op = "none"
  <2>1. task.step = "free" /\ outer = {} /\ pending = {}
    BY <1>0, <1>2 DEF Steering, NothingOpen, Unleased
  <2>2. call.op \in {"none", "expire", "register", "restore", "delete"}
    BY <1>0 DEF IInv, TypeOK, Call
  <2>3. call.op = "none"
    BY <1>0, <2>1, <2>2 DEF Waiting
  <2> QED BY <1>1, <2>1, <2>3
<1>3. CASE \E r \in Requests : Arrive(r)
  <2>1. PICK r \in Requests : Arrive(r)
    BY <1>3
  <2>2. /\ task' = Handler(r, IF ready THEN "expire" ELSE "recover") /\ ~busy /\ attached /\ attached'
        /\ busy' = TRUE /\ replied' = {} /\ UNCHANGED <<backoff, scheduled>>
    BY <1>1, <2>1 DEF Arrive, Idle
  <2>3. backoff' \in BOOLEAN /\ scheduled' \in BOOLEAN
    BY <1>0, <2>2 DEF ServiceTyped
  <2>4. r # NoRequest
    BY RequestKinds
  <2>5. (IF ready THEN "expire" ELSE "recover") \in {"free", "recover", "expire", "finish"} \ {"free"}
    OBVIOUS
  <2> QED BY <1>2, <2>2, <2>3, <2>4, <2>5, BeginsService
<1>4. ASSUME ~busy, attached, busy' = TRUE, NEW s \in {"recover", "finish"}, task' = Handler(Recovery, s),
             backoff' = backoff, scheduled' \in BOOLEAN, replied' = replied
      PROVE  ServiceInv'
  <2>1. backoff' \in BOOLEAN /\ replied' \subseteq Ids /\ attached'
    BY <1>0, <1>1, <1>4 DEF ServiceTyped
  <2>2. Recovery # NoRequest /\ s # "free"
    BY DEF Recovery, NoRequest
  <2> QED BY <1>2, <1>4, <2>1, <2>2, BeginsService
<1>5. ASSUME task' = task, busy' = busy, replied' = replied, backoff' \in BOOLEAN, scheduled' \in BOOLEAN
      PROVE  ServiceInv'
  <2>1. ServiceTyped' /\ Steering' /\ Waiting'
    BY <1>0, <1>1, <1>5 DEF ServiceTyped, Steering, Serves, Waiting
  <2>2. Fresh' = Fresh /\ known' = known /\ PendingIds' = PendingIds /\ LastId' = LastId
    BY <1>1, <1>5 DEF Fresh, Memos, known, PendingIds, LastId
  <2>3. NothingOpen' /\ UnderLease' /\ BranchesFrom30'
    BY <1>0, <1>1, <1>5, <2>2 DEF ServiceInv, NothingOpen, UnderLease, BranchesFrom30
  <2>4. InOrder' /\ AtRow'
    BY <1>0, <1>1, <1>5, <2>2 DEF ServiceInv, InOrder, AtRow, OnlyLastRefers, RowWaits, Saving
  <2>5. Unwinding'
    <3>1. \A id : Gone(id)' <=> Gone(id)
      BY <1>1, <2>2 DEF Gone
    <3> QED BY <1>0, <1>1, <1>5, <2>2, <3>1 DEF ServiceInv, Unwinding
  <2> QED BY <2>1, <2>3, <2>4, <2>5 DEF ServiceInv
<1>6. CASE RunRecovery
  <2>1. attached /\ scheduled' = FALSE /\ UNCHANGED <<backoff, replied>>
    BY <1>6 DEF RunRecovery
  <2>2. CASE busy
    <3>1. UNCHANGED <<busy, task>>
      BY <1>6, <2>2 DEF RunRecovery
    <3> QED BY <1>0, <1>5, <2>1, <3>1 DEF ServiceTyped
  <2>3. CASE ~busy
    <3>1. busy' = TRUE /\ task' = Handler(Recovery, IF ready THEN "finish" ELSE "recover")
      BY <1>6, <2>3 DEF RunRecovery
    <3> QED BY <1>4, <2>1, <2>3, <3>1
  <2> QED BY <2>2, <2>3
<1>7. CASE ScheduleRecovery \/ BackoffEnds
  BY <1>0, <1>5, <1>7 DEF ScheduleRecovery, BackoffEnds, ServiceTyped
<1> QED BY <1>3, <1>6, <1>7

\* Whom a handler must serve to be at a step.
MayGo(s, ph) ==
    /\ s = "create" => Serves("create")
    /\ s \in {"decide", "anchor", "ensure", "memo"} \/ ph \in {"promotion", "branch"} => Serves("decide")
    /\ s = "vectors" => Serves("vectors")
    /\ s = "metadata" => Serves("metadata")
    /\ s \in {"delete", "deleting"} => Serves("delete")
    /\ s = "lease" => ph # "none"

LEMMA MovesAtEase ==
    ASSUME AllInv, Idle, LostHoldsNothing', attached', UNCHANGED <<outer, pending>>, Waiting',
           task.step \in Unleased \ {"free", "memo", "finish"},
           NEW s \in Unleased \ {"free"}, NEW sub \in Ref,
           NEW ph \in {"none", "promotion", "branch", "vectors"}, MayGo(s, ph),
           Becomes([task EXCEPT !.step = s, !.subject = sub, !.phase = ph]),
           s # "lease" \/ ph # "branch" \/ (sub \in known' => records'[sub].depth = 30)
    PROVE  ServiceInv'
<1>1. /\ task.rows = <<>> /\ task.pos = 0 /\ outer = {} /\ pending = {} /\ ServiceTyped /\ Steering /\ task \in Task
      /\ task.step # "free" /\ ~task.failed
  BY HandlerFacts DEF NothingOpen, ServiceTyped, Steering, Unleased, Task
<1>2. s \in Steps
  BY DEF Unleased, Steps
<1>3. /\ task' \in Task /\ task'.req = task.req /\ task'.step = s /\ task'.phase = ph
      /\ task'.subject = sub /\ task'.rows = <<>> /\ task'.pos = 0 /\ task'.failed = FALSE
  BY <1>1, <1>2 DEF Becomes, Task
<1>4. ServiceTyped'
  BY <1>1, <1>3, EmptyRows DEF ServiceTyped, Becomes
<1>5. Steering'
  <2>1. s \notin {"restore", "restoring", "infer", "register", "registering", "undo", "undoing"}
    BY DEF Unleased
  <2> QED BY <1>1, <1>3, <2>1 DEF Steering, Serves, MayGo, Becomes
<1>6. HandlerInv'
  BY <1>1, <1>3, AtEase
<1> QED BY <1>4, <1>5, <1>6 DEF ServiceInv, HandlerInv

\* Goto is such a move.
LEMMA GotoMove ==
    ASSUME ServiceTyped, NEW s, Goto(s)
    PROVE  /\ Becomes([task EXCEPT !.step = s, !.subject = task.subject, !.phase = task.phase])
           /\ task.subject \in Ref /\ task.phase \in {"none", "promotion", "branch", "vectors"}
<1>1. task \in Task
  BY DEF ServiceTyped
<1>2. [task EXCEPT !.step = s] = [task EXCEPT !.step = s, !.subject = task.subject, !.phase = task.phase]
  BY <1>1 DEF Task
<1> QED BY <1>1, <1>2 DEF Goto, Task

\* A move that leaves the store at rest.
LEMMA WaitsForNothing ==
    ASSUME call'.op = "none"
    PROVE  Waiting'
BY DEF Waiting

LEMMA ExpireService ==
    ASSUME AllInv, LostHoldsNothing', Expire
    PROVE  ServiceInv'
<1>0. At("expire") /\ CallExpire /\ Goto("expiring") /\ Idle /\ task.step = "expire"
  BY DEF Expire, At
<1>1. /\ attached' /\ UNCHANGED <<outer, pending>> /\ call'.op = "expire" /\ task'.step = "expiring"
      /\ ServiceTyped
  <2>1. ServiceTyped /\ attached /\ task \in Task
    BY <1>0, HandlerFacts DEF ServiceTyped
  <2> QED BY <1>0, <2>1 DEF CallExpire, storeVars, clientVars, Started, Ended, Goto, Becomes, Task
<1>2. Waiting'
  BY <1>1 DEF Waiting
<1>3. MayGo("expiring", task.phase)
  BY <1>0, HandlerFacts DEF MayGo, Steering
<1> QED BY <1>0, <1>1, <1>2, <1>3, GotoMove, MovesAtEase DEF Unleased

LEMMA EaseService ==
    ASSUME AllInv, LostHoldsNothing', Idle, Rests,
           task.step \in Unleased \ {"free", "memo", "finish"},
           NEW s \in Unleased \ {"free"}, MayGo(s, task.phase), Goto(s), s # "lease"
    PROVE  ServiceInv'
<1>1. attached' /\ UNCHANGED <<outer, pending>> /\ Waiting' /\ ServiceTyped
  BY HandlerFacts, WaitsForNothing DEF Rests
<1> QED BY <1>1, GotoMove, MovesAtEase

\* The expiry that begins every request is over; vectors begins its lease;
\* metadata and delete end.
LEMMA QuietStepService ==
    ASSUME AllInv, LostHoldsNothing',
           RefuseInBackoff \/ Expired \/ StartVectors \/ Metadata \/ Deleted
    PROVE  ServiceInv'
<1>0. Idle
  BY DEF RefuseInBackoff, Expired, StartVectors, Metadata, Deleted, At
<1>1. ServiceTyped /\ Steering /\ attached /\ task.req \in Requests \cup {NoRequest, Recovery}
      /\ task.phase \in {"none", "promotion", "branch", "vectors"}
  BY <1>0, HandlerFacts, TaskFacts
<1>2. CASE RefuseInBackoff
  BY <1>0, <1>2, RestsIf, FailsAtEase DEF RefuseInBackoff, At, Unleased
<1>3. CASE Expired
  <2>1. task.step = "expiring" /\ Rests
    BY <1>0, <1>3, RestsIf DEF Expired, At
  <2>2. CASE ~call.ok
    BY <1>0, <1>3, <2>1, <2>2, FailsAtEase DEF Expired, Unleased
  <2>3. CASE call.ok /\ task.req = Recovery
    <3>1. Goto("finish")
      BY <1>3, <2>3 DEF Expired
    <3>2. MayGo("finish", task.phase)
      BY <1>1 DEF MayGo, Steering
    <3> QED BY <1>0, <2>1, <3>1, <3>2, EaseService DEF Unleased
  <2>4. CASE call.ok /\ task.req # Recovery
    <3>1. Goto(task.req.kind)
      BY <1>3, <2>4 DEF Expired
    <3>2. task.req \in Requests
      BY <1>1, <2>1, <2>4 DEF Steering
    <3>3. task.req.kind \in {"create", "decide", "vectors", "delete", "metadata"}
      BY <3>2, RequestKinds
    <3>4. MayGo(task.req.kind, task.phase)
      BY <1>1, <3>2, <3>3 DEF MayGo, Steering, Serves
    <3> QED BY <1>0, <2>1, <3>1, <3>3, <3>4, EaseService DEF Unleased
  <2> QED BY <2>2, <2>3, <2>4
<1>4. CASE StartVectors
  <2>1. task.step = "vectors" /\ Rests /\ task.req \in Requests /\ task.req.kind = "vectors" /\ Go("lease", task.req.ref, "vectors")
    BY <1>0, <1>1, <1>4, RestsIf DEF StartVectors, At, Steering, Serves
  <2>2. task.req.ref \in Ref
    BY <2>1, RequestKinds DEF Ref
  <2>3. MayGo("lease", "vectors")
    BY DEF MayGo
  <2>4. attached' /\ UNCHANGED <<outer, pending>> /\ Waiting'
    BY <1>1, <2>1, WaitsForNothing DEF Rests
  <2> QED BY <1>0, <2>1, <2>2, <2>3, <2>4, MovesAtEase DEF Go, Unleased
<1>5. CASE Metadata
  <2>1. task.step = "metadata" /\ Rests
    BY <1>0, <1>5, RestsIf DEF Metadata, At
  <2>2. CASE Fails
    BY <1>0, <2>1, <2>2, FailsAtEase DEF Unleased
  <2>3. CASE Goto("finish")
    <3>1. MayGo("finish", task.phase)
      BY <1>1 DEF MayGo, Steering
    <3> QED BY <1>0, <2>1, <2>3, <3>1, EaseService DEF Unleased
  <2> QED BY <1>5, <2>2, <2>3 DEF Metadata
<1>6. CASE Deleted
  <2>1. task.step = "deleting" /\ Rests
    BY <1>0, <1>6, RestsIf DEF Deleted, At
  <2>2. CASE Fails
    BY <1>0, <2>1, <2>2, FailsAtEase DEF Unleased
  <2>3. CASE Goto("finish")
    <3>1. MayGo("finish", task.phase)
      BY <1>1 DEF MayGo, Steering
    <3> QED BY <1>0, <2>1, <2>3, <3>1, EaseService DEF Unleased
  <2> QED BY <1>6, <2>2, <2>3 DEF Deleted
<1> QED BY <1>2, <1>3, <1>4, <1>5, <1>6

LEMMA DeleteService ==
    ASSUME AllInv, LostHoldsNothing', Delete
    PROVE  ServiceInv'
<1>0. Idle /\ task.step = "delete" /\ ServiceTyped /\ Steering /\ attached
  <2>1. Idle /\ task.step = "delete"
    BY DEF Delete, At
  <2> QED BY <2>1, HandlerFacts
<1>1. CASE Deletable(task.req.ref)
  <2>1. CallDelete(task.req.ref) /\ Goto("deleting")
    BY <1>1 DEF Delete
  <2>2. attached' /\ UNCHANGED <<outer, pending>> /\ call'.op = "delete"
    BY <1>0, <2>1 DEF CallDelete, clientVars, Started, Ended
  <2>3. Waiting'
    <3>1. task'.step = "deleting"
      BY <1>0, <2>1 DEF Goto, Becomes, ServiceTyped, Task
    <3> QED BY <2>2, <3>1 DEF Waiting
  <2>4. MayGo("deleting", task.phase)
    BY <1>0 DEF MayGo, Steering
  <2> QED BY <1>0, <2>1, <2>2, <2>3, <2>4, GotoMove, MovesAtEase DEF Unleased
<1>2. CASE ~Deletable(task.req.ref)
  <2>1. Fails /\ (UNCHANGED storeState \/ \E id : Get(id))
    BY <1>2 DEF Delete
  <2>2. Rests
    BY <1>0, <2>1, RestsIf
  <2> QED BY <1>0, <2>1, <2>2, FailsAtEase DEF Unleased
<1> QED BY <1>1, <1>2

----------------------------------------------------------------------------
(* The restart of the worker, and of the service.                          *)

LEMMA RestartService ==
    ASSUME AllInv, LostHoldsNothing', RestartFails \/ Restart
    PROVE  ServiceInv'
<1>0. Idle /\ task.step = "recover" /\ ServiceTyped /\ Steering /\ attached /\ outer = {} /\ pending = {}
      /\ task.rows = <<>>
  <2>1. Idle /\ task.step = "recover"
    BY DEF RestartFails, Restart, At
  <2> QED BY <2>1, HandlerFacts DEF NothingOpen, Unleased
<1>1. CASE RestartFails
  <2>1. Rests
    BY <1>0, <1>1, RestsIf DEF RestartFails
  <2>2. /\ task' = Raised(<<>>) /\ busy' = busy /\ backoff' \in BOOLEAN /\ scheduled' \in BOOLEAN
        /\ replied' \subseteq Ids /\ outer' = outer /\ pending' = {} /\ attached' /\ call'.op = "none"
    BY <1>0, <1>1, <2>1 DEF RestartFails, RestartError, ServiceTyped, Rests
  <2> QED BY <1>0, <2>2, EmptyRows, RaisesService
<1>2. CASE Restart
  <2>1. attached' /\ UNCHANGED <<outer, pending>> /\ call'.op = "none" /\ Goto("expire")
    BY <1>2, EndedVictim DEF Restart, Attach, LoadIndex, Returns, clientVars
  <2>2. Waiting' /\ MayGo("expire", task.phase)
    BY <1>0, <2>1, WaitsForNothing DEF MayGo, Steering
  <2> QED BY <1>0, <2>1, <2>2, GotoMove, MovesAtEase DEF Unleased
<1> QED BY <1>1, <1>2

LEMMA ProcessService ==
    ASSUME AllInv, LostHoldsNothing', Killed \/ Start
    PROVE  ServiceInv'
<1>0. ServiceTyped /\ Steering /\ NothingOpen /\ LostHoldsNothing
  BY DEF AllInv, ServiceInv
<1>1. CASE Killed
  <2>1. /\ busy' = FALSE /\ task' = Handler(NoRequest, "free") /\ backoff' = FALSE /\ scheduled' = FALSE
        /\ replied' = {} /\ outer' = {} /\ pending' = {} /\ call'.op = "none"
    BY <1>1, EndedVictim DEF Killed, Free, Crash, LoseWorker
  <2> QED BY <2>1, BeginsService
<1>2. CASE Start
  <2>1. outer = {} /\ pending = {}
    BY <1>0, <1>2 DEF Start, Steering, NothingOpen, Unleased
  <2>2. /\ busy' = TRUE /\ task' = Handler(Recovery, "expire") /\ backoff' \in BOOLEAN /\ scheduled' \in BOOLEAN
        /\ replied' \subseteq Ids /\ outer' = {} /\ pending' = {} /\ call'.op = "none" /\ attached'
    BY <1>0, <1>2, <2>1, EndedVictim DEF Start, Attach, LoadIndex, Returns, clientVars, ServiceTyped
  <2>3. Recovery # NoRequest
    BY DEF Recovery, NoRequest
  <2> QED BY <2>2, <2>3, BeginsService
<1> QED BY <1>1, <1>2

----------------------------------------------------------------------------
(* The plan of a decision.                                                 *)

LEMMA PlanService ==
    ASSUME AllInv, LostHoldsNothing', Plan \/ Anchor
    PROVE  ServiceInv'
<1>0. Idle /\ task.step \in {"decide", "anchor"}
  BY DEF Plan, Anchor, At
<1>1. ServiceTyped /\ Steering /\ IInv /\ task.req \in Requests /\ task.req.kind = "decide" /\ attached
      /\ task.phase \in {"none", "promotion", "branch", "vectors"}
  BY <1>0, HandlerFacts, TaskFacts DEF Steering, Serves
<1>2. Rests
  BY <1>0, RestsIf DEF Plan, Anchor
<1>3. attached' /\ UNCHANGED <<outer, pending>> /\ Waiting'
  BY <1>1, <1>2, WaitsForNothing DEF Rests
<1>4. CASE Fails
  BY <1>0, <1>2, <1>4, FailsAtEase DEF Unleased
<1>5. ASSUME NEW s \in {"ensure", "anchor"}, NEW sub \in Ref, Go(s, sub, "none") PROVE ServiceInv'
  <2>1. MayGo(s, "none")
    BY <1>1 DEF MayGo, Serves
  <2>2. s \in Unleased \ {"free"} /\ s # "lease" /\ task.step \in Unleased \ {"free", "memo", "finish"}
    BY <1>0 DEF Unleased
  <2> QED BY <1>0, <1>3, <1>5, <2>1, <2>2, MovesAtEase DEF Go
<1>6. CASE Plan /\ ~Fails
  <2>1. Gettable(task.req.ref) /\ task.req.ref \in Ref
    BY <1>1, <1>6, RequestKinds DEF Plan, Ref
  <2>2. records[task.req.ref].contextParent \in Ref
    BY <1>1, <2>1 DEF Gettable, IInv, TypeOK, Record
  <2>3. \/ Go("ensure", task.req.ref, "none") \/ Go("anchor", records[task.req.ref].contextParent, "none")
    BY <1>6, <2>1 DEF Plan
  <2> QED BY <1>5, <2>1, <2>2, <2>3
<1>7. CASE Anchor /\ ~Fails
  <2>1. Goto("ensure")
    BY <1>7 DEF Anchor
  <2>2. MayGo("ensure", task.phase)
    BY <1>1 DEF MayGo, Steering, Serves
  <2> QED BY <1>0, <1>2, <2>1, <2>2, EaseService DEF Unleased
<1> QED BY <1>4, <1>6, <1>7

LEMMA EnsureService ==
    ASSUME AllInv, LostHoldsNothing', Ensure30
    PROVE  ServiceInv'
<1> DEFINE s == task.subject
          m == MemoizedPromotion(s)
<1>0. Idle /\ task.step = "ensure"
  BY DEF Ensure30, At
<1>1. ServiceTyped /\ Steering /\ IInv /\ PromiseInv /\ attached /\ s \in Ref /\ Serves("decide")
  BY <1>0, HandlerFacts, TaskFacts DEF Steering
<1>2. CASE Fails /\ UNCHANGED storeState
  BY <1>0, <1>2, RestsIf, FailsAtEase DEF Unleased
<1>3. MayGo("lease", "branch") /\ MayGo("lease", "promotion")
  BY <1>1 DEF MayGo
<1>4. CASE s \in known /\ records[s].depth = 30
  <2>1. Go("lease", s, "branch") /\ Rests /\ known' = known
    BY <1>0, <1>4, RestsIf DEF Ensure30
  <2>2. attached' /\ UNCHANGED <<outer, pending>> /\ Waiting' /\ records'[s].depth = 30
    BY <1>1, <1>4, <2>1, WaitsForNothing DEF Rests
  <2> QED BY <1>0, <1>1, <1>3, <2>1, <2>2, MovesAtEase DEF Go, Unleased
<1>5. CASE ~(s \in known /\ records[s].depth = 30) /\ Gettable(s)
  <2>1. /\ ConsultMemo(s)
        /\ IF m = None THEN Go("lease", s, "promotion") ELSE Go("lease", m, "branch")
    BY <1>5 DEF Ensure30
  <2>2. attached' /\ UNCHANGED <<outer, pending>> /\ Waiting'
    BY <1>1, <2>1, EndedVictim, WaitsForNothing DEF ConsultMemo, Returns, clientVars
  <2>3. CASE m = None
    BY <1>0, <1>1, <1>3, <2>1, <2>2, <2>3, MovesAtEase DEF Go, Unleased
  <2>4. CASE m # None
    <3>1. m \in known /\ m = records[s].promotionChild /\ s \in known
      BY <1>5, <2>4 DEF MemoizedPromotion, Gettable
    <3>2. records[m].depth = 30
      BY <1>1, <3>1 DEF PromiseInv, MemoInv
    <3>3. records \in [known -> Record] /\ known \subseteq Ids
      BY <1>1 DEF IInv, TypeOK
    <3>4. records'[m].depth = 30
      <4>1. records' = [records EXCEPT ![s].promotionChild = m]
        BY <2>1 DEF ConsultMemo
      <4>2. records[m] \in Record
        BY <3>1, <3>3
      <4> QED BY <3>1, <3>2, <3>3, <4>1, <4>2 DEF Record, known
    <3>5. m \in Ref
      BY <3>1, <3>3 DEF Ref
    <3> HIDE DEF m
    <3> QED BY <1>0, <1>3, <2>1, <2>2, <2>4, <3>4, <3>5, MovesAtEase DEF Go, Unleased
  <2> QED BY <2>3, <2>4
<1> QED BY <1>2, <1>4, <1>5 DEF Ensure30

LEMMA MemoService ==
    ASSUME AllInv, LostHoldsNothing', MemoizeChild
    PROVE  ServiceInv'
<1> DEFINE s == task.subject
          child == task.rows[1]
<1>0. Idle /\ task.step = "memo"
  BY DEF MemoizeChild, At
<1>1. /\ ServiceTyped /\ Steering /\ IInv /\ attached /\ outer = {} /\ pending = {} /\ Serves("decide")
      /\ task \in Task
  BY <1>0, HandlerFacts DEF NothingOpen, Unleased, Steering, ServiceTyped
<1>2. CASE Gettable(s) /\ Gettable(child)
  <2>1. /\ Memoize(s, child)
        /\ task' = [Handler(task.req, "lease") EXCEPT !.subject = child, !.phase = "branch"]
        /\ UNCHANGED <<busy, backoff, scheduled, replied>>
    BY <1>2 DEF MemoizeChild, Becomes
  <2>2. child \in known /\ child \in Ref /\ records \in [known -> Record]
    BY <1>1, <1>2 DEF Gettable, IInv, TypeOK, Ref
  <2>3. /\ task' \in Task /\ task'.req = task.req /\ task'.step = "lease" /\ task'.phase = "branch"
        /\ task'.subject = child /\ task'.rows = <<>> /\ task'.pos = 0 /\ task'.failed = FALSE
    <3>1. task.req \in Requests /\ "lease" \in Steps
      BY <1>1 DEF Serves, Steps
    <3> HIDE DEF child
    <3> QED BY <2>1, <2>2, <3>1, EmptyRows DEF Handler, Task
  <2>4. attached' /\ outer' = {} /\ pending' = {} /\ call'.op = "none"
    BY <1>1, <2>1, EndedVictim DEF Memoize, Returns, clientVars
  <2>5. records'[child].depth = 30
    <3>1. records[child].depth = 30 /\ records' = [records EXCEPT ![s].promotionChild = child]
      BY <2>1 DEF Memoize, ValidPromotion
    <3>2. records[child] \in Record
      BY <2>2
    <3> QED BY <2>2, <3>1, <3>2 DEF Record, known
  <2>6. ServiceTyped' /\ Steering' /\ Waiting'
    <3>1. ServiceTyped'
      BY <1>1, <2>1, <2>3, EmptyRows DEF ServiceTyped
    <3>2. Steering' /\ Waiting'
      BY <1>0, <1>1, <2>1, <2>3, <2>4 DEF Steering, Serves, Waiting
    <3> QED BY <3>1, <3>2
  <2>7. HandlerInv'
    BY <2>3, <2>4, <2>5, AtEase DEF Unleased
  <2> QED BY <2>6, <2>7 DEF ServiceInv, HandlerInv
<1>3. CASE ~(Gettable(s) /\ Gettable(child))
  <2>1. /\ task' = [Raised(<<>>) EXCEPT !.step = "finish"] /\ UNCHANGED storeState
        /\ UNCHANGED <<busy, backoff, scheduled, replied>>
    BY <1>3 DEF MemoizeChild, Becomes
  <2>2. /\ Raised(<<>>) \in Task /\ Raised(<<>>).req = task.req /\ Raised(<<>>).phase = task.phase
        /\ Raised(<<>>).rows = <<>> /\ Raised(<<>>).pos = 0 /\ Raised(<<>>).failed = TRUE
    BY <1>1, EmptyRows, RaisedTask
  <2>3. /\ task' \in Task /\ task'.req = task.req /\ task'.phase = task.phase /\ task'.step = "finish"
        /\ task'.rows = <<>> /\ task'.pos = 0 /\ task'.failed = TRUE
    BY <2>1, <2>2 DEF Task, Steps
  <2>4. attached' /\ outer' = {} /\ pending' = {} /\ call'.op = "none"
    BY <1>0, <1>1, <2>1, RestsIf DEF Rests
  <2>5. ServiceTyped'
    BY <1>1, <2>1, <2>3, EmptyRows DEF ServiceTyped
  <2>6. Steering' /\ Waiting'
    BY <1>0, <1>1, <2>1, <2>3, <2>4 DEF Steering, Serves, Waiting
  <2>7. NothingOpen' /\ UnderLease' /\ BranchesFrom30' /\ InOrder' /\ AtRow' /\ Unwinding'
    BY <2>3, <2>4, EmptyRows DEF NothingOpen, UnderLease, BranchesFrom30, InOrder, AtRow, Unwinding
  <2> QED BY <2>5, <2>6, <2>7 DEF ServiceInv
<1> QED BY <1>2, <1>3

----------------------------------------------------------------------------
(* Under a lease.                                                          *)

\* A failure of what allotted ids that nobody knows.
LEMMA FailsFresh ==
    ASSUME AllInv, Idle, LostHoldsNothing', task.step # "free", NEW ids \in Seq(Ids), Range(ids) \subseteq Fresh,
           UNCHANGED <<records, attached, outer>>, call'.op = "none", Becomes(Raised(ids)),
           \A w \in pending' : w.id \in Range(ids)
    PROVE  ServiceInv'
<1>1. ServiceTyped /\ Steering /\ attached'
  BY HandlerFacts
<1>2. /\ task' = Raised(ids) /\ busy' = busy /\ backoff' \in BOOLEAN /\ scheduled' \in BOOLEAN
      /\ replied' \subseteq Ids
  BY <1>1 DEF Becomes, ServiceTyped
<1>3. Range(ids) \cap known' = {}
  BY DEF Fresh, known
<1> QED BY <1>1, <1>2, <1>3, RaisesService

\* The ids named before a lease is taken.
LEMMA NamedIds ==
    ASSUME NEW n \in Nat, NEW ids \in [1..n -> Fresh]
    PROVE  /\ ids \in Seq(Ids) /\ Len(ids) = n /\ Range(ids) \subseteq Fresh
           /\ n = 0 => ids = <<>>
<1>1. Fresh \subseteq Ids
  BY DEF Fresh
<1>2. ids \in Seq(Ids) /\ Len(ids) = n
  BY <1>1
<1>3. n = 0 => ids = <<>>
  BY <1>2
<1>4. Range(ids) \subseteq Fresh
  BY DEF Range
<1> QED BY <1>2, <1>3, <1>4

LEMMA OpenService ==
    ASSUME AllInv, LostHoldsNothing', OpenLease
    PROVE  ServiceInv'
<1> DEFINE n == IF task.phase = "branch" THEN task.req.saves ELSE 0
          s == task.subject
<1>0. Idle /\ task.step = "lease"
  BY DEF OpenLease, At
<1>1. /\ ServiceTyped /\ Steering /\ IInv /\ attached /\ outer = {} /\ pending = {} /\ task \in Task
      /\ BranchesFrom30 /\ task.phase # "none" /\ ~task.failed
  BY <1>0, HandlerFacts DEF NothingOpen, Unleased, Steering, ServiceTyped
<1>2. n \in Nat
  <2>1. CASE task.phase = "branch"
    BY <1>1, <2>1, RequestKinds DEF Steering, Serves
  <2> QED BY <2>1
<1>3. PICK ids \in [1..n -> Fresh] :
          /\ IsInjective(ids)
          /\ IF Gettable(s)
             THEN /\ Lease(s)
                  /\ Becomes([task EXCEPT !.rows = ids, !.pos = 0, !.step = "restore"])
             ELSE Becomes(Raised(ids)) /\ UNCHANGED storeState
  BY DEF OpenLease
<1>4. ids \in Seq(Ids) /\ Len(ids) = n /\ Range(ids) \subseteq Fresh /\ (n = 0 => ids = <<>>)
  <2> HIDE DEF n
  <2> QED BY <1>2, NamedIds
<1>5. CASE ~Gettable(s)
  <2>1. UNCHANGED <<records, attached, outer>> /\ call'.op = "none" /\ pending' = {}
    BY <1>0, <1>1, <1>3, <1>5, RestsIf DEF Rests
  <2> QED BY <1>0, <1>3, <1>4, <1>5, <2>1, FailsFresh
<1>6. CASE Gettable(s)
  <2>1. /\ outer' = Ancestors(s) /\ records' = Pin(records, outer') /\ call'.op = "none" /\ pending' = {}
        /\ attached' /\ UNCHANGED <<held, disk>>
    BY <1>1, <1>3, <1>6, EndedVictim DEF Lease, Returns, workerVars, diskVars
  <2>2. s \in known /\ s \in outer' /\ records \in [known -> Record]
    BY <1>1, <1>6, <2>1, AncestorsKnown DEF Gettable, IInv, TypeOK
  <2>3. /\ known' = known /\ \A x \in known : Kept(records[x], records'[x])
    BY <2>1, <2>2, PinEffect, PinKept DEF known
  <2>4. Fresh' = Fresh
    <3>1. \A x \in known : records'[x].promotionChild = records[x].promotionChild
      BY <2>3 DEF Kept
    <3>2. Memos' = Memos
      BY <2>3, <3>1 DEF Memos
    <3> QED BY <1>1, <2>1, <2>3, <3>2 DEF Fresh
  <2>5. /\ task' = [task EXCEPT !.rows = ids, !.pos = 0, !.step = "restore"]
        /\ UNCHANGED <<busy, backoff, scheduled, replied>>
    BY <1>3, <1>6 DEF Becomes
  <2>6. /\ task' \in Task /\ task'.req = task.req /\ task'.step = "restore" /\ task'.phase = task.phase
        /\ task'.subject = s /\ task'.rows = ids /\ task'.pos = 0 /\ task'.failed = FALSE
    BY <1>1, <1>4, <2>5 DEF Task, Steps
  <2>7. ServiceTyped'
    BY <1>1, <1>2, <1>4, <2>5, <2>6 DEF ServiceTyped
  <2>8. Steering' /\ Waiting'
    BY <1>0, <1>1, <2>1, <2>5, <2>6 DEF Steering, Serves, Waiting
  <2>9. UnderLease'
    BY <1>3, <1>4, <2>1, <2>2, <2>4, <2>6 DEF UnderLease
  <2>10. BranchesFrom30'
    BY <1>0, <1>1, <2>2, <2>3, <2>6 DEF BranchesFrom30, Kept, Same
  <2>11. NothingOpen' /\ InOrder' /\ AtRow' /\ Unwinding'
    BY <2>6 DEF NothingOpen, Unleased, InOrder, AtRow, Unwinding
  <2> QED BY <2>7, <2>8, <2>9, <2>10, <2>11 DEF ServiceInv
<1> QED BY <1>5, <1>6

LEMMA MovesUnderLease ==
    ASSUME AllInv, Idle, LostHoldsNothing', UNCHANGED <<attached, records, held, disk, outer, pending>>, Waiting',
           task.step \in {"restore", "restoring"}, NEW s \in {"restoring", "infer"}, Goto(s),
           s = "infer" => records[task.subject].resident,
           s = "restoring" => ~(call'.op = "none" /\ call'.ok)
    PROVE  ServiceInv'
<1>1. /\ ServiceTyped /\ Steering /\ UnderLease /\ BranchesFrom30 /\ attached /\ task \in Task /\ ~task.failed
  BY HandlerFacts DEF Steering, ServiceTyped
<1>2. /\ task' \in Task /\ task'.req = task.req /\ task'.step = s /\ task'.phase = task.phase
      /\ task'.subject = task.subject /\ task'.rows = task.rows /\ task'.pos = task.pos
      /\ task'.failed = task.failed /\ UNCHANGED <<busy, backoff, scheduled, replied>>
  BY <1>1 DEF Goto, Becomes, Task, Steps
<1>3. known' = known /\ Fresh' = Fresh
  BY DEF known, Fresh, Memos
<1>4. ServiceTyped' /\ Steering'
  BY <1>1, <1>2 DEF ServiceTyped, Steering, Serves
<1>5. UnderLease' /\ BranchesFrom30'
  BY <1>1, <1>2, <1>3 DEF UnderLease, BranchesFrom30
<1>6. NothingOpen' /\ InOrder' /\ AtRow' /\ Unwinding'
  BY <1>1, <1>2 DEF NothingOpen, Unleased, InOrder, AtRow, Unwinding
<1> QED BY <1>4, <1>5, <1>6 DEF ServiceInv

\* A failure before anything was asked of the worker under the lease.
LEMMA FailsUnderLease ==
    ASSUME AllInv, Idle, LostHoldsNothing', Rests, task.step \in {"restore", "restoring", "infer"}, Fails
    PROVE  ServiceInv'
<1>1. ServiceTyped /\ UnderLease
  BY HandlerFacts
<1>2. task.rows \in Seq(Ids) /\ Range(task.rows) \subseteq Fresh /\ pending' = {}
  BY <1>1, TaskFacts DEF UnderLease, Rests
<1> QED BY <1>2, FailsFresh DEF Fails, Rests

LEMMA RestoreService ==
    ASSUME AllInv, LostHoldsNothing', Restore \/ Restored
    PROVE  ServiceInv'
<1>0. Idle /\ task.step \in {"restore", "restoring"} /\ call \in Call
  BY DEF Restore, Restored, At, AllInv, StoreInv, IInv, TypeOK
<1>1. ServiceTyped /\ Steering /\ UnderLease /\ attached /\ task \in Task
  BY <1>0, HandlerFacts DEF ServiceTyped
<1>2. CASE Fails /\ UNCHANGED storeState
  BY <1>0, <1>2, RestsIf, FailsUnderLease
<1>3. CASE Goto("infer") /\ Rests /\ records[task.subject].resident
  BY <1>0, <1>3, WaitsForNothing, MovesUnderLease DEF Rests
<1>4. CASE CallRestore(task.subject) /\ Goto("restoring")
  <2>1. /\ UNCHANGED <<attached, records, held, disk, outer, pending>>
    BY <1>4 DEF CallRestore, workerVars, diskVars, clientVars
  <2>2. ~(call'.op = "none" /\ call'.ok)
    BY <1>4 DEF CallRestore, Ended, Started
  <2>3. call'.op \in {"none", "restore"} /\ (call'.op = "restore" => call'.target = task.subject)
    BY <1>4 DEF CallRestore, Ended, Started
  <2>4. task'.step = "restoring" /\ task'.subject = task.subject
    BY <1>1, <1>4 DEF Goto, Becomes, Task
  <2>5. Waiting'
    BY <2>3, <2>4 DEF Waiting
  <2> QED BY <1>0, <1>4, <2>1, <2>2, <2>5, MovesUnderLease
<1>5. CASE Restore
  <2>1. \/ Fails /\ UNCHANGED storeState
        \/ records[task.subject].resident /\ Get(task.subject) /\ Goto("infer")
        \/ CallRestore(task.subject) /\ Goto("restoring")
    BY <1>5 DEF Restore
  <2> QED BY <1>0, <1>2, <1>3, <1>4, <2>1, RestsIf
<1>6. CASE Restored
  <2>1. UNCHANGED storeState /\ task.step = "restoring" /\ call.op = "none"
    BY <1>6 DEF Restored, At, Idle
  <2>2. CASE call.ok
    <3>1. records[task.subject].resident
      BY <1>1, <2>1, <2>2 DEF UnderLease
    <3>2. Goto("infer")
      BY <1>6, <2>2 DEF Restored
    <3> QED BY <1>0, <1>3, <2>1, <3>1, <3>2, RestsIf
  <2>3. CASE ~call.ok
    <3>1. Fails
      BY <1>6, <2>3 DEF Restored
    <3> QED BY <1>2, <2>1, <3>1
  <2> QED BY <2>2, <2>3
<1> QED BY <1>5, <1>6

\* A command that made nothing leaves nothing pending.
LEMMA CommandFailsService ==
    ASSUME AllInv, LostHoldsNothing', Idle, pending = {}, task.step # "free",
           NEW ids \in Seq(Ids), Range(ids) \subseteq Fresh, CommandFails(ids)
    PROVE  ServiceInv'
<1>1. CASE Refused
  <2>1. UNCHANGED <<records, attached, outer>> /\ call'.op = "none" /\ pending' = {}
    BY <1>1, RestsIf DEF Refused, Rests
  <2> QED BY <2>1, FailsFresh DEF CommandFails
<1>2. CASE CommandLost
  <2>1. UNCHANGED <<records, attached, outer>> /\ call'.op = "none" /\ pending' = {}
    BY <1>2, EndedVictim DEF CommandLost, LoseWorker, storeVars
  <2> QED BY <2>1, FailsFresh DEF CommandFails
<1> QED BY <1>1, <1>2 DEF CommandFails

\* What a command published is registered from the first row on.
LEMMA AllotsService ==
    ASSUME AllInv, LostHoldsNothing', Idle, task.step \in {"create", "infer"},
           NEW ids \in Seq(Ids), Len(ids) > 0, IsInjective(ids), Range(ids) \subseteq Fresh,
           UNCHANGED <<records, attached, outer>>, call'.op = "none",
           Allots(ids),
           \A w \in pending' :
               /\ w.id \in Range(ids)
               /\ w.parent \in Range(ids) => w.id = ids[Len(ids)] /\ w.parent # w.id
               /\ IF task.phase \in {"promotion", "branch"}
                  THEN w.kind \in {"promote", "branch"} /\ w.parent \in outer ELSE w.kind = "capture",
           task.phase = "promotion" => Len(ids) = 1,
           task.phase \in {"promotion", "branch"} \/ (Serves("create") /\ outer = {})
    PROVE  ServiceInv'
<1>1. ServiceTyped /\ Steering /\ IInv /\ attached /\ task \in Task /\ ~task.failed
  BY HandlerFacts DEF Steering, ServiceTyped
<1>2. /\ task' \in Task /\ task'.req = task.req /\ task'.step = "register" /\ task'.phase = task.phase
      /\ task'.rows = ids /\ task'.pos = 0 /\ task'.failed = FALSE /\ UNCHANGED <<busy, backoff, scheduled, replied>>
  BY <1>1 DEF Allots, Becomes, Task, Steps
<1>3. /\ Len(ids) \in Nat /\ DOMAIN ids = 1..Len(ids)
      /\ \A i \in 1..Len(ids) : ids[i] \in Range(ids)
      /\ \A x \in Range(ids) : \E i \in 1..Len(ids) : x = ids[i]
  BY RowsAreIds
<1>4. known' = known /\ Range(ids) \cap known = {} /\ outer \subseteq known
  BY <1>1 DEF known, Fresh, IInv, RegistryInv, PinsRegistered
<1>5. ServiceTyped' /\ Steering' /\ Waiting'
  BY <1>1, <1>2, <1>3 DEF ServiceTyped, Steering, Serves, Waiting
<1>6. InOrder'
  <2>1. OnlyLastRefers'
    <3>1. \A x \in known : Refs(records[x]) \subseteq known
      BY <1>1 DEF IInv, RegistryInv, ParentsRegistered
    <3> QED BY <1>2, <1>4, <3>1 DEF OnlyLastRefers
  <2>2. \A w \in pending' : RowWaits(w)'
    <3> TAKE w \in pending'
    <3>1. \E i \in DOMAIN ids : i > 0 /\ w.id = ids[i]
      BY <1>3
    <3> QED BY <1>2, <3>1 DEF RowWaits, LastId
  <2> QED BY <1>2, <1>3, <1>4, <2>1, <2>2 DEF InOrder
<1>7. NothingOpen' /\ UnderLease' /\ BranchesFrom30' /\ AtRow' /\ Unwinding'
  BY <1>2 DEF NothingOpen, Unleased, UnderLease, BranchesFrom30, AtRow, Unwinding
<1> QED BY <1>5, <1>6, <1>7 DEF ServiceInv

\* One row.
LEMMA OneRow ==
    ASSUME NEW a \in Fresh
    PROVE  /\ <<a>> \in Seq(Ids) /\ Len(<<a>>) = 1 /\ IsInjective(<<a>>) /\ Range(<<a>>) = {a}
           /\ <<a>>[1] = a
BY DEF Fresh, IsInjective, Range

LEMMA TwoRows ==
    ASSUME NEW a \in Fresh, NEW b \in Fresh, a # b
    PROVE  /\ <<a, b>> \in Seq(Ids) /\ Len(<<a, b>>) = 2 /\ IsInjective(<<a, b>>) /\ Range(<<a, b>>) = {a, b}
           /\ <<a, b>>[2] = b
BY DEF Fresh, IsInjective, Range

\* What a publishing command leaves of the store.
LEMMA PublishesFrame ==
    ASSUME NEW hs, NEW kind, Publishes(hs, kind)
    PROVE  /\ UNCHANGED <<records, attached, outer>> /\ call'.op = "none"
           /\ \A w \in pending' : w.id \in DOMAIN hs /\ w.parent = hs[w.id].parent /\ w.kind = kind
<1>1. RowsOf(hs, kind)
  BY PublishedRows
<1>2. UNCHANGED <<records, attached, outer>> /\ call'.op = "none"
  BY EndedVictim DEF Publishes, Returns, storeVars
<1> QED BY <1>1, <1>2 DEF RowsOf

LEMMA CreateService ==
    ASSUME AllInv, LostHoldsNothing', CreateSnapshots
    PROVE  ServiceInv'
<1>0. Idle /\ task.step = "create"
  BY DEF CreateSnapshots, At
<1>1. ServiceTyped /\ Steering /\ outer = {} /\ pending = {} /\ Serves("create")
  BY <1>0, HandlerFacts DEF NothingOpen, Unleased, Steering
<1>2. task.phase \notin {"promotion", "branch"}
  BY <1>1 DEF Steering, Serves
<1>3. ASSUME NEW a \in Fresh, NEW depth, Create(a, depth), Allots(<<a>>) PROVE ServiceInv'
  <2> DEFINE hs == [x \in {a} |-> [depth |-> depth, parent |-> None, lower |-> a]]
  <2>1. Publishes(hs, "capture")
    BY <1>3 DEF Create
  <2>2. hs[a].parent = None /\ DOMAIN hs = {a}
    OBVIOUS
  <2>3. None # a
    BY IdsAssumption DEF Fresh
  <2> HIDE DEF hs
  <2>4. /\ UNCHANGED <<records, attached, outer>> /\ call'.op = "none"
        /\ \A w \in pending' : w.id \in DOMAIN hs /\ w.parent = hs[w.id].parent /\ w.kind = "capture"
    BY <2>1, PublishesFrame
  <2>5. \A w \in pending' : w.id = a /\ w.parent # a /\ w.kind = "capture"
    BY <2>2, <2>3, <2>4
  <2> DEFINE ids == <<a>>
  <2>6. ids \in Seq(Ids) /\ Len(ids) = 1 /\ IsInjective(ids) /\ Range(ids) = {a} /\ ids[1] = a /\ Allots(ids)
    BY <1>3, OneRow
  <2> HIDE DEF ids
  <2>7. \A w \in pending' : w.id \in Range(ids) /\ w.parent \notin Range(ids) /\ w.kind = "capture"
    BY <2>5, <2>6
  <2>8. Len(ids) > 0 /\ Range(ids) \subseteq Fresh
    BY <2>6
  <2> QED BY <1>0, <1>1, <1>2, <2>4, <2>6, <2>7, <2>8, AllotsService
<1>4. ASSUME NEW a \in Fresh, NEW b \in Fresh, a # b, CreatePair(a, b), Allots(<<a, b>>) PROVE ServiceInv'
  <2> DEFINE hs == [x \in {a, b} |-> IF x = a THEN [depth |-> 18, parent |-> None, lower |-> a]
                                     ELSE [depth |-> 30, parent |-> a, lower |-> a]]
  <2>1. Publishes(hs, "capture")
    BY <1>4 DEF CreatePair
  <2>2. hs[a].parent = None /\ hs[b].parent = a /\ DOMAIN hs = {a, b}
    <3>1. hs[a] = [depth |-> 18, parent |-> None, lower |-> a] /\ hs[b] = [depth |-> 30, parent |-> a, lower |-> a]
      BY <1>4
    <3> QED BY <3>1
  <2>3. None # a /\ None # b
    BY IdsAssumption DEF Fresh
  <2> HIDE DEF hs
  <2>4. /\ UNCHANGED <<records, attached, outer>> /\ call'.op = "none"
        /\ \A w \in pending' : w.id \in DOMAIN hs /\ w.parent = hs[w.id].parent /\ w.kind = "capture"
    BY <2>1, PublishesFrame
  <2>5. \A w \in pending' : /\ w.id \in {a, b} /\ w.kind = "capture"
                            /\ w.parent \in {a, b} => w.id = b /\ w.parent # w.id
    BY <1>4, <2>2, <2>3, <2>4
  <2>6. /\ <<a, b>> \in Seq(Ids) /\ Len(<<a, b>>) = 2 /\ IsInjective(<<a, b>>) /\ Range(<<a, b>>) = {a, b}
        /\ <<a, b>>[2] = b
    BY <1>4, TwoRows
  <2> QED BY <1>0, <1>1, <1>2, <1>4, <2>4, <2>5, <2>6, AllotsService
<1>5. ASSUME NEW a \in Fresh, CommandFails(<<a>>) PROVE ServiceInv'
  <2>1. <<a>> \in Seq(Ids) /\ Range(<<a>>) \subseteq Fresh
    BY OneRow
  <2> QED BY <1>0, <1>1, <1>5, <2>1, CommandFailsService
<1>6. ASSUME NEW a \in Fresh, NEW b \in Fresh, a # b, CommandFails(<<a, b>>) PROVE ServiceInv'
  <2>1. <<a, b>> \in Seq(Ids) /\ Range(<<a, b>>) \subseteq Fresh
    BY <1>6, TwoRows
  <2> QED BY <1>0, <1>1, <1>6, <2>1, CommandFailsService
<1> QED BY <1>3, <1>4, <1>5, <1>6 DEF CreateSnapshots

\* An answer under the lease: the lease ends.
LEMMA AnsweredService ==
    ASSUME AllInv, LostHoldsNothing', Idle, Rests, task.step = "infer", Goto("release")
    PROVE  ServiceInv'
<1>1. /\ ServiceTyped /\ Steering /\ attached /\ pending = {} /\ task \in Task /\ ~task.failed
  BY HandlerFacts DEF UnderLease, ServiceTyped, Steering
<1>2. /\ task' \in Task /\ task'.req = task.req /\ task'.step = "release" /\ task'.phase = task.phase
      /\ task'.rows = task.rows /\ task'.pos = task.pos /\ task'.failed = FALSE
      /\ UNCHANGED <<busy, backoff, scheduled, replied>>
  BY <1>1 DEF Goto, Becomes, Task, Steps
<1>3. attached' /\ pending' = {} /\ call'.op = "none"
  BY <1>1 DEF Rests
<1>4. ServiceTyped' /\ Steering' /\ Waiting'
  BY <1>1, <1>2, <1>3 DEF ServiceTyped, Steering, Serves, Waiting
<1>5. NothingOpen' /\ UnderLease' /\ BranchesFrom30' /\ InOrder' /\ AtRow' /\ Unwinding'
  BY <1>2, <1>3 DEF NothingOpen, Unleased, UnderLease, BranchesFrom30, InOrder, AtRow, Unwinding
<1> QED BY <1>4, <1>5 DEF ServiceInv

\* What a handler under a lease may rely on when it asks the worker.
LEMMA InferFacts ==
    ASSUME AllInv, Idle, task.step = "infer"
    PROVE  /\ pending = {} /\ task.rows \in Seq(Ids) /\ Range(task.rows) \subseteq Fresh
           /\ IsInjective(task.rows) /\ task.pos = 0 /\ task.subject \in outer /\ task.subject \notin Fresh
           /\ task.phase # "branch" => task.rows = <<>>
           /\ task \in Task /\ ~task.failed
<1>1. UnderLease /\ ServiceTyped /\ Steering /\ IInv
  BY HandlerFacts
<1>2. outer \subseteq known
  BY <1>1 DEF IInv, RegistryInv, PinsRegistered
<1> QED BY <1>1, <1>2, TaskFacts DEF UnderLease, Fresh, ServiceTyped, Steering

LEMMA PromoteService ==
    ASSUME AllInv, LostHoldsNothing', PromoteParent
    PROVE  ServiceInv'
<1>0. Idle /\ task.step = "infer" /\ task.phase = "promotion"
  BY DEF PromoteParent, At
<1>1. pending = {} /\ task.subject \in outer /\ task.subject \notin Fresh
  BY <1>0, InferFacts
<1>2. ASSUME NEW a \in Fresh, Promote(task.subject, a), Allots(<<a>>) PROVE ServiceInv'
  <2> DEFINE hs == [x \in {a} |-> [depth |-> 30, parent |-> task.subject, lower |-> held[task.subject].lower]]
             ids == <<a>>
  <2>1. Publishes(hs, "promote")
    BY <1>2 DEF Promote
  <2>2. hs[a].parent = task.subject /\ DOMAIN hs = {a}
    OBVIOUS
  <2>3. ids \in Seq(Ids) /\ Len(ids) = 1 /\ IsInjective(ids) /\ Range(ids) = {a} /\ ids[1] = a /\ Allots(ids)
    BY <1>2, OneRow
  <2> HIDE DEF hs, ids
  <2>4. /\ UNCHANGED <<records, attached, outer>> /\ call'.op = "none"
        /\ \A w \in pending' : w.id \in DOMAIN hs /\ w.parent = hs[w.id].parent /\ w.kind = "promote"
    BY <2>1, PublishesFrame
  <2>5. \A w \in pending' : w.id = a /\ w.parent = task.subject /\ w.kind = "promote"
    BY <2>2, <2>4
  <2>6. \A w \in pending' : w.id \in Range(ids) /\ w.parent \notin Range(ids) /\ w.kind = "promote" /\ w.parent \in outer
    BY <1>1, <2>3, <2>5
  <2>7. Len(ids) > 0 /\ Range(ids) \subseteq Fresh
    BY <2>3
  <2> QED BY <1>0, <1>1, <2>3, <2>4, <2>6, <2>7, AllotsService
<1>3. ASSUME NEW a \in Fresh, CommandFails(<<a>>) PROVE ServiceInv'
  <2>1. <<a>> \in Seq(Ids) /\ Range(<<a>>) \subseteq Fresh
    BY OneRow
  <2> QED BY <1>0, <1>1, <1>3, <2>1, CommandFailsService
<1> QED BY <1>2, <1>3 DEF PromoteParent

\* What branch publishes.
LEMMA BranchFrame ==
    ASSUME NEW p, NEW S, NEW kind, Branch(p, S, kind)
    PROVE  /\ UNCHANGED <<records, attached, outer>> /\ call'.op = "none"
           /\ \A w \in pending' : w.id \in S /\ w.parent = p /\ w.kind = kind
<1> DEFINE hs == [x \in S |-> [depth |-> 30, parent |-> p, lower |-> x]]
<1>1. Publishes(hs, kind)
  BY DEF Branch
<1>2. DOMAIN hs = S /\ \A x \in S : hs[x].parent = p
  OBVIOUS
<1> HIDE DEF hs
<1>3. /\ UNCHANGED <<records, attached, outer>> /\ call'.op = "none"
      /\ \A w \in pending' : w.id \in DOMAIN hs /\ w.parent = hs[w.id].parent /\ w.kind = kind
  BY <1>1, PublishesFrame
<1> QED BY <1>2, <1>3

LEMMA BranchService ==
    ASSUME AllInv, LostHoldsNothing', BranchParent
    PROVE  ServiceInv'
<1> DEFINE saved == task.rows
<1>0. Idle /\ task.step = "infer" /\ task.phase = "branch"
  BY DEF BranchParent, At
<1>1. /\ pending = {} /\ saved \in Seq(Ids) /\ Range(saved) \subseteq Fresh /\ IsInjective(saved)
      /\ task.pos = 0 /\ task.subject \in outer /\ task.subject \notin Fresh /\ task \in Task /\ ~task.failed
  BY <1>0, InferFacts
<1>2. CASE saved = <<>> /\ Refused /\ Goto("release")
  BY <1>0, <1>2, RestsIf, AnsweredService DEF Refused
<1>3. CASE saved # <<>> /\ Branch(task.subject, Range(saved), "branch") /\ Goto("register")
  <2>1. Allots(saved)
    <3>1. [task EXCEPT !.step = "register"] = [task EXCEPT !.rows = task.rows, !.pos = 0, !.step = "register"]
      BY <1>1 DEF Task
    <3> QED BY <1>3, <3>1 DEF Goto, Allots
  <2>2. Len(saved) > 0
    BY <1>1, <1>3
  <2>3. /\ UNCHANGED <<records, attached, outer>> /\ call'.op = "none"
        /\ \A w \in pending' : w.id \in Range(saved) /\ w.parent = task.subject /\ w.kind = "branch"
    BY <1>3, BranchFrame
  <2>4. \A w \in pending' : w.id \in Range(saved) /\ w.parent \notin Range(saved) /\ w.kind = "branch" /\ w.parent \in outer
    BY <1>1, <2>3
  <2> QED BY <1>0, <1>1, <2>1, <2>2, <2>3, <2>4, AllotsService
<1>4. CASE \E n \in 1..Len(saved) - 1 : Branch(task.subject, Range(SubSeq(saved, 1, n)), "orphan") /\ Fails
  <2>1. PICK n \in 1..Len(saved) - 1 : Branch(task.subject, Range(SubSeq(saved, 1, n)), "orphan") /\ Fails
    BY <1>4
  <2>2. Range(SubSeq(saved, 1, n)) \subseteq Range(saved)
    <3>1. Len(saved) \in Nat /\ DOMAIN saved = 1..Len(saved)
      BY <1>1
    <3>2. DOMAIN SubSeq(saved, 1, n) \subseteq 1..n /\ \A i \in DOMAIN SubSeq(saved, 1, n) : SubSeq(saved, 1, n)[i] = saved[i]
      BY <1>1, <2>1, <3>1
    <3> QED BY <2>1, <3>1, <3>2 DEF Range
  <2>3. /\ UNCHANGED <<records, attached, outer>> /\ call'.op = "none"
        /\ \A w \in pending' : w.id \in Range(saved)
    BY <2>1, <2>2, BranchFrame
  <2>4. Becomes(Raised(saved))
    BY <2>1 DEF Fails
  <2> QED BY <1>0, <1>1, <2>3, <2>4, FailsFresh
<1>5. CASE CommandFails(saved)
  BY <1>0, <1>1, <1>5, CommandFailsService
<1> QED BY <1>2, <1>3, <1>4, <1>5 DEF BranchParent

LEMMA VectorsService ==
    ASSUME AllInv, LostHoldsNothing', ReadVectors
    PROVE  ServiceInv'
<1>0. Idle /\ task.step = "infer"
  BY DEF ReadVectors, At
<1>1. pending = {}
  BY <1>0, InferFacts
<1>2. CASE Refused /\ Goto("release")
  BY <1>0, <1>2, RestsIf, AnsweredService DEF Refused
<1>3. CASE CommandFails(<<>>)
  BY <1>0, <1>1, <1>3, EmptyRows, CommandFailsService
<1> QED BY <1>2, <1>3 DEF ReadVectors

\* The lease ends, and with it what was done under it.
LEMMA EndLeaseService ==
    ASSUME AllInv, LostHoldsNothing', EndLease, expired' = expired
    PROVE  ServiceInv'
<1> DEFINE next == IF task.failed THEN (IF task.pos > 0 THEN "undo" ELSE "finish")
                   ELSE IF task.phase = "promotion" THEN "memo" ELSE "finish"
<1>0. Idle /\ task.step = "release" /\ Release /\ Goto(next)
  BY DEF EndLease, At
<1>1. /\ ServiceTyped /\ Steering /\ IInv /\ attached /\ task \in Task /\ Unwinding
      /\ call.op = "none"
  BY <1>0, HandlerFacts DEF ServiceTyped
<1>2. next \in {"undo", "finish", "memo"} /\ next \in Steps
  BY DEF Steps
<1>3. /\ next = "undo" => task.failed /\ task.pos > 0
      /\ next = "memo" => ~task.failed /\ task.phase = "promotion"
      /\ next = "finish" => ~task.failed \/ task.pos = 0
  <2>1. task.pos \in Nat
    BY <1>1, TaskFacts
  <2> QED BY <2>1
<1> HIDE DEF next
<1>4. /\ task' \in Task /\ task'.req = task.req /\ task'.step = next /\ task'.phase = task.phase
      /\ task'.rows = task.rows /\ task'.pos = task.pos /\ task'.failed = task.failed
      /\ UNCHANGED <<busy, backoff, scheduled, replied>>
  BY <1>0, <1>1, <1>2 DEF Goto, Becomes, Task
<1>5. /\ outer' = {} /\ call'.op = "none" /\ attached' /\ UNCHANGED <<pending, held, ready>>
      /\ known' = known /\ \A x \in known : records'[x].refcount = records[x].refcount
  <2>1. records \in [known -> Record] /\ records' = Unpin(records, outer)
    BY <1>0, <1>1 DEF Release, IInv, TypeOK
  <2>2. LinksKept(records, records')
    BY <2>1, UnpinEffect
  <2>3. known' = known /\ \A x \in known : records'[x].refcount = records[x].refcount
    BY <2>1, <2>2, UnpinEffect DEF LinksKept, SameLinks, known
  <2> QED BY <1>0, <1>1, <2>3 DEF Release, workerVars
<1>6. pending # {} => next = "undo"
  <2>1. task.pos = 0 \/ ~task.failed => pending = {}
    <3>1. DOMAIN task.rows = 1..Len(task.rows) /\ Len(task.rows) \in Nat
      BY <1>1, TaskFacts
    <3> QED BY <1>0, <1>1, <3>1 DEF Unwinding
  <2> QED BY <1>2, <1>3, <2>1
<1>7. ServiceTyped' /\ Steering' /\ Waiting'
  BY <1>0, <1>1, <1>2, <1>3, <1>4, <1>5 DEF ServiceTyped, Steering, Serves, Waiting
<1>8. NothingOpen'
  BY <1>2, <1>4, <1>5, <1>6 DEF NothingOpen, Unleased
<1>9. UnderLease' /\ BranchesFrom30' /\ InOrder' /\ AtRow'
  BY <1>2, <1>4 DEF UnderLease, BranchesFrom30, InOrder, AtRow
<1>10. Unwinding'
  <2>1. \A i \in DOMAIN task.rows : task'.rows[i] = task.rows[i]
    BY <1>4
  <2>2. ASSUME task.failed, ready, NEW i \in DOMAIN task.rows, i > task.pos
        PROVE  task'.rows[i] \notin DOMAIN held' /\ (task'.rows[i] \in known' => task'.rows[i] \in expired')
    BY <1>1, <1>4, <1>5, <2>2 DEF Unwinding, Gone
  <2>3. task.failed => \A id \in Range(task.rows) \cap known : records[id].refcount = 0
    BY <1>1 DEF Unwinding
  <2>4. task.failed => \A w \in pending : \E i \in DOMAIN task.rows : i <= task.pos /\ w.id = task.rows[i]
    BY <1>1 DEF Unwinding
  <2> QED BY <1>2, <1>3, <1>4, <1>5, <2>2, <2>3, <2>4 DEF Unwinding, Gone
<1> QED BY <1>7, <1>8, <1>9, <1>10 DEF ServiceInv

\* The ids of a reply that waits for a registration.
LEMMA RowFacts ==
    ASSUME AllInv, Idle, task.step \in {"register", "registering"}
    PROVE  /\ ServiceTyped /\ Steering /\ IInv /\ attached /\ task \in Task /\ ~task.failed
           /\ task.rows \in Seq(Ids) /\ Len(task.rows) \in Nat /\ DOMAIN task.rows = 1..Len(task.rows)
           /\ task.pos \in Nat /\ task.pos < Len(task.rows)
           /\ IsInjective(task.rows) /\ outer \cap Range(task.rows) = {} /\ OnlyLastRefers
           /\ \A w \in pending : RowWaits(w)
           /\ \A i \in 1..Len(task.rows) : i > task.pos + 1 => task.rows[i] \notin known
           /\ task.step = "register" => task.rows[task.pos + 1] \notin known
           /\ task.step = "registering" /\ ~call.ok => task.rows[task.pos + 1] \notin known
           /\ task.step = "registering" /\ call.ok => task.rows[task.pos + 1] \notin PendingIds
           /\ task.phase = "promotion" => Len(task.rows) = 1
<1>1. /\ ServiceTyped /\ Steering /\ IInv /\ attached /\ InOrder /\ AtRow /\ call.op = "none" /\ ~Saving
      /\ call \in Call
  BY HandlerFacts DEF IInv, TypeOK
<1>2. /\ task.rows \in Seq(Ids) /\ Len(task.rows) \in Nat /\ DOMAIN task.rows = 1..Len(task.rows)
      /\ task.pos \in Nat /\ task.failed \in BOOLEAN /\ task \in Task
  BY <1>1, TaskFacts DEF ServiceTyped
<1>3. ~task.failed
  BY <1>1 DEF Steering
<1>4. /\ task.step = "registering" /\ ~call.ok => task.rows[task.pos + 1] \notin known
      /\ task.step = "registering" /\ call.ok => task.rows[task.pos + 1] \notin PendingIds
  BY <1>1 DEF AtRow
<1>5. /\ task.pos < Len(task.rows) /\ IsInjective(task.rows)
      /\ outer \cap Range(task.rows) = {} /\ OnlyLastRefers
      /\ \A w \in pending : RowWaits(w)
      /\ \A i \in 1..Len(task.rows) : i > task.pos + 1 => task.rows[i] \notin known
      /\ task.step = "register" => task.rows[task.pos + 1] \notin known
      /\ task.phase = "promotion" => Len(task.rows) = 1
  BY <1>1, <1>2 DEF InOrder
<1> QED BY <1>1, <1>2, <1>3, <1>4, <1>5

\* A row is registered with what its parent is: it refers to the parent, or
\* to what the parent refers to.
LEMMA RowRefers ==
    ASSUME NEW w, NEW q, NEW b, NEW S, None \notin S, Refs(RowFor(w, q, b)) \cap S # {}
    PROVE  /\ RowFor(w, q, b).id = w.id
           /\ w.parent \in S \/ (w.parent \in known /\ Refs(records[w.parent]) \cap S # {})
<1> DEFINE r == RowFor(w, q, b)
<1>1. r.id = w.id /\ r.parent = w.parent
  BY DEF RowFor
<1>2. r.contextParent \in {w.parent, None} \/ (w.parent \in known /\ r.contextParent = records[w.parent].contextParent)
  BY DEF RowFor
<1> HIDE DEF r
<1> QED BY <1>1, <1>2 DEF Refs, r

LEMMA RegisterService ==
    ASSUME AllInv, LostHoldsNothing', RegisterNext
    PROVE  ServiceInv'
<1>0. Idle /\ task.step = "register"
  BY DEF RegisterNext, At
<1>a. PICK w \in pending :
        w.id = task.rows[task.pos + 1] /\ \E q, b : CallRegister(RowFor(w, q, b))
  BY DEF RegisterNext, Register
<1>1. PICK q, b : CallRegister(RowFor(w, q, b))
  BY <1>a
<1>2. /\ ServiceTyped /\ Steering /\ IInv /\ attached /\ task \in Task /\ ~task.failed
      /\ task.rows \in Seq(Ids) /\ Len(task.rows) \in Nat /\ DOMAIN task.rows = 1..Len(task.rows)
      /\ task.pos \in Nat /\ task.pos < Len(task.rows)
      /\ IsInjective(task.rows) /\ outer \cap Range(task.rows) = {} /\ OnlyLastRefers
      /\ \A v \in pending : RowWaits(v)
      /\ \A i \in 1..Len(task.rows) : i > task.pos + 1 => task.rows[i] \notin known
      /\ task.rows[task.pos + 1] \notin known
      /\ task.phase = "promotion" => Len(task.rows) = 1
  BY <1>0, RowFacts
<1>3. /\ call'.op = "register" /\ call'.row = RowFor(w, q, b)
      /\ UNCHANGED <<attached, records, outer, pending>> /\ known' = known
  BY <1>1 DEF CallRegister, Started, Ended, storeVars, clientVars, known
<1>4. /\ task' \in Task /\ task'.req = task.req /\ task'.step = "registering" /\ task'.phase = task.phase
      /\ task'.rows = task.rows /\ task'.pos = task.pos /\ task'.failed = FALSE
      /\ UNCHANGED <<busy, backoff, scheduled, replied>>
  BY <1>2 DEF RegisterNext, Goto, Becomes, Task, Steps
<1>5. ServiceTyped' /\ Steering' /\ Waiting'
  BY <1>0, <1>2, <1>3, <1>4 DEF ServiceTyped, Steering, Serves, Waiting
<1>6. InOrder'
  <2>1. OnlyLastRefers'
    BY <1>2, <1>3, <1>4 DEF OnlyLastRefers, LastId
  <2>2. \A v \in pending' : RowWaits(v)'
    BY <1>2, <1>3, <1>4 DEF RowWaits, LastId
  <2> QED BY <1>2, <1>3, <1>4, <2>1, <2>2 DEF InOrder
<1>7. AtRow'
  <2>1. RowFor(w, q, b).id = w.id
    BY DEF RowFor
  <2>2. ASSUME Refs(RowFor(w, q, b)) \cap Range(task.rows) # {} PROVE w.id = LastId
    <3>1. None \notin Range(task.rows)
      BY <1>2, IdsAssumption, RowsAreIds
    <3>2. w.parent \in Range(task.rows) \/ (w.parent \in known /\ Refs(records[w.parent]) \cap Range(task.rows) # {})
      BY <2>2, <3>1, RowRefers
    <3>3. LastId \in Range(task.rows)
      <4>1. Len(task.rows) \in 1..Len(task.rows)
        BY <1>2
      <4> QED BY <1>2, <4>1, RowsAreIds DEF LastId
    <3>4. w.parent \in Range(task.rows)
      BY <1>2, <3>2, <3>3 DEF OnlyLastRefers
    <3>5. RowWaits(w)
      BY <1>2
    <3> QED BY <3>4, <3>5 DEF RowWaits
  <2>3. LastId' = LastId
    BY <1>4 DEF LastId
  <2> QED BY <1>a, <1>2, <1>3, <1>4, <2>1, <2>2, <2>3 DEF AtRow
<1>8. NothingOpen' /\ UnderLease' /\ BranchesFrom30' /\ Unwinding'
  BY <1>4 DEF NothingOpen, Unleased, UnderLease, BranchesFrom30, Unwinding
<1> QED BY <1>5, <1>6, <1>7, <1>8 DEF ServiceInv

\* A failure while rows are registered: the last row is never known then, so
\* nobody refers to those that are.
LEMMA RowFailsService ==
    ASSUME AllInv, LostHoldsNothing', Idle, task.step \in {"register", "registering"}, Rests, Fails,
           task.rows[task.pos + 1] \notin known
    PROVE  ServiceInv'
<1>1. /\ ServiceTyped /\ Steering /\ IInv /\ attached
      /\ task.rows \in Seq(Ids) /\ Len(task.rows) \in Nat /\ DOMAIN task.rows = 1..Len(task.rows)
      /\ task.pos \in Nat /\ task.pos < Len(task.rows) /\ OnlyLastRefers
      /\ \A w \in pending : RowWaits(w)
      /\ \A i \in 1..Len(task.rows) : i > task.pos + 1 => task.rows[i] \notin known
      /\ task.phase = "promotion" => Len(task.rows) = 1
  BY RowFacts
<1>2. LastId \notin known
  <2>1. Len(task.rows) = task.pos + 1 \/ Len(task.rows) > task.pos + 1
    BY <1>1
  <2>2. Len(task.rows) \in 1..Len(task.rows)
    BY <1>1
  <2> QED BY <1>1, <2>1, <2>2 DEF LastId
<1>3. \A x \in Range(task.rows) \cap known : records[x].refcount = 0
  <2> TAKE x \in Range(task.rows) \cap known
  <2>1. {c \in known : x \in Refs(records[c])} = {}
    BY <1>1, <1>2 DEF OnlyLastRefers
  <2>2. records[x].refcount = Cardinality({c \in known : x \in Refs(records[c])})
    BY <1>1 DEF IInv, RegistryInv, RefcountsExact, Refs
  <2> QED BY <2>1, <2>2, FS_EmptySet
<1>4. \A w \in pending : w.id \in Range(task.rows)
  BY <1>1, RowsAreIds DEF RowWaits
<1>5. outer # {} /\ task.phase \notin {"branch", "vectors"} => Range(task.rows) \cap known = {}
  <2>1. ASSUME task.phase = "promotion", NEW x \in Range(task.rows) PROVE x \notin known
    <3>1. PICK i \in 1..Len(task.rows) : x = task.rows[i]
      BY <1>1, RowsAreIds
    <3>2. i = task.pos + 1
      BY <1>1, <2>1
    <3> QED BY <3>1, <3>2
  <2>2. outer # {} => task.phase \in {"promotion", "branch"}
    BY <1>1 DEF Steering
  <2> QED BY <2>1, <2>2
<1>6. /\ task' = Raised(task.rows) /\ busy' = busy /\ backoff' \in BOOLEAN /\ scheduled' \in BOOLEAN
      /\ replied' \subseteq Ids /\ known' = known /\ UNCHANGED <<records, outer, pending>> /\ attached' /\ call'.op = "none"
  BY <1>1 DEF Fails, Becomes, Rests, ServiceTyped, known
<1>7. task.step # "free"
  OBVIOUS
<1> QED BY <1>1, <1>3, <1>4, <1>5, <1>6, <1>7, RaisesService

LEMMA RowService ==
    ASSUME AllInv, LostHoldsNothing', ReplyRefused \/ RowRegistered
    PROVE  ServiceInv'
<1>0. Idle /\ task.step \in {"register", "registering"} /\ Rests
  <2>1. Idle /\ task.step \in {"register", "registering"} /\ UNCHANGED storeState
    BY DEF ReplyRefused, RowRegistered, At
  <2> QED BY <2>1, RestsIf
<1>1. /\ ServiceTyped /\ Steering /\ IInv /\ attached /\ task \in Task /\ ~task.failed
      /\ task.rows \in Seq(Ids) /\ Len(task.rows) \in Nat /\ DOMAIN task.rows = 1..Len(task.rows)
      /\ task.pos \in Nat /\ task.pos < Len(task.rows)
      /\ IsInjective(task.rows) /\ outer \cap Range(task.rows) = {} /\ OnlyLastRefers
      /\ \A w \in pending : RowWaits(w)
      /\ \A i \in 1..Len(task.rows) : i > task.pos + 1 => task.rows[i] \notin known
      /\ task.step = "register" => task.rows[task.pos + 1] \notin known
      /\ task.step = "registering" /\ ~call.ok => task.rows[task.pos + 1] \notin known
      /\ task.step = "registering" /\ call.ok => task.rows[task.pos + 1] \notin PendingIds
      /\ task.phase = "promotion" => Len(task.rows) = 1
  BY <1>0, RowFacts
<1>2. CASE ReplyRefused
  BY <1>0, <1>1, <1>2, RowFailsService DEF ReplyRefused, At
<1>3. CASE RowRegistered /\ ~call.ok
  BY <1>0, <1>1, <1>3, RowFailsService DEF RowRegistered, At
<1>4. CASE RowRegistered /\ call.ok
  <2> DEFINE next == IF task.pos + 1 < Len(task.rows) THEN "register"
                     ELSE IF task.req.kind = "create" THEN "finish" ELSE "release"
  <2>1. /\ task' = [task EXCEPT !.pos = task.pos + 1, !.step = next]
        /\ UNCHANGED <<busy, backoff, scheduled, replied>> /\ task.step = "registering"
    BY <1>4 DEF RowRegistered, Becomes, At
  <2>2. /\ next \in {"register", "finish", "release"}
        /\ next = "register" <=> task.pos + 1 < Len(task.rows)
        /\ next = "finish" => task.req.kind = "create"
        /\ next = "release" => task.req.kind # "create"
    OBVIOUS
  <2> HIDE DEF next
  <2>3. /\ task' \in Task /\ task'.req = task.req /\ task'.step = next /\ task'.phase = task.phase
        /\ task'.rows = task.rows /\ task'.pos = task.pos + 1 /\ task'.failed = FALSE
    <3>1. next \in Steps
      BY <2>2 DEF Steps
    <3>2. task \in Task /\ task.pos + 1 \in Nat /\ ~task.failed
      BY <1>1
    <3>3. task' = [task EXCEPT !.pos = task.pos + 1, !.step = next]
      BY <2>1
    <3> QED BY <3>1, <3>2, <3>3 DEF Task
  <2>4. \A w \in pending : \E i \in 1..Len(task.rows) : i > task.pos + 1 /\ w.id = task.rows[i]
    <3> TAKE w \in pending
    <3>1. PICK i \in 1..Len(task.rows) : i > task.pos /\ w.id = task.rows[i]
      BY <1>1 DEF RowWaits
    <3>2. w.id # task.rows[task.pos + 1]
      BY <1>1, <1>4, <2>1 DEF PendingIds
    <3>3. i > task.pos + 1
      BY <1>1, <3>1, <3>2
    <3> QED BY <3>1, <3>3
  <2>5. next # "register" => pending = {}
    BY <1>1, <2>2, <2>4
  <2>6. next = "finish" => outer = {}
    BY <1>1, <2>1, <2>2 DEF Steering, Serves
  <2>7. attached' /\ UNCHANGED <<outer, pending, records>> /\ known' = known /\ call'.op = "none"
    BY <1>0, <1>1 DEF Rests, known
  <2>8. ServiceTyped' /\ Steering' /\ Waiting'
    <3>1. task.pos + 1 <= Len(task.rows)
      BY <1>1
    <3>2. ServiceTyped'
      BY <1>1, <2>1, <2>3, <3>1 DEF ServiceTyped
    <3>3. Steering' /\ Waiting'
      BY <1>1, <2>1, <2>2, <2>3, <2>7 DEF Steering, Serves, Waiting
    <3> QED BY <3>2, <3>3
  <2>9. NothingOpen' /\ UnderLease' /\ BranchesFrom30'
    BY <2>2, <2>3, <2>5, <2>6, <2>7 DEF NothingOpen, Unleased, UnderLease, BranchesFrom30
  <2>10. InOrder' /\ AtRow'
    <3>1. OnlyLastRefers'
      BY <1>1, <2>3, <2>7 DEF OnlyLastRefers, LastId
    <3>2. \A w \in pending' : RowWaits(w)'
      <4> TAKE w \in pending'
      <4>1. RowWaits(w) /\ \E i \in 1..Len(task.rows) : i > task.pos + 1 /\ w.id = task.rows[i]
        BY <1>1, <2>4, <2>7
      <4> QED BY <1>1, <2>3, <2>7, <4>1 DEF RowWaits, LastId
    <3>3. next = "register" => task.rows[task.pos + 1 + 1] \notin known
      BY <1>1, <2>2
    <3>4. \A i \in 1..Len(task.rows) : i > task.pos + 1 + 1 => task.rows[i] \notin known
      BY <1>1
    <3> QED BY <1>1, <2>2, <2>3, <2>7, <3>1, <3>2, <3>3, <3>4 DEF InOrder, AtRow
  <2>11. Unwinding'
    BY <2>2, <2>3, <2>5, <2>7 DEF Unwinding
  <2> QED BY <2>8, <2>9, <2>10, <2>11 DEF ServiceInv
<1> QED BY <1>2, <1>3, <1>4

----------------------------------------------------------------------------
(* The rollback.                                                           *)

LEMMA UndoFacts ==
    ASSUME AllInv, Idle, task.step \in {"undo", "undoing"}
    PROVE  /\ ServiceTyped /\ Steering /\ IInv /\ LostHoldsNothing /\ attached /\ task \in Task /\ task.failed = TRUE
           /\ DOMAIN task.rows = 1..Len(task.rows) /\ Len(task.rows) \in Nat
           /\ task.pos \in Nat /\ task.pos <= Len(task.rows)
           /\ \A i \in DOMAIN task.rows : task.rows[i] \in Range(task.rows) /\ task.rows[i] \in Ids
           /\ \A id \in Range(task.rows) \cap known : records[id].refcount = 0
           /\ ready => \A i \in DOMAIN task.rows : i > task.pos => Gone(task.rows[i])
           /\ \A w \in pending : \E i \in DOMAIN task.rows :
                 i <= task.pos /\ w.id = task.rows[i] /\ (task.step = "undoing" => i # task.pos)
           /\ outer # {} => Range(task.rows) \cap known = {}
           /\ task.step = "undoing" => task.pos > 0 /\ (ready => Gone(task.rows[task.pos]))
           /\ call.op = "none" /\ PendingIds \cap known = {}
<1>1. /\ ServiceTyped /\ Steering /\ IInv /\ LostHoldsNothing /\ attached /\ Unwinding /\ call.op = "none"
      /\ PendingIds \cap known = {}
  BY HandlerFacts
<1>2. /\ DOMAIN task.rows = 1..Len(task.rows) /\ Len(task.rows) \in Nat
      /\ task.pos \in Nat /\ task.pos <= Len(task.rows) /\ task.failed \in BOOLEAN /\ task \in Task
      /\ \A i \in DOMAIN task.rows : task.rows[i] \in Range(task.rows) /\ task.rows[i] \in Ids
  BY <1>1, TaskFacts DEF ServiceTyped
<1>3. task.failed = TRUE
  BY <1>1, <1>2 DEF Steering
<1> QED BY <1>1, <1>2, <1>3 DEF Unwinding

\* A rollback goes on, one id less to undo, or ends the lease or the handler.
LEMMA UnwindsService ==
    ASSUME AllInv, Idle, LostHoldsNothing', task.step \in {"undo", "undoing"},
           UNCHANGED <<records, attached, outer, busy, backoff, scheduled, replied>>, call'.op = "none",
           NEW s \in {"undo", "release", "finish"}, NEW pos \in Nat, pos <= task.pos,
           task' = [task EXCEPT !.step = s, !.pos = pos],
           s = "finish" => pos = 0 /\ outer = {},
           \A w \in pending' : \E i \in DOMAIN task.rows : i <= pos /\ w.id = task.rows[i],
           ready' => \A i \in DOMAIN task.rows : i > pos =>
               task.rows[i] \notin DOMAIN held' /\ (task.rows[i] \in known => task.rows[i] \in expired')
    PROVE  ServiceInv'
<1>1. /\ ServiceTyped /\ Steering /\ attached /\ task \in Task /\ task.failed = TRUE
      /\ DOMAIN task.rows = 1..Len(task.rows) /\ Len(task.rows) \in Nat
      /\ task.pos \in Nat /\ task.pos <= Len(task.rows)
      /\ \A id \in Range(task.rows) \cap known : records[id].refcount = 0
      /\ outer # {} => Range(task.rows) \cap known = {}
  BY UndoFacts
<1>2. /\ task' \in Task /\ task'.req = task.req /\ task'.step = s /\ task'.phase = task.phase
      /\ task'.rows = task.rows /\ task'.pos = pos /\ task'.failed = TRUE
  <2>1. s \in Steps
    BY DEF Steps
  <2> QED BY <1>1, <2>1 DEF Task
<1>3. ServiceTyped'
  <2>1. pos <= Len(task.rows)
    BY <1>1
  <2> QED BY <1>1, <1>2, <2>1 DEF ServiceTyped
<1>4. Steering' /\ Waiting'
  BY <1>1, <1>2 DEF Steering, Serves, Waiting
<1>5. NothingOpen'
  <2>1. s = "finish" => pending' = {}
    BY <1>1
  <2> QED BY <1>2, <2>1 DEF NothingOpen, Unleased
<1>6. UnderLease' /\ BranchesFrom30' /\ InOrder' /\ AtRow'
  BY <1>2 DEF UnderLease, BranchesFrom30, InOrder, AtRow
<1>7. Unwinding'
  <2>1. known' = known
    BY DEF known
  <2> QED BY <1>1, <1>2, <2>1 DEF Unwinding, Gone
<1> QED BY <1>3, <1>4, <1>5, <1>6, <1>7 DEF ServiceInv

\* What the store will not delete has expired: it is in no lease, and nobody
\* refers to it.
LEMMA UndeletedIsExpired ==
    ASSUME AllInv, Idle, task.step = "undo", task.pos > 0, ~Deletable(task.rows[task.pos]),
           task.rows[task.pos] \in known
    PROVE  outer = {} /\ task.rows[task.pos] \in expired /\ ~Gettable(task.rows[task.pos])
<1> DEFINE id == task.rows[task.pos]
<1>1. /\ IInv /\ DOMAIN task.rows = 1..Len(task.rows) /\ Len(task.rows) \in Nat
      /\ task.pos \in Nat /\ task.pos <= Len(task.rows)
      /\ \A i \in DOMAIN task.rows : task.rows[i] \in Range(task.rows)
      /\ \A x \in Range(task.rows) \cap known : records[x].refcount = 0
      /\ outer # {} => Range(task.rows) \cap known = {}
  BY UndoFacts
<1>2. id \in Range(task.rows) /\ records[id].refcount = 0 /\ outer = {}
  BY <1>1
<1>3. call.pinned = {}
  BY HandlerFacts
<1>4. records[id].leases = 0
  BY <1>1, <1>2, <1>3 DEF IInv, RegistryInv, LeasesExact
<1> QED BY <1>2, <1>4 DEF Deletable, Gettable

LEMMA UndoService ==
    ASSUME AllInv, LostHoldsNothing', Undo, expired' = expired
    PROVE  ServiceInv'
<1> DEFINE id == task.rows[task.pos]
<1>0. Idle /\ task.step = "undo" /\ task.pos > 0
  BY DEF Undo, At
<1>1. /\ ServiceTyped /\ Steering /\ IInv /\ LostHoldsNothing /\ attached /\ task \in Task /\ task.failed = TRUE
      /\ DOMAIN task.rows = 1..Len(task.rows) /\ Len(task.rows) \in Nat
      /\ task.pos \in Nat /\ task.pos <= Len(task.rows)
      /\ \A i \in DOMAIN task.rows : task.rows[i] \in Range(task.rows) /\ task.rows[i] \in Ids
      /\ \A x \in Range(task.rows) \cap known : records[x].refcount = 0
      /\ ready => \A i \in DOMAIN task.rows : i > task.pos => Gone(task.rows[i])
      /\ \A w \in pending : \E i \in DOMAIN task.rows : i <= task.pos /\ w.id = task.rows[i]
      /\ outer # {} => Range(task.rows) \cap known = {}
      /\ call.op = "none" /\ PendingIds \cap known = {}
  BY <1>0, UndoFacts
<1>2. CASE Deletable(id)
  <2>1. CallDelete(id) /\ Goto("undoing")
    BY <1>2 DEF Undo
  <2>2. /\ call'.op = "delete" /\ call'.target = id /\ call'.pc = "drop"
        /\ UNCHANGED <<attached, records, held, ready, outer, pending>> /\ known' = known
    BY <2>1 DEF CallDelete, Started, Ended, workerVars, clientVars, known
  <2>3. /\ task' \in Task /\ task'.req = task.req /\ task'.step = "undoing" /\ task'.phase = task.phase
        /\ task'.rows = task.rows /\ task'.pos = task.pos /\ task'.failed = TRUE
        /\ UNCHANGED <<busy, backoff, scheduled, replied>>
    BY <1>1, <2>1 DEF Goto, Becomes, Task, Steps
  <2>4. ServiceTyped' /\ Steering' /\ Waiting'
    BY <1>1, <2>2, <2>3 DEF ServiceTyped, Steering, Serves, Waiting
  <2>5. NothingOpen' /\ UnderLease' /\ BranchesFrom30' /\ InOrder' /\ AtRow'
    BY <2>3 DEF NothingOpen, Unleased, UnderLease, BranchesFrom30, InOrder, AtRow
  <2>6. Unwinding'
    <3>1. id \in known
      BY <1>2 DEF Deletable, Gettable
    <3>2. \A w \in pending : \E i \in DOMAIN task.rows : i <= task.pos /\ w.id = task.rows[i] /\ i # task.pos
      BY <1>1, <3>1 DEF PendingIds
    <3> QED BY <1>0, <1>1, <2>2, <2>3, <3>2 DEF Unwinding, Gone
  <2> QED BY <2>4, <2>5, <2>6 DEF ServiceInv
<1>3. CASE ~Deletable(id)
  <2>1. /\ GiveUp(id) \/ CommandLost \/ (~ready /\ UNCHANGED storeState)
        /\ task' = [task EXCEPT !.pos = task.pos - 1] /\ UNCHANGED <<busy, backoff, scheduled, replied>>
    BY <1>3 DEF Undo, Becomes
  <2>2. task' = [task EXCEPT !.step = "undo", !.pos = task.pos - 1]
    BY <1>0, <1>1, <2>1 DEF Task
  <2>3. task.pos - 1 \in Nat /\ task.pos - 1 <= task.pos
    BY <1>0, <1>1
  <2>4. id \in known => id \in expired
    BY <1>0, <1>3, UndeletedIsExpired
  <2>5. CASE GiveUp(id)
    <3>1. /\ UNCHANGED <<records, attached, outer, ready>> /\ call'.op = "none"
          /\ held' = Without(held, id) /\ pending' = {w \in pending : w.id # id}
      BY <2>5, EndedVictim DEF GiveUp, NativeDrop, Returns, storeVars
    <3>2. DOMAIN held' = DOMAIN held \ {id}
      BY <3>1 DEF Without, Restrict
    <3>3. \A w \in pending' : \E i \in DOMAIN task.rows : i <= task.pos - 1 /\ w.id = task.rows[i]
      <4> TAKE w \in pending'
      <4>1. PICK i \in DOMAIN task.rows : i <= task.pos /\ w.id = task.rows[i]
        BY <1>1, <3>1
      <4>2. i # task.pos
        BY <3>1, <4>1
      <4>3. i <= task.pos - 1
        BY <1>1, <4>1, <4>2
      <4> QED BY <4>1, <4>3
    <3>4. ready' => \A i \in DOMAIN task.rows : i > task.pos - 1 =>
               task.rows[i] \notin DOMAIN held' /\ (task.rows[i] \in known => task.rows[i] \in expired')
      <4> SUFFICES ASSUME ready, NEW i \in DOMAIN task.rows, i > task.pos - 1
                   PROVE  task.rows[i] \notin DOMAIN held' /\ (task.rows[i] \in known => task.rows[i] \in expired')
        BY <3>1
      <4>1. i = task.pos \/ i > task.pos
        BY <1>1
      <4> QED BY <1>1, <2>4, <3>2, <4>1 DEF Gone
    <3> QED BY <1>0, <2>1, <2>2, <2>3, <3>1, <3>3, <3>4, UnwindsService
  <2>6. CASE CommandLost
    <3>1. /\ UNCHANGED <<records, attached, outer>> /\ call'.op = "none" /\ pending' = {} /\ ready' = FALSE
      BY <2>6, EndedVictim DEF CommandLost, LoseWorker, storeVars
    <3> QED BY <1>0, <2>1, <2>2, <2>3, <3>1, UnwindsService
  <2>7. CASE ~ready /\ UNCHANGED storeState
    <3>1. /\ UNCHANGED <<records, attached, outer, ready>> /\ call'.op = "none" /\ pending' = {}
      BY <1>0, <1>1, <2>7, RestsIf DEF Rests, LostHoldsNothing
    <3> QED BY <1>0, <2>1, <2>2, <2>3, <2>7, <3>1, UnwindsService
  <2> QED BY <2>1, <2>5, <2>6, <2>7
<1> QED BY <1>2, <1>3

LEMMA UndoneService ==
    ASSUME AllInv, LostHoldsNothing', Undone \/ UndoDone, expired' = expired
    PROVE  ServiceInv'
<1>0. Idle /\ task.step \in {"undo", "undoing"} /\ Rests
  <2>1. Idle /\ task.step \in {"undo", "undoing"} /\ UNCHANGED storeState
    BY DEF Undone, UndoDone, At
  <2> QED BY <2>1, RestsIf
<1>1. /\ task \in Task /\ DOMAIN task.rows = 1..Len(task.rows) /\ Len(task.rows) \in Nat
      /\ task.pos \in Nat /\ task.pos <= Len(task.rows)
      /\ ready => \A i \in DOMAIN task.rows : i > task.pos => Gone(task.rows[i])
      /\ \A w \in pending : \E i \in DOMAIN task.rows :
            i <= task.pos /\ w.id = task.rows[i] /\ (task.step = "undoing" => i # task.pos)
      /\ task.step = "undoing" => task.pos > 0 /\ (ready => Gone(task.rows[task.pos]))
  BY <1>0, UndoFacts
<1>2. UNCHANGED <<records, attached, outer, held, ready, pending>> /\ call'.op = "none"
  BY <1>0 DEF Rests
<1>3. CASE Undone
  <2>1. /\ task' = [task EXCEPT !.step = "undo", !.pos = task.pos - 1] /\ task.step = "undoing"
        /\ UNCHANGED <<busy, backoff, scheduled, replied>>
    BY <1>3 DEF Undone, Becomes, At
  <2>2. task.pos - 1 \in Nat /\ task.pos - 1 <= task.pos
    BY <1>1, <2>1
  <2>3. \A w \in pending' : \E i \in DOMAIN task.rows : i <= task.pos - 1 /\ w.id = task.rows[i]
    <3> TAKE w \in pending'
    <3>1. PICK i \in DOMAIN task.rows : i <= task.pos /\ w.id = task.rows[i] /\ i # task.pos
      BY <1>1, <1>2, <2>1
    <3>2. i <= task.pos - 1
      BY <1>1, <3>1
    <3> QED BY <3>1, <3>2
  <2>4. ready' => \A i \in DOMAIN task.rows : i > task.pos - 1 =>
             task.rows[i] \notin DOMAIN held' /\ (task.rows[i] \in known => task.rows[i] \in expired')
    <3> SUFFICES ASSUME ready, NEW i \in DOMAIN task.rows, i > task.pos - 1
                 PROVE  task.rows[i] \notin DOMAIN held' /\ (task.rows[i] \in known => task.rows[i] \in expired')
      BY <1>2
    <3>1. i = task.pos \/ i > task.pos
      BY <1>1
    <3> QED BY <1>1, <1>2, <2>1, <3>1 DEF Gone
  <2> QED BY <1>0, <1>2, <2>1, <2>2, <2>3, <2>4, UnwindsService
<1>4. CASE UndoDone
  <2> DEFINE s == IF outer # {} THEN "release" ELSE "finish"
  <2>1. task.pos = 0 /\ Goto(s) /\ s \in {"undo", "release", "finish"} /\ (s = "finish" => outer = {})
    BY <1>4 DEF UndoDone
  <2> HIDE DEF s
  <2>2. task' = [task EXCEPT !.step = s, !.pos = 0] /\ UNCHANGED <<busy, backoff, scheduled, replied>>
    BY <1>1, <2>1 DEF Goto, Becomes, Task
  <2>3. \A w \in pending' : \E i \in DOMAIN task.rows : i <= 0 /\ w.id = task.rows[i]
    BY <1>1, <1>2, <2>1
  <2>4. ready' => \A i \in DOMAIN task.rows : i > 0 =>
             task.rows[i] \notin DOMAIN held' /\ (task.rows[i] \in known => task.rows[i] \in expired')
    BY <1>1, <1>2, <2>1 DEF Gone
  <2>5. 0 \in Nat /\ 0 <= task.pos
    BY <2>1
  <2> QED BY <1>0, <1>2, <2>1, <2>2, <2>3, <2>4, <2>5, UnwindsService
<1> QED BY <1>3, <1>4

LEMMA FinishService ==
    ASSUME AllInv, LostHoldsNothing', Finish
    PROVE  ServiceInv'
<1>0. Idle /\ task.step = "finish" /\ Rests
  <2>1. Idle /\ task.step = "finish" /\ UNCHANGED storeState
    BY DEF Finish, At
  <2> QED BY <2>1, RestsIf
<1>1. ServiceTyped /\ outer = {} /\ pending = {} /\ Range(task.rows) \subseteq Ids
  BY <1>0, HandlerFacts, TaskFacts DEF NothingOpen, Unleased
<1>2. /\ task' = Handler(NoRequest, "free") /\ busy' = FALSE /\ backoff' \in BOOLEAN /\ scheduled' \in BOOLEAN
      /\ replied' \subseteq Ids /\ outer' = {} /\ pending' = {} /\ call'.op = "none"
  BY <1>0, <1>1 DEF Finish, Reply, Free, ServiceTyped, Rests
<1> QED BY <1>2, BeginsService

----------------------------------------------------------------------------
(* Every step of the service is a step its store allows a caller.          *)

Uses == StoreStep \/ Client \/ Attach \/ WorkerDies \/ Crash \/ UNCHANGED storeState

LEMMA UsesStep ==
    ASSUME AllInv, Uses, Forgotten
    PROVE  [Next]_vars
<1>1. CASE StoreStep \/ Client \/ Attach \/ WorkerDies \/ Crash
  BY <1>1 DEF Next
<1>2. CASE UNCHANGED storeState
  <2>1. records' = records /\ disk' = disk
    BY <1>2 DEF storeState, storeVars, diskVars
  <2>2. expired \subseteq known \cup DOMAIN disk
    BY DEF AllInv, StoreInv, PromiseInv, MemoInv
  <2>3. expired' = expired
    BY <2>1, <2>2 DEF Forgotten, known
  <2> QED BY <1>2, <2>3 DEF storeState, vars, storeVars, workerVars, diskVars, clientVars
<1> QED BY <1>1, <1>2 DEF Uses

\* A TTL that has run out stays so while no record and no directory goes.
LEMMA StaysExpired ==
    ASSUME AllInv, Forgotten, known' = known, disk' = disk
    PROVE  expired' = expired
<1>1. expired \subseteq known \cup DOMAIN disk
  BY DEF AllInv, StoreInv, PromiseInv, MemoInv
<1> QED BY <1>1 DEF Forgotten, known

LEMMA LooksUpIsClient ==
    ASSUME AllInv, Idle, task.step \in Unleased \/ task.step \in {"restore", "restoring", "infer"}, NEW id, Get(id)
    PROVE  Client
<1>1. pending = {}
  BY HandlerFacts DEF NothingOpen, UnderLease
<1>2. id \in known
  BY DEF Get, Gettable
<1> QED BY <1>1, <1>2 DEF Client

LEMMA PlainIsClient ==
    ASSUME AllInv, \/ RefuseInBackoff \/ RestartFails \/ Expired \/ Undone \/ UndoDone \/ Finish
                   \/ ReplyRefused \/ RowRegistered \/ Restored \/ StartVectors \/ Deleted
    PROVE  Uses
BY DEF RefuseInBackoff, RestartFails, Expired, Undone, UndoDone, Finish, ReplyRefused, RowRegistered,
   Restored, StartVectors, Deleted, Uses

LEMMA LookUpIsClient ==
    ASSUME AllInv, Plan \/ Anchor \/ Metadata
    PROVE  Uses
<1>1. Idle /\ task.step \in {"decide", "anchor", "metadata"}
  BY DEF Plan, Anchor, Metadata, At
<1>2. (\E id : Get(id)) \/ UNCHANGED storeState
  BY DEF Plan, Anchor, Metadata
<1> QED BY <1>1, <1>2, LooksUpIsClient DEF Uses, Unleased

LEMMA ExpireIsClient ==
    ASSUME AllInv, Expire
    PROVE  Uses
<1>1. Idle /\ task.step = "expire" /\ CallExpire
  BY DEF Expire, At
<1>2. outer = {} /\ pending = {}
  BY <1>1, HandlerFacts DEF NothingOpen, Unleased
<1> QED BY <1>1, <1>2 DEF Client, Uses

LEMMA DeleteIsClient ==
    ASSUME AllInv, Delete
    PROVE  Uses
<1>1. Idle /\ task.step = "delete"
  BY DEF Delete, At
<1>2. outer = {} /\ pending = {}
  BY <1>1, HandlerFacts DEF NothingOpen, Unleased
<1>3. CASE Deletable(task.req.ref)
  <2>1. CallDelete(task.req.ref) /\ task.req.ref \in known
    BY <1>3 DEF Delete, Deletable, Gettable
  <2> QED BY <1>2, <2>1 DEF Client, Uses
<1>4. CASE ~Deletable(task.req.ref)
  <2>1. (\E id : Get(id)) \/ UNCHANGED storeState
    BY <1>4 DEF Delete
  <2> QED BY <1>1, <2>1, LooksUpIsClient DEF Uses, Unleased
<1> QED BY <1>3, <1>4

LEMMA MemoIsClient ==
    ASSUME AllInv, Ensure30 \/ MemoizeChild
    PROVE  Uses
<1>1. (\E p : ConsultMemo(p)) \/ (\E p, c : Memoize(p, c)) \/ UNCHANGED storeState
  BY DEF Ensure30, MemoizeChild
<1>2. ASSUME NEW p, ConsultMemo(p) PROVE p \in known
  BY <1>2 DEF ConsultMemo, Gettable
<1>3. ASSUME NEW p, NEW c, Memoize(p, c) PROVE p \in known /\ c \in known
  BY <1>3 DEF Memoize, Gettable
<1> QED BY <1>1, <1>2, <1>3 DEF Client, Uses

LEMMA LeaseIsClient ==
    ASSUME AllInv, OpenLease \/ Restore \/ EndLease
    PROVE  Uses
<1>1. Idle /\ task.step \in {"lease", "restore", "release"}
  BY DEF OpenLease, Restore, EndLease, At
<1>2. task.step # "release" => pending = {}
  BY <1>1, HandlerFacts DEF NothingOpen, Unleased, UnderLease
<1>3. CASE EndLease
  BY <1>3 DEF EndLease, Client, Uses
<1>4. CASE OpenLease
  <2>1. Lease(task.subject) \/ UNCHANGED storeState
    BY <1>4 DEF OpenLease
  <2>2. Lease(task.subject) => task.subject \in known
    BY DEF Lease, Gettable
  <2>3. task.step = "lease"
    BY <1>4 DEF OpenLease, At
  <2> QED BY <1>2, <2>1, <2>2, <2>3 DEF Client, Uses
<1>5. CASE Restore
  <2>1. Get(task.subject) \/ CallRestore(task.subject) \/ UNCHANGED storeState
    BY <1>5 DEF Restore
  <2>2. Get(task.subject) \/ CallRestore(task.subject) => task.subject \in known
    BY DEF Get, CallRestore, Gettable
  <2>3. task.step = "restore"
    BY <1>5 DEF Restore, At
  <2> QED BY <1>2, <2>1, <2>2, <2>3 DEF Client, Uses
<1> QED BY <1>3, <1>4, <1>5

LEMMA CommandIsClient ==
    ASSUME AllInv, CreateSnapshots \/ PromoteParent \/ BranchParent \/ ReadVectors
    PROVE  Uses
<1>1. ASSUME NEW ids, CommandFails(ids) PROVE Uses
  BY <1>1 DEF CommandFails, Refused, Client, Uses
<1>2. CASE CreateSnapshots
  <2>1. Idle /\ task.step = "create"
    BY <1>2 DEF CreateSnapshots, At
  <2>2. task.req.depths \subseteq Depth
    BY <2>1, HandlerFacts, RequestKinds DEF Steering, Serves
  <2>3. \/ \E a \in Fresh, depth \in Depth : Create(a, depth)
        \/ \E a, b \in Fresh : CreatePair(a, b)
        \/ \E ids : CommandFails(ids)
    BY <1>2, <2>2 DEF CreateSnapshots
  <2>4. ASSUME NEW a \in Fresh, NEW depth \in Depth, Create(a, depth) PROVE Uses
    BY <2>4 DEF Client, Uses
  <2>5. ASSUME NEW a \in Fresh, NEW b \in Fresh, CreatePair(a, b) PROVE Uses
    BY <2>5 DEF Client, Uses
  <2> QED BY <1>1, <2>3, <2>4, <2>5
<1>3. CASE PromoteParent
  <2>1. Idle /\ task.step = "infer"
    BY <1>3 DEF PromoteParent, At
  <2>2. task.subject \in outer
    BY <2>1, InferFacts
  <2>3. ASSUME NEW a \in Fresh, Promote(task.subject, a) PROVE Uses
    BY <2>2, <2>3 DEF Client, Uses
  <2> QED BY <1>1, <1>3, <2>3 DEF PromoteParent
<1>4. CASE BranchParent
  <2> DEFINE saved == task.rows
  <2>1. Idle /\ task.step = "infer"
    BY <1>4 DEF BranchParent, At
  <2>2. task.subject \in outer /\ saved \in Seq(Ids) /\ Range(saved) \subseteq Fresh
    BY <2>1, InferFacts
  <2>3. ASSUME NEW S \in (SUBSET Fresh) \ {{}}, NEW kind \in {"branch", "orphan"}, Branch(task.subject, S, kind)
        PROVE  Uses
    BY <2>2, <2>3 DEF Client, Uses
  <2>4. Len(saved) \in Nat /\ \A i \in 1..Len(saved) : saved[i] \in Range(saved)
    BY <2>2, RowsAreIds
  <2>5. CASE saved # <<>> /\ Branch(task.subject, Range(saved), "branch")
    <3>1. Range(saved) # {}
      BY <2>2, <2>4, <2>5
    <3> QED BY <2>2, <2>3, <2>5, <3>1
  <2>6. CASE \E n \in 1..Len(saved) - 1 : Branch(task.subject, Range(SubSeq(saved, 1, n)), "orphan")
    <3>1. PICK n \in 1..Len(saved) - 1 : Branch(task.subject, Range(SubSeq(saved, 1, n)), "orphan")
      BY <2>6
    <3>2. SubSeq(saved, 1, n) \in Seq(Ids) /\ Len(SubSeq(saved, 1, n)) = n
      BY <2>2, <2>4, <3>1
    <3>3. /\ \A i \in 1..n : SubSeq(saved, 1, n)[i] \in Range(SubSeq(saved, 1, n))
          /\ \A x \in Range(SubSeq(saved, 1, n)) : \E i \in 1..n : x = SubSeq(saved, 1, n)[i]
      BY <3>2, RowsAreIds
    <3>4. \A i \in 1..n : SubSeq(saved, 1, n)[i] = saved[i]
      BY <2>2, <2>4, <3>1
    <3>5. Range(SubSeq(saved, 1, n)) \subseteq Fresh /\ Range(SubSeq(saved, 1, n)) # {}
      <4>1. 1 \in 1..n /\ \A i \in 1..n : i \in 1..Len(saved)
        BY <2>4, <3>1
      <4>2. \A i \in 1..n : saved[i] \in Range(saved)
        BY <2>4, <4>1
      <4>3. Range(SubSeq(saved, 1, n)) \subseteq Range(saved)
        BY <3>3, <3>4, <4>2
      <4> QED BY <2>2, <3>3, <4>1, <4>3
    <3> QED BY <2>3, <3>1, <3>5
  <2>7. CASE Refused
    BY <2>7 DEF Refused, Uses
  <2> QED BY <1>1, <1>4, <2>5, <2>6, <2>7 DEF BranchParent
<1>5. CASE ReadVectors
  BY <1>1, <1>5 DEF ReadVectors, Refused, Uses
<1> QED BY <1>2, <1>3, <1>4, <1>5

\* What a row is registered with is its parent's, where it has one.
LEMMA RegisterIsClient ==
    ASSUME AllInv, RegisterNext
    PROVE  Uses
<1>1. Idle /\ task.step = "register"
  BY DEF RegisterNext, At
<1>2. /\ Steering /\ IInv /\ \A w \in pending : RowWaits(w)
  BY <1>1, RowFacts
<1>3. outer \subseteq known
  BY <1>2 DEF IInv, RegistryInv, PinsRegistered
<1>4. PICK w \in pending : IF task.req.kind = "create" THEN Register(w, task.req.persistence, task.req.boundary)
                           ELSE Register(w, "memory", "context")
  BY DEF RegisterNext
<1>5. CASE task.req.kind = "create"
  <2>1. task.req \in Requests
    BY <1>1, <1>2 DEF Steering, Serves
  <2>2. task.req.persistence \in Persistence /\ task.req.boundary \in Boundaries
    BY <1>5, <2>1, RequestKinds
  <2> QED BY <1>4, <1>5, <2>2 DEF Client, Uses
<1>6. CASE task.req.kind # "create"
  <2>1. task.phase \in {"promotion", "branch"}
    BY <1>1, <1>2, <1>6 DEF Steering, Serves
  <2>2. w.parent \in known
    BY <1>2, <1>3, <2>1 DEF RowWaits
  <2>3. PICK b \in Boundaries : TRUE
    BY BoundariesAssumption
  <2>4. RowFor(w, "memory", b) = RowFor(w, "memory", "context")
    BY <2>2 DEF RowFor
  <2>5. Register(w, "memory", b)
    BY <1>4, <1>6, <2>4 DEF Register
  <2>6. "memory" \in Persistence
    BY DEF Persistence
  <2> QED BY <2>3, <2>5, <2>6 DEF Client, Uses
<1> QED BY <1>5, <1>6

LEMMA UndoIsClient ==
    ASSUME AllInv, Undo
    PROVE  Uses
<1> DEFINE id == task.rows[task.pos]
<1>1. Idle /\ task.step = "undo" /\ task.pos > 0
  BY DEF Undo, At
<1>2. id \in Range(task.rows) /\ id \in Ids /\ (outer # {} => Range(task.rows) \cap known = {})
  <2>1. task.pos \in DOMAIN task.rows
    BY <1>1, UndoFacts
  <2> QED BY <1>1, <2>1, UndoFacts
<1>3. CASE Deletable(id)
  <2>1. CallDelete(id) /\ id \in known /\ outer = {}
    BY <1>2, <1>3 DEF Undo, Deletable, Gettable
  <2> QED BY <2>1 DEF Client, Uses
<1>4. CASE ~Deletable(id)
  <2>1. GiveUp(id) \/ CommandLost \/ UNCHANGED storeState
    BY <1>4 DEF Undo
  <2>2. id \in known => outer = {} /\ ~Gettable(id)
    BY <1>1, <1>4, UndeletedIsExpired
  <2>3. ASSUME GiveUp(id) PROVE Client
    <3>1. CASE id \in known
      BY <2>2, <2>3, <3>1 DEF Client
    <3>2. CASE id \notin known
      BY <1>2, <2>3, <3>2 DEF Client
    <3> QED BY <3>1, <3>2
  <2> QED BY <2>1, <2>3 DEF Client, Uses
<1> QED BY <1>3, <1>4

LEMMA HandlerUses ==
    ASSUME AllInv, HandlerStep, IndexFaults = FALSE
    PROVE  Uses
<1>1. CASE Restart
  BY <1>1 DEF Restart, Uses
<1>2. ~RestartStale
  BY DEF RestartStale
<1> QED BY <1>1, <1>2, PlainIsClient, LookUpIsClient, ExpireIsClient, DeleteIsClient, MemoIsClient,
        LeaseIsClient, CommandIsClient, RegisterIsClient, UndoIsClient DEF HandlerStep

LEMMA SvcUses ==
    ASSUME AllInv, [SvcNext]_allVars, IndexFaults = FALSE
    PROVE  [Next]_vars
<1>1. CASE UNCHANGED allVars
  BY <1>1 DEF allVars
<1>2. CASE \E id \in known \cup DOMAIN disk : Tick(id) /\ UNCHANGED svcVars
  BY <1>2 DEF Next
<1>3. ASSUME Forgotten, (\E r \in Requests : Arrive(r)) \/ ScheduleRecovery \/ RunRecovery \/ BackoffEnds
      PROVE  [Next]_vars
  <2>1. UNCHANGED storeState
    BY <1>3 DEF Arrive, ScheduleRecovery, RunRecovery, BackoffEnds
  <2> QED BY <1>3, <2>1, UsesStep DEF Uses
<1>4. ASSUME Forgotten, HandlerStep PROVE [Next]_vars
  BY <1>4, HandlerUses, UsesStep
<1>5. ASSUME Forgotten, StoreStep \/ Killed \/ Start \/ WorkerDies PROVE [Next]_vars
  BY <1>5, UsesStep DEF Uses, Killed, Start
<1> QED BY <1>1, <1>2, <1>3, <1>4, <1>5 DEF SvcNext, ServiceStep

----------------------------------------------------------------------------
(* The invariant.                                                          *)

LEMMA HandlerService ==
    ASSUME AllInv, LostHoldsNothing', Forgotten, HandlerStep, IndexFaults = FALSE
    PROVE  ServiceInv'
<1>1. ~RestartStale
  BY DEF RestartStale
<1>2. CASE EndLease
  <2>1. known' = known /\ disk' = disk
    BY <1>2 DEF EndLease, Release, Unpin, known, diskVars
  <2>2. expired' = expired
    BY <2>1, StaysExpired
  <2> QED BY <1>2, <2>2, EndLeaseService
<1>3. CASE Undo \/ Undone \/ UndoDone
  <2>1. (\E id : CallDelete(id)) \/ (\E id : GiveUp(id)) \/ CommandLost \/ UNCHANGED storeState
    BY <1>3 DEF Undo, Undone, UndoDone
  <2>2. known' = known /\ disk' = disk
    BY <2>1 DEF CallDelete, GiveUp, CommandLost, storeState, storeVars, diskVars, known
  <2>3. expired' = expired
    BY <2>2, StaysExpired
  <2> QED BY <1>3, <2>3, UndoService, UndoneService
<1> QED BY <1>1, <1>2, <1>3, QuietStepService, RestartService, ExpireService, FinishService, CreateService,
        RegisterService, RowService, PlanService, EnsureService, MemoService, OpenService, RestoreService,
        PromoteService, BranchService, VectorsService, DeleteService DEF HandlerStep

LEMMA SvcStep ==
    ASSUME AllInv, [SvcNext]_allVars, IndexFaults = FALSE
    PROVE  AllInv'
<1>1. StoreInv /\ ServiceInv /\ IInv /\ LostHoldsNothing
  BY DEF AllInv, StoreInv, ServiceInv
<1>2. [Next]_vars
  BY SvcUses
<1>3. StoreInv' /\ IInv' /\ LostHoldsNothing'
  <2>1. StoreInv'
    BY <1>1, <1>2, NextPromise
  <2>2. LostHoldsNothing'
    BY <1>1, <1>2, LostStep
  <2> QED BY <2>1, <2>2 DEF StoreInv
<1>4. ASSUME UNCHANGED svcVars, expired \subseteq expired',
             UNCHANGED <<records, disk, outer, attached, ready, call, pending>>, DOMAIN held' \subseteq DOMAIN held
      PROVE  ServiceInv'
  BY <1>3, <1>4, QuietService
<1>5. ASSUME UNCHANGED allVars PROVE ServiceInv'
  BY <1>4, <1>5 DEF allVars, vars, storeVars, workerVars, diskVars, clientVars
<1>6. ASSUME NEW id, Tick(id), UNCHANGED svcVars PROVE ServiceInv'
  BY <1>4, <1>6 DEF Tick, storeVars, workerVars, diskVars, clientVars
<1>7. ASSUME WorkerDies, UNCHANGED svcVars, Forgotten PROVE ServiceInv'
  <2>1. UNCHANGED <<records, disk, outer, attached, ready, call, pending>> /\ held' = Nothing
    BY <1>7 DEF WorkerDies, storeVars, diskVars, clientVars
  <2>2. DOMAIN held' = {}
    BY <2>1, NothingType
  <2>3. expired' = expired
    BY <1>7, <2>1, StaysExpired DEF known
  <2> QED BY <1>4, <1>7, <2>1, <2>2, <2>3
<1>8. ASSUME Forgotten, (\E r \in Requests : Arrive(r)) \/ ScheduleRecovery \/ RunRecovery \/ BackoffEnds
      PROVE  ServiceInv'
  <2>1. UNCHANGED storeState
    BY <1>8 DEF Arrive, ScheduleRecovery, RunRecovery, BackoffEnds
  <2>2. expired' = expired
    BY <1>8, <2>1, StaysExpired DEF storeState, storeVars, diskVars, known
  <2> QED BY <1>3, <1>8, <2>1, <2>2, FreeService
<1>9. ASSUME Forgotten, HandlerStep PROVE ServiceInv'
  BY <1>3, <1>9, HandlerService
<1>10. ASSUME Forgotten, StoreStep, UNCHANGED svcVars PROVE ServiceInv'
  BY <1>2, <1>3, <1>10, StoreStepService
<1>11. ASSUME Killed \/ Start PROVE ServiceInv'
  BY <1>3, <1>11, ProcessService
<1>12. ServiceInv'
  BY <1>5, <1>6, <1>7, <1>8, <1>9, <1>10, <1>11 DEF SvcNext, ServiceStep
<1> QED BY <1>3, <1>12 DEF AllInv

----------------------------------------------------------------------------
(* The theorems.                                                           *)

LEMMA SvcStart ==
    ASSUME SvcInit
    PROVE  AllInv
<1>1. Init /\ busy = FALSE /\ task = Handler(NoRequest, "free") /\ backoff = FALSE /\ scheduled = FALSE /\ replied = {}
  BY DEF SvcInit, Free
<1>2. /\ attached = TRUE /\ outer = {} /\ pending = {} /\ call.op = "none" /\ DOMAIN held = {} /\ ready = TRUE
  BY <1>1, NothingType, EndedVictim DEF Init
<1>3. /\ task \in Task /\ task.req = NoRequest /\ task.step = "free" /\ task.phase = "none"
      /\ task.rows = <<>> /\ task.pos = 0 /\ ~task.failed /\ Len(task.rows) = 0
  BY <1>1, HandlerTask DEF Steps
<1>4. ServiceTyped /\ Steering /\ Waiting /\ LostHoldsNothing
  <2>1. ServiceTyped
    <3>1. task \in Task /\ task.pos <= Len(task.rows)
      BY <1>3
    <3>2. busy \in BOOLEAN /\ backoff \in BOOLEAN /\ scheduled \in BOOLEAN /\ replied \subseteq Ids
      BY <1>1, Zenon
    <3> QED BY <3>1, <3>2 DEF ServiceTyped
  <2>2. Steering
    BY <1>1, <1>2, <1>3 DEF Steering
  <2>3. Waiting /\ LostHoldsNothing
    BY <1>2, <1>3 DEF Waiting, LostHoldsNothing, Answers
  <2> QED BY <2>1, <2>2, <2>3
<1>5. NothingOpen /\ UnderLease /\ BranchesFrom30 /\ InOrder /\ AtRow /\ Unwinding
  BY <1>2, <1>3 DEF NothingOpen, UnderLease, BranchesFrom30, InOrder, AtRow, Unwinding
<1> QED BY <1>1, <1>4, <1>5, InitInv, InitW, InitPromise DEF AllInv, StoreInv, ServiceInv

\* What a handler relies on at each of its steps holds there, whatever failed,
\* died, was evicted or expired since its last one.
THEOREM ServiceInvariantHolds ==
    ASSUME IndexFaults = FALSE
    PROVE  SvcSpec => []AllInv
<1>1. SvcInit => AllInv
  BY SvcStart
<1>2. AllInv /\ [SvcNext]_allVars => AllInv'
  BY SvcStep
<1> QED BY <1>1, <1>2, PTL DEF SvcSpec

\* The service implements the store's general caller: inference under a lease,
\* and all that the worker published registered or given up before the next
\* request, whichever step of a handler fails.
THEOREM ServiceUsesStoreProperly ==
    ASSUME IndexFaults = FALSE
    PROVE  SvcSpec => UsesStoreProperly
<1>1. SvcInit => Init
  BY DEF SvcInit
<1>2. AllInv /\ [SvcNext]_allVars => [Next]_vars
  BY SvcUses
<1> QED BY <1>1, <1>2, ServiceInvariantHolds, PTL DEF SvcSpec, UsesStoreProperly

\* A handler that does not wait is between store calls.
LEMMA BetweenCalls ==
    ASSUME AllInv, task.step \notin {"expiring", "registering", "restoring", "deleting", "undoing"}
    PROVE  call.op = "none" /\ call.pc = "idle" /\ call.victim = None
<1>1. Waiting /\ IInv /\ WorkerInv /\ call.op \in {"none", "expire", "register", "restore", "delete"}
  BY DEF AllInv, StoreInv, ServiceInv, IInv, TypeOK, Call
<1>2. call.op = "none"
  BY <1>1 DEF Waiting
<1> QED BY <1>1, <1>2 DEF IInv, CallInv, CallSteps, WorkerInv

\* However a request ends, no lease stays open and the worker keeps nothing
\* the registry does not know.
THEOREM HandlersAlwaysLeaveNothing ==
    ASSUME IndexFaults = FALSE
    PROVE  SvcSpec => []HandlersLeaveNothing
<1>1. ASSUME AllInv PROVE HandlersLeaveNothing
  <2>1. ServiceTyped /\ Steering /\ NothingOpen /\ WorkerInv
    BY <1>1 DEF AllInv, StoreInv, ServiceInv
  <2>2. ServiceTypeOK
    BY <2>1, TaskFacts DEF ServiceTypeOK, ServiceTyped
  <2>3. NoRequestLeaks
    <3> SUFFICES ASSUME ~busy
                 PROVE  /\ outer = {} /\ pending = {}
                        /\ Serving => DOMAIN held \subseteq {id \in known : records[id].resident}
      BY DEF NoRequestLeaks
    <3>1. outer = {} /\ pending = {} /\ PendingIds = {}
      BY <2>1 DEF Steering, NothingOpen, Unleased, PendingIds
    <3> QED BY <2>1, <3>1 DEF WorkerInv, HeldIsKnown
  <2> QED BY <2>2, <2>3 DEF HandlersLeaveNothing
<1> QED BY <1>1, ServiceInvariantHolds, PTL

\* Whenever the worker is asked to work on a snapshot it holds it, as a 30 if
\* it is to branch from: no eviction, TTL or promotion comes between.
THEOREM InferenceAlwaysFindsParent ==
    ASSUME IndexFaults = FALSE
    PROVE  SvcSpec => []InferenceFindsParent
<1>1. ASSUME AllInv PROVE InferenceFindsParent
  <2> SUFFICES ASSUME task.step = "infer", Serving
               PROVE  /\ task.subject \in known /\ task.subject \in DOMAIN held
                      /\ task.phase = "branch" => held[task.subject].depth = 30
    BY DEF InferenceFindsParent
  <2>1. IInv /\ WorkerInv /\ PromiseInv /\ UnderLease /\ BranchesFrom30 /\ call.victim = None
    BY <1>1, BetweenCalls DEF AllInv, StoreInv, ServiceInv
  <2>2. task.subject \in outer /\ records[task.subject].resident
    BY <2>1 DEF UnderLease
  <2>3. task.subject \in known /\ known \subseteq Ids /\ records[task.subject].leases > 0
    BY <2>1, <2>2 DEF IInv, TypeOK, RegistryInv, PinsRegistered, LeasesExact
  <2>4. task.subject \in DOMAIN held
    BY <2>1, <2>2, <2>3, IdsAssumption DEF WorkerInv, HeldIsKnown, Wanted
  <2>5. held[task.subject].depth = records[task.subject].depth
    BY <2>1, <2>3, <2>4 DEF PromiseInv, HeldMatches, Matches
  <2> QED BY <2>1, <2>3, <2>4, <2>5 DEF BranchesFrom30
<1> QED BY <1>1, ServiceInvariantHolds, PTL

\* A request that failed on a worker that still runs leaves none of the
\* snapshots it allotted: not in the registry, the worker or the directory.
THEOREM FailureIsAlwaysUndone ==
    ASSUME IndexFaults = FALSE
    PROVE  SvcSpec => []FailureIsUndone
<1>1. ASSUME AllInv PROVE FailureIsUndone
  <2> SUFFICES ASSUME task.step = "finish", task.failed, ready, NEW id \in Range(task.rows)
               PROVE  id \notin DOMAIN held /\ (id \in known \cup DOMAIN disk => id \in expired)
    BY DEF FailureIsUndone
  <2>1. /\ IInv /\ ServiceTyped /\ LostHoldsNothing /\ Unwinding /\ call.pc = "idle"
    BY <1>1, BetweenCalls DEF AllInv, StoreInv, ServiceInv
  <2>2. PICK i \in 1..Len(task.rows) : id = task.rows[i]
    BY <2>1, TaskFacts
  <2>3. DOMAIN task.rows = 1..Len(task.rows) /\ Len(task.rows) \in Nat /\ i > 0
    BY <2>1, TaskFacts
  <2>4. Gone(id)
    BY <2>1, <2>2, <2>3 DEF Unwinding
  <2>5. DOMAIN disk \subseteq known
    BY <2>1 DEF IInv, RegistryInv, DirectoriesAreRecords, LostHoldsNothing
  <2> QED BY <2>4, <2>5 DEF Gone
<1> QED BY <1>1, ServiceInvariantHolds, PTL

\* Under the service the registry is consistent, matches the worker and is
\* charged what is held, at every step of every handler.
THEOREM RegistryHoldsUnderService ==
    ASSUME IndexFaults = FALSE
    PROVE  SvcSpec => [](RegistryConsistent /\ RegistryMatchesWorker /\ BudgetIsExact)
<1>1. ASSUME AllInv PROVE RegistryConsistent /\ RegistryMatchesWorker /\ BudgetIsExact
  <2>1. IInv /\ WorkerInv /\ PromiseInv
    BY <1>1 DEF AllInv, StoreInv
  <2>2. RegistryConsistent
    BY <2>1 DEF IInv, RegistryInv, RegistryConsistent
  <2>3. RegistryMatchesWorker
    BY <2>1 DEF WorkerInv, HeldIsKnown, Wanted, PendingIds, RegistryMatchesWorker, ResidentIsHeld, NothingLeaks
  <2> QED BY <2>1, <2>2, <2>3, ExactBudget
<1> QED BY <1>1, ServiceInvariantHolds, PTL

\* No request of one client takes from another what it was given.
THEOREM ServiceTakesNothingAway ==
    ASSUME IndexFaults = FALSE
    PROVE  SvcSpec => NothingIsTakenAway
<1>1. Init => Removing
  BY InitRemoving
<1>2. IInv /\ Removing /\ [Next]_vars => KeepsLeased /\ KeepsPublished /\ Removing'
  BY LeasedKept, PublishedKept
<1>3. AllInv => IInv
  BY DEF AllInv, StoreInv
<1>4. SvcSpec => [][KeepsLeased /\ KeepsPublished]_vars
  BY <1>1, <1>2, <1>3, ServiceInvariantHolds, ServiceUsesStoreProperly, PTL DEF UsesStoreProperly
<1>5. SvcSpec => LeasedStaysResident
  BY <1>4, PTL DEF LeasedStaysResident, KeepsLeased
<1>6. SvcSpec => UnpublishedByOwnerOrTTL
  BY <1>4, PTL DEF UnpublishedByOwnerOrTTL, KeepsPublished
<1> QED BY <1>5, <1>6 DEF NothingIsTakenAway
==============================================================================
