--------------------------- MODULE SnapshotStore ---------------------------
(***************************************************************************)
(* The snapshot registry of unridden/api/snapshots/store.py, the worker    *)
(* memory it accounts for (native/snapshots/snapshot-worker.cpp), and the  *)
(* directory it publishes disk snapshots in.                               *)
(*                                                                         *)
(* A store method that awaits the worker is a call; call.pc is the step it *)
(* is at.  What happens between two awaits is one action, so the worker    *)
(* can die, a TTL can run out and the service can be killed wherever the   *)
(* code can be interrupted.  At most one call runs at a time: the service  *)
(* is single-flight.  Who calls is left to the modules that extend this.   *)
(***************************************************************************)
EXTENDS Integers, FiniteSets, Functions

CONSTANTS
    Ids,            \* snapshot ids (uuid4 in the code: fresh, never guessed)
    None,           \* no snapshot
    LowerBytes,     \* bytes of a lower K/V blob, with the residual H18
    UpperBytes,     \* bytes of an upper K/V blob, with the residual H30
    HostBytes,      \* the host byte budget
    CrashInUnlink   \* may the service be killed inside _remove_tree?

ASSUME IdsAssumption == IsFiniteSet(Ids) /\ None \notin Ids
ASSUME BytesAssumption ==
    LowerBytes \in Nat \ {0} /\ UpperBytes \in Nat \ {0} /\ HostBytes \in Nat \ {0}
ASSUME CrashAssumption == CrashInUnlink \in BOOLEAN

VARIABLES
    \* The registry object, lost when the service process dies.
    attached,       \* a store object exists
    records,        \* _records: id -> SnapshotRecord
    older,          \* <<a, b>>: a was used before b (the order of last_used)
    residentBytes,  \* _resident_bytes
    \* The worker process and the backend that owns it.
    ready,          \* backend.ready
    live,           \* the process really runs (it may die unnoticed)
    held,           \* snapshots_ of the worker: id -> what it holds
    \* The snapshot directory.
    disk,           \* published directories: id -> manifest
    partial,        \* directories whose removal has begun, manifest gone
    expired,        \* ids whose expires_at has passed
    \* The store call in progress, and its caller.
    call,
    outer,          \* what the caller's lease pins
    pending         \* rows the worker made that are not registered yet

storeVars  == <<attached, records, older, residentBytes>>
workerVars == <<ready, live, held>>
diskVars   == <<disk, partial>>
clientVars == <<outer, pending>>
vars == <<storeVars, workerVars, diskVars, expired, call, clientVars>>

----------------------------------------------------------------------------
(* Data.  Tokens are abstracted: a 30 snapshot has as many as its parent   *)
(* exactly when the parent is an 18 one, whose lower K/V it then extends.  *)

Ref == Ids \cup {None}
Depth == {18, 30}
Boundary == {"context", "readout"}
Persistence == {"memory", "disk"}

Row == [id: Ids, depth: Depth, boundary: Boundary, parent: Ref, contextParent: Ref,
        promotionOf: Ref, persistence: Persistence, hostBytes: Nat]

Record == [depth: Depth, boundary: Boundary, parent: Ref, contextParent: Ref,
           promotionOf: Ref, persistence: Persistence, hostBytes: Nat,
           resident: BOOLEAN, durable: BOOLEAN, promotionChild: Ref,
           leases: Nat, refcount: Nat]

Manifest == [depth: Depth, boundary: Boundary, parent: Ref, contextParent: Ref,
             promotionOf: Ref, hostBytes: Nat]

\* What the worker holds for an id: its depth, its parent, and the snapshot
\* whose capture made the lower K/V blob (shared by pointer, never copied).
Holding == [depth: Depth, parent: Ref, lower: Ids]

\* A row of a worker reply: the id it publishes, and how it was made.  An
\* orphan was published by a command that then failed.
WorkerRow == [id: Ids, depth: Depth, parent: Ref, hostBytes: Nat,
              kind: {"capture", "promote", "branch", "orphan"}]

Call == [op: {"none", "expire", "register", "restore", "delete"},
         pc: {"idle", "expire", "admit", "budget", "save", "retract", "drop", "unlink"},
         after: {"idle", "admit", "budget"},   \* where expire() returns to
         target: Ref,                          \* what restore() or delete() is given
         row: Row \cup {None},                 \* what register() is given
         victim: Ref,                          \* whose directory is being removed
         pinned: SUBSET Ids,                   \* what register()'s lease pins
         ok: BOOLEAN]                          \* did the last call return, or raise?

Nothing == [x \in {} |-> x]
known == DOMAIN records
Refs(r) == {r.parent, r.contextParent} \ {None}
Without(f, id) == Restrict(f, DOMAIN f \ {id})
With(f, id, v) == [x \in DOMAIN f \cup {id} |-> IF x = id THEN v ELSE f[x]]

\* Bytes the worker reports for a row: a shared lower blob is charged to the
\* snapshot that owns it.
RowBytes(id, h) ==
    (IF h.lower = id THEN LowerBytes ELSE 0) + (IF h.depth = 30 THEN UpperBytes ELSE 0)

\* Mutant: the size of the registration, not of what load() builds.
LoadedBytesAsRegistered(r) == r.hostBytes

\* Bytes a restore reserves: save() always writes the lower blob, so a
\* reloaded 30 owns a lower blob it used to share.
LoadedBytes(r) ==
    LET saved == LowerBytes + (IF r.depth = 30 THEN UpperBytes ELSE 0)
    IN IF r.hostBytes > saved THEN r.hostBytes ELSE saved

----------------------------------------------------------------------------
(* The synchronous parts of the store.                                     *)

\* get() refuses an expired record nothing refers to, and makes any other the
\* most recently used.
Gettable(id) == id \in known /\ ~(id \in expired /\ records[id].refcount = 0)
Touch(order, id) == {p \in order : p[1] # id} \cup ((known \ {id}) \X {id})

Ancestors(id) ==
    {x \in known : \A S \in SUBSET known :
        (id \in S /\ \A y \in S : Refs(records[y]) \cap known \subseteq S) => x \in S}

Pin(recs, S) ==
    [x \in DOMAIN recs |->
        IF x \in S THEN [recs[x] EXCEPT !.leases = @ + 1] ELSE recs[x]]

Unpin(recs, S) ==
    [x \in DOMAIN recs |->
        IF x \in S /\ recs[x].leases > 0
        THEN [recs[x] EXCEPT !.leases = @ - 1] ELSE recs[x]]

NewRecord(r) ==
    [depth |-> r.depth, boundary |-> r.boundary, parent |-> r.parent,
     contextParent |-> r.contextParent, promotionOf |-> r.promotionOf,
     persistence |-> r.persistence, hostBytes |-> r.hostBytes, resident |-> TRUE,
     durable |-> FALSE, promotionChild |-> None, leases |-> 0, refcount |-> 0]

Insert(recs, r) ==
    [x \in DOMAIN recs \cup {r.id} |->
        IF x = r.id THEN NewRecord(r)
        ELSE IF x \in Refs(r) THEN [recs[x] EXCEPT !.refcount = @ + 1]
        ELSE recs[x]]

\* _forget: drop the record and the references it held.
Forget(recs, id) ==
    [x \in DOMAIN recs \ {id} |->
        IF x \in Refs(recs[id]) /\ recs[x].refcount > 0
        THEN [recs[x] EXCEPT !.refcount = @ - 1] ELSE recs[x]]

\* The registry without the record, with the lease on pins released.
Forgets(id, pins) ==
    /\ records' = Unpin(Forget(records, id), pins)
    /\ older' = {p \in older : id \notin {p[1], p[2]}}
    /\ residentBytes' =
           residentBytes - (IF records[id].resident THEN records[id].hostBytes ELSE 0)
    /\ UNCHANGED attached

\* The fields compared never change, so when they are compared is immaterial.
ValidPromotion(r, p) ==
    /\ r.promotionOf = r.parent /\ records[p].depth = 18 /\ r.depth = 30
    /\ r.boundary = records[p].boundary
    /\ r.contextParent = IF r.boundary = "readout" THEN records[p].contextParent ELSE None

ManifestOf(r) ==
    [depth |-> r.depth, boundary |-> r.boundary, parent |-> r.parent,
     contextParent |-> r.contextParent, promotionOf |-> r.promotionOf,
     hostBytes |-> r.hostBytes]

\* _validate_manifest().  The size it compares is the one that was persisted,
\* which a record keeps beside the one it is charged.
ManifestMatches(m, r) ==
    /\ m.depth = r.depth /\ m.boundary = r.boundary
    /\ m.parent = r.parent /\ m.contextParent = r.contextParent
    /\ m.promotionOf = r.promotionOf

----------------------------------------------------------------------------
(* Calls and the worker.                                                   *)

Idle == attached /\ call.op = "none"

Ended(ok) == [op |-> "none", pc |-> "idle", after |-> "idle", target |-> None,
              row |-> None, victim |-> None, pinned |-> {}, ok |-> ok]

Started(op, pc, after) == [Ended(TRUE) EXCEPT !.op = op, !.pc = pc, !.after = after]

\* The call raises: nothing but the lease register() holds is undone.
Raises ==
    /\ call' = Ended(FALSE)
    /\ records' = Unpin(records, call.pinned)
    /\ UNCHANGED <<attached, older, residentBytes>>

Answers == ready /\ live

NativeDrop(id) == Answers /\ held' = Without(held, id) /\ UNCHANGED <<ready, live>>

\* _invalidate: an ambiguous failure kills and reaps the worker, and with it
\* every snapshot it held, those the client still had to register included.
LoseWorker == ready' = FALSE /\ live' = FALSE /\ held' = Nothing /\ pending' = {}

----------------------------------------------------------------------------
(* expire(): reclaim expired leaves, then the parents they release.  The   *)
(* code reads the clock once per loop; here a TTL that runs out during the *)
(* loop may be seen by it, as if it had run out just before.               *)

\* Mutants: a parent is reclaimed before its children; a lease does not protect.
ReclaimableParent == {id \in known \cap expired : records[id].leases = 0}
ReclaimableLeased == {id \in known \cap expired : records[id].refcount = 0}

Reclaimable ==
    {id \in known \cap expired : records[id].leases = 0 /\ records[id].refcount = 0}

DropIfResident(id) ==
    IF records[id].resident THEN NativeDrop(id) ELSE UNCHANGED workerVars

\* An expired leaf with no directory is dropped and forgotten at once.
ReclaimMemory(id) ==
    /\ call.pc = "expire" /\ id \in Reclaimable /\ ~records[id].durable
    /\ DropIfResident(id)
    /\ Forgets(id, {})
    /\ UNCHANGED <<diskVars, call, clientVars>>

\* One with a directory is dropped first; _remove_tree then starts on it.
ReclaimDisk(id) ==
    /\ call.pc = "expire" /\ id \in Reclaimable /\ records[id].durable
    /\ DropIfResident(id)
    /\ call' = [call EXCEPT !.pc = "unlink", !.victim = id]
    /\ partial' = partial \cup {id}
    /\ UNCHANGED <<storeVars, disk, clientVars>>

\* _remove_tree has removed the directory; the record goes with it.
Unlink ==
    /\ call.pc = "unlink"
    /\ disk' = Without(disk, call.victim) /\ partial' = partial \ {call.victim}
    /\ Forgets(call.victim, {})
    /\ call' = IF call.op = "delete" THEN Ended(TRUE)
               ELSE [call EXCEPT !.pc = "expire", !.victim = None]
    /\ UNCHANGED <<workerVars, clientVars>>

ExpireDone ==
    /\ call.pc = "expire" /\ Reclaimable = {}
    /\ call' = IF call.op = "expire" THEN Ended(TRUE)
               ELSE [call EXCEPT !.pc = call.after, !.after = "idle"]
    /\ UNCHANGED <<storeVars, workerVars, diskVars, clientVars>>

----------------------------------------------------------------------------
(* register(): admission, the budget, the record, and the disk publish.    *)

\* The checks of register(), of the lease it takes on the parents, and of the
\* row's size against the whole budget.
Admissible(r) ==
    /\ r.id \notin known
    /\ \A p \in Refs(r) : Gettable(p)
    /\ r.promotionOf # None => ValidPromotion(r, r.promotionOf)
    /\ r.hostBytes <= HostBytes

AdmitRow ==
    LET r == call.row
        touched == IF r.parent = None THEN older ELSE Touch(older, r.parent)
        pins == UNION {Ancestors(p) : p \in Refs(r)}
    IN /\ call.pc = "admit" /\ Admissible(r)
       /\ records' = Pin(records, pins)
       /\ older' = IF r.contextParent = None THEN touched ELSE Touch(touched, r.contextParent)
       /\ call' = [call EXCEPT !.pc = "expire", !.after = "budget", !.pinned = pins]
       /\ UNCHANGED <<attached, residentBytes, workerVars, diskVars, clientVars>>

RefuseRow ==
    /\ call.pc = "admit" /\ ~Admissible(call.row)
    /\ Raises /\ UNCHANGED <<workerVars, diskVars, clientVars>>

Registered == pending' = {w \in pending : w.id # call.row.id} /\ UNCHANGED outer

\* The record is inserted, charged, and referenced from its parents.  A
\* memory snapshot is then registered; a disk one is saved first.
InsertRow ==
    LET r == call.row IN
    /\ call.pc = "budget" /\ call.op = "register"
    /\ residentBytes + r.hostBytes <= HostBytes
    /\ older' = Touch(older, r.id)
    /\ residentBytes' = residentBytes + r.hostBytes
    /\ IF r.persistence = "memory"
       THEN /\ records' = Unpin(Insert(records, r), call.pinned)
            /\ call' = Ended(TRUE) /\ Registered
       ELSE /\ records' = Insert(records, r)
            /\ call' = [call EXCEPT !.pc = "save"] /\ UNCHANGED clientVars
    /\ UNCHANGED <<attached, workerVars, diskVars>>

\* _persist: the worker wrote the blobs into a temporary directory, the
\* manifest followed, and os.replace publishes both at once.
Published ==
    /\ call.pc = "save" /\ Answers /\ call.row.id \in DOMAIN held
    /\ disk' = With(disk, call.row.id, ManifestOf(records[call.row.id]))
    /\ UNCHANGED workerVars

Publish ==
    /\ Published
    /\ records' = Unpin([records EXCEPT ![call.row.id].durable = TRUE], call.pinned)
    /\ call' = Ended(TRUE) /\ Registered
    /\ UNCHANGED <<attached, older, residentBytes, partial>>

\* Published, but the sync of the root or the validation fails: the final
\* directory is removed again.
PublishFails ==
    /\ Published
    /\ partial' = partial \cup {call.row.id}
    /\ call' = [call EXCEPT !.pc = "retract"]
    /\ UNCHANGED <<storeVars, clientVars>>

Retract ==
    /\ call.pc = "retract"
    /\ disk' = Without(disk, call.row.id) /\ partial' = partial \ {call.row.id}
    /\ Forgets(call.row.id, call.pinned) /\ call' = Ended(FALSE)
    /\ UNCHANGED <<workerVars, clientVars>>

\* save() fails in protocol, or the manifest cannot be written, or the worker
\* is lost: the temporary directory is removed and the record forgotten.
SaveFails ==
    /\ call.pc = "save"
    /\ \/ Answers /\ UNCHANGED <<workerVars, pending>>
       \/ LoseWorker
    /\ Forgets(call.row.id, call.pinned) /\ call' = Ended(FALSE)
    /\ UNCHANGED <<diskVars, outer>>

----------------------------------------------------------------------------
(* _enforce_budget(): evict in last-used order until the need fits.        *)

Need == IF call.op = "register" THEN call.row.hostBytes ELSE LoadedBytes(records[call.target])
Over == call.pc = "budget" /\ residentBytes + Need > HostBytes

\* A resident 30 that may still share this 18's lower blob.
HasResidentSharedChild(p) ==
    records[p].depth = 18 /\ \E c \in known :
        records[c].parent = p /\ records[c].depth = 30 /\ records[c].resident

\* Mutant: a lease does not protect from eviction.
CandidatesUnderLease ==
    {c \in known : records[c].resident /\ (records[c].refcount = 0 \/ records[c].durable)}

Candidates ==
    {c \in known :
        /\ records[c].resident /\ records[c].leases = 0
        /\ \/ records[c].refcount = 0
           \/ records[c].persistence = "disk" /\ ~HasResidentSharedChild(c)}

LeastRecentlyUsed(c) == c \in Candidates /\ \A d \in Candidates : <<d, c>> \notin older

\* A disk snapshot leaves memory but keeps its record.  Every disk record is
\* durable here, so the _persist of the code returns at once.
EvictDisk(c) ==
    /\ Over /\ LeastRecentlyUsed(c) /\ records[c].durable
    /\ NativeDrop(c)
    /\ residentBytes' = residentBytes - records[c].hostBytes
    /\ records' = [records EXCEPT ![c].resident = FALSE]
    /\ UNCHANGED <<attached, older, diskVars, call, clientVars>>

\* A memory snapshot is gone.  Its drop is not guarded: if the worker does
\* not hold it, snapshot_not_found ends the call.
EvictMemory(c) ==
    /\ Over /\ LeastRecentlyUsed(c) /\ records[c].persistence = "memory"
    /\ IF c \in DOMAIN held THEN NativeDrop(c) /\ Forgets(c, {}) /\ UNCHANGED call
       ELSE Answers /\ Raises /\ UNCHANGED workerVars
    /\ UNCHANGED <<diskVars, clientVars>>

StoreFull ==
    /\ Over /\ Candidates = {}
    /\ Raises /\ UNCHANGED <<workerVars, diskVars, clientVars>>

----------------------------------------------------------------------------
(* restore() and delete().                                                 *)

LoadDue == call.pc = "budget" /\ call.op = "restore" /\ ~Over

Load ==
    LET id == call.target
        bytes == LoadedBytes(records[id])
    IN /\ LoadDue /\ Answers /\ id \notin DOMAIN held
       /\ ManifestMatches(disk[id], records[id])
       /\ held' = With(held, id, [depth |-> disk[id].depth, parent |-> disk[id].parent,
                                   lower |-> id])
       /\ records' = [records EXCEPT ![id].resident = TRUE, ![id].hostBytes = bytes]
       /\ residentBytes' = residentBytes + bytes
       /\ older' = Touch(older, id)
       /\ call' = Ended(TRUE)
       /\ UNCHANGED <<attached, ready, live, diskVars, clientVars>>

\* The worker already holds the id, the manifest is of another record, or a
\* blob fails its checksum.
LoadRefused ==
    /\ LoadDue /\ Answers
    /\ Raises /\ UNCHANGED <<workerVars, diskVars, clientVars>>

\* Mutant: the directory outlives the deleted snapshot.
DropTargetOnly ==
    /\ call.pc = "drop" /\ NativeDrop(call.target)
    /\ Forgets(call.target, {}) /\ call' = Ended(TRUE)
    /\ UNCHANGED <<diskVars, clientVars>>

DropTarget ==
    LET id == call.target IN
    /\ call.pc = "drop" /\ NativeDrop(id)
    /\ IF records[id].durable
       THEN /\ call' = [call EXCEPT !.pc = "unlink", !.victim = id]
            /\ partial' = partial \cup {id} /\ UNCHANGED storeVars
       ELSE Forgets(id, {}) /\ call' = Ended(TRUE) /\ UNCHANGED partial
    /\ UNCHANGED <<disk, clientVars>>

----------------------------------------------------------------------------
(* Failures.                                                               *)

\* A native call is due: the worker may be found dead, answer out of protocol
\* or not answer in time.  The backend reaps it and the call raises.
TransportFails ==
    /\ \/ call.pc = "expire" /\ \E id \in Reclaimable : records[id].resident
       \/ Over /\ Candidates # {}
       \/ LoadDue
       \/ call.pc = "drop"
    /\ LoseWorker
    /\ Raises /\ UNCHANGED <<diskVars, outer>>

\* The worker process dies; the backend does not watch it, and stays ready.
WorkerDies ==
    /\ live
    /\ live' = FALSE /\ held' = Nothing
    /\ UNCHANGED <<storeVars, ready, diskVars, call, clientVars>>

\* The service process is killed: only the directory survives.
Crash ==
    /\ attached
    /\ CrashInUnlink \/ call.pc \notin {"unlink", "retract"}
    /\ attached' = FALSE /\ records' = Nothing /\ older' = {} /\ residentBytes' = 0
    /\ LoseWorker
    /\ call' = Ended(TRUE) /\ outer' = {}
    /\ UNCHANGED diskVars

StoreStep ==
    \/ \E id \in known : ReclaimMemory(id) \/ ReclaimDisk(id)
    \/ Unlink \/ ExpireDone
    \/ AdmitRow \/ RefuseRow \/ InsertRow
    \/ Publish \/ PublishFails \/ Retract \/ SaveFails
    \/ \E c \in known : EvictDisk(c) \/ EvictMemory(c)
    \/ StoreFull \/ Load \/ LoadRefused \/ DropTarget
    \/ TransportFails

----------------------------------------------------------------------------
(* How a caller enters the store.                                          *)

\* A method that awaits nothing returns at once.
Returns == call' = Ended(TRUE)

Get(id) ==
    /\ Idle /\ Gettable(id)
    /\ older' = Touch(older, id) /\ Returns
    /\ UNCHANGED <<attached, records, residentBytes, workerVars, diskVars, clientVars>>

CallExpire ==
    /\ Idle /\ call' = Started("expire", "expire", "idle")
    /\ UNCHANGED <<storeVars, workerVars, diskVars, clientVars>>

CallRegister(r) ==
    /\ Idle /\ call' = [Started("register", "expire", "admit") EXCEPT !.row = r]
    /\ UNCHANGED <<storeVars, workerVars, diskVars, clientVars>>

\* restore() of a leased snapshot that is not resident; what is larger than
\* the whole budget is refused.
CallRestore(id) ==
    /\ Idle /\ id \in outer /\ Gettable(id)
    /\ ~records[id].resident /\ records[id].durable
    /\ call' = IF LoadedBytes(records[id]) > HostBytes THEN Ended(FALSE)
               ELSE [Started("restore", "expire", "budget") EXCEPT !.target = id]
    /\ older' = Touch(older, id)
    /\ UNCHANGED <<attached, records, residentBytes, workerVars, diskVars, clientVars>>

\* Mutant: a snapshot is deleted under its children.
CallDeleteParent(id) ==
    /\ Idle /\ Gettable(id) /\ records[id].leases = 0
    /\ call' = [Started("delete", "drop", "idle") EXCEPT !.target = id]
    /\ older' = Touch(older, id)
    /\ UNCHANGED <<attached, records, residentBytes, workerVars, diskVars, clientVars>>

CallDelete(id) ==
    /\ Idle /\ Gettable(id)
    /\ records[id].leases = 0 /\ records[id].refcount = 0
    /\ call' = [Started("delete", "drop", "idle") EXCEPT !.target = id]
    /\ older' = Touch(older, id)
    /\ UNCHANGED <<attached, records, residentBytes, workerVars, diskVars, clientVars>>

\* lease(id): get() the snapshot, pin it and every ancestor.
Lease(id) ==
    /\ Idle /\ outer = {} /\ Gettable(id)
    /\ outer' = Ancestors(id)
    /\ records' = Pin(records, outer')
    /\ older' = Touch(older, id)
    /\ Returns
    /\ UNCHANGED <<attached, residentBytes, workerVars, diskVars, pending>>

Release ==
    /\ Idle /\ outer # {}
    /\ outer' = {} /\ records' = Unpin(records, outer)
    /\ UNCHANGED <<attached, older, residentBytes, workerVars, diskVars, call, pending>>

\* memoize_promotion(p, c).
Memoize(p, c) ==
    /\ Idle /\ Gettable(p) /\ Gettable(c)
    /\ records[c].promotionOf = p /\ ValidPromotion(records[c], p)
    /\ records' = [records EXCEPT ![p].promotionChild = c]
    /\ older' = Touch(Touch(older, p), c)
    /\ Returns
    /\ UNCHANGED <<attached, residentBytes, workerVars, diskVars, clientVars>>

\* memoized_promotion(p): the child, or None when it is gone or expired.
MemoizedPromotion(p) ==
    IF records[p].promotionChild \in known \ expired
    THEN records[p].promotionChild ELSE None

ConsultMemo(p) ==
    /\ Idle /\ Gettable(p)
    /\ records' = [records EXCEPT ![p].promotionChild = MemoizedPromotion(p)]
    /\ older' = Touch(older, p)
    /\ Returns
    /\ UNCHANGED <<attached, residentBytes, workerVars, diskVars, clientVars>>

----------------------------------------------------------------------------
(* A new store over a new worker: _load_disk_index().                      *)

\* The index loads when every directory has its manifest and every reference
\* a directory; otherwise the constructor raises IntegrityError.
IndexLoads ==
    partial = {} /\ \A id \in DOMAIN disk : Refs(disk[id]) \subseteq DOMAIN disk

IndexRecord(id, child) ==
    LET m == disk[id] IN
    [depth |-> m.depth, boundary |-> m.boundary, parent |-> m.parent,
     contextParent |-> m.contextParent, promotionOf |-> m.promotionOf,
     persistence |-> "disk", hostBytes |-> m.hostBytes, resident |-> FALSE,
     durable |-> TRUE, promotionChild |-> child, leases |-> 0,
     refcount |-> Cardinality({c \in DOMAIN disk : id \in Refs(disk[c])})]

\* A parent memoizes an unexpired snapshot promoted from it.
IndexMemo(memo) ==
    \A id \in DOMAIN disk :
        LET promoted == {c \in DOMAIN disk \ expired : disk[c].promotionOf = id}
        IN IF promoted = {} THEN memo[id] = None ELSE memo[id] \in promoted

\* Records are read in directory-name order, which is arbitrary.
IndexOrders ==
    LET D == DOMAIN disk
        Ranks == {f \in [D -> 1..Cardinality(D)] : IsInjective(f)}
    IN {{p \in D \X D : f[p[1]] < f[p[2]]} : f \in Ranks}

LoadIndex ==
    /\ IndexLoads
    /\ \E memo \in [DOMAIN disk -> Ref] :
          IndexMemo(memo) /\ records' = [id \in DOMAIN disk |-> IndexRecord(id, memo[id])]
    /\ older' \in IndexOrders
    /\ residentBytes' = 0 /\ attached' = TRUE

\* A fresh worker holds nothing.
StartWorker == ready' = TRUE /\ live' = TRUE /\ held' = Nothing

----------------------------------------------------------------------------
(* Initial state, and the invariants.                                      *)

Init ==
    /\ attached = TRUE /\ records = Nothing /\ older = {} /\ residentBytes = 0
    /\ ready = TRUE /\ live = TRUE /\ held = Nothing
    /\ disk = Nothing /\ partial = {} /\ expired = {}
    /\ call = Ended(TRUE) /\ outer = {} /\ pending = {}

TypeOK ==
    /\ attached \in BOOLEAN /\ ready \in BOOLEAN /\ live \in BOOLEAN
    /\ known \subseteq Ids /\ records \in [known -> Record]
    /\ older \subseteq Ids \X Ids /\ residentBytes \in Int
    /\ DOMAIN held \subseteq Ids /\ held \in [DOMAIN held -> Holding]
    /\ DOMAIN disk \subseteq Ids /\ disk \in [DOMAIN disk -> Manifest]
    /\ partial \subseteq Ids /\ expired \subseteq Ids
    /\ call \in Call /\ outer \subseteq Ids /\ pending \subseteq WorkerRow

\* Nothing a registered snapshot refers to is ever reclaimed before it: not
\* by expiry, eviction, deletion, rollback or a reload of the index.
ParentsRegistered == \A id \in known : Refs(records[id]) \subseteq known

\* refcount counts the registered children of a snapshot, each once even
\* when it names the snapshot as parent and as context parent.
RefcountsExact ==
    \A id \in known :
        records[id].refcount = Cardinality({c \in known : id \in Refs(records[c])})

\* leases counts the open leases that pin a snapshot; none outlives its call.
LeasesExact ==
    \A id \in known :
        records[id].leases =
            (IF id \in outer THEN 1 ELSE 0) + (IF id \in call.pinned THEN 1 ELSE 0)

Serving == attached /\ ready /\ live

\* A record marked resident names a snapshot the worker really holds, unless
\* the next expire() is about to reclaim it.
ResidentIsHeld ==
    Serving => \A id \in known \ {call.victim} :
        records[id].resident /\ Gettable(id) => id \in DOMAIN held

\* Between calls the worker holds nothing the registry forgot.
NothingLeaks ==
    Serving /\ Idle =>
        DOMAIN held \subseteq {id \in known : records[id].resident} \cup {w.id : w \in pending}

\* The budget is charged what the worker really keeps for the registered
\* snapshots, a lower blob shared by a pair once, and never less.
HeldBytes ==
    LET kept == DOMAIN held \cap known
    IN LowerBytes * Cardinality({held[x].lower : x \in kept})
         + UpperBytes * Cardinality({x \in kept : held[x].depth = 30})
ChargedIsHeld ==
    Serving /\ Idle /\ (\A id \in known : Gettable(id)) => residentBytes = HeldBytes

\* The charge never exceeds the budget, not even while victims are chosen.
WithinBudget == residentBytes \in 0..HostBytes

\* While the service runs, the directories are exactly the durable records:
\* none is lost, and none outlives its record to come back on a restart.
DirectoriesAreRecords ==
    attached => DOMAIN disk = {id \in known : records[id].durable}
                                \cup (IF call.pc = "retract" THEN {call.row.id} ELSE {})

\* At every instant the service may be killed, the directory it leaves is one
\* the next start can load.
CrashLeavesLoadableIndex == ~attached => IndexLoads

\* A directory says of its snapshot what the registry says, whatever promotions,
\* evictions and reloads it went through since: validation refuses no restore.
ManifestsMatch == \A x \in DOMAIN disk \cap known : ManifestMatches(disk[x], records[x])

\* What was persisted can be had back, by this process and by the next.
DirectoryIsRestorable == CrashLeavesLoadableIndex /\ ManifestsMatch

\* The registry at every step of every call, on every error path: records are
\* typed and no count is below zero, what they refer to is registered, and the
\* refcounts and lease counts are what they count.
RegistryConsistent == TypeOK /\ ParentsRegistered /\ RefcountsExact /\ LeasesExact

\* What the registry takes to be resident the worker holds, and what the worker
\* holds the registry knows: nothing is out of reach of the budget.
RegistryMatchesWorker == ResidentIsHeld /\ NothingLeaks

\* The budget is charged what is held, reloads and shared blobs included, and
\* is kept while victims are chosen.
BudgetIsExact == ChargedIsHeld /\ WithinBudget
============================================================================
