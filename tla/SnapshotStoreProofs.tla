------------------------- MODULE SnapshotStoreProofs -------------------------
(* Proofs about the snapshot store under any caller: its own invariant,    *)
(* that it and the worker agree, and what its clients can rely on.         *)
EXTENDS StoreInvariant, FiniteSetTheorems, TLAPS

----------------------------------------------------------------------------
(* What the synchronous parts of the store do to the registry.             *)

SameLinks(a, b) ==
    /\ DOMAIN a = DOMAIN b
    /\ \A x \in DOMAIN a : /\ a[x].parent = b[x].parent
                           /\ a[x].contextParent = b[x].contextParent
                           /\ a[x].refcount = b[x].refcount

LinksKept(a, b) ==
    /\ SameLinks(a, b)
    /\ \A x \in DOMAIN a : /\ a[x].durable = b[x].durable
                           /\ a[x].persistence = b[x].persistence

LEMMA PinEffect ==
    ASSUME NEW D, NEW recs \in [D -> Record], NEW S
    PROVE  /\ Pin(recs, S) \in [D -> Record]
           /\ LinksKept(recs, Pin(recs, S))
           /\ \A x \in D : /\ Pin(recs, S)[x].leases = recs[x].leases + (IF x \in S THEN 1 ELSE 0)
                           /\ Pin(recs, S)[x].resident = recs[x].resident
<1>1. ASSUME NEW r \in Record
      PROVE  /\ [r EXCEPT !.leases = @ + 1] \in Record
             /\ [r EXCEPT !.leases = @ + 1].leases = r.leases + 1
             /\ [r EXCEPT !.leases = @ + 1].parent = r.parent
             /\ [r EXCEPT !.leases = @ + 1].contextParent = r.contextParent
             /\ [r EXCEPT !.leases = @ + 1].refcount = r.refcount
             /\ [r EXCEPT !.leases = @ + 1].durable = r.durable
             /\ [r EXCEPT !.leases = @ + 1].persistence = r.persistence
             /\ [r EXCEPT !.leases = @ + 1].resident = r.resident
  BY <1>1 DEF Record
<1>2. \A x \in D : recs[x].leases \in Nat
  BY DEF Record
<1> QED BY <1>1, <1>2 DEF Pin, LinksKept, SameLinks

LEMMA UnpinEffect ==
    ASSUME NEW D, NEW recs \in [D -> Record], NEW S
    PROVE  /\ Unpin(recs, S) \in [D -> Record]
           /\ LinksKept(recs, Unpin(recs, S))
           /\ \A x \in D : /\ Unpin(recs, S)[x].leases = recs[x].leases
                                - (IF x \in S /\ recs[x].leases > 0 THEN 1 ELSE 0)
                           /\ Unpin(recs, S)[x].resident = recs[x].resident
<1>1. ASSUME NEW r \in Record, r.leases > 0
      PROVE  /\ [r EXCEPT !.leases = @ - 1] \in Record
             /\ [r EXCEPT !.leases = @ - 1].leases = r.leases - 1
             /\ [r EXCEPT !.leases = @ - 1].parent = r.parent
             /\ [r EXCEPT !.leases = @ - 1].contextParent = r.contextParent
             /\ [r EXCEPT !.leases = @ - 1].refcount = r.refcount
             /\ [r EXCEPT !.leases = @ - 1].durable = r.durable
             /\ [r EXCEPT !.leases = @ - 1].persistence = r.persistence
             /\ [r EXCEPT !.leases = @ - 1].resident = r.resident
  BY <1>1 DEF Record
<1>2. \A x \in D : recs[x].leases \in Nat
  BY DEF Record
<1> QED BY <1>1, <1>2 DEF Unpin, LinksKept, SameLinks

\* References resolve, and are counted: ParentsRegistered and RefcountsExact
\* of a registry.
Children(recs, x) == {c \in DOMAIN recs : x \in Refs(recs[c])}
Linked(recs) ==
    /\ \A x \in DOMAIN recs : Refs(recs[x]) \subseteq DOMAIN recs
    /\ \A x \in DOMAIN recs : recs[x].refcount = Cardinality(Children(recs, x))

LEMMA LinkedKept ==
    ASSUME NEW a, NEW b, SameLinks(a, b), Linked(a)
    PROVE  Linked(b)
<1>1. \A x \in DOMAIN a : Refs(a[x]) = Refs(b[x])
  BY DEF SameLinks, Refs
<1>2. \A x : Children(a, x) = Children(b, x)
  BY <1>1 DEF Children, SameLinks
<1> QED BY <1>1, <1>2 DEF Linked, SameLinks

LEMMA ForgetEffect ==
    ASSUME NEW D, IsFiniteSet(D), NEW recs \in [D -> Record], Linked(recs),
           NEW id \in D, recs[id].refcount = 0
    PROVE  LET F == Forget(recs, id) IN
           /\ F \in [D \ {id} -> Record] /\ Linked(F)
           /\ \A x \in D \ {id} : /\ F[x].leases = recs[x].leases
                                  /\ F[x].resident = recs[x].resident
                                  /\ F[x].durable = recs[x].durable
                                  /\ F[x].persistence = recs[x].persistence
<1> DEFINE F == Forget(recs, id)
           R == Refs(recs[id])
<1>1. ASSUME NEW r \in Record, r.refcount > 0
      PROVE  /\ [r EXCEPT !.refcount = @ - 1] \in Record
             /\ [r EXCEPT !.refcount = @ - 1].refcount = r.refcount - 1
             /\ [r EXCEPT !.refcount = @ - 1].parent = r.parent
             /\ [r EXCEPT !.refcount = @ - 1].contextParent = r.contextParent
             /\ [r EXCEPT !.refcount = @ - 1].leases = r.leases
             /\ [r EXCEPT !.refcount = @ - 1].durable = r.durable
             /\ [r EXCEPT !.refcount = @ - 1].persistence = r.persistence
             /\ [r EXCEPT !.refcount = @ - 1].resident = r.resident
  BY <1>1 DEF Record
<1>2. \A x \in D : recs[x].refcount \in Nat
  BY DEF Record
<1>3. DOMAIN F = D \ {id}
  BY DEF Forget
<1>4. ASSUME NEW x \in D \ {id}
      PROVE  /\ F[x] \in Record
             /\ F[x].parent = recs[x].parent /\ F[x].contextParent = recs[x].contextParent
             /\ F[x].leases = recs[x].leases /\ F[x].resident = recs[x].resident
             /\ F[x].durable = recs[x].durable
             /\ F[x].persistence = recs[x].persistence
             /\ F[x].refcount = IF x \in R /\ recs[x].refcount > 0
                                THEN recs[x].refcount - 1 ELSE recs[x].refcount
  BY <1>1, <1>2 DEF Forget
<1>5. F \in [D \ {id} -> Record]
  BY <1>3, <1>4 DEF Forget
<1>6. \A x \in D \ {id} : Refs(F[x]) = Refs(recs[x])
  BY <1>4 DEF Refs
<1>7. \A x \in D : IsFiniteSet(Children(recs, x)) /\ Children(recs, x) \subseteq D
  <2>1. \A x \in D : Children(recs, x) \in SUBSET D
    BY DEF Children
  <2> QED BY <2>1, FS_Subset
<1>8. Children(recs, id) = {}
  BY <1>7, FS_EmptySet DEF Linked
<1>9. \A x \in D : Refs(recs[x]) \subseteq D \ {id}
  BY <1>8 DEF Linked, Children
<1>10. ASSUME NEW x \in D \ {id}
       PROVE  F[x].refcount = Cardinality(Children(F, x))
  <2>1. Children(F, x) = Children(recs, x) \ {id}
    BY <1>3, <1>6 DEF Children
  <2>2. Cardinality(Children(recs, x) \ {id}) =
            IF id \in Children(recs, x) THEN Cardinality(Children(recs, x)) - 1
            ELSE Cardinality(Children(recs, x))
    BY <1>7, FS_RemoveElement
  <2>3. id \in Children(recs, x) <=> x \in R
    BY DEF Children
  <2>4. recs[x].refcount = Cardinality(Children(recs, x))
    BY DEF Linked
  <2>5. CASE x \in R
    <3>1. Children(recs, x) # {}
      BY <2>3, <2>5
    <3>2. recs[x].refcount > 0
      BY <3>1, <2>4, <1>2, <1>7, FS_EmptySet
    <3> QED BY <2>1, <2>2, <2>3, <2>4, <2>5, <3>2, <1>4
  <2>6. CASE x \notin R
    BY <2>1, <2>2, <2>3, <2>4, <2>6, <1>4
  <2> QED BY <2>5, <2>6
<1>11. Linked(F)
  BY <1>3, <1>6, <1>9, <1>10 DEF Linked
<1> QED BY <1>4, <1>5, <1>11

LEMMA InsertEffect ==
    ASSUME NEW D, IsFiniteSet(D), NEW recs \in [D -> Record], Linked(recs),
           NEW r \in Row, r.id \notin D, Refs(r) \subseteq D
    PROVE  LET I == Insert(recs, r) IN
           /\ I \in [D \cup {r.id} -> Record] /\ Linked(I)
           /\ \A x \in D : /\ I[x].leases = recs[x].leases
                           /\ I[x].resident = recs[x].resident
                           /\ I[x].durable = recs[x].durable
                           /\ I[x].persistence = recs[x].persistence
           /\ I[r.id].leases = 0 /\ I[r.id].refcount = 0 /\ ~I[r.id].durable
           /\ I[r.id].persistence = r.persistence
<1> DEFINE I == Insert(recs, r)
<1>1. ASSUME NEW q \in Record
      PROVE  /\ [q EXCEPT !.refcount = @ + 1] \in Record
             /\ [q EXCEPT !.refcount = @ + 1].refcount = q.refcount + 1
             /\ [q EXCEPT !.refcount = @ + 1].parent = q.parent
             /\ [q EXCEPT !.refcount = @ + 1].contextParent = q.contextParent
             /\ [q EXCEPT !.refcount = @ + 1].leases = q.leases
             /\ [q EXCEPT !.refcount = @ + 1].durable = q.durable
             /\ [q EXCEPT !.refcount = @ + 1].persistence = q.persistence
             /\ [q EXCEPT !.refcount = @ + 1].resident = q.resident
  BY DEF Record
<1>2. /\ NewRecord(r) \in Record
      /\ NewRecord(r).parent = r.parent /\ NewRecord(r).contextParent = r.contextParent
      /\ NewRecord(r).leases = 0 /\ NewRecord(r).refcount = 0 /\ ~NewRecord(r).durable
      /\ NewRecord(r).persistence = r.persistence
  BY DEF NewRecord, Record, Row, Ref
<1>3. DOMAIN I = D \cup {r.id}
  BY DEF Insert
<1>4. ASSUME NEW x \in D
      PROVE  /\ I[x] \in Record
             /\ I[x].parent = recs[x].parent /\ I[x].contextParent = recs[x].contextParent
             /\ I[x].leases = recs[x].leases /\ I[x].resident = recs[x].resident
             /\ I[x].durable = recs[x].durable
             /\ I[x].persistence = recs[x].persistence
             /\ I[x].refcount = IF x \in Refs(r) THEN recs[x].refcount + 1 ELSE recs[x].refcount
  BY <1>1 DEF Insert
<1>5. I[r.id] = NewRecord(r)
  BY DEF Insert
<1>6. I \in [D \cup {r.id} -> Record]
  BY <1>2, <1>3, <1>4, <1>5 DEF Insert
<1>7. (\A x \in D : Refs(I[x]) = Refs(recs[x])) /\ Refs(I[r.id]) = Refs(r)
  BY <1>2, <1>4, <1>5 DEF Refs
<1>8. \A x : IsFiniteSet(Children(recs, x)) /\ Children(recs, x) \subseteq D
  <2>1. \A x : Children(recs, x) \in SUBSET D
    BY DEF Children
  <2> QED BY <2>1, FS_Subset
<1>9. ASSUME NEW x \in D
      PROVE  I[x].refcount = Cardinality(Children(I, x))
  <2>1. recs[x].refcount = Cardinality(Children(recs, x))
    BY DEF Linked
  <2>2. CASE x \in Refs(r)
    <3>1. Children(I, x) = Children(recs, x) \cup {r.id}
      BY <1>3, <1>7, <2>2 DEF Children
    <3>2. Cardinality(Children(I, x)) = Cardinality(Children(recs, x)) + 1
      BY <3>1, <1>8, FS_AddElement
    <3> QED BY <2>1, <2>2, <3>2, <1>4
  <2>3. CASE x \notin Refs(r)
    <3>1. Children(I, x) = Children(recs, x)
      BY <1>3, <1>7, <2>3 DEF Children
    <3> QED BY <2>1, <2>3, <3>1, <1>4
  <2> QED BY <2>2, <2>3
<1>10. Children(I, r.id) = {}
  BY <1>3, <1>7 DEF Children, Linked
<1>11. Linked(I)
  BY <1>2, <1>3, <1>5, <1>7, <1>9, <1>10, FS_EmptySet DEF Linked
<1> QED BY <1>2, <1>4, <1>5, <1>6, <1>11

----------------------------------------------------------------------------
(* Small facts.                                                            *)

LEMMA LinkedRecords == Linked(records) <=> ParentsRegistered /\ RefcountsExact
BY DEF Linked, Children, ParentsRegistered, RefcountsExact, known

LEMMA LinkedNext ==
    ASSUME Linked(records')
    PROVE  (ParentsRegistered /\ RefcountsExact)'
BY DEF Linked, Children, ParentsRegistered, RefcountsExact, known

LEMMA LinksInv ==
    ASSUME RegistryInv, SameLinks(records, records')
    PROVE  known' = known /\ (ParentsRegistered /\ RefcountsExact)'
<1>1. known' = known
  BY DEF SameLinks, known
<1>2. Linked(records')
  BY LinkedKept, LinkedRecords DEF RegistryInv
<1> QED BY <1>1, <1>2, LinkedNext

LEMMA DurableInv ==
    ASSUME RegistryInv, LinksKept(records, records')
    PROVE  DurableIsDisk'
BY DEF RegistryInv, LinksKept, SameLinks, DurableIsDisk, known

LEMMA EndedFields ==
    ASSUME NEW ok \in BOOLEAN
    PROVE  /\ Ended(ok) \in Call
           /\ Ended(ok).op = "none" /\ Ended(ok).pc = "idle" /\ Ended(ok).pinned = {}
BY DEF Ended, Call, Ref

LEMMA TouchType ==
    ASSUME NEW order \in SUBSET (Ids \X Ids), known \subseteq Ids, NEW id \in Ids
    PROVE  Touch(order, id) \in SUBSET (Ids \X Ids)
BY DEF Touch

LEMMA AncestorsKnown ==
    ASSUME NEW id \in known
    PROVE  Ancestors(id) \subseteq known /\ id \in Ancestors(id)
BY DEF Ancestors

LEMMA KnownFinite ==
    ASSUME known \subseteq Ids
    PROVE  IsFiniteSet(known)
BY IdsAssumption, FS_Subset

\* A call that has ended holds nothing.
LEMMA CallEnded ==
    ASSUME NEW ok \in BOOLEAN, call' = Ended(ok), attached' = TRUE
    PROVE  CallInv' /\ Admitted' = FALSE
BY EndedFields DEF CallInv, CallSteps, CallHolds, CallPins, Admitted, Expiring, Ended

----------------------------------------------------------------------------
(* Steps that keep every link, in three kinds: no lease changes, a call    *)
(* that ends gives up its pins, and a caller's lease opens or closes.      *)

LEMMA RegistryFrame ==
    ASSUME TypeOK, RegistryInv, records' \in [known' -> Record], LinksKept(records, records'),
           \A x \in known : records'[x].leases = records[x].leases,
           UNCHANGED <<attached, disk, outer>>, call'.pinned = call.pinned,
           call.pc # "retract", call'.pc # "retract"
    PROVE  RegistryInv'
<1>1. known' = known /\ (ParentsRegistered /\ RefcountsExact)'
  BY LinksInv DEF LinksKept
<1>2. LeasesExact' /\ PinsRegistered'
  BY <1>1 DEF RegistryInv, LeasesExact, PinsRegistered
<1>3. DirectoriesAreRecords'
  BY <1>1 DEF RegistryInv, DirectoriesAreRecords, LinksKept, SameLinks, known
<1> QED BY <1>1, <1>2, <1>3, DurableInv DEF RegistryInv

LEMMA RegistryRaises ==
    ASSUME TypeOK, RegistryInv, call.pc # "retract", NEW ok \in BOOLEAN, call' = Ended(ok),
           records' = Unpin(records, call.pinned), UNCHANGED <<attached, disk, outer>>
    PROVE  RegistryInv' /\ known' = known /\ records' \in [known' -> Record]
<1>1. /\ records' \in [known -> Record] /\ LinksKept(records, records')
      /\ \A x \in known : records'[x].leases = records[x].leases
             - (IF x \in call.pinned /\ records[x].leases > 0 THEN 1 ELSE 0)
  BY UnpinEffect DEF TypeOK
<1>2. known' = known /\ (ParentsRegistered /\ RefcountsExact)'
  BY <1>1, LinksInv DEF LinksKept
<1>3. call'.pinned = {} /\ call'.pc = "idle"
  BY EndedFields
<1>4. LeasesExact' /\ PinsRegistered'
  BY <1>1, <1>2, <1>3 DEF RegistryInv, LeasesExact, PinsRegistered
<1>5. DirectoriesAreRecords'
  BY <1>1, <1>2, <1>3 DEF RegistryInv, DirectoriesAreRecords, LinksKept, SameLinks, known
<1> QED BY <1>1, <1>2, <1>4, <1>5, DurableInv DEF RegistryInv

LEMMA RaisesInv ==
    ASSUME IInv, attached = TRUE, call.pc # "retract", Raises, UNCHANGED <<disk, outer>>
    PROVE  CallInv' /\ RegistryInv' /\ known' = known /\ records' \in [known' -> Record]
BY RegistryRaises, CallEnded DEF IInv, Raises

----------------------------------------------------------------------------
(* Entering the store.                                                     *)

LEMMA IdleFacts ==
    ASSUME IInv, Idle
    PROVE  /\ attached = TRUE /\ call.op = "none" /\ call.pc = "idle" /\ call.pinned = {}
           /\ ~Admitted
BY DEF IInv, TypeOK, Idle, CallInv, CallSteps, CallPins, Admitted

LEMMA CallExpireInv ==
    ASSUME IInv, expired' \subseteq Ids, CallExpire
    PROVE  IInv'
<1>1. /\ call' \in Call /\ call'.op = "expire" /\ call'.pc = "expire" /\ call'.after = "idle"
      /\ call'.pinned = {}
  BY DEF CallExpire, Started, Ended, Call, Ref
<1>2. TypeOK'
  BY <1>1 DEF IInv, TypeOK, CallExpire, storeVars, workerVars, diskVars, clientVars, known
<1>3. CallInv'
  BY <1>1, IdleFacts DEF CallExpire, CallInv, CallSteps, CallHolds, CallPins, Admitted,
     Expiring, storeVars
<1>4. RegistryInv'
  BY <1>1, IdleFacts, RegistryFrame DEF IInv, TypeOK, CallExpire, LinksKept, SameLinks, storeVars,
     diskVars, clientVars, known
<1> QED BY <1>2, <1>3, <1>4 DEF IInv

LEMMA CallRegisterInv ==
    ASSUME IInv, expired' \subseteq Ids, NEW r \in Row, CallRegister(r)
    PROVE  IInv'
<1>1. /\ call' \in Call /\ call'.op = "register" /\ call'.pc = "expire"
      /\ call'.after = "admit" /\ call'.pinned = {} /\ call'.row = r
  BY DEF CallRegister, Started, Ended, Call, Ref
<1>2. TypeOK'
  BY <1>1 DEF IInv, TypeOK, CallRegister, storeVars, workerVars, diskVars, clientVars, known
<1>3. CallInv'
  BY <1>1, IdleFacts DEF CallRegister, CallInv, CallSteps, CallHolds, CallPins, Admitted,
     Expiring, storeVars
<1>4. RegistryInv'
  BY <1>1, IdleFacts, RegistryFrame DEF IInv, TypeOK, CallRegister, LinksKept, SameLinks, storeVars,
     diskVars, clientVars, known
<1> QED BY <1>2, <1>3, <1>4 DEF IInv

LEMMA CallRestoreInv ==
    ASSUME IInv, expired' \subseteq Ids, NEW id \in Ids, CallRestore(id)
    PROVE  IInv'
<1>1. /\ call' \in Call /\ call'.pinned = {} /\ call'.pc # "retract"
      /\ \/ call' = Ended(FALSE)
         \/ /\ call'.op = "restore" /\ call'.pc = "expire" /\ call'.after = "budget"
            /\ call'.target = id
  BY DEF CallRestore, Started, Ended, Call, Ref
<1>2. TypeOK'
  BY <1>1, TouchType DEF IInv, TypeOK, CallRestore, workerVars, diskVars, clientVars, known
<1>3. CallInv'
  <2>1. CASE call' = Ended(FALSE)
    BY <2>1, IdleFacts, CallEnded DEF CallRestore
  <2>2. CASE call' # Ended(FALSE)
    <3>1. /\ attached' = TRUE /\ records' = records /\ outer' = outer
          /\ id \in known \cap outer /\ records[id].durable /\ ~records[id].resident
      BY IdleFacts DEF CallRestore, clientVars, Gettable
    <3>2. /\ call'.op = "restore" /\ call'.pc = "expire" /\ call'.after = "budget"
          /\ call'.target = id /\ call'.pinned = {}
      BY <1>1, <2>2
    <3> QED BY <3>1, <3>2 DEF CallInv, CallSteps, CallHolds, CallPins, Admitted, Expiring, known
  <2> QED BY <2>1, <2>2
<1>4. RegistryInv'
  BY <1>1, IdleFacts, RegistryFrame DEF IInv, TypeOK, CallRestore, LinksKept, SameLinks,
     diskVars, clientVars, known
<1> QED BY <1>2, <1>3, <1>4 DEF IInv

LEMMA CallDeleteInv ==
    ASSUME IInv, expired' \subseteq Ids, NEW id \in Ids, CallDelete(id)
    PROVE  IInv'
<1>1. /\ call' \in Call /\ call'.op = "delete" /\ call'.pc = "drop" /\ call'.pinned = {}
      /\ call'.target = id
  BY DEF CallDelete, Started, Ended, Call, Ref
<1>2. TypeOK'
  BY <1>1, TouchType DEF IInv, TypeOK, CallDelete, workerVars, diskVars, clientVars, known
<1>3. CallInv'
  BY <1>1, IdleFacts DEF CallDelete, CallInv, CallSteps, CallHolds, CallPins, Admitted,
     Expiring, Loose, Gettable, known
<1>4. RegistryInv'
  BY <1>1, IdleFacts, RegistryFrame DEF IInv, TypeOK, CallDelete, LinksKept, SameLinks,
     diskVars, clientVars, known
<1> QED BY <1>2, <1>3, <1>4 DEF IInv

\* A method that returns at once, and changes neither leases nor links.
LEMMA ReturnsInv ==
    ASSUME IInv, Idle, TypeOK', NEW ok \in BOOLEAN, call' = Ended(ok),
           LinksKept(records, records'),
           \A x \in known : records'[x].leases = records[x].leases,
           UNCHANGED <<attached, disk, outer>>
    PROVE  IInv'
<1>1. call'.pinned = {} /\ call'.pc = "idle"
  BY EndedFields
<1>2. CallInv'
  BY IdleFacts, CallEnded
<1>3. RegistryInv'
  BY <1>1, IdleFacts, RegistryFrame DEF IInv, TypeOK
<1> QED BY <1>2, <1>3 DEF IInv

LEMMA GetInv ==
    ASSUME IInv, expired' \subseteq Ids, NEW id \in Ids, Get(id)
    PROVE  IInv'
<1>1. TypeOK'
  BY TouchType, EndedFields DEF IInv, TypeOK, Get, Returns, workerVars, diskVars, clientVars, known
<1> QED BY <1>1, ReturnsInv DEF Get, Returns, LinksKept, SameLinks, diskVars, clientVars

\* ConsultMemo and Memoize change what a parent remembers, and nothing else.
LEMMA RememberType ==
    ASSUME records \in [known -> Record], NEW p \in known, NEW c \in Ref,
           records' = [records EXCEPT ![p].promotionChild = c]
    PROVE  /\ records' \in [known -> Record] /\ LinksKept(records, records')
           /\ \A x \in known : records'[x].leases = records[x].leases
<1>1. ASSUME NEW r \in Record
      PROVE  /\ [r EXCEPT !.promotionChild = c] \in Record
             /\ [r EXCEPT !.promotionChild = c].parent = r.parent
             /\ [r EXCEPT !.promotionChild = c].contextParent = r.contextParent
             /\ [r EXCEPT !.promotionChild = c].refcount = r.refcount
             /\ [r EXCEPT !.promotionChild = c].durable = r.durable
             /\ [r EXCEPT !.promotionChild = c].persistence = r.persistence
             /\ [r EXCEPT !.promotionChild = c].leases = r.leases
  BY DEF Record
<1> QED BY <1>1 DEF LinksKept, SameLinks

LEMMA MemoizeInv ==
    ASSUME IInv, expired' \subseteq Ids, NEW p \in Ids, NEW c \in Ids, Memoize(p, c)
    PROVE  IInv'
<1>1. /\ p \in known /\ records' = [records EXCEPT ![p].promotionChild = c]
      /\ call' = Ended(TRUE) /\ UNCHANGED <<attached, residentBytes, disk, partial, outer, pending>>
      /\ UNCHANGED <<ready, live, held>> /\ older' = Touch(Touch(older, p), c)
  BY DEF Memoize, Returns, Gettable, diskVars, clientVars, workerVars
<1>2. /\ records' \in [known -> Record] /\ LinksKept(records, records')
      /\ \A x \in known : records'[x].leases = records[x].leases
  <2>1. records \in [known -> Record] /\ c \in Ref
    BY DEF IInv, TypeOK, Ref
  <2> QED BY <1>1, <2>1, RememberType
<1>3. older' \in SUBSET (Ids \X Ids)
  <2>1. Touch(older, p) \in SUBSET (Ids \X Ids)
    BY TouchType DEF IInv, TypeOK
  <2> QED BY <1>1, <2>1, TouchType DEF IInv, TypeOK
<1>4. TypeOK'
  BY <1>1, <1>2, <1>3, EndedFields DEF IInv, TypeOK, known
<1> QED BY <1>1, <1>2, <1>4, ReturnsInv DEF Memoize

LEMMA ConsultMemoInv ==
    ASSUME IInv, expired' \subseteq Ids, NEW p \in Ids, ConsultMemo(p)
    PROVE  IInv'
<1> DEFINE c == MemoizedPromotion(p)
<1>1. /\ p \in known /\ records' = [records EXCEPT ![p].promotionChild = c]
      /\ call' = Ended(TRUE) /\ UNCHANGED <<attached, residentBytes, disk, partial, outer, pending>>
      /\ UNCHANGED <<ready, live, held>> /\ older' = Touch(older, p)
  BY DEF ConsultMemo, Returns, Gettable, diskVars, clientVars, workerVars
<1>2. c \in Ref
  BY <1>1 DEF MemoizedPromotion, IInv, TypeOK, Record, Ref
<1>3. /\ records' \in [known -> Record] /\ LinksKept(records, records')
      /\ \A x \in known : records'[x].leases = records[x].leases
  <2>1. records \in [known -> Record]
    BY DEF IInv, TypeOK
  <2> HIDE DEF c
  <2> QED BY <1>1, <1>2, <2>1, RememberType
<1>4. older' \in SUBSET (Ids \X Ids)
  BY <1>1, TouchType DEF IInv, TypeOK
<1>5. TypeOK'
  BY <1>1, <1>3, <1>4, EndedFields DEF IInv, TypeOK, known
<1> QED BY <1>1, <1>3, <1>5, ReturnsInv DEF ConsultMemo

LEMMA LeaseInv ==
    ASSUME IInv, expired' \subseteq Ids, NEW id \in Ids, Lease(id)
    PROVE  IInv'
<1> DEFINE S == Ancestors(id)
<1>1. /\ id \in known /\ outer = {} /\ outer' = S /\ records' = Pin(records, S)
      /\ call' = Ended(TRUE) /\ UNCHANGED <<attached, residentBytes, disk, partial, pending>>
      /\ UNCHANGED <<ready, live, held>> /\ older' = Touch(older, id)
  BY DEF Lease, Returns, Gettable, diskVars, workerVars
<1>2. S \subseteq known
  BY <1>1, AncestorsKnown
<1>3. /\ records' \in [known -> Record] /\ LinksKept(records, records')
      /\ \A x \in known : records'[x].leases = records[x].leases + (IF x \in S THEN 1 ELSE 0)
  BY <1>1, PinEffect DEF IInv, TypeOK
<1>4. known' = known
  BY <1>3 DEF LinksKept, SameLinks, known
<1>5. older' \in SUBSET (Ids \X Ids)
  BY <1>1, TouchType DEF IInv, TypeOK
<1>6. TypeOK'
  BY <1>1, <1>2, <1>3, <1>4, <1>5, EndedFields DEF IInv, TypeOK
<1>7. CallInv'
  BY <1>1, IdleFacts, CallEnded DEF Lease
<1>8. call.pinned = {} /\ call'.pinned = {} /\ call'.pc = "idle" /\ call.pc = "idle"
  BY <1>1, IdleFacts, EndedFields DEF Lease
<1>9. (ParentsRegistered /\ RefcountsExact)' /\ DurableIsDisk'
  BY <1>3, LinksInv, DurableInv DEF IInv, LinksKept
<1>10. LeasesExact' /\ PinsRegistered'
  <2>1. \A x \in known : records[x].leases = 0
    BY <1>1, <1>8 DEF IInv, RegistryInv, LeasesExact
  <2>2. \A x \in known' : records'[x].leases = (IF x \in S THEN 1 ELSE 0)
    BY <1>3, <1>4, <2>1
  <2>3. outer' = S
    BY <1>1
  <2> HIDE DEF S
  <2> QED BY <1>2, <1>4, <1>8, <2>2, <2>3 DEF LeasesExact, PinsRegistered
<1>11. DirectoriesAreRecords'
  BY <1>1, <1>3, <1>4, <1>8 DEF IInv, RegistryInv, DirectoriesAreRecords, LinksKept, SameLinks, known
<1> QED BY <1>6, <1>7, <1>9, <1>10, <1>11 DEF IInv, RegistryInv

LEMMA ReleaseInv ==
    ASSUME IInv, expired' \subseteq Ids, Release
    PROVE  IInv'
<1>1. /\ outer' = {} /\ records' = Unpin(records, outer) /\ call' = call
      /\ UNCHANGED <<attached, residentBytes, disk, partial, pending>>
      /\ UNCHANGED <<ready, live, held, older>>
  BY DEF Release, diskVars, workerVars
<1>2. /\ records' \in [known -> Record] /\ LinksKept(records, records')
      /\ \A x \in known : records'[x].leases = records[x].leases
             - (IF x \in outer /\ records[x].leases > 0 THEN 1 ELSE 0)
  BY <1>1, UnpinEffect DEF IInv, TypeOK
<1>3. known' = known
  BY <1>2 DEF LinksKept, SameLinks, known
<1>4. TypeOK'
  BY <1>1, <1>2, <1>3 DEF IInv, TypeOK
<1>5. /\ attached = TRUE /\ call.op = "none" /\ call.pc = "idle" /\ call.pinned = {}
  BY IdleFacts DEF Release
<1>6. CallInv'
  BY <1>1, <1>5 DEF CallInv, CallSteps, CallHolds, CallPins, Admitted
<1>7. (ParentsRegistered /\ RefcountsExact)' /\ DurableIsDisk'
  BY <1>2, LinksInv, DurableInv DEF IInv, LinksKept
<1>8. LeasesExact' /\ PinsRegistered'
  BY <1>1, <1>2, <1>3, <1>5 DEF IInv, RegistryInv, LeasesExact, PinsRegistered
<1>9. DirectoriesAreRecords'
  BY <1>1, <1>2, <1>3, <1>5 DEF IInv, RegistryInv, DirectoriesAreRecords, LinksKept, SameLinks, known
<1> QED BY <1>4, <1>6, <1>7, <1>8, <1>9 DEF IInv, RegistryInv
----------------------------------------------------------------------------
(* The worker's commands, and the failures no call takes part in.          *)

LEMMA WithoutType ==
    ASSUME NEW T, NEW D, NEW f \in [D -> T], NEW id
    PROVE  Without(f, id) \in [D \ {id} -> T]
BY DEF Without, Restrict

LEMMA WithType ==
    ASSUME NEW T, NEW D, NEW f \in [D -> T], NEW id, NEW v \in T
    PROVE  With(f, id, v) \in [D \cup {id} -> T]
BY DEF With

LEMMA NothingType ==
    /\ DOMAIN Nothing = {}
    /\ \A T : Nothing \in [DOMAIN Nothing -> T]
BY DEF Nothing

\* What the worker is doing never reaches the invariant, its type apart.
HeldOK == DOMAIN held \subseteq Ids /\ held \in [DOMAIN held -> Holding]
          /\ ready \in BOOLEAN /\ live \in BOOLEAN

LEMMA DropType ==
    ASSUME TypeOK, NEW id, NativeDrop(id)
    PROVE  HeldOK'
<1>1. held' = Without(held, id) /\ UNCHANGED <<ready, live>>
  BY DEF NativeDrop
<1>2. held \in [DOMAIN held -> Holding] /\ DOMAIN held \subseteq Ids
  BY DEF TypeOK
<1>3. Without(held, id) \in [DOMAIN held \ {id} -> Holding]
  BY <1>2, WithoutType
<1> QED BY <1>1, <1>2, <1>3 DEF HeldOK, TypeOK

LEMMA LoseType ==
    ASSUME LoseWorker
    PROVE  HeldOK' /\ pending' \subseteq WorkerRow
BY NothingType DEF LoseWorker, HeldOK

LEMMA PublishesInv ==
    ASSUME IInv, expired' \subseteq Ids, Idle, NEW hs, DOMAIN hs \subseteq Ids,
           \A x \in DOMAIN hs : hs[x] \in Holding,
           NEW kind \in {"capture", "promote", "branch", "orphan"}, Publishes(hs, kind)
    PROVE  IInv'
<1>1. HeldOK'
  BY DEF Publishes, HeldOK, IInv, TypeOK
<1>2. \A x \in DOMAIN hs : RowBytes(x, hs[x]) \in Nat
  BY BytesAssumption DEF RowBytes
<1>3. pending' \subseteq WorkerRow
  BY <1>2 DEF Publishes, WorkerRow, Holding
<1>4. /\ UNCHANGED <<attached, records, older, residentBytes, disk, partial, outer>>
      /\ call' = Ended(TRUE)
  BY DEF Publishes, Returns, storeVars, diskVars
<1>5. TypeOK'
  BY <1>1, <1>3, <1>4, EndedFields DEF IInv, TypeOK, HeldOK, known
<1> QED BY <1>4, <1>5, ReturnsInv DEF LinksKept, SameLinks

LEMMA CreateInv ==
    ASSUME IInv, expired' \subseteq Ids, NEW a \in Ids, NEW depth \in Depth, Create(a, depth)
    PROVE  IInv'
<1> DEFINE hs == [x \in {a} |-> [depth |-> depth, parent |-> None, lower |-> a]]
<1>1. Idle /\ Publishes(hs, "capture")
  BY DEF Create, Infers
<1>2. DOMAIN hs \subseteq Ids /\ \A x \in DOMAIN hs : hs[x] \in Holding
  BY DEF Holding, Ref
<1> HIDE DEF hs
<1> QED BY <1>1, <1>2, PublishesInv

LEMMA CreatePairInv ==
    ASSUME IInv, expired' \subseteq Ids, NEW a \in Ids, NEW b \in Ids, CreatePair(a, b)
    PROVE  IInv'
<1> DEFINE hs == [x \in {a, b} |->
                     IF x = a THEN [depth |-> 18, parent |-> None, lower |-> a]
                     ELSE [depth |-> 30, parent |-> a, lower |-> a]]
<1>1. Idle /\ Publishes(hs, "capture")
  BY DEF CreatePair, Infers
<1>2. DOMAIN hs \subseteq Ids /\ \A x \in DOMAIN hs : hs[x] \in Holding
  BY DEF Holding, Ref, Depth
<1> HIDE DEF hs
<1> QED BY <1>1, <1>2, PublishesInv

LEMMA PromoteInv ==
    ASSUME IInv, expired' \subseteq Ids, NEW p \in Ids, NEW a \in Ids, Promote(p, a)
    PROVE  IInv'
<1> DEFINE hs == [x \in {a} |-> [depth |-> 30, parent |-> p, lower |-> held[p].lower]]
<1>1. Idle /\ Publishes(hs, "promote") /\ p \in DOMAIN held
  BY DEF Promote, Infers
<1>2. held[p] \in Holding
  BY <1>1 DEF IInv, TypeOK
<1>3. DOMAIN hs \subseteq Ids /\ \A x \in DOMAIN hs : hs[x] \in Holding
  BY <1>2 DEF Holding, Ref, Depth
<1> HIDE DEF hs
<1> QED BY <1>1, <1>3, PublishesInv

LEMMA BranchInv ==
    ASSUME IInv, expired' \subseteq Ids, NEW p \in Ids, NEW S \in SUBSET Ids,
           NEW kind \in {"branch", "orphan"}, Branch(p, S, kind)
    PROVE  IInv'
<1> DEFINE hs == [x \in S |-> [depth |-> 30, parent |-> p, lower |-> x]]
<1>1. Idle /\ Publishes(hs, kind)
  BY DEF Branch, Infers
<1>2. DOMAIN hs \subseteq Ids /\ \A x \in DOMAIN hs : hs[x] \in Holding
  BY DEF Holding, Ref, Depth
<1> HIDE DEF hs
<1> QED BY <1>1, <1>2, PublishesInv

LEMMA CommandLostInv ==
    ASSUME IInv, expired' \subseteq Ids, CommandLost
    PROVE  IInv'
<1>1. /\ UNCHANGED <<attached, records, older, residentBytes, disk, partial, outer>>
      /\ call' = Ended(FALSE) /\ Idle /\ HeldOK' /\ pending' \subseteq WorkerRow
  BY LoseType DEF CommandLost, storeVars, diskVars
<1>2. TypeOK'
  BY <1>1, EndedFields DEF IInv, TypeOK, HeldOK, known
<1> QED BY <1>1, <1>2, ReturnsInv DEF LinksKept, SameLinks

LEMMA GiveUpInv ==
    ASSUME IInv, expired' \subseteq Ids, NEW id \in Ids, GiveUp(id)
    PROVE  IInv'
<1>1. /\ UNCHANGED <<attached, records, older, residentBytes, disk, partial, outer>>
      /\ call' = Ended(TRUE) /\ Idle /\ HeldOK' /\ pending' \subseteq pending
  BY DropType DEF GiveUp, Returns, storeVars, diskVars, IInv
<1>2. TypeOK'
  BY <1>1, EndedFields DEF IInv, TypeOK, HeldOK, known
<1> QED BY <1>1, <1>2, ReturnsInv DEF LinksKept, SameLinks

LEMMA RegisterInv ==
    ASSUME IInv, expired' \subseteq Ids, NEW w \in pending, NEW q \in Persistence,
           NEW b \in Boundaries, Register(w, q, b)
    PROVE  IInv'
<1>1. w \in WorkerRow /\ b \in Boundary /\ w.parent \in known => records[w.parent] \in Record
  BY BoundariesAssumption DEF IInv, TypeOK
<1>2. RowFor(w, q, b) \in Row
  <2>1. w \in WorkerRow /\ b \in Boundary
    BY BoundariesAssumption DEF IInv, TypeOK
  <2>2. CASE w.parent \in known
    <3>1. records[w.parent] \in Record
      BY <2>2 DEF IInv, TypeOK
    <3> QED BY <2>1, <2>2, <3>1 DEF RowFor, Row, Record, WorkerRow, Boundary, Ref
  <2>3. CASE w.parent \notin known
    BY <2>1, <2>3 DEF RowFor, Row, WorkerRow, Boundary, Ref
  <2> QED BY <2>2, <2>3
<1> QED BY <1>2, CallRegisterInv DEF Register

\* A step that leaves the registry, the directory and the call alone.
LEMMA QuietInv ==
    ASSUME IInv, TypeOK', UNCHANGED <<attached, records, disk, call, outer>>
    PROVE  IInv'
<1>1. CallInv'
  BY DEF IInv, CallInv, CallSteps, CallHolds, CallPins, Admitted, Expiring, Loose, known
<1>2. RegistryInv'
  BY DEF IInv, RegistryInv, ParentsRegistered, RefcountsExact, LeasesExact, PinsRegistered,
     DirectoriesAreRecords, DurableIsDisk, known
<1> QED BY <1>1, <1>2 DEF IInv

LEMMA WorkerDiesInv ==
    ASSUME IInv, expired' \subseteq Ids, WorkerDies
    PROVE  IInv'
<1>1. /\ UNCHANGED <<attached, records, older, residentBytes, disk, partial, outer, pending>>
      /\ UNCHANGED <<ready, call>> /\ live' = FALSE /\ held' = Nothing
  BY DEF WorkerDies, storeVars, diskVars, clientVars
<1>2. TypeOK'
  BY <1>1, NothingType DEF IInv, TypeOK, known
<1> QED BY <1>1, <1>2, QuietInv

LEMMA CrashInv ==
    ASSUME IInv, expired' \subseteq Ids, Crash
    PROVE  IInv'
<1>1. /\ attached' = FALSE /\ records' = Nothing /\ older' = {} /\ residentBytes' = 0
      /\ HeldOK' /\ pending' \subseteq WorkerRow /\ call' = Ended(TRUE) /\ outer' = {}
      /\ UNCHANGED <<disk, partial>>
  BY LoseType DEF Crash, diskVars
<1>2. known' = {} /\ records' \in [known' -> Record]
  BY <1>1, NothingType DEF known
<1>3. TypeOK'
  <2>1. attached' \in BOOLEAN
    BY <1>1, Zenon
  <2>2. older' \subseteq Ids \X Ids /\ residentBytes' \in Int
    BY <1>1
  <2>3. disk' = disk /\ partial' = partial /\ call' \in Call /\ outer' \subseteq Ids
    BY <1>1, EndedFields
  <2>4. HeldOK' /\ pending' \subseteq WorkerRow
    BY <1>1
  <2> QED BY <1>2, <2>1, <2>2, <2>3, <2>4 DEF IInv, TypeOK, HeldOK
<1>4. CallInv'
  BY <1>1, <1>2, EndedFields DEF CallInv, CallSteps, CallHolds, CallPins, Admitted, Expiring, Ended
<1>5. RegistryInv'
  BY <1>1, <1>2, EndedFields DEF RegistryInv, ParentsRegistered, RefcountsExact, LeasesExact,
     PinsRegistered, DirectoriesAreRecords, DurableIsDisk
<1> QED BY <1>3, <1>4, <1>5 DEF IInv

LEMMA AttachInv ==
    ASSUME IInv, expired' \subseteq Ids, Attach
    PROVE  IInv'
<1> DEFINE D == DOMAIN disk
<1>1. PICK memo \in [D -> Ref] : records' = [id \in D |-> IndexRecord(id, memo[id])]
  BY DEF Attach, LoadIndex
<1>2. /\ attached' = TRUE /\ residentBytes' = 0 /\ HeldOK' /\ call' = Ended(TRUE)
      /\ outer' = {} /\ pending' = {} /\ UNCHANGED <<disk, partial>>
      /\ \A id \in D : Refs(disk[id]) \subseteq D
  BY NothingType DEF Attach, LoadIndex, StartWorker, Returns, diskVars, clientVars, IndexLoads, HeldOK
<1>3. known' = D /\ D \subseteq Ids /\ IsFiniteSet(D)
  BY <1>1, IdsAssumption, FS_Subset DEF known, IInv, TypeOK
<1>4. ASSUME NEW id \in D
      PROVE  /\ IndexRecord(id, memo[id]) \in Record
             /\ Refs(IndexRecord(id, memo[id])) = Refs(disk[id])
             /\ IndexRecord(id, memo[id]).leases = 0
             /\ IndexRecord(id, memo[id]).durable
             /\ IndexRecord(id, memo[id]).persistence = "disk"
             /\ IndexRecord(id, memo[id]).refcount = Cardinality({c \in D : id \in Refs(disk[c])})
  <2>1. {c \in D : id \in Refs(disk[c])} \in SUBSET D
    OBVIOUS
  <2>2. Cardinality({c \in D : id \in Refs(disk[c])}) \in Nat
    BY <2>1, <1>3, FS_Subset, FS_CardinalityType
  <2>3. disk[id] \in Manifest
    BY DEF IInv, TypeOK
  <2> QED BY <2>2, <2>3 DEF IndexRecord, Record, Manifest, Refs, Persistence
<1>5. older' \subseteq Ids \X Ids
  <2>1. PICK f : older' = {p \in D \X D : f[p[1]] < f[p[2]]}
    BY DEF Attach, LoadIndex, IndexOrders
  <2> QED BY <2>1, <1>3
<1>6. TypeOK'
  <2>1. records' \in [known' -> Record]
    BY <1>1, <1>3, <1>4
  <2>2. /\ disk' = disk /\ partial' = partial /\ outer' \subseteq Ids
        /\ pending' \subseteq WorkerRow
    BY <1>2
  <2>3. attached' \in BOOLEAN
    BY <1>2, Zenon
  <2>4. call' \in Call
    BY <1>2, EndedFields
  <2>5. residentBytes' \in Int
    BY <1>2
  <2>6. HeldOK' /\ known' \subseteq Ids
    BY <1>2, <1>3
  <2> QED BY <1>5, <2>1, <2>2, <2>3, <2>4, <2>5, <2>6 DEF IInv, TypeOK, HeldOK
<1>7. \A id \in D : /\ Refs(records'[id]) = Refs(disk[id])
                    /\ records'[id].leases = 0 /\ records'[id].durable
                    /\ records'[id].persistence = "disk"
                    /\ records'[id].refcount = Cardinality({c \in D : id \in Refs(disk[c])})
  BY <1>1, <1>4
<1>8. ParentsRegistered' /\ RefcountsExact'
  <2>1. \A id \in D : {c \in D : id \in Refs(disk[c])} = {c \in D : id \in Refs(records'[c])}
    BY <1>7
  <2> QED BY <1>2, <1>3, <1>7, <2>1 DEF ParentsRegistered, RefcountsExact
<1>9. LeasesExact' /\ PinsRegistered' /\ DurableIsDisk' /\ DirectoriesAreRecords'
  <2>1. call'.pinned = {} /\ call'.pc = "idle" /\ outer' = {} /\ DOMAIN disk' = D
    BY <1>2, EndedFields
  <2> HIDE DEF D
  <2>2. LeasesExact'
    <3>1. \A id : (IF id \in outer' THEN 1 ELSE 0) + (IF id \in call'.pinned THEN 1 ELSE 0) = 0
      BY <2>1
    <3> QED BY <1>3, <1>7, <3>1 DEF LeasesExact
  <2>3. PinsRegistered' /\ DurableIsDisk'
    BY <1>3, <1>7, <2>1 DEF PinsRegistered, DurableIsDisk
  <2>4. DirectoriesAreRecords'
    BY <1>3, <1>7, <2>1 DEF DirectoriesAreRecords
  <2> QED BY <2>2, <2>3, <2>4
<1>10. CallInv'
  BY <1>2, CallEnded
<1> QED BY <1>6, <1>8, <1>9, <1>10 DEF IInv, RegistryInv
----------------------------------------------------------------------------
(* The steps of a call.                                                    *)

\* A call in progress belongs to an attached store, and its pc says which.
LEMMA BusyFacts ==
    ASSUME IInv, call.pc # "idle"
    PROVE  /\ attached = TRUE
           /\ call.op \in {"expire", "register", "restore", "delete"}
           /\ call.pc = "expire" => Expiring
           /\ call.pc \in {"admit", "save", "retract"} => call.op = "register"
           /\ call.pc = "drop" => call.op = "delete"
           /\ call.pc = "budget" => call.op \in {"register", "restore"}
<1>1. call.op \in {"none", "expire", "register", "restore", "delete"} /\ attached \in BOOLEAN
  BY DEF IInv, TypeOK, Call
<1>2. call.op # "none"
  BY DEF IInv, CallInv, CallSteps
<1>3. attached = TRUE
  BY <1>1, <1>2 DEF IInv, CallInv, CallSteps
<1> QED BY <1>1, <1>2, <1>3 DEF IInv, CallInv, CallSteps, Expiring

LEMMA RaisesStepInv ==
    ASSUME IInv, expired' \subseteq Ids, call.pc \notin {"idle", "retract"}, Raises,
           UNCHANGED <<disk, partial, outer>>, HeldOK', pending' \subseteq WorkerRow
    PROVE  IInv'
<1>1. CallInv' /\ RegistryInv' /\ known' = known /\ records' \in [known' -> Record]
  BY BusyFacts, RaisesInv
<1>2. call' = Ended(FALSE) /\ UNCHANGED <<attached, older, residentBytes>>
  BY DEF Raises
<1>3. TypeOK'
  BY <1>1, <1>2, EndedFields DEF IInv, TypeOK, HeldOK
<1> QED BY <1>1, <1>3 DEF IInv

LEMMA RefuseRowInv ==
    ASSUME IInv, expired' \subseteq Ids, RefuseRow
    PROVE  IInv'
<1>1. /\ call.pc = "admit" /\ Raises /\ UNCHANGED <<ready, live, held>>
      /\ UNCHANGED <<disk, partial, outer, pending>>
  BY DEF RefuseRow, workerVars, diskVars, clientVars
<1>2. HeldOK' /\ pending' \subseteq WorkerRow
  BY <1>1 DEF HeldOK, IInv, TypeOK
<1> QED BY <1>1, <1>2, RaisesStepInv

LEMMA StoreFullInv ==
    ASSUME IInv, expired' \subseteq Ids, StoreFull
    PROVE  IInv'
<1>1. /\ call.pc = "budget" /\ Raises /\ UNCHANGED <<ready, live, held>>
      /\ UNCHANGED <<disk, partial, outer, pending>>
  BY DEF StoreFull, Over, workerVars, diskVars, clientVars
<1>2. HeldOK' /\ pending' \subseteq WorkerRow
  BY <1>1 DEF HeldOK, IInv, TypeOK
<1> QED BY <1>1, <1>2, RaisesStepInv

LEMMA LoadRefusedInv ==
    ASSUME IInv, expired' \subseteq Ids, LoadRefused
    PROVE  IInv'
<1>1. /\ call.pc = "budget" /\ Raises /\ UNCHANGED <<ready, live, held>>
      /\ UNCHANGED <<disk, partial, outer, pending>>
  BY DEF LoadRefused, LoadDue, workerVars, diskVars, clientVars
<1>2. HeldOK' /\ pending' \subseteq WorkerRow
  BY <1>1 DEF HeldOK, IInv, TypeOK
<1> QED BY <1>1, <1>2, RaisesStepInv

LEMMA TransportFailsInv ==
    ASSUME IInv, expired' \subseteq Ids, TransportFails
    PROVE  IInv'
<1>1. /\ call.pc \in {"expire", "budget", "drop"} /\ Raises
      /\ UNCHANGED <<disk, partial, outer>>
  BY DEF TransportFails, Over, LoadDue, diskVars
<1>2. HeldOK' /\ pending' \subseteq WorkerRow
  BY LoseType DEF TransportFails
<1> QED BY <1>1, <1>2, RaisesStepInv

LEMMA ExpireDoneInv ==
    ASSUME IInv, expired' \subseteq Ids, ExpireDone
    PROVE  IInv'
<1>1. /\ call.pc = "expire" /\ UNCHANGED <<attached, records, older, residentBytes>>
      /\ UNCHANGED <<ready, live, held>> /\ UNCHANGED <<disk, partial, outer, pending>>
  BY DEF ExpireDone, storeVars, workerVars, diskVars, clientVars
<1>2. /\ attached = TRUE /\ call.op \in {"expire", "register", "restore"}
      /\ call.op = "register" => call.after \in {"admit", "budget"}
      /\ call.op = "restore" => call.after = "budget"
  BY <1>1, BusyFacts DEF Expiring, IInv, CallInv, CallSteps
<1>3. CASE call.op = "expire"
  <2>1. call' = Ended(TRUE) /\ call.pinned = {}
    BY <1>1, <1>3 DEF ExpireDone, IInv, CallInv, CallPins, Admitted
  <2>2. CallInv' /\ call'.pinned = {} /\ call'.pc = "idle" /\ call' \in Call
    BY <1>1, <1>2, <2>1, CallEnded, EndedFields
  <2>3. TypeOK'
    BY <1>1, <2>2 DEF IInv, TypeOK, known
  <2>4. RegistryInv'
    BY <1>1, <2>1, <2>2, <2>3, RegistryFrame DEF IInv, TypeOK, LinksKept, SameLinks
  <2> QED BY <2>2, <2>3, <2>4 DEF IInv
<1>4. CASE call.op \in {"register", "restore"}
  <2>1. call' = [call EXCEPT !.pc = call.after, !.after = "idle"] /\ call \in Call
    BY <1>4 DEF ExpireDone, IInv, TypeOK
  <2>2. /\ call' \in Call /\ call'.pc = call.after /\ call'.op = call.op
        /\ call'.target = call.target /\ call'.row = call.row /\ call'.pinned = call.pinned
    BY <2>1 DEF Call
  <2>3. TypeOK'
    BY <1>1, <2>2 DEF IInv, TypeOK, known
  <2>4. CallInv'
    BY <1>1, <1>2, <1>4, <2>2 DEF IInv, CallInv, CallSteps, CallHolds, CallPins, Admitted,
       Expiring, known
  <2>5. call'.pc # "retract"
    BY <1>2, <1>4, <2>2
  <2>6. RegistryInv'
    BY <1>1, <2>2, <2>3, <2>5, RegistryFrame DEF IInv, TypeOK, LinksKept, SameLinks
  <2> QED BY <2>3, <2>4, <2>6 DEF IInv
<1> QED BY <1>2, <1>3, <1>4

LEMMA AdmitRowInv ==
    ASSUME IInv, expired' \subseteq Ids, AdmitRow
    PROVE  IInv'
<1> DEFINE r == call.row
           pins == UNION {Ancestors(p) : p \in Refs(r)}
           touched == IF r.parent = None THEN older ELSE Touch(older, r.parent)
<1>1. /\ call.pc = "admit" /\ Admissible(r) /\ records' = Pin(records, pins)
      /\ call' = [call EXCEPT !.pc = "expire", !.after = "budget", !.pinned = pins]
      /\ older' = IF r.contextParent = None THEN touched ELSE Touch(touched, r.contextParent)
      /\ UNCHANGED <<attached, residentBytes, ready, live, held, disk, partial, outer, pending>>
  BY DEF AdmitRow, workerVars, diskVars, clientVars
<1>2. attached = TRUE /\ call.op = "register" /\ r \in Row /\ call.pinned = {} /\ call \in Call
  BY <1>1, BusyFacts DEF IInv, TypeOK, CallInv, CallHolds, CallPins, Admitted, Expiring
<1>3. Refs(r) \subseteq known /\ r.id \notin known
  BY <1>1 DEF Admissible, Gettable
<1>4. pins \subseteq known /\ Refs(r) \subseteq pins
  BY <1>3, AncestorsKnown
<1>5. known \subseteq Ids /\ records \in [known -> Record] /\ older \in SUBSET (Ids \X Ids)
  BY DEF IInv, TypeOK
<1>6. older' \subseteq Ids \X Ids
  <2>1. r.parent \in Ids \cup {None} /\ r.contextParent \in Ids \cup {None}
    BY <1>2 DEF Row, Ref
  <2>2. touched \in SUBSET (Ids \X Ids)
    BY <1>5, <2>1, TouchType
  <2> HIDE DEF touched, r
  <2> QED BY <1>1, <1>5, <2>1, <2>2, TouchType
<1> HIDE DEF pins
<1>7. /\ records' \in [known -> Record] /\ LinksKept(records, records')
      /\ \A x \in known : records'[x].leases = records[x].leases + (IF x \in pins THEN 1 ELSE 0)
  BY <1>1, <1>5, PinEffect
<1>8. known' = known /\ (ParentsRegistered /\ RefcountsExact)' /\ DurableIsDisk'
  BY <1>7, LinksInv, DurableInv DEF IInv, LinksKept
<1>9. /\ call' \in Call /\ call'.op = "register" /\ call'.pc = "expire" /\ call'.after = "budget"
      /\ call'.pinned = pins /\ call'.row = r
  BY <1>1, <1>2, <1>4, <1>5 DEF Call
<1>10. TypeOK'
  BY <1>1, <1>5, <1>6, <1>7, <1>8, <1>9 DEF IInv, TypeOK
<1>11. CallInv'
  BY <1>1, <1>2, <1>3, <1>4, <1>8, <1>9 DEF CallInv, CallSteps, CallHolds, CallPins, Admitted, Expiring
<1>12. LeasesExact' /\ PinsRegistered'
  BY <1>1, <1>2, <1>4, <1>7, <1>8, <1>9 DEF IInv, RegistryInv, LeasesExact, PinsRegistered
<1>13. DirectoriesAreRecords'
  BY <1>1, <1>7, <1>8, <1>9 DEF IInv, RegistryInv, DirectoriesAreRecords, LinksKept, SameLinks, known
<1> QED BY <1>8, <1>10, <1>11, <1>12, <1>13 DEF IInv, RegistryInv
\* A record goes: nothing refers to it and no lease pins it.
LEMMA ForgetsEffect ==
    ASSUME IInv, NEW id, Loose(id), NEW pins, Forgets(id, pins),
           \/ pins = {} /\ call'.pinned = call.pinned
           \/ pins = call.pinned /\ call'.pinned = {},
           outer' = outer
    PROVE  /\ known' = known \ {id} /\ records' \in [known' -> Record]
           /\ UNCHANGED attached /\ older' \subseteq Ids \X Ids /\ residentBytes' \in Int
           /\ \A x \in known' : /\ records'[x].durable = records[x].durable
                                /\ records'[x].resident = records[x].resident
           /\ (ParentsRegistered /\ RefcountsExact)' /\ DurableIsDisk'
           /\ LeasesExact' /\ PinsRegistered'
           /\ id \notin outer /\ id \notin call.pinned
<1> DEFINE F == Forget(records, id)
<1>1. /\ id \in known /\ records[id].leases = 0 /\ records[id].refcount = 0
      /\ records \in [known -> Record] /\ Linked(records) /\ IsFiniteSet(known)
  BY LinkedRecords, KnownFinite DEF Loose, IInv, TypeOK, RegistryInv
<1>2. /\ F \in [known \ {id} -> Record] /\ Linked(F)
      /\ \A x \in known \ {id} : /\ F[x].leases = records[x].leases
                                 /\ F[x].resident = records[x].resident
                                 /\ F[x].durable = records[x].durable
                                 /\ F[x].persistence = records[x].persistence
  BY <1>1, ForgetEffect
<1> HIDE DEF F
<1>3. records' = Unpin(F, pins)
  BY DEF Forgets, F
<1>4. /\ records' \in [known \ {id} -> Record] /\ LinksKept(F, records')
      /\ \A x \in known \ {id} : /\ records'[x].leases = F[x].leases
                                      - (IF x \in pins /\ F[x].leases > 0 THEN 1 ELSE 0)
                                 /\ records'[x].resident = F[x].resident
  BY <1>2, <1>3, UnpinEffect
<1>5. known' = known \ {id}
  BY <1>4 DEF known
<1>6. (ParentsRegistered /\ RefcountsExact)'
  BY <1>2, <1>4, LinkedKept, LinkedNext DEF LinksKept
<1>7. \A x \in known' : /\ records'[x].durable = records[x].durable
                        /\ records'[x].persistence = records[x].persistence
                        /\ records'[x].resident = records[x].resident
  BY <1>2, <1>4, <1>5 DEF LinksKept, SameLinks
<1>8. DurableIsDisk'
  BY <1>5, <1>7 DEF IInv, RegistryInv, DurableIsDisk
<1>9. id \notin outer /\ id \notin call.pinned
  BY <1>1 DEF IInv, RegistryInv, LeasesExact
<1>10. PinsRegistered'
  BY <1>5, <1>9 DEF IInv, RegistryInv, PinsRegistered
<1>11. LeasesExact'
  <2>1. \A x \in known' : records'[x].leases = records[x].leases
             - (IF x \in pins /\ records[x].leases > 0 THEN 1 ELSE 0)
    BY <1>2, <1>4, <1>5
  <2>2. \A x \in known' : records[x].leases =
            (IF x \in outer THEN 1 ELSE 0) + (IF x \in call.pinned THEN 1 ELSE 0)
    BY <1>5 DEF IInv, RegistryInv, LeasesExact
  <2> QED BY <2>1, <2>2 DEF LeasesExact
<1>12. UNCHANGED attached /\ older' \subseteq Ids \X Ids
  BY DEF Forgets, IInv, TypeOK
<1>13. residentBytes' \in Int
  <2>1. residentBytes \in Int /\ records[id].hostBytes \in Int
    BY <1>1 DEF IInv, TypeOK, Record
  <2> QED BY <2>1 DEF Forgets
<1> QED BY <1>4, <1>5, <1>6, <1>7, <1>8, <1>9, <1>10, <1>11, <1>12, <1>13

\* The two ways a record goes: in the middle of a call that goes on, or as
\* the last thing a call does.  Its directory goes with it.
LEMMA ForgetsOnInv ==
    ASSUME IInv, expired' \subseteq Ids, NEW id, Loose(id), Forgets(id, {}),
           \/ call.pc \in {"expire", "budget"} /\ call' = call
           \/ /\ call.pc = "unlink" /\ call.op # "delete"
              /\ call' = [call EXCEPT !.pc = "expire", !.victim = None],
           outer' = outer, HeldOK', pending' \subseteq WorkerRow, partial' \subseteq Ids,
           DOMAIN disk' = DOMAIN disk \ {id}, disk' \in [DOMAIN disk' -> Manifest]
    PROVE  IInv'
<1>1. /\ call' \in Call /\ call'.op = call.op /\ call'.after = call.after
      /\ call'.target = call.target /\ call'.row = call.row /\ call'.pinned = call.pinned
  BY DEF IInv, TypeOK, Call, Ref
<1>2. /\ known' = known \ {id} /\ records' \in [known' -> Record]
      /\ UNCHANGED attached /\ older' \subseteq Ids \X Ids /\ residentBytes' \in Int
      /\ \A x \in known' : /\ records'[x].durable = records[x].durable
                           /\ records'[x].resident = records[x].resident
      /\ (ParentsRegistered /\ RefcountsExact)' /\ DurableIsDisk'
      /\ LeasesExact' /\ PinsRegistered'
      /\ id \notin outer /\ id \notin call.pinned
  BY <1>1, ForgetsEffect
<1>3. TypeOK'
  BY <1>1, <1>2 DEF IInv, TypeOK, HeldOK
<1>4. attached = TRUE /\ call.op \in {"expire", "register", "restore"}
  BY BusyFacts DEF Expiring
<1>5. CallInv'
  <2>1. call.pc \in {"expire", "unlink", "budget"} /\ call'.pc \in {"expire", "budget"}
    BY DEF IInv, TypeOK, Call
  <2>2. call.pc = "budget" <=> call'.pc = "budget"
    BY <2>1 DEF IInv, TypeOK, Call
  <2>3. CallSteps'
    BY <1>2, <1>4, <2>1, <2>2, <1>1 DEF IInv, CallInv, CallSteps, Expiring
  <2>4. CallPins' /\ (Admitted' <=> Admitted)
    BY <1>1, <1>4, <2>1, <2>2 DEF IInv, CallInv, CallPins, Admitted, Expiring
  <2>5. CallHolds'
    <3>1. call'.op = "restore" => /\ call'.target \in known' \cap outer'
                                  /\ records'[call'.target].durable
                                  /\ ~records'[call'.target].resident
      BY <1>1, <1>2 DEF IInv, CallInv, CallHolds
    <3>2. Admitted' => call'.row.id \notin known' /\ Refs(call'.row) \subseteq call'.pinned
      BY <1>1, <1>2, <2>4 DEF IInv, CallInv, CallHolds
    <3>3. call'.op = "register" => call'.row \in Row
      BY <1>1 DEF IInv, CallInv, CallHolds
    <3> QED BY <2>1, <3>1, <3>2, <3>3 DEF CallHolds
  <2> QED BY <2>3, <2>4, <2>5 DEF CallInv
<1>6. DirectoriesAreRecords'
  <2>1. call.pc # "retract" /\ call'.pc # "retract"
    BY DEF IInv, TypeOK, Call
  <2>2. DOMAIN disk = {x \in known : records[x].durable}
    BY <1>4, <2>1 DEF IInv, RegistryInv, DirectoriesAreRecords
  <2>3. DOMAIN disk' = {x \in known' : records'[x].durable}
    BY <1>2, <2>2
  <2> QED BY <2>1, <2>3 DEF DirectoriesAreRecords
<1> QED BY <1>2, <1>3, <1>5, <1>6 DEF IInv, RegistryInv

LEMMA ForgetsLastInv ==
    ASSUME IInv, expired' \subseteq Ids, NEW id, Loose(id), call.pc # "idle",
           NEW pins, Forgets(id, pins), pins = call.pinned, NEW ok \in BOOLEAN, call' = Ended(ok),
           call.pc = "retract" => id = call.row.id /\ ~records[id].durable,
           outer' = outer, HeldOK', pending' \subseteq WorkerRow, partial' \subseteq Ids,
           DOMAIN disk' = DOMAIN disk \ {id}, disk' \in [DOMAIN disk' -> Manifest]
    PROVE  IInv'
<1>1. call' \in Call /\ call'.pinned = {} /\ call'.pc = "idle" /\ attached = TRUE
  BY EndedFields, BusyFacts
<1>2. /\ known' = known \ {id} /\ records' \in [known' -> Record]
      /\ UNCHANGED attached /\ older' \subseteq Ids \X Ids /\ residentBytes' \in Int
      /\ \A x \in known' : records'[x].durable = records[x].durable
      /\ (ParentsRegistered /\ RefcountsExact)' /\ DurableIsDisk'
      /\ LeasesExact' /\ PinsRegistered'
  BY <1>1, ForgetsEffect
<1>3. TypeOK'
  BY <1>1, <1>2 DEF IInv, TypeOK, HeldOK
<1>4. CallInv'
  BY <1>1, <1>2, CallEnded
<1>5. DirectoriesAreRecords'
  <2>1. DOMAIN disk = {x \in known : records[x].durable}
            \cup (IF call.pc = "retract" THEN {call.row.id} ELSE {})
    BY <1>1 DEF IInv, RegistryInv, DirectoriesAreRecords
  <2>2. DOMAIN disk' = {x \in known' : records'[x].durable}
    BY <1>2, <2>1
  <2> QED BY <1>1, <2>2 DEF DirectoriesAreRecords
<1> QED BY <1>2, <1>3, <1>4, <1>5 DEF IInv, RegistryInv
LEMMA DropIfResidentType ==
    ASSUME TypeOK, NEW id, DropIfResident(id)
    PROVE  HeldOK'
<1>1. CASE NativeDrop(id)
  BY <1>1, DropType
<1>2. CASE UNCHANGED workerVars
  BY <1>2 DEF workerVars, HeldOK, TypeOK
<1> QED BY <1>1, <1>2 DEF DropIfResident

LEMMA ReclaimMemoryInv ==
    ASSUME IInv, expired' \subseteq Ids, NEW id \in known, ReclaimMemory(id)
    PROVE  IInv'
<1>1. /\ call.pc = "expire" /\ Loose(id) /\ ~records[id].durable /\ DropIfResident(id)
      /\ Forgets(id, {}) /\ UNCHANGED <<disk, partial, call, outer, pending>>
  BY DEF ReclaimMemory, Reclaimable, Loose, diskVars, clientVars
<1>2. HeldOK' /\ pending' \subseteq WorkerRow /\ partial' \subseteq Ids
  BY <1>1, DropIfResidentType DEF IInv, TypeOK
<1>3. attached = TRUE /\ call.op # "delete"
  BY <1>1, BusyFacts DEF Expiring
<1>4. id \notin DOMAIN disk /\ disk \in [DOMAIN disk -> Manifest]
  BY <1>1, <1>3 DEF IInv, TypeOK, RegistryInv, DirectoriesAreRecords
<1> QED BY <1>1, <1>2, <1>4, ForgetsOnInv

LEMMA ReclaimDiskInv ==
    ASSUME IInv, expired' \subseteq Ids, NEW id \in known, ReclaimDisk(id)
    PROVE  IInv'
<1>1. /\ call.pc = "expire" /\ Loose(id) /\ records[id].durable /\ DropIfResident(id)
      /\ call' = [call EXCEPT !.pc = "unlink", !.victim = id] /\ partial' = partial \cup {id}
      /\ UNCHANGED <<attached, records, older, residentBytes, disk, outer, pending>>
  BY DEF ReclaimDisk, Reclaimable, Loose, storeVars, clientVars
<1>2. /\ call' \in Call /\ call'.pc = "unlink" /\ call'.victim = id /\ call'.op = call.op
      /\ call'.after = call.after /\ call'.target = call.target /\ call'.row = call.row
      /\ call'.pinned = call.pinned
  BY <1>1 DEF IInv, TypeOK, Call, Ref
<1>3. attached = TRUE /\ Expiring
  BY <1>1, BusyFacts
<1>4. TypeOK'
  BY <1>1, <1>2, DropIfResidentType DEF IInv, TypeOK, HeldOK, known
<1>5. CallInv'
  BY <1>1, <1>2, <1>3 DEF IInv, CallInv, CallSteps, CallHolds, CallPins, Admitted, Expiring,
     Loose, known
<1>6. RegistryInv'
  BY <1>1, <1>2, <1>4, RegistryFrame DEF IInv, TypeOK, LinksKept, SameLinks
<1> QED BY <1>4, <1>5, <1>6 DEF IInv

LEMMA UnlinkInv ==
    ASSUME IInv, expired' \subseteq Ids, Unlink
    PROVE  IInv'
<1> DEFINE id == call.victim
<1>1. /\ call.pc = "unlink" /\ Forgets(id, {}) /\ UNCHANGED <<ready, live, held, outer, pending>>
      /\ disk' = Without(disk, id) /\ partial' = partial \ {id}
  BY DEF Unlink, workerVars, clientVars
<1>2. Loose(id) /\ id \in Ids
  BY <1>1 DEF IInv, TypeOK, CallInv, CallHolds, Loose
<1>3. HeldOK' /\ pending' \subseteq WorkerRow /\ partial' \subseteq Ids
  BY <1>1 DEF IInv, TypeOK, HeldOK
<1>4. disk' \in [DOMAIN disk \ {id} -> Manifest] /\ DOMAIN disk' = DOMAIN disk \ {id}
  <2>1. disk \in [DOMAIN disk -> Manifest]
    BY DEF IInv, TypeOK
  <2>2. Without(disk, id) \in [DOMAIN disk \ {id} -> Manifest]
    BY <2>1, WithoutType
  <2> QED BY <1>1, <2>2
<1>5. CASE call.op = "delete"
  <2>1. call.pinned = {}
    BY <1>1, <1>5 DEF IInv, CallInv, CallPins, Admitted
  <2>2. call' = Ended(TRUE)
    BY <1>5 DEF Unlink
  <2>3. Forgets(id, call.pinned)
    BY <1>1, <2>1
  <2> QED BY <1>1, <1>2, <1>3, <1>4, <2>2, <2>3, ForgetsLastInv
<1>6. CASE call.op # "delete"
  <2>1. call' = [call EXCEPT !.pc = "expire", !.victim = None]
    BY <1>6 DEF Unlink
  <2> QED BY <1>1, <1>2, <1>3, <1>4, <1>6, <2>1, ForgetsOnInv
<1> QED BY <1>5, <1>6

LEMMA EvictMemoryInv ==
    ASSUME IInv, expired' \subseteq Ids, NEW c \in known, EvictMemory(c)
    PROVE  IInv'
<1>1. /\ call.pc = "budget" /\ records[c].leases = 0 /\ records[c].persistence = "memory"
      /\ records[c].refcount = 0 /\ UNCHANGED <<disk, partial, outer, pending>>
  BY DEF EvictMemory, Over, LeastRecentlyUsed, Candidates, diskVars, clientVars
<1>2. CASE c \in DOMAIN held
  <2>1. NativeDrop(c) /\ Forgets(c, {}) /\ call' = call
    BY <1>2 DEF EvictMemory
  <2>2. HeldOK' /\ pending' \subseteq WorkerRow /\ partial' \subseteq Ids
    BY <1>1, <2>1, DropType DEF IInv, TypeOK
  <2>3. attached = TRUE /\ call.op # "delete"
    BY <1>1, BusyFacts
  <2>4. c \notin DOMAIN disk /\ disk \in [DOMAIN disk -> Manifest]
    BY <1>1, <2>3 DEF IInv, TypeOK, RegistryInv, DirectoriesAreRecords, DurableIsDisk
  <2>5. Loose(c)
    BY <1>1 DEF Loose
  <2> QED BY <1>1, <2>1, <2>2, <2>4, <2>5, ForgetsOnInv
<1>3. CASE c \notin DOMAIN held
  <2>1. Raises /\ UNCHANGED <<ready, live, held>>
    BY <1>3 DEF EvictMemory, workerVars
  <2>2. HeldOK' /\ pending' \subseteq WorkerRow
    BY <1>1, <2>1 DEF IInv, TypeOK, HeldOK
  <2> QED BY <1>1, <2>1, <2>2, RaisesStepInv
<1> QED BY <1>2, <1>3

LEMMA EvictDiskInv ==
    ASSUME IInv, expired' \subseteq Ids, NEW c \in known, EvictDisk(c)
    PROVE  IInv'
<1>1. /\ call.pc = "budget" /\ NativeDrop(c) /\ records' = [records EXCEPT ![c].resident = FALSE]
      /\ residentBytes' = residentBytes - records[c].hostBytes
      /\ UNCHANGED <<attached, older, disk, partial, call, outer, pending>>
  BY DEF EvictDisk, Over, diskVars, clientVars
<1>2. records \in [known -> Record]
  BY DEF IInv, TypeOK
<1>3. ASSUME NEW r \in Record
      PROVE  /\ [r EXCEPT !.resident = FALSE] \in Record
             /\ [r EXCEPT !.resident = FALSE].parent = r.parent
             /\ [r EXCEPT !.resident = FALSE].contextParent = r.contextParent
             /\ [r EXCEPT !.resident = FALSE].refcount = r.refcount
             /\ [r EXCEPT !.resident = FALSE].leases = r.leases
             /\ [r EXCEPT !.resident = FALSE].durable = r.durable
             /\ [r EXCEPT !.resident = FALSE].persistence = r.persistence
             /\ ~[r EXCEPT !.resident = FALSE].resident
  BY DEF Record
<1>4. /\ records' \in [known -> Record] /\ LinksKept(records, records')
      /\ \A x \in known : /\ records'[x].leases = records[x].leases
                          /\ ~records[x].resident => ~records'[x].resident
  BY <1>1, <1>2, <1>3 DEF LinksKept, SameLinks
<1>5. known' = known
  BY <1>4 DEF known
<1>6. TypeOK'
  <2>1. residentBytes' \in Int
    BY <1>1, <1>2 DEF IInv, TypeOK, Record
  <2>2. HeldOK'
    BY <1>1, DropType DEF IInv
  <2> QED BY <1>1, <1>4, <1>5, <2>1, <2>2 DEF IInv, TypeOK, HeldOK
<1>7. CallInv'
  BY <1>1, <1>4, <1>5, BusyFacts DEF IInv, CallInv, CallSteps, CallHolds, CallPins, Admitted,
     Expiring, LinksKept, SameLinks
<1>8. RegistryInv'
  BY <1>1, <1>4, <1>5, RegistryFrame DEF IInv
<1> QED BY <1>6, <1>7, <1>8 DEF IInv

LEMMA LoadInv ==
    ASSUME IInv, expired' \subseteq Ids, Load
    PROVE  IInv'
<1> DEFINE id == call.target
           bytes == LoadedBytes(records[id])
<1>1. /\ call.pc = "budget" /\ call.op = "restore" /\ call' = Ended(TRUE)
      /\ held' = With(held, id, [depth |-> disk[id].depth, parent |-> disk[id].parent, lower |-> id])
      /\ records' = [records EXCEPT ![id].resident = TRUE, ![id].hostBytes = bytes]
      /\ residentBytes' = residentBytes + bytes /\ older' = Touch(older, id)
      /\ UNCHANGED <<attached, ready, live, disk, partial, outer, pending>>
  BY DEF Load, LoadDue, diskVars, clientVars
<1>2. id \in known /\ records[id].durable /\ records \in [known -> Record] /\ known \subseteq Ids
  BY <1>1 DEF IInv, TypeOK, CallInv, CallHolds
<1>3. attached = TRUE /\ call.pinned = {}
  BY <1>1, BusyFacts DEF IInv, CallInv, CallPins, Admitted
<1>4. id \in DOMAIN disk /\ disk[id] \in Manifest
  BY <1>1, <1>2, <1>3 DEF IInv, TypeOK, RegistryInv, DirectoriesAreRecords
<1>5. bytes \in Nat
  <2>1. records[id].hostBytes \in Nat
    BY <1>2 DEF Record
  <2> QED BY <2>1, BytesAssumption DEF LoadedBytes
<1> HIDE DEF bytes
<1>6. HeldOK'
  <2>1. [depth |-> disk[id].depth, parent |-> disk[id].parent, lower |-> id] \in Holding
    BY <1>2, <1>4 DEF Manifest, Holding, Ref
  <2>2. held \in [DOMAIN held -> Holding] /\ DOMAIN held \subseteq Ids /\ ready \in BOOLEAN
        /\ live \in BOOLEAN
    BY DEF IInv, TypeOK
  <2>3. held' \in [DOMAIN held \cup {id} -> Holding]
    BY <1>1, <2>1, <2>2, WithType
  <2> QED BY <1>1, <1>2, <2>2, <2>3 DEF HeldOK
<1>7. ASSUME NEW r \in Record
      PROVE  LET s == [r EXCEPT !.resident = TRUE, !.hostBytes = bytes] IN
             /\ s \in Record /\ s.parent = r.parent /\ s.contextParent = r.contextParent
             /\ s.refcount = r.refcount /\ s.leases = r.leases
             /\ s.durable = r.durable /\ s.persistence = r.persistence
  BY <1>5 DEF Record
<1>8. /\ records' \in [known -> Record] /\ LinksKept(records, records')
      /\ \A x \in known : records'[x].leases = records[x].leases
  <2>1. records' = [x \in known |-> IF x = id
                      THEN [records[x] EXCEPT !.resident = TRUE, !.hostBytes = bytes]
                      ELSE records[x]]
    BY <1>1, <1>2
  <2> QED BY <1>2, <1>7, <2>1 DEF LinksKept, SameLinks
<1>9. known' = known
  BY <1>8 DEF known
<1>10. TypeOK'
  <2>1. older' \in SUBSET (Ids \X Ids)
    BY <1>1, <1>2, TouchType DEF IInv, TypeOK
  <2>2. residentBytes' \in Int
    BY <1>1, <1>5 DEF IInv, TypeOK
  <2>3. call' \in Call
    BY <1>1, EndedFields
  <2> QED BY <1>1, <1>2, <1>6, <1>8, <1>9, <2>1, <2>2, <2>3 DEF IInv, TypeOK, HeldOK
<1>11. CallInv'
  BY <1>1, <1>3, CallEnded
<1>12. call'.pinned = call.pinned /\ call'.pc # "retract" /\ call.pc # "retract"
  BY <1>1, <1>3, EndedFields
<1>13. RegistryInv'
  BY <1>1, <1>8, <1>9, <1>12, RegistryFrame DEF IInv
<1> QED BY <1>10, <1>11, <1>13 DEF IInv
LEMMA DropTargetInv ==
    ASSUME IInv, expired' \subseteq Ids, DropTarget
    PROVE  IInv'
<1> DEFINE id == call.target
<1>1. /\ call.pc = "drop" /\ NativeDrop(id) /\ UNCHANGED <<disk, outer, pending>>
  BY DEF DropTarget, clientVars
<1>2. Loose(id) /\ id \in known /\ id \in Ids
  BY <1>1 DEF IInv, TypeOK, CallInv, CallHolds, Loose
<1>3. attached = TRUE /\ call.op = "delete" /\ call.pinned = {}
  BY <1>1, BusyFacts DEF IInv, CallInv, CallPins, Admitted
<1>4. HeldOK' /\ pending' \subseteq WorkerRow
  BY <1>1, DropType DEF IInv, TypeOK
<1>5. CASE records[id].durable
  <2>1. /\ call' = [call EXCEPT !.pc = "unlink", !.victim = id] /\ partial' = partial \cup {id}
        /\ UNCHANGED <<attached, records, older, residentBytes>>
    BY <1>5 DEF DropTarget, storeVars
  <2>2. /\ call' \in Call /\ call'.pc = "unlink" /\ call'.victim = id /\ call'.op = "delete"
        /\ call'.pinned = {}
    BY <1>2, <1>3, <2>1 DEF IInv, TypeOK, Call, Ref
  <2>3. TypeOK'
    BY <1>1, <1>2, <1>4, <2>1, <2>2 DEF IInv, TypeOK, HeldOK, known
  <2>4. CallInv'
    BY <1>2, <1>3, <1>5, <2>1, <2>2 DEF CallInv, CallSteps, CallHolds, CallPins, Admitted,
       Expiring, Loose, known
  <2>5. RegistryInv'
    BY <1>1, <1>3, <2>1, <2>2, <2>3, RegistryFrame DEF IInv, TypeOK, LinksKept, SameLinks
  <2> QED BY <2>3, <2>4, <2>5 DEF IInv
<1>6. CASE ~records[id].durable
  <2>1. Forgets(id, {}) /\ call' = Ended(TRUE) /\ partial' = partial
    BY <1>6 DEF DropTarget
  <2>2. id \notin DOMAIN disk /\ disk \in [DOMAIN disk -> Manifest] /\ partial' \subseteq Ids
    BY <1>1, <1>3, <1>6, <2>1 DEF IInv, TypeOK, RegistryInv, DirectoriesAreRecords
  <2>3. Forgets(id, call.pinned)
    BY <1>3, <2>1
  <2> QED BY <1>1, <1>2, <1>4, <2>1, <2>2, <2>3, ForgetsLastInv
<1> QED BY <1>5, <1>6

LEMMA SaveFailsInv ==
    ASSUME IInv, expired' \subseteq Ids, SaveFails
    PROVE  IInv'
<1> DEFINE id == call.row.id
<1>1. /\ call.pc = "save" /\ Forgets(id, call.pinned) /\ call' = Ended(FALSE)
      /\ UNCHANGED <<disk, partial, outer>>
  BY DEF SaveFails, diskVars
<1>2. Loose(id) /\ ~records[id].durable /\ attached = TRUE
  BY <1>1, BusyFacts DEF IInv, CallInv, CallHolds
<1>3. HeldOK' /\ pending' \subseteq WorkerRow
  <2>1. CASE LoseWorker
    BY <2>1, LoseType
  <2>2. CASE UNCHANGED <<workerVars, pending>>
    BY <2>2 DEF workerVars, HeldOK, IInv, TypeOK
  <2> QED BY <2>1, <2>2 DEF SaveFails
<1>4. id \notin DOMAIN disk /\ disk \in [DOMAIN disk -> Manifest] /\ partial' \subseteq Ids
  BY <1>1, <1>2 DEF IInv, TypeOK, RegistryInv, DirectoriesAreRecords
<1> QED BY <1>1, <1>2, <1>3, <1>4, ForgetsLastInv

LEMMA RetractInv ==
    ASSUME IInv, expired' \subseteq Ids, Retract
    PROVE  IInv'
<1> DEFINE id == call.row.id
<1>1. /\ call.pc = "retract" /\ Forgets(id, call.pinned) /\ call' = Ended(FALSE)
      /\ disk' = Without(disk, id) /\ partial' = partial \ {id}
      /\ UNCHANGED <<ready, live, held, outer, pending>>
  BY DEF Retract, workerVars, clientVars
<1>2. Loose(id) /\ ~records[id].durable
  BY <1>1 DEF IInv, CallInv, CallHolds
<1>3. HeldOK' /\ pending' \subseteq WorkerRow /\ partial' \subseteq Ids
  BY <1>1 DEF HeldOK, IInv, TypeOK
<1>4. disk' \in [DOMAIN disk \ {id} -> Manifest] /\ DOMAIN disk' = DOMAIN disk \ {id}
  <2>1. disk \in [DOMAIN disk -> Manifest]
    BY DEF IInv, TypeOK
  <2>2. Without(disk, id) \in [DOMAIN disk \ {id} -> Manifest]
    BY <2>1, WithoutType
  <2> QED BY <1>1, <2>2
<1> QED BY <1>1, <1>2, <1>3, <1>4, ForgetsLastInv

\* What the worker and the manifest write publish at once.
LEMMA PublishedEffect ==
    ASSUME IInv, Published
    PROVE  /\ call.pc = "save" /\ call.op = "register" /\ attached = TRUE
           /\ Loose(call.row.id) /\ ~records[call.row.id].durable
           /\ records[call.row.id].persistence = "disk" /\ call.row \in Row
           /\ DOMAIN disk' = DOMAIN disk \cup {call.row.id} /\ DOMAIN disk' \subseteq Ids
           /\ disk' \in [DOMAIN disk' -> Manifest] /\ HeldOK'
           /\ DOMAIN disk = {x \in known : records[x].durable}
<1> DEFINE id == call.row.id
           m == ManifestOf(records[id])
<1>1. /\ call.pc = "save" /\ disk' = With(disk, id, m) /\ UNCHANGED <<ready, live, held>>
  BY DEF Published, workerVars
<1>2. call.op = "register" /\ attached = TRUE
  BY <1>1, BusyFacts
<1>3. /\ Loose(id) /\ ~records[id].durable /\ records[id].persistence = "disk"
      /\ call.row \in Row /\ id \in known
  BY <1>1, <1>2 DEF IInv, CallInv, CallHolds, Loose
<1>4. m \in Manifest
  <2>1. records[id] \in Record
    BY <1>3 DEF IInv, TypeOK
  <2> QED BY <2>1 DEF ManifestOf, Manifest, Record
<1> HIDE DEF m
<1>5. DOMAIN disk \subseteq Ids /\ disk \in [DOMAIN disk -> Manifest] /\ id \in Ids
  BY <1>3 DEF IInv, TypeOK
<1>6. disk' \in [DOMAIN disk \cup {id} -> Manifest]
  BY <1>1, <1>4, <1>5, WithType
<1>7. HeldOK'
  BY <1>1 DEF HeldOK, IInv, TypeOK
<1>8. DOMAIN disk = {x \in known : records[x].durable}
  BY <1>1, <1>2 DEF IInv, RegistryInv, DirectoriesAreRecords
<1> QED BY <1>1, <1>2, <1>3, <1>5, <1>6, <1>7, <1>8

LEMMA PublishFailsInv ==
    ASSUME IInv, expired' \subseteq Ids, PublishFails
    PROVE  IInv'
<1>1. /\ Published /\ partial' = partial \cup {call.row.id}
      /\ call' = [call EXCEPT !.pc = "retract"]
      /\ UNCHANGED <<attached, records, older, residentBytes, outer, pending>>
  BY DEF PublishFails, storeVars, clientVars
<1>2. /\ call.pc = "save" /\ call.op = "register" /\ attached = TRUE
      /\ Loose(call.row.id) /\ ~records[call.row.id].durable
      /\ records[call.row.id].persistence = "disk" /\ call.row \in Row
      /\ DOMAIN disk' = DOMAIN disk \cup {call.row.id} /\ DOMAIN disk' \subseteq Ids
      /\ disk' \in [DOMAIN disk' -> Manifest] /\ HeldOK'
      /\ DOMAIN disk = {x \in known : records[x].durable}
  BY <1>1, PublishedEffect
<1>3. /\ call' \in Call /\ call'.pc = "retract" /\ call'.op = "register"
      /\ call'.row = call.row /\ call'.pinned = call.pinned
  BY <1>1, <1>2 DEF IInv, TypeOK, Call
<1>4. TypeOK'
  BY <1>1, <1>2, <1>3 DEF IInv, TypeOK, HeldOK, Row, known
<1>5. CallInv'
  BY <1>1, <1>2, <1>3 DEF CallInv, CallSteps, CallHolds, CallPins, Admitted, Expiring, Loose, known
<1>6. (ParentsRegistered /\ RefcountsExact)' /\ DurableIsDisk'
  BY <1>1, LinksInv, DurableInv DEF IInv, LinksKept, SameLinks
<1>7. LeasesExact' /\ PinsRegistered'
  BY <1>1, <1>3 DEF IInv, RegistryInv, LeasesExact, PinsRegistered, known
<1>8. DirectoriesAreRecords'
  BY <1>1, <1>2, <1>3 DEF DirectoriesAreRecords, known
<1> QED BY <1>4, <1>5, <1>6, <1>7, <1>8 DEF IInv, RegistryInv

LEMMA PublishInv ==
    ASSUME IInv, expired' \subseteq Ids, Publish
    PROVE  IInv'
<1> DEFINE id == call.row.id
           D == [records EXCEPT ![id].durable = TRUE]
<1>1. /\ Published /\ records' = Unpin(D, call.pinned) /\ call' = Ended(TRUE)
      /\ pending' \subseteq pending
      /\ UNCHANGED <<attached, older, residentBytes, partial, outer>>
  BY DEF Publish, Registered
<1>2. /\ call.pc = "save" /\ attached = TRUE
      /\ id \in known /\ records[id].persistence = "disk"
      /\ DOMAIN disk' = DOMAIN disk \cup {id} /\ DOMAIN disk' \subseteq Ids
      /\ disk' \in [DOMAIN disk' -> Manifest] /\ HeldOK'
      /\ DOMAIN disk = {x \in known : records[x].durable}
  BY <1>1, PublishedEffect DEF Loose
<1>3. records \in [known -> Record]
  BY DEF IInv, TypeOK
<1>4. ASSUME NEW r \in Record
      PROVE  /\ [r EXCEPT !.durable = TRUE] \in Record
             /\ [r EXCEPT !.durable = TRUE].parent = r.parent
             /\ [r EXCEPT !.durable = TRUE].contextParent = r.contextParent
             /\ [r EXCEPT !.durable = TRUE].refcount = r.refcount
             /\ [r EXCEPT !.durable = TRUE].leases = r.leases
             /\ [r EXCEPT !.durable = TRUE].persistence = r.persistence
             /\ [r EXCEPT !.durable = TRUE].durable
  BY DEF Record
<1>5. /\ D \in [known -> Record] /\ SameLinks(records, D) /\ D[id].durable
      /\ \A x \in known : /\ D[x].leases = records[x].leases
                          /\ D[x].persistence = records[x].persistence
                          /\ x # id => D[x].durable = records[x].durable
  <2>1. D = [x \in known |-> IF x = id THEN [records[x] EXCEPT !.durable = TRUE]
                             ELSE records[x]]
    BY <1>2, <1>3
  <2> HIDE DEF D
  <2>2. DOMAIN D = known /\ DOMAIN records = known
    BY <1>3, <2>1
  <2>3. \A x \in known \ {id} : D[x] = records[x]
    BY <2>1
  <2>4. D[id] = [records[id] EXCEPT !.durable = TRUE] /\ records[id] \in Record
    BY <1>2, <1>3, <2>1
  <2>5. \A x \in known : D[x] \in Record
    BY <1>3, <1>4, <2>3, <2>4
  <2>6. D \in [known -> Record]
    BY <2>1, <2>5
  <2>7. /\ D[id].parent = records[id].parent /\ D[id].contextParent = records[id].contextParent
        /\ D[id].refcount = records[id].refcount /\ D[id].leases = records[id].leases
        /\ D[id].persistence = records[id].persistence /\ D[id].durable
    BY <1>4, <2>4
  <2>8. SameLinks(records, D)
    BY <2>2, <2>3, <2>7 DEF SameLinks
  <2> QED BY <2>3, <2>6, <2>7, <2>8
<1> HIDE DEF D
<1>6. /\ records' \in [known -> Record] /\ LinksKept(D, records')
      /\ \A x \in known : records'[x].leases = D[x].leases
             - (IF x \in call.pinned /\ D[x].leases > 0 THEN 1 ELSE 0)
  BY <1>1, <1>5, UnpinEffect
<1>7. SameLinks(records, records')
  BY <1>5, <1>6 DEF LinksKept, SameLinks
<1>8. known' = known /\ (ParentsRegistered /\ RefcountsExact)'
  BY <1>7, LinksInv DEF IInv
<1>9. \A x \in known : /\ records'[x].durable = D[x].durable
                       /\ records'[x].persistence = records[x].persistence
  BY <1>5, <1>6 DEF LinksKept, SameLinks
<1>10. call' \in Call /\ call'.pinned = {} /\ call'.pc = "idle"
  BY <1>1, EndedFields
<1>11. TypeOK'
  BY <1>1, <1>2, <1>6, <1>8, <1>10 DEF IInv, TypeOK, HeldOK
<1>12. CallInv'
  BY <1>1, <1>2, CallEnded
<1>13. LeasesExact' /\ PinsRegistered'
  <2>1. \A x \in known : records'[x].leases = records[x].leases
             - (IF x \in call.pinned /\ records[x].leases > 0 THEN 1 ELSE 0)
    BY <1>5, <1>6
  <2>2. \A x \in known : records[x].leases =
            (IF x \in outer THEN 1 ELSE 0) + (IF x \in call.pinned THEN 1 ELSE 0)
    BY DEF IInv, RegistryInv, LeasesExact
  <2>3. outer' = outer /\ outer \subseteq known
    BY <1>1 DEF IInv, RegistryInv, PinsRegistered
  <2>4. \A x \in known : records'[x].leases = (IF x \in outer THEN 1 ELSE 0)
    BY <2>1, <2>2
  <2>5. LeasesExact'
    BY <1>8, <1>10, <2>3, <2>4 DEF LeasesExact
  <2> QED BY <1>8, <1>10, <2>3, <2>5 DEF PinsRegistered
<1>14. DurableIsDisk'
  BY <1>2, <1>5, <1>8, <1>9 DEF IInv, RegistryInv, DurableIsDisk
<1>15. DirectoriesAreRecords'
  <2>1. DOMAIN disk' = {x \in known' : records'[x].durable}
    BY <1>2, <1>5, <1>8, <1>9
  <2> QED BY <1>10, <2>1 DEF DirectoriesAreRecords
<1> QED BY <1>8, <1>11, <1>12, <1>13, <1>14, <1>15 DEF IInv, RegistryInv
LEMMA InsertRowInv ==
    ASSUME IInv, expired' \subseteq Ids, InsertRow
    PROVE  IInv'
<1> DEFINE r == call.row
           I == Insert(records, r)
<1>1. /\ call.pc = "budget" /\ call.op = "register" /\ older' = Touch(older, r.id)
      /\ residentBytes' = residentBytes + r.hostBytes
      /\ UNCHANGED <<attached, ready, live, held, disk, partial>>
  BY DEF InsertRow, workerVars, diskVars
<1>2. /\ attached = TRUE /\ r \in Row /\ r.id \notin known /\ Refs(r) \subseteq known
      /\ call.pinned \subseteq known /\ outer \subseteq known /\ call \in Call
  BY <1>1, BusyFacts DEF IInv, TypeOK, CallInv, CallHolds, Admitted, RegistryInv, PinsRegistered
<1>3. /\ records \in [known -> Record] /\ IsFiniteSet(known) /\ Linked(records)
      /\ known \subseteq Ids /\ r.id \in Ids /\ r.hostBytes \in Nat
  BY <1>2, KnownFinite, LinkedRecords DEF IInv, TypeOK, RegistryInv, Row
<1>4. /\ I \in [known \cup {r.id} -> Record] /\ Linked(I)
      /\ \A x \in known : /\ I[x].leases = records[x].leases
                          /\ I[x].durable = records[x].durable
                          /\ I[x].persistence = records[x].persistence
      /\ I[r.id].leases = 0 /\ I[r.id].refcount = 0 /\ ~I[r.id].durable
      /\ I[r.id].persistence = r.persistence
  BY <1>2, <1>3, InsertEffect
<1> HIDE DEF I
<1>5. older' \subseteq Ids \X Ids /\ residentBytes' \in Int
  BY <1>1, <1>3, TouchType DEF IInv, TypeOK
<1>6. DOMAIN disk = {x \in known : records[x].durable}
  BY <1>1, <1>2 DEF IInv, RegistryInv, DirectoriesAreRecords
<1>7. \A x \in known : records[x].leases =
          (IF x \in outer THEN 1 ELSE 0) + (IF x \in call.pinned THEN 1 ELSE 0)
  BY DEF IInv, RegistryInv, LeasesExact
<1>8. CASE r.persistence = "memory"
  <2>1. /\ records' = Unpin(I, call.pinned) /\ call' = Ended(TRUE)
        /\ pending' \subseteq pending /\ outer' = outer
    BY <1>8 DEF InsertRow, Registered, I
  <2>2. /\ records' \in [known \cup {r.id} -> Record] /\ LinksKept(I, records')
        /\ \A x \in known \cup {r.id} : records'[x].leases = I[x].leases
               - (IF x \in call.pinned /\ I[x].leases > 0 THEN 1 ELSE 0)
    BY <1>4, <2>1, UnpinEffect
  <2>3. known' = known \cup {r.id}
    BY <2>2 DEF known
  <2>4. (ParentsRegistered /\ RefcountsExact)'
    BY <1>4, <2>2, LinkedKept, LinkedNext DEF LinksKept
  <2>5. \A x \in known' : /\ records'[x].durable = I[x].durable
                          /\ records'[x].persistence = I[x].persistence
    BY <1>4, <2>2, <2>3 DEF LinksKept, SameLinks
  <2>6. call' \in Call /\ call'.pinned = {} /\ call'.pc = "idle"
    BY <2>1, EndedFields
  <2>7. TypeOK'
    BY <1>1, <1>3, <1>5, <2>1, <2>2, <2>3, <2>6 DEF IInv, TypeOK
  <2>8. CallInv'
    BY <1>1, <1>2, <2>1, CallEnded
  <2>9. LeasesExact' /\ PinsRegistered'
    <3>1. \A x \in known : records'[x].leases = (IF x \in outer THEN 1 ELSE 0)
      BY <1>4, <1>7, <2>2
    <3>2. records'[r.id].leases = 0 /\ r.id \notin outer
      BY <1>2, <1>4, <2>2
    <3>3. \A x \in known' : records'[x].leases = (IF x \in outer THEN 1 ELSE 0)
      BY <2>3, <3>1, <3>2
    <3>4. outer' = outer /\ call'.pinned = {}
      BY <2>1, <2>6
    <3>5. LeasesExact'
      BY <3>3, <3>4 DEF LeasesExact
    <3> QED BY <1>2, <2>3, <3>4, <3>5 DEF PinsRegistered
  <2>10. DurableIsDisk'
    BY <1>4, <2>3, <2>5 DEF IInv, RegistryInv, DurableIsDisk
  <2>11. DirectoriesAreRecords'
    <3>1. \A x \in known' : records'[x].durable <=> x \in known /\ records[x].durable
      BY <1>4, <2>3, <2>5
    <3>2. DOMAIN disk' = {x \in known' : records'[x].durable}
      BY <1>1, <1>6, <2>3, <3>1
    <3> QED BY <2>6, <3>2 DEF DirectoriesAreRecords
  <2> QED BY <2>4, <2>7, <2>8, <2>9, <2>10, <2>11 DEF IInv, RegistryInv
<1>9. CASE r.persistence # "memory"
  <2>1. /\ records' = I /\ call' = [call EXCEPT !.pc = "save"]
        /\ pending' = pending /\ outer' = outer
    BY <1>9 DEF InsertRow, clientVars, I
  <2>2. known' = known \cup {r.id}
    BY <1>4, <2>1 DEF known
  <2>3. (ParentsRegistered /\ RefcountsExact)'
    BY <1>4, <2>1, LinkedNext
  <2>4. /\ call' \in Call /\ call'.pc = "save" /\ call'.op = "register" /\ call'.row = r
        /\ call'.pinned = call.pinned
    BY <1>1, <1>2, <2>1 DEF Call
  <2>5. TypeOK'
    BY <1>1, <1>3, <1>4, <1>5, <2>1, <2>2, <2>4 DEF IInv, TypeOK
  <2>6. r.persistence = "disk"
    BY <1>2, <1>9 DEF Row, Persistence
  <2>7. CallInv'
    BY <1>1, <1>2, <1>4, <2>1, <2>2, <2>4, <2>6 DEF CallInv, CallSteps, CallHolds, CallPins,
       Admitted, Expiring, Loose
  <2>8. LeasesExact' /\ PinsRegistered'
    <3>1. r.id \notin outer /\ r.id \notin call.pinned
      BY <1>2
    <3> QED BY <1>2, <1>4, <1>7, <2>1, <2>2, <2>4, <3>1 DEF LeasesExact, PinsRegistered
  <2>9. DurableIsDisk'
    BY <1>4, <2>1, <2>2 DEF IInv, RegistryInv, DurableIsDisk
  <2>10. DirectoriesAreRecords'
    <3>1. DOMAIN disk' = {x \in known' : records'[x].durable}
      BY <1>1, <1>2, <1>4, <1>6, <2>1, <2>2
    <3> QED BY <2>4, <3>1 DEF DirectoriesAreRecords
  <2> QED BY <2>3, <2>5, <2>7, <2>8, <2>9, <2>10 DEF IInv, RegistryInv
<1> QED BY <1>8, <1>9

----------------------------------------------------------------------------
(* Every step, and the theorems.                                           *)

LEMMA StoreStepInv ==
    ASSUME IInv, expired' \subseteq Ids, StoreStep
    PROVE  IInv'
BY ReclaimMemoryInv, ReclaimDiskInv, UnlinkInv, ExpireDoneInv, AdmitRowInv, RefuseRowInv,
   InsertRowInv, PublishInv, PublishFailsInv, RetractInv, SaveFailsInv, EvictDiskInv,
   EvictMemoryInv, StoreFullInv, LoadInv, LoadRefusedInv, DropTargetInv, TransportFailsInv
   DEF StoreStep

LEMMA ClientInv ==
    ASSUME IInv, expired' \subseteq Ids, Client
    PROVE  IInv'
<1>1. known \subseteq Ids /\ outer \subseteq Ids /\ Fresh \subseteq Ids
      /\ \A w \in pending : w.id \in Ids
  BY DEF IInv, TypeOK, WorkerRow, Fresh
<1>2. CASE CallExpire
  BY <1>2, CallExpireInv
<1>3. CASE \E id \in known : Get(id) \/ Lease(id) \/ CallRestore(id)
  BY <1>1, <1>3, GetInv, LeaseInv, CallRestoreInv
<1>4. CASE \E id \in known : CallDelete(id)
  BY <1>1, <1>4, CallDeleteInv
<1>5. CASE \E p \in known : ConsultMemo(p) \/ \E c \in known : Memoize(p, c)
  BY <1>1, <1>5, ConsultMemoInv, MemoizeInv
<1>6. CASE \E a \in Fresh :
              \/ \E depth \in Depth : Create(a, depth)
              \/ \E b \in Fresh : CreatePair(a, b)
              \/ \E p \in outer : Promote(p, a)
  BY <1>1, <1>6, CreateInv, CreatePairInv, PromoteInv
<1>7. CASE \E p \in outer, S \in (SUBSET Fresh) \ {{}}, kind \in {"branch", "orphan"} :
              Branch(p, S, kind)
  <2>1. PICK p \in outer, S \in (SUBSET Fresh) \ {{}}, kind \in {"branch", "orphan"} :
            Branch(p, S, kind)
    BY <1>7
  <2>2. p \in Ids /\ S \in SUBSET Ids
    BY <1>1
  <2> QED BY <2>1, <2>2, BranchInv
<1>8. CASE \E id \in Ids : GiveUp(id)
  BY <1>8, GiveUpInv
<1>9. CASE \E w \in pending, q \in Persistence, b \in Boundaries : Register(w, q, b)
  BY <1>9, RegisterInv
<1>10. CASE Release \/ CommandLost
  BY <1>10, ReleaseInv, CommandLostInv
<1> QED BY <1>1, <1>2, <1>3, <1>4, <1>5, <1>6, <1>7, <1>8, <1>9, <1>10 DEF Client

LEMMA TickInv ==
    ASSUME IInv, NEW id \in Ids, Tick(id)
    PROVE  IInv'
<1>1. /\ UNCHANGED <<attached, records, older, residentBytes, ready, live, held>>
      /\ UNCHANGED <<disk, partial, call, outer, pending>> /\ expired' = expired \cup {id}
  BY DEF Tick, storeVars, workerVars, diskVars, clientVars
<1>2. TypeOK'
  BY <1>1 DEF IInv, TypeOK, known
<1> QED BY <1>1, <1>2, QuietInv

LEMMA StutterInv ==
    ASSUME IInv, UNCHANGED vars
    PROVE  IInv'
<1>1. /\ UNCHANGED <<attached, records, older, residentBytes, ready, live, held>>
      /\ UNCHANGED <<disk, partial, expired, call, outer, pending>>
  BY DEF vars, storeVars, workerVars, diskVars, clientVars
<1>2. TypeOK'
  BY <1>1 DEF IInv, TypeOK, known
<1> QED BY <1>1, <1>2, QuietInv

LEMMA NextInv ==
    ASSUME IInv, [Next]_vars
    PROVE  IInv'
<1>1. CASE (StoreStep \/ Client \/ Attach \/ WorkerDies \/ Crash) /\ Forgotten
  <2>1. expired' \subseteq Ids
    BY <1>1 DEF Forgotten, IInv, TypeOK
  <2> QED BY <1>1, <2>1, StoreStepInv, ClientInv, AttachInv, WorkerDiesInv, CrashInv
<1>2. CASE \E id \in known \cup DOMAIN disk : Tick(id)
  <2>1. known \cup DOMAIN disk \subseteq Ids
    BY DEF IInv, TypeOK
  <2> QED BY <1>2, <2>1, TickInv
<1>3. CASE UNCHANGED vars
  BY <1>3, StutterInv
<1> QED BY <1>1, <1>2, <1>3 DEF Next

LEMMA InitInv ==
    ASSUME Init
    PROVE  IInv
<1>1. /\ attached = TRUE /\ records = Nothing /\ disk = Nothing /\ outer = {}
      /\ call = Ended(TRUE) /\ known = {} /\ DOMAIN disk = {}
  BY NothingType DEF Init, known
<1>2. TypeOK
  <2>1. attached \in BOOLEAN /\ ready \in BOOLEAN /\ live \in BOOLEAN
    BY Zenon DEF Init
  <2>2. call \in Call
    BY <1>1, EndedFields
  <2>3. records \in [known -> Record] /\ held \in [DOMAIN held -> Holding] /\ DOMAIN held = {}
        /\ disk \in [DOMAIN disk -> Manifest]
    BY <1>1, NothingType DEF Init
  <2>4. residentBytes \in Int /\ older \subseteq Ids \X Ids /\ partial \subseteq Ids
        /\ expired \subseteq Ids /\ pending \subseteq WorkerRow
    BY DEF Init
  <2> QED BY <1>1, <2>1, <2>2, <2>3, <2>4 DEF TypeOK
<1>3. call.op = "none" /\ call.pc = "idle" /\ call.pinned = {}
  BY <1>1, EndedFields
<1>4. CallInv
  BY <1>1, <1>3 DEF CallInv, CallSteps, CallHolds, CallPins, Admitted
<1>5. RegistryInv
  BY <1>1, <1>3 DEF RegistryInv, ParentsRegistered, RefcountsExact, LeasesExact,
     PinsRegistered, DirectoriesAreRecords, DurableIsDisk
<1> QED BY <1>2, <1>4, <1>5 DEF IInv

\* The registry's invariant holds in every state the store and its callers
\* can reach, whatever the ids, the sizes and the budget.
THEOREM StoreInvariantHolds == Spec => []IInv
<1>1. Init => IInv
  BY InitInv
<1>2. IInv /\ [Next]_vars => IInv'
  BY NextInv
<1> QED BY <1>1, <1>2, PTL DEF Spec

\* Every variable keeps its type: no count of leases or of references ever
\* goes below zero.
THEOREM StoreTypeCorrect == Spec => []TypeOK
<1>1. IInv => TypeOK
  BY DEF IInv
<1> QED BY <1>1, StoreInvariantHolds, PTL

\* Nothing a registered snapshot refers to leaves the registry before it:
\* not by expiry, eviction, deletion, rollback or a reload of the index.
THEOREM ParentsStayRegistered == Spec => []ParentsRegistered
<1>1. IInv => ParentsRegistered
  BY DEF IInv, RegistryInv
<1> QED BY <1>1, StoreInvariantHolds, PTL

\* The cached refcount of a record is the number of registered snapshots
\* that refer to it, at every step of every call.
THEOREM RefcountsAreExact == Spec => []RefcountsExact
<1>1. IInv => RefcountsExact
  BY DEF IInv, RegistryInv
<1> QED BY <1>1, StoreInvariantHolds, PTL

\* The lease count of a record is the number of open leases that pin it: no
\* error path leaks a lease or releases one twice.
THEOREM LeasesAreExact == Spec => []LeasesExact
<1>1. IInv => LeasesExact
  BY DEF IInv, RegistryInv
<1> QED BY <1>1, StoreInvariantHolds, PTL

\* The registry is consistent at every step of every call: its records are
\* typed, their parents are there, and both of their counts are exact.
THEOREM RegistryStaysConsistent == Spec => []RegistryConsistent
<1>1. IInv => RegistryConsistent
  BY DEF IInv, RegistryInv, RegistryConsistent
<1> QED BY <1>1, StoreInvariantHolds, PTL

\* While the service runs, the directories are those of the durable records.
THEOREM DirectoriesAreTheRecords == Spec => []DirectoriesAreRecords
<1>1. IInv => DirectoriesAreRecords
  BY DEF IInv, RegistryInv
<1> QED BY <1>1, StoreInvariantHolds, PTL

\* What a store method checked before it awaited the worker still holds when
\* it goes on.
THEOREM CallsHoldWhatTheyChecked == Spec => []CallHolds
<1>1. IInv => CallHolds
  BY DEF IInv, CallInv
<1> QED BY <1>1, StoreInvariantHolds, PTL

----------------------------------------------------------------------------
(* The store and the worker it accounts for: what the registry takes to be *)
(* resident the worker holds, and the reverse, for any ids, sizes and      *)
(* budget.                                                                 *)

\* What a step starts from, and what is known of it beforehand: the store's
\* own invariant, on both sides, and that no TTL comes back.
Steady ==
    /\ IInv /\ IInv' /\ WorkerInv
    /\ \A x \in known' : x \in expired => x \in expired'

----------------------------------------------------------------------------
(* When a snapshot is wanted.                                              *)

LEMMA WantedKept ==
    ASSUME Steady, NEW x \in known, x \in known',
           records'[x].refcount # 0 => records[x].refcount # 0,
           records'[x].leases > 0 => records[x].leases > 0,
           Wanted(x)'
    PROVE  Wanted(x)
BY DEF Steady, Wanted, Gettable

\* A lease count grows only when a lease is taken.
LEMMA LeasesShrink ==
    ASSUME Steady, outer' \subseteq outer, call'.pinned \subseteq call.pinned,
           NEW x \in known, x \in known', records'[x].leases > 0
    PROVE  records[x].leases > 0
<1>1. /\ records[x].leases = (IF x \in outer THEN 1 ELSE 0) + (IF x \in call.pinned THEN 1 ELSE 0)
      /\ records'[x].leases =
             (IF x \in outer' THEN 1 ELSE 0) + (IF x \in call'.pinned THEN 1 ELSE 0)
  BY DEF Steady, IInv, RegistryInv, LeasesExact
<1> QED BY <1>1

\* What a lease on a snapshot pins was reached from it, so that something
\* refers to it.
LEMMA AncestorWanted ==
    ASSUME IInv, NEW p, Gettable(p), NEW x \in Ancestors(p)
    PROVE  Gettable(x)
<1> DEFINE referred == {y \in known : \E z \in known : y \in Refs(records[z])}
           S == {p} \cup referred
<1>1. p \in known /\ x \in known
  BY DEF Gettable, Ancestors
<1>2. S \in SUBSET known
  BY <1>1
<1>3. \A y \in S : Refs(records[y]) \cap known \subseteq S
  BY <1>2
<1>4. p \in S
  OBVIOUS
<1> HIDE DEF S
<1>5. x \in S
  BY <1>2, <1>3, <1>4 DEF Ancestors
<1>6. CASE x = p
  BY <1>6
<1>7. CASE x \in referred
  <2>1. PICK z \in known : x \in Refs(records[z])
    BY <1>7
  <2> DEFINE C == {c \in known : x \in Refs(records[c])}
  <2>2. records[x].refcount = Cardinality(C)
    BY <1>1 DEF IInv, RegistryInv, RefcountsExact
  <2>3. IsFiniteSet(known) /\ C \in SUBSET known
    BY KnownFinite DEF IInv, TypeOK
  <2>4. IsFiniteSet(C) /\ C # {}
    BY <2>1, <2>3, FS_Subset
  <2>5. Cardinality(C) # 0
    BY <2>4, FS_EmptySet
  <2> QED BY <1>1, <2>2, <2>5 DEF Gettable
<1> QED BY <1>5, <1>6, <1>7 DEF S

----------------------------------------------------------------------------
(* The kinds of steps.                                                     *)

LEMMA EndedVictim ==
    ASSUME NEW ok
    PROVE  Ended(ok).victim = None /\ Ended(ok).op = "none" /\ Ended(ok).pc = "idle"
           /\ Ended(ok).pinned = {}
BY DEF Ended

\* A worker that is lost leaves nothing to compare.
LEMMA LostW ==
    ASSUME LoseWorker, NEW ok, call' = Ended(ok)
    PROVE  WorkerInv'
BY EndedVictim DEF LoseWorker, WorkerInv, PendingIsNew, HeldIsKnown, PendingIds, Serving

\* The registry keeps its records, and the worker what it holds.
LEMMA KeepW ==
    ASSUME Steady, known' = known, \A x \in known : records'[x].resident = records[x].resident,
           \A x \in known : Wanted(x)' => Wanted(x),
           UNCHANGED <<attached, ready, live, held, pending>>,
           call.pc \notin {"unlink", "save", "retract"},
           call'.pc \notin {"unlink", "save", "retract"}, call'.victim = None,
           call'.op = "register" => call'.row.id \in PendingIds
    PROVE  WorkerInv'
<1>1. PendingIds' = PendingIds /\ Serving' = Serving /\ call.victim = None
  BY DEF PendingIds, Serving, Steady, WorkerInv
<1>2. PendingIsNew'
  BY <1>1 DEF Steady, WorkerInv, PendingIsNew
<1>3. HeldIsKnown'
  BY <1>1 DEF Steady, WorkerInv, HeldIsKnown
<1> QED BY <1>2, <1>3 DEF WorkerInv

\* ... and no lease is taken.
LEMMA QuietW ==
    ASSUME Steady, SameLinks(records, records'),
           \A x \in known : records'[x].resident = records[x].resident,
           outer' \subseteq outer, call'.pinned \subseteq call.pinned,
           UNCHANGED <<attached, ready, live, held, pending>>,
           call.pc \notin {"unlink", "save", "retract"},
           call'.pc \notin {"unlink", "save", "retract"}, call'.victim = None,
           call'.op = "register" => call'.row.id \in PendingIds
    PROVE  WorkerInv'
<1>1. known' = known
  BY DEF SameLinks, known
<1>2. \A x \in known : Wanted(x)' => Wanted(x)
  BY <1>1, WantedKept, LeasesShrink DEF SameLinks, known
<1> QED BY <1>1, <1>2, KeepW

\* A lease is taken on snapshots that were wanted, and on what they refer to.
LEMMA PinW ==
    ASSUME Steady, NEW S, \A x \in S : Gettable(x), S \subseteq known,
           records' = Pin(records, S),
           UNCHANGED <<attached, ready, live, held, pending>>,
           call.pc \notin {"unlink", "save", "retract"},
           call'.pc \notin {"unlink", "save", "retract"}, call'.victim = None,
           call'.op = "register" => call'.row.id \in PendingIds
    PROVE  WorkerInv'
<1>1. /\ records' \in [known -> Record] /\ LinksKept(records, records')
      /\ \A x \in known : /\ records'[x].leases = records[x].leases + (IF x \in S THEN 1 ELSE 0)
                          /\ records'[x].resident = records[x].resident
  BY PinEffect DEF Steady, IInv, TypeOK
<1>2. known' = known
  BY <1>1 DEF known
<1>3. ASSUME NEW x \in known, Wanted(x)' PROVE Wanted(x)
  <2>1. records[x].leases \in Nat
    BY DEF Steady, IInv, TypeOK, Record
  <2>2. CASE x \in S
    BY <2>2 DEF Wanted
  <2>3. CASE x \notin S
    BY <1>1, <1>2, <1>3, <2>1, <2>3, WantedKept DEF LinksKept, SameLinks
  <2> QED BY <2>2, <2>3
<1> QED BY <1>1, <1>2, <1>3, KeepW

\* A record is forgotten, and not by an accident of its worker: what is still
\* held under its id waits to be registered.
LEMMA ForgetRefcount ==
    ASSUME NEW D, NEW recs \in [D -> Record], NEW id, NEW pins, NEW x \in D \ {id},
           Unpin(Forget(recs, id), pins)[x].refcount # 0
    PROVE  recs[x].refcount # 0
<1> DEFINE F == Forget(recs, id)
<1>1. x \in DOMAIN F /\ recs[x] \in Record /\ recs[x].refcount \in Nat
  BY DEF Forget, Record
<1>2. F[x].refcount # 0 => recs[x].refcount # 0
  BY <1>1 DEF Forget
<1>3. F[x] \in Record
  <2>1. \A r \in Record : r.refcount > 0 => [r EXCEPT !.refcount = @ - 1] \in Record
    BY DEF Record
  <2> QED BY <1>1, <2>1 DEF Forget
<1> HIDE DEF F
<1>4. Unpin(F, pins)[x].refcount = F[x].refcount
  BY <1>1, <1>3 DEF Unpin, Record
<1> QED BY <1>2, <1>4 DEF F

LEMMA ForgetW ==
    ASSUME Steady, NEW id, Loose(id), NEW pins, Forgets(id, pins),
           \/ pins = {} /\ call'.pinned = call.pinned
           \/ pins = call.pinned /\ call'.pinned = {},
           \/ held' = held
           \/ held' = Without(held, id) /\ id \notin PendingIds,
           id \notin DOMAIN held' \/ id \in PendingIds \/ ~Serving,
           UNCHANGED <<ready, live, pending, outer>>,
           call.victim \in {None, id}, call'.victim = None,
           call'.pc \notin {"unlink", "save", "retract"},
           call'.op = "register" => call'.row.id \in PendingIds,
           PendingIds \cap known \subseteq {id}
    PROVE  WorkerInv'
<1>1. /\ known' = known \ {id} /\ UNCHANGED attached
      /\ \A x \in known' : records'[x].resident = records[x].resident
  BY ForgetsEffect DEF Steady
<1>2. \A x \in known' : Wanted(x)' => Wanted(x)
  <2>1. ASSUME NEW x \in known', Wanted(x)' PROVE Wanted(x)
    <3>1. records' = Unpin(Forget(records, id), pins) /\ records \in [known -> Record]
      BY DEF Forgets, Steady, IInv, TypeOK
    <3>2. x \in known \ {id}
      BY <1>1
    <3>3. records'[x].refcount # 0 => records[x].refcount # 0
      BY <3>1, <3>2, ForgetRefcount
    <3>4. outer' \subseteq outer /\ call'.pinned \subseteq call.pinned
      OBVIOUS
    <3> QED BY <2>1, <3>2, <3>3, <3>4, LeasesShrink, WantedKept
  <2> QED BY <2>1
<1>3. PendingIds' = PendingIds /\ Serving' = Serving
  BY <1>1 DEF PendingIds, Serving
<1>4. PendingIsNew'
  BY <1>1, <1>3 DEF PendingIsNew
<1>5. DOMAIN held' = DOMAIN held \/ (DOMAIN held' = DOMAIN held \ {id} /\ id \notin PendingIds)
  BY DEF Without, Restrict
<1>6. HeldIsKnown'
  <2> SUFFICES ASSUME Serving' PROVE HeldIsKnown'
    BY DEF HeldIsKnown
  <2>1. /\ PendingIds \subseteq DOMAIN held
        /\ \A x \in known \ {call.victim} :
              records[x].resident /\ Wanted(x) => x \in DOMAIN held
        /\ DOMAIN held \subseteq {x \in known : records[x].resident} \cup PendingIds
    BY <1>3 DEF Steady, WorkerInv, HeldIsKnown
  <2>2. PendingIds \subseteq DOMAIN held'
    BY <1>5, <2>1
  <2>3. \A x \in known' : records'[x].resident /\ Wanted(x)' => x \in DOMAIN held'
    <3>1. \A x \in known' : x \in known /\ x # id /\ x # None
      BY <1>1, IdsAssumption DEF Steady, IInv, TypeOK
    <3> QED BY <1>1, <1>2, <1>5, <2>1, <3>1
  <2>4. DOMAIN held' \subseteq {x \in known' : records'[x].resident} \cup PendingIds
    BY <1>1, <1>3, <1>5, <2>1
  <2>5. None \notin DOMAIN held'
    BY IdsAssumption DEF Steady, IInv, TypeOK
  <2> QED BY <1>3, <2>2, <2>3, <2>4, <2>5 DEF HeldIsKnown
<1> QED BY <1>4, <1>6 DEF WorkerInv

----------------------------------------------------------------------------
(* Steps that change neither what is resident nor what is held.            *)

\* Whatever ends a call that is not removing or publishing a directory.
LEMMA RaisesW ==
    ASSUME Steady, Raises, call.pc \notin {"unlink", "save", "retract"},
           UNCHANGED <<ready, live, held, outer, pending>>
    PROVE  WorkerInv'
<1>1. /\ call' = Ended(FALSE) /\ records' = Unpin(records, call.pinned) /\ UNCHANGED attached
  BY DEF Raises
<1>2. /\ LinksKept(records, records')
      /\ \A x \in known : records'[x].resident = records[x].resident
  BY <1>1, UnpinEffect DEF Steady, IInv, TypeOK
<1>3. call'.victim = None /\ call'.op = "none" /\ call'.pc = "idle" /\ call'.pinned = {}
  BY <1>1, EndedVictim
<1> QED BY <1>1, <1>2, <1>3, QuietW DEF LinksKept

LEMMA RaisingW ==
    ASSUME Steady, RefuseRow \/ StoreFull \/ LoadRefused
    PROVE  WorkerInv'
<1>1. Raises /\ UNCHANGED <<ready, live, held, outer, pending>>
  BY DEF RefuseRow, StoreFull, LoadRefused, workerVars, clientVars
<1>2. call.pc \in {"admit", "budget"}
  BY DEF RefuseRow, StoreFull, LoadRefused, Over, LoadDue
<1> QED BY <1>1, <1>2, RaisesW

LEMMA TransportFailsW ==
    ASSUME TransportFails
    PROVE  WorkerInv'
BY LostW DEF TransportFails, Raises

LEMMA ExpireDoneW ==
    ASSUME Steady, ExpireDone
    PROVE  WorkerInv'
<1>1. /\ call.pc = "expire" /\ UNCHANGED <<attached, records, ready, live, held, outer, pending>>
  BY DEF ExpireDone, storeVars, workerVars, clientVars
<1>2. call.victim = None /\ call \in Call
  BY <1>1 DEF Steady, WorkerInv, IInv, TypeOK
<1>3. /\ call'.victim = None /\ call'.pc \notin {"unlink", "save", "retract"}
      /\ call'.pinned \subseteq call.pinned
      /\ call'.op = "register" => call.op = "register" /\ call'.row = call.row
  <2>1. CASE call.op = "expire"
    BY <2>1, EndedVictim DEF ExpireDone
  <2>2. CASE call.op # "expire"
    BY <1>2, <2>2 DEF ExpireDone, Call
  <2> QED BY <2>1, <2>2
<1>4. call'.op = "register" => call'.row.id \in PendingIds
  BY <1>3 DEF Steady, WorkerInv, PendingIsNew
<1>5. SameLinks(records, records')
  BY <1>1 DEF SameLinks
<1> QED BY <1>1, <1>3, <1>4, <1>5, QuietW

LEMMA AdmitRowW ==
    ASSUME Steady, AdmitRow
    PROVE  WorkerInv'
<1> DEFINE pins == UNION {Ancestors(p) : p \in Refs(call.row)}
<1>1. /\ call.pc = "admit" /\ Admissible(call.row) /\ records' = Pin(records, pins)
      /\ call' = [call EXCEPT !.pc = "expire", !.after = "budget", !.pinned = pins]
      /\ UNCHANGED <<attached, ready, live, held, pending>>
  BY DEF AdmitRow, workerVars, clientVars
<1>2. \A x \in pins : Gettable(x)
  BY <1>1, AncestorWanted DEF Admissible, Steady
<1>3. pins \subseteq known
  BY <1>2 DEF Gettable
<1>4. call \in Call /\ call.victim = None /\ (call.op = "register" => call.row.id \in PendingIds)
  BY <1>1 DEF Steady, WorkerInv, PendingIsNew, IInv, TypeOK
<1>5. call'.pc = "expire" /\ call'.victim = None /\ call'.row = call.row /\ call'.op = call.op
  BY <1>1, <1>4 DEF Call
<1> HIDE DEF pins
<1> QED BY <1>1, <1>2, <1>3, <1>4, <1>5, PinW

\* Every entry into the store that leaves the worker alone.
LEMMA IdleVictim ==
    ASSUME Steady, Idle
    PROVE  /\ call.pc = "idle" /\ call.victim = None /\ call.pinned = {} /\ call.op = "none"
           /\ PendingIds \cap known = {}
BY IdleFacts DEF Steady, WorkerInv, PendingIsNew

LEMMA EntersW ==
    ASSUME Steady, Idle, UNCHANGED <<attached, records, ready, live, held, outer, pending>>,
           call'.pc \in {"idle", "expire", "drop"}, call'.victim = None, call'.pinned = {},
           call'.op = "register" => call'.row.id \in PendingIds
    PROVE  WorkerInv'
<1>1. SameLinks(records, records')
  BY DEF SameLinks
<1> QED BY <1>1, IdleVictim, QuietW

LEMMA CallsW ==
    ASSUME Steady, NEW id,
           Get(id) \/ CallExpire \/ CallRestore(id) \/ CallDelete(id)
    PROVE  WorkerInv'
<1>1. Idle /\ UNCHANGED <<attached, records, ready, live, held, outer, pending>>
  BY DEF Get, CallExpire, CallRestore, CallDelete, storeVars, workerVars, clientVars
<1>2. call'.pc \in {"idle", "expire", "drop"} /\ call'.victim = None /\ call'.pinned = {}
      /\ call'.op # "register"
  <2>1. CASE Get(id)
    BY <2>1, EndedVictim DEF Get, Returns
  <2>2. CASE CallExpire
    BY <2>2 DEF CallExpire, Started, Ended
  <2>3. CASE CallRestore(id)
    BY <2>3 DEF CallRestore, Started, Ended
  <2>4. CASE CallDelete(id)
    BY <2>4 DEF CallDelete, Started, Ended
  <2> QED BY <2>1, <2>2, <2>3, <2>4
<1> QED BY <1>1, <1>2, EntersW

LEMMA RegisterW ==
    ASSUME Steady, NEW w \in pending, NEW q, NEW b, Register(w, q, b)
    PROVE  WorkerInv'
<1>1. /\ Idle /\ UNCHANGED <<attached, records, ready, live, held, outer, pending>>
      /\ call' = [Started("register", "expire", "admit") EXCEPT !.row = RowFor(w, q, b)]
  BY DEF Register, CallRegister, storeVars, workerVars, clientVars
<1>2. RowFor(w, q, b).id = w.id
  BY DEF RowFor
<1>3. call'.pc = "expire" /\ call'.victim = None /\ call'.pinned = {} /\ call'.row.id = w.id
  BY <1>1, <1>2 DEF Started, Ended
<1> QED BY <1>1, <1>3, EntersW DEF PendingIds

LEMMA RemembersW ==
    ASSUME Steady, NEW p, NEW c, Memoize(p, c) \/ ConsultMemo(p)
    PROVE  WorkerInv'
<1>1. /\ Idle /\ call' = Ended(TRUE) /\ UNCHANGED <<attached, ready, live, held, outer, pending>>
      /\ p \in known /\ \E v : records' = [records EXCEPT ![p].promotionChild = v]
  BY DEF Memoize, ConsultMemo, Returns, Gettable, workerVars, clientVars
<1>2. PICK v : records' = [records EXCEPT ![p].promotionChild = v]
  BY <1>1
<1>3. \A r \in Record : LET s == [r EXCEPT !.promotionChild = v] IN
          /\ s.parent = r.parent /\ s.contextParent = r.contextParent
          /\ s.refcount = r.refcount /\ s.resident = r.resident
  BY DEF Record
<1>4. records \in [known -> Record]
  BY DEF Steady, IInv, TypeOK
<1>5. SameLinks(records, records') /\ \A x \in known : records'[x].resident = records[x].resident
  BY <1>2, <1>3, <1>4 DEF SameLinks
<1>6. call'.victim = None /\ call'.op = "none" /\ call'.pc = "idle" /\ call'.pinned = {}
  BY <1>1, EndedVictim
<1> QED BY <1>1, <1>5, <1>6, IdleVictim, QuietW

LEMMA LeaseW ==
    ASSUME Steady, NEW id, Lease(id)
    PROVE  WorkerInv'
<1>1. /\ Idle /\ Gettable(id) /\ records' = Pin(records, Ancestors(id)) /\ call' = Ended(TRUE)
      /\ UNCHANGED <<attached, ready, live, held, pending>>
  BY DEF Lease, Returns, workerVars
<1>2. Ancestors(id) \subseteq known /\ \A x \in Ancestors(id) : Gettable(x)
  BY <1>1, AncestorsKnown, AncestorWanted DEF Steady, Gettable
<1>3. call'.victim = None /\ call'.op = "none" /\ call'.pc = "idle"
  BY <1>1, EndedVictim
<1> QED BY <1>1, <1>2, <1>3, IdleVictim, PinW

LEMMA ReleaseW ==
    ASSUME Steady, Release
    PROVE  WorkerInv'
<1>1. /\ Idle /\ records' = Unpin(records, outer) /\ call' = call /\ outer' = {}
      /\ UNCHANGED <<attached, ready, live, held, pending>>
  BY DEF Release, workerVars
<1>2. /\ LinksKept(records, records')
      /\ \A x \in known : records'[x].resident = records[x].resident
  BY <1>1, UnpinEffect DEF Steady, IInv, TypeOK
<1> QED BY <1>1, <1>2, IdleVictim, QuietW DEF LinksKept

----------------------------------------------------------------------------
(* Steps that drop a snapshot, and forget its record at once or later.     *)

\* A snapshot that is dropped if it is resident is not held then.
LEMMA DroppedIsNotHeld ==
    ASSUME Steady, NEW id \in known, DropIfResident(id), id \notin PendingIds
    PROVE  /\ UNCHANGED <<ready, live>>
           /\ held' = held \/ held' = Without(held, id)
           /\ id \notin DOMAIN held' \/ ~Serving
<1>1. CASE records[id].resident
  BY <1>1 DEF DropIfResident, NativeDrop, Without, Restrict
<1>2. CASE ~records[id].resident
  <2>1. UNCHANGED <<ready, live, held>>
    BY <1>2 DEF DropIfResident, workerVars
  <2>2. Serving => id \notin DOMAIN held
    BY <1>2 DEF Steady, WorkerInv, HeldIsKnown
  <2> QED BY <2>1, <2>2
<1> QED BY <1>1, <1>2

LEMMA ReclaimMemoryW ==
    ASSUME Steady, NEW id \in known, ReclaimMemory(id)
    PROVE  WorkerInv'
<1>1. /\ call.pc = "expire" /\ Loose(id) /\ DropIfResident(id) /\ Forgets(id, {})
      /\ UNCHANGED <<call, outer, pending>>
  BY DEF ReclaimMemory, Reclaimable, Loose, clientVars
<1>2. /\ PendingIds \cap known = {} /\ call.victim = None
      /\ (call.op = "register" => call.row.id \in PendingIds)
  BY <1>1 DEF Steady, WorkerInv, PendingIsNew
<1>3. id \notin PendingIds
  BY <1>2
<1>4. /\ UNCHANGED <<ready, live>> /\ (held' = held \/ held' = Without(held, id))
      /\ (id \notin DOMAIN held' \/ ~Serving)
  BY <1>1, <1>3, DroppedIsNotHeld
<1> QED BY <1>1, <1>2, <1>3, <1>4, ForgetW

LEMMA UnlinkW ==
    ASSUME Steady, Unlink
    PROVE  WorkerInv'
<1> DEFINE id == call.victim
<1>1. /\ call.pc = "unlink" /\ Forgets(id, {}) /\ UNCHANGED <<ready, live, held, outer, pending>>
  BY DEF Unlink, workerVars, clientVars
<1>2. Loose(id) /\ call \in Call /\ CallPins
  BY <1>1 DEF Steady, IInv, TypeOK, CallInv, CallHolds
<1>3. /\ PendingIds \cap known = {} /\ (call.op = "register" => call.row.id \in PendingIds)
      /\ (id \notin DOMAIN held \/ ~Serving)
  BY <1>1 DEF Steady, WorkerInv, PendingIsNew, HeldIsKnown
<1>4. /\ call'.victim = None /\ call'.pc \notin {"unlink", "save", "retract"}
      /\ call'.pinned = call.pinned
      /\ (call'.op = "register" => call.op = "register" /\ call'.row = call.row)
  <2>1. CASE call.op = "delete"
    <3>1. call.pinned = {}
      BY <1>1, <1>2, <2>1 DEF CallPins, Admitted
    <3> QED BY <2>1, <3>1, EndedVictim DEF Unlink
  <2>2. CASE call.op # "delete"
    BY <1>2, <2>2 DEF Unlink, Call
  <2> QED BY <2>1, <2>2
<1> HIDE DEF id
<1>5. call.victim = id
  BY DEF id
<1> QED BY <1>1, <1>2, <1>3, <1>4, <1>5, ForgetW

LEMMA EvictMemoryW ==
    ASSUME Steady, NEW c \in known, EvictMemory(c)
    PROVE  WorkerInv'
<1>1. /\ call.pc = "budget" /\ Loose(c) /\ UNCHANGED <<outer, pending>>
  BY DEF EvictMemory, Over, LeastRecentlyUsed, Candidates, Loose, clientVars
<1>2. /\ PendingIds \cap known = {} /\ call.victim = None
      /\ (call.op = "register" => call.row.id \in PendingIds)
  BY <1>1 DEF Steady, WorkerInv, PendingIsNew
<1>3. CASE c \in DOMAIN held
  <2>1. NativeDrop(c) /\ Forgets(c, {}) /\ call' = call
    BY <1>3 DEF EvictMemory
  <2>2. held' = Without(held, c) /\ UNCHANGED <<ready, live>> /\ c \notin DOMAIN held'
    BY <2>1 DEF NativeDrop, Without, Restrict
  <2> QED BY <1>1, <1>2, <2>1, <2>2, ForgetW
<1>4. CASE c \notin DOMAIN held
  <2>1. Raises /\ UNCHANGED <<ready, live, held>>
    BY <1>4 DEF EvictMemory, workerVars
  <2> QED BY <1>1, <2>1, RaisesW
<1> QED BY <1>3, <1>4

\* The directory goes first: until it has, the record is the call's victim.
LEMMA VictimW ==
    ASSUME Steady, NEW id \in known, call.pc \notin {"unlink", "save", "retract"},
           call' = [call EXCEPT !.pc = "unlink", !.victim = id],
           held' = held \/ held' = Without(held, id), id \notin DOMAIN held' \/ ~Serving,
           UNCHANGED <<attached, records, ready, live, outer, pending>>
    PROVE  WorkerInv'
<1>1. /\ PendingIds \cap known = {} /\ call.victim = None /\ call \in Call
      /\ (call.op = "register" => call.row.id \in PendingIds)
  BY DEF Steady, WorkerInv, PendingIsNew, IInv, TypeOK
<1>2. /\ call'.pc = "unlink" /\ call'.victim = id /\ call'.op = call.op
      /\ call'.row = call.row /\ call'.pinned = call.pinned
  BY <1>1 DEF Call
<1>3. PendingIds' = PendingIds /\ Serving' = Serving /\ known' = known
  BY DEF PendingIds, Serving, known
<1>4. PendingIsNew'
  BY <1>1, <1>2, <1>3 DEF PendingIsNew
<1>5. \A x \in known : Wanted(x)' => Wanted(x)
  BY <1>2, <1>3, WantedKept
<1>6. DOMAIN held' = DOMAIN held \/ DOMAIN held' = DOMAIN held \ {id}
  BY DEF Without, Restrict
<1>7. HeldIsKnown'
  <2> SUFFICES ASSUME Serving' PROVE HeldIsKnown'
    BY DEF HeldIsKnown
  <2>1. None \notin known
    BY IdsAssumption DEF Steady, IInv, TypeOK
  <2>2. /\ PendingIds \subseteq DOMAIN held
        /\ \A x \in known : records[x].resident /\ Wanted(x) => x \in DOMAIN held
        /\ DOMAIN held \subseteq {x \in known : records[x].resident} \cup PendingIds
    BY <1>1, <1>3, <2>1 DEF Steady, WorkerInv, HeldIsKnown
  <2>3. PendingIds \subseteq DOMAIN held'
    BY <1>1, <1>6, <2>2
  <2>4. \A x \in known \ {id} : records[x].resident /\ Wanted(x)' => x \in DOMAIN held'
    BY <1>5, <1>6, <2>2
  <2>5. DOMAIN held' \subseteq {x \in known : records[x].resident} \cup PendingIds
    BY <1>6, <2>2
  <2>6. id \notin DOMAIN held'
    BY <1>3
  <2> QED BY <1>2, <1>3, <2>3, <2>4, <2>5, <2>6 DEF HeldIsKnown
<1> QED BY <1>2, <1>4, <1>7 DEF WorkerInv

LEMMA ReclaimDiskW ==
    ASSUME Steady, NEW id \in known, ReclaimDisk(id)
    PROVE  WorkerInv'
<1>1. /\ call.pc = "expire" /\ DropIfResident(id)
      /\ call' = [call EXCEPT !.pc = "unlink", !.victim = id]
      /\ UNCHANGED <<attached, records, outer, pending>>
  BY DEF ReclaimDisk, storeVars, clientVars
<1>2. id \notin PendingIds
  BY <1>1 DEF Steady, WorkerInv, PendingIsNew
<1>3. /\ UNCHANGED <<ready, live>> /\ (held' = held \/ held' = Without(held, id))
      /\ (id \notin DOMAIN held' \/ ~Serving)
  BY <1>1, <1>2, DroppedIsNotHeld
<1> QED BY <1>1, <1>3, VictimW

LEMMA DropTargetW ==
    ASSUME Steady, DropTarget
    PROVE  WorkerInv'
<1> DEFINE id == call.target
<1>1. /\ call.pc = "drop" /\ NativeDrop(id) /\ UNCHANGED <<outer, pending>>
  BY DEF DropTarget, clientVars
<1>2. Loose(id) /\ id \in known /\ CallPins
  BY <1>1 DEF Steady, IInv, CallInv, CallHolds, Loose
<1>3. PendingIds \cap known = {} /\ call.victim = None
  BY <1>1 DEF Steady, WorkerInv, PendingIsNew
<1>4. held' = Without(held, id) /\ UNCHANGED <<ready, live>> /\ id \notin DOMAIN held'
  BY <1>1 DEF NativeDrop, Without, Restrict
<1>5. CASE records[id].durable
  <2>1. /\ call' = [call EXCEPT !.pc = "unlink", !.victim = id]
        /\ UNCHANGED <<attached, records>>
    BY <1>5 DEF DropTarget, storeVars
  <2> HIDE DEF id
  <2> QED BY <1>1, <1>2, <1>4, <2>1, VictimW
<1>6. CASE ~records[id].durable
  <2>1. Forgets(id, {}) /\ call' = Ended(TRUE)
    BY <1>6 DEF DropTarget
  <2>2. call.pinned = {}
    <3>1. call.op = "delete"
      BY <1>1, BusyFacts DEF Steady
    <3> QED BY <1>1, <1>2, <3>1 DEF CallPins, Admitted
  <2>3. call'.victim = None /\ call'.op = "none" /\ call'.pc = "idle" /\ call'.pinned = {}
    BY <2>1, EndedVictim
  <2> HIDE DEF id
  <2> QED BY <1>1, <1>2, <1>3, <1>4, <2>1, <2>2, <2>3, ForgetW
<1> QED BY <1>5, <1>6

\* The save fails, or what it published is retracted: the worker goes on
\* holding what its caller has still to register or give up.
LEMMA WithdrawW ==
    ASSUME Steady, call.pc \in {"save", "retract"}, Forgets(call.row.id, call.pinned),
           call' = Ended(FALSE), UNCHANGED <<ready, live, held, pending, outer>>
    PROVE  WorkerInv'
<1> DEFINE id == call.row.id
<1>1. Loose(id) /\ call.op = "register"
  BY BusyFacts DEF Steady, IInv, CallInv, CallHolds
<1>2. id \in PendingIds /\ PendingIds \cap known \subseteq {id} /\ call.victim = None
  BY <1>1 DEF Steady, WorkerInv, PendingIsNew
<1>3. call'.victim = None /\ call'.op = "none" /\ call'.pc = "idle" /\ call'.pinned = {}
  BY EndedVictim
<1>4. Forgets(id, call.pinned)
  OBVIOUS
<1> HIDE DEF id
<1> QED BY <1>1, <1>2, <1>3, <1>4, ForgetW

LEMMA SaveFailsW ==
    ASSUME Steady, SaveFails \/ Retract
    PROVE  WorkerInv'
<1>1. CASE LoseWorker /\ SaveFails
  BY <1>1, LostW DEF SaveFails
<1>2. CASE ~(LoseWorker /\ SaveFails)
  <2>1. /\ call.pc \in {"save", "retract"} /\ Forgets(call.row.id, call.pinned)
        /\ call' = Ended(FALSE) /\ UNCHANGED <<ready, live, held, pending, outer>>
    BY <1>2 DEF SaveFails, Retract, workerVars, clientVars
  <2> QED BY <2>1, WithdrawW
<1> QED BY <1>1, <1>2

----------------------------------------------------------------------------
(* Steps of the worker, and of the caller's rows.                          *)

\* The worker makes snapshots of new ids, to be registered.
LEMMA PublishesW ==
    ASSUME Steady, NEW hs, NEW kind, Infers, Publishes(hs, kind), DOMAIN hs \subseteq Fresh
    PROVE  WorkerInv'
<1>1. /\ pending = {} /\ Idle /\ call' = Ended(TRUE)
      /\ UNCHANGED <<attached, records, ready, live, outer>>
  BY DEF Infers, Publishes, Returns, storeVars
<1>2. PendingIds = {} /\ call.victim = None /\ call.pinned = {}
  BY <1>1, IdleVictim DEF PendingIds
<1>3. PendingIds' = DOMAIN hs
  <2> DEFINE row(x) == [id |-> x, depth |-> hs[x].depth, parent |-> hs[x].parent,
                        hostBytes |-> RowBytes(x, hs[x]), kind |-> kind]
  <2>1. pending' = {row(x) : x \in DOMAIN hs}
    BY DEF Publishes
  <2>2. \A x : row(x).id = x
    OBVIOUS
  <2> HIDE DEF row
  <2> QED BY <2>1, <2>2 DEF PendingIds
<1>4. DOMAIN held' = DOMAIN held \cup DOMAIN hs
  BY DEF Publishes
<1>5. PendingIds' \cap known = {} /\ known' = known /\ Serving' = Serving
  BY <1>1, <1>3 DEF Fresh, known, Serving
<1>6. call'.victim = None /\ call'.op = "none" /\ call'.pc = "idle" /\ call'.pinned = {}
  BY <1>1, EndedVictim
<1>7. PendingIsNew'
  BY <1>5, <1>6 DEF PendingIsNew
<1>8. \A x \in known : Wanted(x)' => Wanted(x)
  BY <1>1, <1>2, <1>5, <1>6, WantedKept
<1>9. HeldIsKnown'
  <2> SUFFICES ASSUME Serving' PROVE HeldIsKnown'
    BY DEF HeldIsKnown
  <2>1. None \notin known /\ None \notin DOMAIN held'
    BY IdsAssumption DEF Steady, IInv, TypeOK
  <2>2. /\ \A x \in known : records[x].resident /\ Wanted(x) => x \in DOMAIN held
        /\ DOMAIN held \subseteq {x \in known : records[x].resident}
    BY <1>2, <1>5, <2>1 DEF Steady, WorkerInv, HeldIsKnown
  <2>3. \A x \in known : records[x].resident /\ Wanted(x)' => x \in DOMAIN held'
    BY <1>4, <1>8, <2>2
  <2>4. DOMAIN held' \subseteq {x \in known : records[x].resident} \cup PendingIds'
    BY <1>3, <1>4, <2>2
  <2>5. PendingIds' \subseteq DOMAIN held'
    BY <1>3, <1>4
  <2> QED BY <1>1, <1>5, <1>6, <2>1, <2>3, <2>4, <2>5 DEF HeldIsKnown
<1> QED BY <1>6, <1>7, <1>9 DEF WorkerInv

LEMMA InfersW ==
    ASSUME Steady, NEW a \in Fresh,
           \/ \E depth \in Depth : Create(a, depth)
           \/ \E b \in Fresh : CreatePair(a, b)
           \/ \E p \in outer : Promote(p, a)
    PROVE  WorkerInv'
<1>1. PICK hs, kind : Infers /\ Publishes(hs, kind) /\ DOMAIN hs \subseteq Fresh
  <2>1. CASE \E depth \in Depth : Create(a, depth)
    <3>1. PICK depth \in Depth : Create(a, depth)
      BY <2>1
    <3> DEFINE hs == [x \in {a} |-> [depth |-> depth, parent |-> None, lower |-> a]]
    <3>2. Infers /\ Publishes(hs, "capture") /\ DOMAIN hs \subseteq Fresh
      BY <3>1 DEF Create
    <3> QED BY <3>2
  <2>2. CASE \E b \in Fresh : CreatePair(a, b)
    <3>1. PICK b \in Fresh : CreatePair(a, b)
      BY <2>2
    <3> DEFINE hs == [x \in {a, b} |->
                         IF x = a THEN [depth |-> 18, parent |-> None, lower |-> a]
                         ELSE [depth |-> 30, parent |-> a, lower |-> a]]
    <3>2. Infers /\ Publishes(hs, "capture") /\ DOMAIN hs \subseteq Fresh
      BY <3>1 DEF CreatePair
    <3> QED BY <3>2
  <2>3. CASE \E p \in outer : Promote(p, a)
    <3>1. PICK p \in outer : Promote(p, a)
      BY <2>3
    <3> DEFINE hs == [x \in {a} |-> [depth |-> 30, parent |-> p, lower |-> held[p].lower]]
    <3>2. Infers /\ Publishes(hs, "promote") /\ DOMAIN hs \subseteq Fresh
      BY <3>1 DEF Promote
    <3> QED BY <3>2
  <2> QED BY <2>1, <2>2, <2>3
<1> QED BY <1>1, PublishesW

LEMMA BranchW ==
    ASSUME Steady, NEW p, NEW S \in SUBSET Fresh, NEW kind, Branch(p, S, kind)
    PROVE  WorkerInv'
<1> DEFINE hs == [x \in S |-> [depth |-> 30, parent |-> p, lower |-> x]]
<1>1. Infers /\ Publishes(hs, kind) /\ DOMAIN hs \subseteq Fresh
  BY DEF Branch
<1> QED BY <1>1, PublishesW

\* What is given up is no record of the store, or one it never asks for again.
LEMMA GiveUpW ==
    ASSUME Steady, NEW id, GiveUp(id), id \in known => ~Wanted(id)
    PROVE  WorkerInv'
<1>1. /\ Idle /\ held' = Without(held, id) /\ call' = Ended(TRUE)
      /\ pending' = {w \in pending : w.id # id}
      /\ UNCHANGED <<attached, records, ready, live, outer>>
  BY DEF GiveUp, NativeDrop, Returns, storeVars
<1>2. PendingIds \cap known = {} /\ call.victim = None /\ call.pinned = {}
  BY <1>1, IdleVictim
<1>3. PendingIds' = PendingIds \ {id}
  BY <1>1 DEF PendingIds
<1>4. DOMAIN held' = DOMAIN held \ {id}
  BY <1>1 DEF Without, Restrict
<1>5. known' = known /\ Serving' = Serving
  BY <1>1 DEF known, Serving
<1>6. call'.victim = None /\ call'.op = "none" /\ call'.pc = "idle" /\ call'.pinned = {}
  BY <1>1, EndedVictim
<1>7. PendingIsNew'
  BY <1>2, <1>3, <1>5, <1>6 DEF PendingIsNew
<1>8. \A x \in known : Wanted(x)' => Wanted(x)
  BY <1>1, <1>2, <1>5, <1>6, WantedKept
<1>9. HeldIsKnown'
  <2> SUFFICES ASSUME Serving' PROVE HeldIsKnown'
    BY DEF HeldIsKnown
  <2>1. None \notin known /\ None \notin DOMAIN held'
    BY IdsAssumption DEF Steady, IInv, TypeOK
  <2>2. /\ PendingIds \subseteq DOMAIN held
        /\ \A x \in known : records[x].resident /\ Wanted(x) => x \in DOMAIN held
        /\ DOMAIN held \subseteq {x \in known : records[x].resident} \cup PendingIds
    BY <1>2, <1>5, <2>1 DEF Steady, WorkerInv, HeldIsKnown
  <2>3. \A x \in known : records[x].resident /\ Wanted(x)' => x \in DOMAIN held'
    BY <1>4, <1>8, <2>2
  <2>4. DOMAIN held' \subseteq {x \in known : records[x].resident} \cup PendingIds'
    BY <1>3, <1>4, <2>2
  <2>5. PendingIds' \subseteq DOMAIN held'
    BY <1>3, <1>4, <2>2
  <2> QED BY <1>1, <1>5, <1>6, <2>1, <2>3, <2>4, <2>5 DEF HeldIsKnown
<1> QED BY <1>6, <1>7, <1>9 DEF WorkerInv

\* Nothing the worker is compared with changes; a TTL may run out.
LEMMA FrameW ==
    ASSUME Steady, UNCHANGED <<attached, records, ready, live, held, call, outer, pending>>
    PROVE  WorkerInv'
<1>1. known' = known /\ Serving' = Serving /\ PendingIds' = PendingIds
  BY DEF known, Serving, PendingIds
<1>2. PendingIsNew'
  BY <1>1 DEF Steady, WorkerInv, PendingIsNew
<1>3. \A x \in known : Wanted(x)' => Wanted(x)
  BY <1>1, WantedKept
<1>4. HeldIsKnown'
  BY <1>1, <1>3 DEF Steady, WorkerInv, HeldIsKnown
<1> QED BY <1>2, <1>4 DEF Steady, WorkerInv

LEMMA WorkerDiesW ==
    ASSUME Steady, WorkerDies
    PROVE  WorkerInv'
<1>1. /\ live' = FALSE /\ UNCHANGED <<attached, records, call, pending>>
  BY DEF WorkerDies, storeVars, clientVars
<1>2. PendingIsNew'
  BY <1>1 DEF Steady, WorkerInv, PendingIsNew, PendingIds, known
<1>3. HeldIsKnown'
  BY <1>1 DEF HeldIsKnown, Serving
<1> QED BY <1>1, <1>2, <1>3 DEF Steady, WorkerInv

\* A new store and a new worker agree: neither has anything in memory.
LEMMA AttachW ==
    ASSUME Steady, Attach
    PROVE  WorkerInv'
<1>1. /\ held' = Nothing /\ pending' = {} /\ call' = Ended(TRUE)
  BY DEF Attach, StartWorker, Returns, clientVars
<1>2. \A x \in known' : ~records'[x].resident
  <2>1. PICK memo \in [DOMAIN disk -> Ref] :
            records' = [x \in DOMAIN disk |-> IndexRecord(x, memo[x])]
    BY DEF Attach, LoadIndex
  <2> QED BY <2>1 DEF known, IndexRecord
<1>3. call'.victim = None /\ call'.op = "none" /\ call'.pc = "idle"
  BY <1>1, EndedVictim
<1>4. PendingIds' = {} /\ DOMAIN held' = {}
  BY <1>1, NothingType DEF PendingIds
<1>5. PendingIsNew' /\ HeldIsKnown'
  BY <1>2, <1>3, <1>4 DEF PendingIsNew, HeldIsKnown
<1> QED BY <1>3, <1>5 DEF WorkerInv

----------------------------------------------------------------------------
(* Steps that make a snapshot resident, or take it out of memory.          *)

\* A row is inserted.  What it refers to was leased meanwhile, so that the
\* worker still holds it.
LEMMA InsertRowW ==
    ASSUME Steady, InsertRow
    PROVE  WorkerInv'
<1> DEFINE r == call.row
           I == Insert(records, r)
<1>1. /\ call.pc = "budget" /\ call.op = "register" /\ UNCHANGED <<attached, ready, live, held>>
  BY DEF InsertRow, workerVars
<1>2. /\ attached = TRUE /\ r \in Row /\ r.id \notin known /\ Refs(r) \subseteq known
      /\ Refs(r) \subseteq call.pinned /\ call.pinned \subseteq known /\ call \in Call
  BY <1>1, BusyFacts
     DEF Steady, IInv, TypeOK, CallInv, CallHolds, Admitted, RegistryInv, PinsRegistered
<1>3. /\ r.id \in PendingIds /\ PendingIds \cap known = {} /\ call.victim = None
  BY <1>1 DEF Steady, WorkerInv, PendingIsNew
<1>4. /\ records \in [known -> Record] /\ IsFiniteSet(known) /\ Linked(records)
  BY KnownFinite, LinkedRecords DEF Steady, IInv, TypeOK, RegistryInv
<1>5. /\ I \in [known \cup {r.id} -> Record]
      /\ \A x \in known : I[x].leases = records[x].leases /\ I[x].resident = records[x].resident
  BY <1>2, <1>4, InsertEffect
<1>6. I[r.id].resident
  BY DEF Insert, NewRecord
<1>7. \A x \in known \ Refs(r) : I[x] = records[x]
  BY <1>2, <1>4 DEF Insert
<1> HIDE DEF I
<1>8. /\ known' = known \cup {r.id}
      /\ \A x \in known \cup {r.id} : /\ records'[x].refcount = I[x].refcount
                                      /\ records'[x].resident = I[x].resident
      /\ call'.victim = None /\ outer' = outer /\ call'.pinned \subseteq call.pinned
      /\ \/ PendingIds' = PendingIds \ {r.id} /\ call'.op = "none" /\ call'.pc = "idle"
         \/ PendingIds' = PendingIds /\ call'.pc = "save" /\ call'.row = r
  <2>1. CASE r.persistence = "memory"
    <3>1. /\ records' = Unpin(I, call.pinned) /\ call' = Ended(TRUE)
          /\ pending' = {w \in pending : w.id # r.id} /\ outer' = outer
      BY <2>1 DEF InsertRow, Registered, I
    <3>2. /\ records' \in [known \cup {r.id} -> Record] /\ LinksKept(I, records')
          /\ \A x \in known \cup {r.id} : records'[x].resident = I[x].resident
      BY <1>5, <3>1, UnpinEffect
    <3>3. PendingIds' = PendingIds \ {r.id}
      BY <3>1 DEF PendingIds
    <3>4. known' = known \cup {r.id}
      BY <3>2 DEF known
    <3>5. \A x \in known \cup {r.id} : records'[x].refcount = I[x].refcount
      BY <1>5, <3>2 DEF LinksKept, SameLinks
    <3> QED BY <3>1, <3>2, <3>3, <3>4, <3>5, EndedVictim
  <2>2. CASE r.persistence # "memory"
    <3>1. /\ records' = I /\ call' = [call EXCEPT !.pc = "save"]
          /\ pending' = pending /\ outer' = outer
      BY <2>2 DEF InsertRow, clientVars, I
    <3>2. known' = known \cup {r.id} /\ PendingIds' = PendingIds
      BY <1>5, <3>1 DEF known, PendingIds
    <3>3. /\ call'.pc = "save" /\ call'.row = r /\ call'.victim = None
          /\ call'.pinned = call.pinned
      BY <1>2, <1>3, <3>1 DEF Call
    <3> QED BY <3>1, <3>2, <3>3
  <2> QED BY <2>1, <2>2
<1>9. \A x \in known : Wanted(x)' => Wanted(x)
  <2>1. ASSUME NEW x \in known, Wanted(x)' PROVE Wanted(x)
    <3>1. CASE x \in Refs(r)
      <4>1. x \in call.pinned
        BY <1>2, <3>1
      <4>2. records[x].leases > 0
        BY <4>1 DEF Steady, IInv, RegistryInv, LeasesExact
      <4> QED BY <4>2 DEF Wanted
    <3>2. CASE x \notin Refs(r)
      <4>1. records'[x].refcount = records[x].refcount /\ x \in known'
        BY <1>7, <1>8, <3>2
      <4>2. records'[x].leases > 0 => records[x].leases > 0
        BY <1>8, <4>1, LeasesShrink
      <4> QED BY <2>1, <4>1, <4>2, WantedKept
    <3> QED BY <3>1, <3>2
  <2> QED BY <2>1
<1>10. PendingIsNew'
  <2>1. r.id \in known' /\ records'[r.id].resident
    BY <1>6, <1>8
  <2> QED BY <1>3, <1>8, <2>1 DEF PendingIsNew
<1>11. HeldIsKnown'
  <2> SUFFICES ASSUME Serving' PROVE HeldIsKnown'
    BY DEF HeldIsKnown
  <2>1. Serving /\ None \notin known /\ None \notin DOMAIN held'
    BY <1>1, IdsAssumption DEF Steady, IInv, TypeOK, Serving
  <2>2. /\ PendingIds \subseteq DOMAIN held
        /\ \A x \in known : records[x].resident /\ Wanted(x) => x \in DOMAIN held
        /\ DOMAIN held \subseteq {x \in known : records[x].resident} \cup PendingIds
    BY <1>3, <2>1 DEF Steady, WorkerInv, HeldIsKnown
  <2>3. \A x \in known' : records'[x].resident /\ Wanted(x)' => x \in DOMAIN held'
    BY <1>1, <1>3, <1>5, <1>8, <1>9, <2>2
  <2>4. DOMAIN held' \subseteq {x \in known' : records'[x].resident} \cup PendingIds'
    BY <1>1, <1>5, <1>6, <1>8, <2>2
  <2>5. PendingIds' \subseteq DOMAIN held'
    BY <1>1, <1>8, <2>2
  <2> QED BY <1>8, <2>1, <2>3, <2>4, <2>5 DEF HeldIsKnown
<1>12. call'.victim = None
  BY <1>8
<1> QED BY <1>10, <1>11, <1>12 DEF WorkerInv

\* A published snapshot is registered, and its row is no longer pending.
LEMMA PublishW ==
    ASSUME Steady, Publish
    PROVE  WorkerInv'
<1> DEFINE id == call.row.id
           D == [records EXCEPT ![id].durable = TRUE]
<1>1. /\ call.pc = "save" /\ UNCHANGED <<attached, ready, live, held>>
      /\ records' = Unpin(D, call.pinned) /\ call' = Ended(TRUE)
      /\ pending' = {w \in pending : w.id # id} /\ outer' = outer
  BY DEF Publish, Published, Registered, workerVars
<1>2. /\ id \in known /\ records[id].resident /\ PendingIds \cap known \subseteq {id}
      /\ call.victim = None
  BY <1>1 DEF Steady, WorkerInv, PendingIsNew, IInv, CallInv, CallHolds, Loose
<1>3. /\ D \in [known -> Record]
      /\ \A x \in known : D[x].refcount = records[x].refcount /\ D[x].resident = records[x].resident
  <2>1. records \in [known -> Record]
    BY DEF Steady, IInv, TypeOK
  <2>2. \A s \in Record : LET t == [s EXCEPT !.durable = TRUE] IN
            t \in Record /\ t.refcount = s.refcount /\ t.resident = s.resident
    BY DEF Record
  <2> QED BY <1>2, <2>1, <2>2
<1> HIDE DEF D
<1>4. /\ records' \in [known -> Record] /\ LinksKept(D, records')
      /\ \A x \in known : records'[x].resident = D[x].resident
  BY <1>1, <1>3, UnpinEffect
<1>5. known' = known /\ Serving' = Serving /\ PendingIds' = PendingIds \ {id}
  BY <1>1, <1>4 DEF known, Serving, PendingIds
<1>6. \A x \in known : /\ records'[x].resident = records[x].resident
                       /\ records'[x].refcount = records[x].refcount
  BY <1>3, <1>4 DEF LinksKept, SameLinks
<1>7. call'.victim = None /\ call'.op = "none" /\ call'.pc = "idle" /\ call'.pinned = {}
  BY <1>1, EndedVictim
<1>8. \A x \in known : Wanted(x)' => Wanted(x)
  BY <1>1, <1>5, <1>6, <1>7, WantedKept, LeasesShrink
<1>9. PendingIsNew'
  BY <1>2, <1>5, <1>7 DEF PendingIsNew
<1> HIDE DEF id
<1>10. HeldIsKnown'
  <2> SUFFICES ASSUME Serving' PROVE HeldIsKnown'
    BY DEF HeldIsKnown
  <2>1. None \notin known /\ None \notin DOMAIN held'
    BY IdsAssumption DEF Steady, IInv, TypeOK
  <2>2. /\ PendingIds \subseteq DOMAIN held
        /\ \A x \in known : records[x].resident /\ Wanted(x) => x \in DOMAIN held
        /\ DOMAIN held \subseteq {x \in known : records[x].resident} \cup PendingIds
    BY <1>2, <1>5, <2>1 DEF Steady, WorkerInv, HeldIsKnown
  <2>3. \A x \in known : records'[x].resident /\ Wanted(x)' => x \in DOMAIN held'
    BY <1>1, <1>6, <1>8, <2>2
  <2>4. DOMAIN held' \subseteq {x \in known : records'[x].resident} \cup PendingIds'
    BY <1>1, <1>2, <1>5, <1>6, <2>2
  <2>5. PendingIds' \subseteq DOMAIN held'
    BY <1>1, <1>5, <2>2
  <2> QED BY <1>5, <1>7, <2>1, <2>3, <2>4, <2>5 DEF HeldIsKnown
<1> QED BY <1>7, <1>9, <1>10 DEF WorkerInv

LEMMA PublishFailsW ==
    ASSUME Steady, PublishFails
    PROVE  WorkerInv'
<1>1. /\ call.pc = "save" /\ call' = [call EXCEPT !.pc = "retract"]
      /\ UNCHANGED <<attached, records, ready, live, held, outer, pending>>
  BY DEF PublishFails, Published, storeVars, workerVars, clientVars
<1>2. call \in Call /\ call.victim = None
  BY <1>1 DEF Steady, WorkerInv, IInv, TypeOK
<1>3. /\ call'.pc = "retract" /\ call'.row = call.row /\ call'.op = call.op
      /\ call'.victim = call.victim /\ call'.pinned = call.pinned
  BY <1>1, <1>2 DEF Call
<1>4. known' = known /\ Serving' = Serving /\ PendingIds' = PendingIds
  BY <1>1 DEF known, Serving, PendingIds
<1>5. PendingIsNew'
  BY <1>1, <1>3, <1>4 DEF Steady, WorkerInv, PendingIsNew
<1>6. \A x \in known : Wanted(x)' => Wanted(x)
  BY <1>1, <1>3, <1>4, WantedKept, LeasesShrink
<1>7. HeldIsKnown'
  BY <1>1, <1>3, <1>4, <1>6 DEF Steady, WorkerInv, HeldIsKnown
<1> QED BY <1>2, <1>3, <1>5, <1>7 DEF WorkerInv

\* One snapshot enters or leaves the worker's memory, and its record says so.
LEMMA MoveW ==
    ASSUME Steady, NEW id \in known, call.pc = "budget", known' = known,
           NEW into \in BOOLEAN, records'[id].resident = into,
           DOMAIN held' = IF into THEN DOMAIN held \cup {id} ELSE DOMAIN held \ {id},
           \A x \in known \ {id} : records'[x].resident = records[x].resident,
           \A x \in known : records'[x].refcount = records[x].refcount,
           UNCHANGED <<attached, ready, live, outer, pending>>,
           call'.pc \in {"idle", "budget"}, call'.victim = None,
           call'.pinned \subseteq call.pinned,
           call'.op = "register" => call.op = "register" /\ call'.row = call.row
    PROVE  WorkerInv'
<1>1. /\ PendingIds \cap known = {} /\ call.victim = None
      /\ (call.op = "register" => call.row.id \in PendingIds)
  BY DEF Steady, WorkerInv, PendingIsNew
<1>2. Serving' = Serving /\ PendingIds' = PendingIds
  BY DEF Serving, PendingIds
<1>3. PendingIsNew'
  BY <1>1, <1>2 DEF PendingIsNew
<1>4. \A x \in known : Wanted(x)' => Wanted(x)
  BY WantedKept, LeasesShrink
<1>5. HeldIsKnown'
  <2> SUFFICES ASSUME Serving' PROVE HeldIsKnown'
    BY DEF HeldIsKnown
  <2>1. None \notin known /\ None \notin DOMAIN held'
    BY IdsAssumption DEF Steady, IInv, TypeOK
  <2>2. /\ PendingIds \subseteq DOMAIN held
        /\ \A x \in known : records[x].resident /\ Wanted(x) => x \in DOMAIN held
        /\ DOMAIN held \subseteq {x \in known : records[x].resident} \cup PendingIds
    BY <1>1, <1>2, <2>1 DEF Steady, WorkerInv, HeldIsKnown
  <2>3. \A x \in known : records'[x].resident /\ Wanted(x)' => x \in DOMAIN held'
    BY <1>4, <2>2
  <2>4. DOMAIN held' \subseteq {x \in known : records'[x].resident} \cup PendingIds
    BY <2>2
  <2>5. PendingIds \subseteq DOMAIN held'
    BY <1>1, <2>2
  <2> QED BY <1>2, <2>1, <2>3, <2>4, <2>5 DEF HeldIsKnown
<1> QED BY <1>3, <1>5 DEF WorkerInv

LEMMA EvictDiskW ==
    ASSUME Steady, NEW c \in known, EvictDisk(c)
    PROVE  WorkerInv'
<1>1. /\ call.pc = "budget" /\ held' = Without(held, c)
      /\ records' = [records EXCEPT ![c].resident = FALSE]
      /\ UNCHANGED <<attached, ready, live, call, outer, pending>>
  BY DEF EvictDisk, Over, NativeDrop, clientVars
<1>2. records \in [known -> Record] /\ call.victim = None
  BY <1>1 DEF Steady, WorkerInv, IInv, TypeOK
<1>3. \A s \in Record : LET t == [s EXCEPT !.resident = FALSE] IN
          t.refcount = s.refcount /\ t.resident = FALSE
  BY DEF Record
<1>4. /\ known' = known /\ records'[c].resident = FALSE
      /\ \A x \in known \ {c} : records'[x].resident = records[x].resident
      /\ \A x \in known : records'[x].refcount = records[x].refcount
  BY <1>1, <1>2, <1>3 DEF known
<1>5. DOMAIN held' = DOMAIN held \ {c}
  BY <1>1 DEF Without, Restrict
<1> QED BY <1>1, <1>2, <1>4, <1>5, MoveW

LEMMA LoadW ==
    ASSUME Steady, Load
    PROVE  WorkerInv'
<1> DEFINE id == call.target
           bytes == LoadedBytes(records[id])
<1>1. /\ call.pc = "budget" /\ call.op = "restore" /\ DOMAIN held' = DOMAIN held \cup {id}
      /\ records' = [records EXCEPT ![id].resident = TRUE, ![id].hostBytes = bytes]
      /\ call' = Ended(TRUE) /\ UNCHANGED <<attached, ready, live, outer, pending>>
  BY DEF Load, LoadDue, With, clientVars
<1>2. records \in [known -> Record] /\ id \in known
  BY <1>1 DEF Steady, IInv, TypeOK, CallInv, CallHolds
<1> HIDE DEF id, bytes
<1>3. \A s \in Record : LET t == [s EXCEPT !.resident = TRUE, !.hostBytes = bytes] IN
          t.refcount = s.refcount /\ t.resident = TRUE
  BY DEF Record
<1>4. /\ known' = known /\ records'[id] = [records[id] EXCEPT !.resident = TRUE, !.hostBytes = bytes]
      /\ \A x \in known \ {id} : records'[x] = records[x]
  BY <1>1, <1>2 DEF known
<1>5. /\ records'[id].resident = TRUE
      /\ \A x \in known \ {id} : records'[x].resident = records[x].resident
      /\ \A x \in known : records'[x].refcount = records[x].refcount
  <2>1. records[id] \in Record
    BY <1>2
  <2>2. records'[id].refcount = records[id].refcount /\ records'[id].resident = TRUE
    BY <1>3, <1>4, <2>1
  <2> QED BY <1>4, <2>2
<1>6. call'.victim = None /\ call'.op = "none" /\ call'.pc = "idle" /\ call'.pinned = {}
  BY <1>1, EndedVictim
<1> QED BY <1>1, <1>2, <1>4, <1>5, <1>6, MoveW

----------------------------------------------------------------------------
(* Every step, and the theorems.                                           *)

LEMMA StoreStepW ==
    ASSUME Steady, StoreStep
    PROVE  WorkerInv'
BY ReclaimMemoryW, ReclaimDiskW, UnlinkW, ExpireDoneW, AdmitRowW, RaisingW, InsertRowW,
   PublishW, PublishFailsW, SaveFailsW, EvictDiskW, EvictMemoryW, LoadW, DropTargetW,
   TransportFailsW
   DEF StoreStep

LEMMA ClientW ==
    ASSUME Steady, Client
    PROVE  WorkerInv'
<1>1. CASE CallExpire \/ (\E id \in known : Get(id) \/ CallRestore(id) \/ CallDelete(id))
  BY <1>1, CallsW
<1>2. CASE \E id \in known : Lease(id)
  BY <1>2, LeaseW
<1>3. CASE \E p \in known : ConsultMemo(p) \/ \E c \in known : Memoize(p, c)
  BY <1>3, RemembersW
<1>4. CASE \E a \in Fresh :
              \/ \E depth \in Depth : Create(a, depth)
              \/ \E b \in Fresh : CreatePair(a, b)
              \/ \E p \in outer : Promote(p, a)
  BY <1>4, InfersW
<1>5. CASE \E p \in outer, S \in (SUBSET Fresh) \ {{}}, kind \in {"branch", "orphan"} :
              Branch(p, S, kind)
  BY <1>5, BranchW
<1>6. CASE outer = {} /\ \E id \in known : ~Gettable(id) /\ GiveUp(id)
  <2>1. PICK id \in known : ~Gettable(id) /\ GiveUp(id)
    BY <1>6
  <2>2. id \notin outer /\ id \notin call.pinned
    BY <1>6, <2>1, IdleVictim DEF GiveUp
  <2>3. records[id].leases = 0
    BY <2>2 DEF Steady, IInv, RegistryInv, LeasesExact
  <2> QED BY <2>1, <2>3, GiveUpW DEF Wanted
<1>7. CASE \E id \in Ids \ known : GiveUp(id)
  BY <1>7, GiveUpW
<1>8. CASE \E w \in pending, q \in Persistence, b \in Boundaries : Register(w, q, b)
  BY <1>8, RegisterW
<1>9. CASE Release
  BY <1>9, ReleaseW
<1>10. CASE CommandLost
  BY <1>10, LostW DEF CommandLost
<1> QED BY <1>1, <1>2, <1>3, <1>4, <1>5, <1>6, <1>7, <1>8, <1>9, <1>10 DEF Client

LEMMA CrashW ==
    ASSUME Crash
    PROVE  WorkerInv'
BY LostW DEF Crash

\* An id that is still known keeps its TTL.
LEMMA NextW ==
    ASSUME IInv, IInv', WorkerInv, [Next]_vars
    PROVE  WorkerInv'
<1>1. CASE (StoreStep \/ Client \/ Attach \/ WorkerDies \/ Crash) /\ Forgotten
  <2>1. Steady
    BY <1>1 DEF Steady, Forgotten, known
  <2> QED BY <1>1, <2>1, StoreStepW, ClientW, AttachW, WorkerDiesW, CrashW
<1>2. CASE \E id \in known \cup DOMAIN disk : Tick(id)
  <2>1. /\ UNCHANGED <<attached, records, ready, live, held, call, outer, pending>>
        /\ expired \subseteq expired'
    BY <1>2 DEF Tick, storeVars, workerVars, clientVars
  <2>2. Steady
    BY <2>1 DEF Steady
  <2> QED BY <2>1, <2>2, FrameW
<1>3. CASE UNCHANGED vars
  <2>1. /\ UNCHANGED <<attached, records, ready, live, held, call, outer, pending>>
        /\ expired' = expired
    BY <1>3 DEF vars, storeVars, workerVars, clientVars
  <2>2. Steady
    BY <2>1 DEF Steady
  <2> QED BY <2>1, <2>2, FrameW
<1> QED BY <1>1, <1>2, <1>3 DEF Next

LEMMA InitW ==
    ASSUME Init
    PROVE  WorkerInv
<1>1. /\ call = Ended(TRUE) /\ pending = {} /\ held = Nothing /\ records = Nothing
  BY DEF Init
<1>2. call.victim = None /\ call.op = "none" /\ call.pc = "idle"
  BY <1>1, EndedVictim
<1>3. PendingIds = {} /\ DOMAIN held = {} /\ known = {}
  BY <1>1, NothingType DEF PendingIds, known
<1> QED BY <1>2, <1>3 DEF WorkerInv, PendingIsNew, HeldIsKnown

\* Beside the registry's own invariant, and whatever the ids, the sizes and
\* the budget: the worker holds what is resident and wanted, and nothing that
\* is neither registered nor about to be.
THEOREM WorkerInvariantHolds == Spec => [](IInv /\ WorkerInv)
<1>1. Init => IInv /\ WorkerInv
  BY InitInv, InitW
<1>2. IInv /\ WorkerInv /\ [Next]_vars => (IInv /\ WorkerInv)'
  BY NextInv, NextW
<1> QED BY <1>1, <1>2, PTL DEF Spec

\* What the registry takes to be resident the worker holds, and what the worker
\* holds the registry knows, on every path of every call.
THEOREM RegistryMatchesTheWorker == Spec => []RegistryMatchesWorker
<1>1. IInv /\ WorkerInv => RegistryMatchesWorker
  BY DEF WorkerInv, HeldIsKnown, Wanted, PendingIds, RegistryMatchesWorker, ResidentIsHeld,
     NothingLeaks
<1> QED BY <1>1, WorkerInvariantHolds, PTL

----------------------------------------------------------------------------
(* What the store promises beyond its worker.  It takes from no client     *)
(* what another was given; the budget is charged exactly what the worker   *)
(* keeps; and whenever the service is killed, the directory it leaves can  *)
(* be loaded.  All three rest on PromiseInv (StoreInvariant), beside the   *)
(* invariants of the registry and of the worker.                           *)

\* The two promises, of one step.
KeepsLeased ==
    attached' => \A id \in known :
        records[id].leases > 0 /\ records[id].resident
           => id \in DOMAIN records' /\ records'[id].resident

KeepsPublished ==
    \A id \in DOMAIN disk \ partial :
        id \notin DOMAIN disk' \ partial'
           => id \in expired \/ (call.op = "delete" /\ id = call.target)

\* A removal in progress is of a directory whose manifest is already gone.
Removing ==
    /\ call.pc = "unlink" => call.victim \in partial
    /\ call.pc = "retract" => call.row.id \in partial

----------------------------------------------------------------------------
(* Leased snapshots.                                                       *)

LEMMA SameRecordsKeep ==
    ASSUME records' = records
    PROVE  KeepsLeased
BY DEF KeepsLeased, known

LEMMA PinKeeps ==
    ASSUME IInv, NEW S, records' = Pin(records, S) \/ records' = Unpin(records, S)
    PROVE  KeepsLeased
<1>1. DOMAIN records' = known /\ \A x \in known : records'[x].resident = records[x].resident
  BY PinEffect, UnpinEffect DEF IInv, TypeOK
<1> QED BY <1>1 DEF KeepsLeased

LEMMA ForgetResident ==
    ASSUME IInv, NEW id
    PROVE  /\ Forget(records, id) \in [known \ {id} -> Record]
           /\ \A x \in known \ {id} : Forget(records, id)[x].resident = records[x].resident
<1>1. ASSUME NEW r \in Record, r.refcount > 0
      PROVE  /\ [r EXCEPT !.refcount = @ - 1] \in Record
             /\ [r EXCEPT !.refcount = @ - 1].resident = r.resident
  BY <1>1 DEF Record
<1>2. records \in [known -> Record] /\ known = DOMAIN records
  BY DEF IInv, TypeOK, known
<1>3. \A x \in known : records[x].refcount \in Nat
  BY <1>2 DEF Record
<1> QED BY <1>1, <1>2, <1>3 DEF Forget

\* What a step forgets nobody leases.
LEMMA ForgetKeeps ==
    ASSUME IInv, NEW id, Loose(id), NEW pins, Forgets(id, pins)
    PROVE  KeepsLeased
<1> DEFINE F == Forget(records, id)
<1>1. records[id].leases = 0
  BY DEF Loose
<1>2. /\ F \in [known \ {id} -> Record]
      /\ \A x \in known \ {id} : F[x].resident = records[x].resident
  BY ForgetResident
<1>3. records' = Unpin(F, pins)
  BY DEF Forgets
<1> HIDE DEF F
<1>4. /\ DOMAIN records' = known \ {id}
      /\ \A x \in known \ {id} : records'[x].resident = F[x].resident
  BY <1>2, <1>3, UnpinEffect
<1> QED BY <1>1, <1>2, <1>4 DEF KeepsLeased

LEMMA ReclaimKeeps ==
    ASSUME IInv, NEW id \in known, ReclaimMemory(id) \/ ReclaimDisk(id)
    PROVE  KeepsLeased
<1>1. CASE ReclaimMemory(id)
  <2>1. Loose(id) /\ Forgets(id, {})
    BY <1>1 DEF ReclaimMemory, Reclaimable, Loose
  <2> QED BY <2>1, ForgetKeeps
<1>2. CASE ReclaimDisk(id)
  BY <1>2, SameRecordsKeep DEF ReclaimDisk, storeVars
<1> QED BY <1>1, <1>2

\* register(): the parents are pinned, the record is inserted, its save
\* succeeds or it is forgotten.
LEMMA AdmitKeeps ==
    ASSUME IInv, AdmitRow
    PROVE  KeepsLeased
<1>1. records' = Pin(records, UNION {Ancestors(p) : p \in Refs(call.row)})
  BY DEF AdmitRow
<1> QED BY <1>1, PinKeeps

LEMMA InsertKeeps ==
    ASSUME IInv, InsertRow
    PROVE  KeepsLeased
<1> DEFINE I == Insert(records, call.row)
<1>1. /\ call.row \in Row /\ call.row.id \notin known /\ Refs(call.row) \subseteq known
      /\ records \in [known -> Record] /\ Linked(records) /\ IsFiniteSet(known)
  BY LinkedRecords, KnownFinite DEF InsertRow, IInv, TypeOK, CallInv, CallHolds, Admitted,
     RegistryInv, PinsRegistered
<1>2. /\ I \in [known \cup {call.row.id} -> Record] /\ Linked(I)
      /\ \A x \in known : /\ I[x].leases = records[x].leases
                          /\ I[x].resident = records[x].resident
                          /\ I[x].durable = records[x].durable
                          /\ I[x].persistence = records[x].persistence
  BY <1>1, InsertEffect
<1>3. records' = I \/ records' = Unpin(I, call.pinned)
  BY DEF InsertRow
<1> HIDE DEF I
<1>4. /\ DOMAIN records' = known \cup {call.row.id}
      /\ \A x \in known : records'[x].resident = I[x].resident
  <2>1. CASE records' = I
    BY <1>2, <2>1
  <2>2. CASE records' = Unpin(I, call.pinned)
    BY <1>2, <2>2, UnpinEffect
  <2> QED BY <1>3, <2>1, <2>2
<1> QED BY <1>2, <1>4 DEF KeepsLeased

LEMMA PublishKeeps ==
    ASSUME IInv, Publish
    PROVE  KeepsLeased
<1> DEFINE R == [records EXCEPT ![call.row.id].durable = TRUE]
<1>1. records \in [known -> Record] /\ call.row.id \in known
  BY DEF Publish, Published, IInv, TypeOK, CallInv, CallHolds, Loose
<1>2. R \in [known -> Record] /\ \A x \in known : R[x].resident = records[x].resident
  BY <1>1 DEF Record
<1>3. records' = Unpin(R, call.pinned)
  BY DEF Publish
<1> HIDE DEF R
<1>4. DOMAIN records' = known /\ \A x \in known : records'[x].resident = R[x].resident
  BY <1>2, <1>3, UnpinEffect
<1> QED BY <1>2, <1>4 DEF KeepsLeased

\* A victim of the eviction is unleased.
LEMMA EvictKeeps ==
    ASSUME IInv, NEW c \in known, EvictDisk(c) \/ EvictMemory(c)
    PROVE  KeepsLeased
<1>1. c \in Candidates /\ records[c].leases = 0 /\ records \in [known -> Record]
  BY DEF EvictDisk, EvictMemory, LeastRecentlyUsed, Candidates, IInv, TypeOK
<1>2. CASE EvictDisk(c)
  <2>1. records' = [records EXCEPT ![c].resident = FALSE]
    BY <1>2 DEF EvictDisk
  <2> QED BY <1>1, <2>1 DEF KeepsLeased
<1>3. CASE EvictMemory(c)
  <2>1. CASE Raises
    BY <2>1, PinKeeps DEF Raises
  <2>2. CASE Forgets(c, {})
    <3>1. Loose(c)
      BY <1>1, <1>3 DEF EvictMemory, Candidates, Loose, IInv, RegistryInv, DurableIsDisk
    <3> QED BY <2>2, <3>1, ForgetKeeps
  <2> QED BY <1>3, <2>1, <2>2 DEF EvictMemory
<1> QED BY <1>2, <1>3

LEMMA LoadKeeps ==
    ASSUME IInv, Load
    PROVE  KeepsLeased
<1>1. records \in [known -> Record]
  BY DEF IInv, TypeOK
<1>2. records' = [records EXCEPT ![call.target].resident = TRUE,
                                 ![call.target].hostBytes = LoadedBytes(records[call.target])]
  BY DEF Load
<1>3. DOMAIN records' = known /\ \A x \in known : records[x].resident => records'[x].resident
  BY <1>1, <1>2 DEF Record
<1> QED BY <1>3 DEF KeepsLeased

LEMMA StoreStepKeeps ==
    ASSUME IInv, StoreStep
    PROVE  KeepsLeased
<1>1. CASE \E id \in known : ReclaimMemory(id) \/ ReclaimDisk(id)
  BY <1>1, ReclaimKeeps
<1>2. CASE Unlink \/ DropTarget
  <2>1. CASE Unlink
    BY <2>1, ForgetKeeps DEF Unlink, IInv, CallInv, CallHolds
  <2>2. CASE DropTarget
    <3>1. Loose(call.target) /\ (records' = records \/ Forgets(call.target, {}))
      BY <2>2 DEF DropTarget, storeVars, IInv, CallInv, CallHolds
    <3> QED BY <3>1, ForgetKeeps, SameRecordsKeep
  <2> QED BY <1>2, <2>1, <2>2
<1>3. CASE ExpireDone \/ PublishFails
  BY <1>3, SameRecordsKeep DEF ExpireDone, PublishFails, storeVars
<1>4. CASE AdmitRow \/ InsertRow \/ Publish \/ Load
  BY <1>4, AdmitKeeps, InsertKeeps, PublishKeeps, LoadKeeps
<1>5. CASE Retract \/ SaveFails
  <2>1. Loose(call.row.id) /\ Forgets(call.row.id, call.pinned)
    BY <1>5 DEF Retract, SaveFails, IInv, CallInv, CallHolds
  <2> QED BY <2>1, ForgetKeeps
<1>6. CASE \E c \in known : EvictDisk(c) \/ EvictMemory(c)
  BY <1>6, EvictKeeps
<1>7. CASE RefuseRow \/ StoreFull \/ LoadRefused \/ TransportFails
  <2>1. Raises
    BY <1>7 DEF RefuseRow, StoreFull, LoadRefused, TransportFails
  <2> QED BY <2>1, PinKeeps DEF Raises
<1> QED BY <1>1, <1>2, <1>3, <1>4, <1>5, <1>6, <1>7 DEF StoreStep

LEMMA ClientKeeps ==
    ASSUME IInv, Client
    PROVE  KeepsLeased
<1>1. records \in [known -> Record]
  BY DEF IInv, TypeOK
<1>2. CASE CallExpire \/ CommandLost
  BY <1>2, SameRecordsKeep DEF CallExpire, CommandLost, storeVars
<1>3. CASE \E id \in known : Get(id) \/ Lease(id) \/ CallRestore(id) \/ CallDelete(id)
  BY <1>3, SameRecordsKeep, PinKeeps DEF Get, Lease, CallRestore, CallDelete
<1>4. CASE \E p \in known : ConsultMemo(p) \/ \E c \in known : Memoize(p, c)
  <2>1. PICK p \in known : ConsultMemo(p) \/ \E c \in known : Memoize(p, c)
    BY <1>4
  <2>2. PICK v : records' = [records EXCEPT ![p].promotionChild = v]
    BY <2>1 DEF ConsultMemo, Memoize
  <2>3. DOMAIN records' = known /\ \A x \in known : records'[x].resident = records[x].resident
    BY <1>1, <2>2 DEF Record
  <2> QED BY <2>3 DEF KeepsLeased
<1>5. CASE \E a \in Fresh :
              \/ \E depth \in Depth : Create(a, depth)
              \/ \E b \in Fresh : CreatePair(a, b)
              \/ \E p \in outer : Promote(p, a)
  BY <1>5, SameRecordsKeep DEF Create, CreatePair, Promote, Publishes, storeVars
<1>6. CASE \E p \in outer, S \in (SUBSET Fresh) \ {{}}, kind \in {"branch", "orphan"} :
              Branch(p, S, kind)
  BY <1>6, SameRecordsKeep DEF Branch, Publishes, storeVars
<1>7. CASE \E id : GiveUp(id)
  BY <1>7, SameRecordsKeep DEF GiveUp, storeVars
<1>8. CASE \E w, q, b : Register(w, q, b)
  BY <1>8, SameRecordsKeep DEF Register, CallRegister, storeVars
<1>9. CASE Release
  BY <1>9, PinKeeps DEF Release
<1> QED BY <1>2, <1>3, <1>4, <1>5, <1>6, <1>7, <1>8, <1>9 DEF Client

\* A new store begins when nothing is leased; a killed one is not attached.
LEMMA LeasedKept ==
    ASSUME IInv, [Next]_vars
    PROVE  KeepsLeased
<1>1. CASE StoreStep \/ Client
  BY <1>1, StoreStepKeeps, ClientKeeps
<1>2. CASE Attach
  <2>1. known = {} \/ (outer = {} /\ call.pinned = {})
    BY <1>2, IdleFacts DEF Attach, IInv, CallInv, CallSteps
  <2>2. \A id \in known : records[id].leases = 0
    BY <2>1 DEF IInv, RegistryInv, LeasesExact
  <2> QED BY <2>2 DEF KeepsLeased
<1>3. CASE WorkerDies
  BY <1>3, SameRecordsKeep DEF WorkerDies, storeVars
<1>4. CASE Crash
  BY <1>4 DEF Crash, KeepsLeased
<1>5. CASE \E id \in known \cup DOMAIN disk : Tick(id)
  BY <1>5, SameRecordsKeep DEF Tick, storeVars
<1>6. CASE UNCHANGED vars
  BY <1>6, SameRecordsKeep DEF vars, storeVars
<1> QED BY <1>1, <1>2, <1>3, <1>4, <1>5, <1>6 DEF Next

----------------------------------------------------------------------------
(* Published directories.                                                  *)

\* A call that does not reach a removal is not in one.
LEMMA NotRemoving ==
    ASSUME call'.pc \notin {"unlink", "retract"}
    PROVE  Removing'
BY DEF Removing

\* The steps that leave the directory alone.
LEMMA DiskKept ==
    ASSUME UNCHANGED diskVars,
           call' = call \/ call'.pc \notin {"unlink", "retract"},
           Removing
    PROVE  KeepsPublished /\ Removing'
BY DEF diskVars, KeepsPublished, Removing

LEMMA StoreStepPublished ==
    ASSUME IInv, Removing, StoreStep
    PROVE  KeepsPublished /\ Removing'
<1>0. call \in Call
  BY DEF IInv, TypeOK
<1>1. ASSUME NEW ok \in BOOLEAN PROVE Ended(ok).pc = "idle"
  BY EndedFields
<1>2. ASSUME Raises PROVE call'.pc = "idle"
  BY <1>1, <1>2 DEF Raises
<1>3. CASE \E id \in known : ReclaimMemory(id)
  BY <1>3, DiskKept DEF ReclaimMemory
<1>4. CASE \E id \in known : ReclaimDisk(id)
  <2>1. PICK id \in known : ReclaimDisk(id)
    BY <1>4
  <2>2. /\ id \in expired /\ disk' = disk /\ partial' = partial \cup {id}
        /\ call' = [call EXCEPT !.pc = "unlink", !.victim = id]
    BY <2>1 DEF ReclaimDisk, Reclaimable
  <2>3. call'.pc = "unlink" /\ call'.victim = id
    BY <1>0, <2>2 DEF Call
  <2> QED BY <2>2, <2>3 DEF KeepsPublished, Removing
<1>5. CASE Unlink
  <2>1. /\ call.victim \in partial /\ disk' = Without(disk, call.victim)
        /\ partial' = partial \ {call.victim}
        /\ call' = Ended(TRUE) \/ call' = [call EXCEPT !.pc = "expire", !.victim = None]
    BY <1>5 DEF Unlink, Removing
  <2>2. call'.pc \in {"idle", "expire"}
    BY <1>0, <1>1, <2>1 DEF Call
  <2>3. DOMAIN disk' = DOMAIN disk \ {call.victim}
    BY <2>1 DEF Without, Restrict
  <2> QED BY <2>1, <2>2, <2>3 DEF KeepsPublished, Removing
<1>6. CASE ExpireDone
  <2>1. UNCHANGED diskVars /\ (call' = Ended(TRUE) \/ call' = [call EXCEPT !.pc = call.after, !.after = "idle"])
    BY <1>6 DEF ExpireDone
  <2>2. call'.pc \notin {"unlink", "retract"}
    BY <1>0, <1>1, <2>1 DEF Call
  <2> QED BY <2>1, <2>2, DiskKept
<1>7. CASE AdmitRow
  <2>1. UNCHANGED diskVars /\ call'.pc = "expire"
    BY <1>0, <1>7 DEF AdmitRow, Call
  <2> QED BY <2>1, DiskKept
<1>8. CASE InsertRow
  <2>1. UNCHANGED diskVars /\ (call' = Ended(TRUE) \/ call' = [call EXCEPT !.pc = "save"])
    BY <1>8 DEF InsertRow
  <2>2. call'.pc \notin {"unlink", "retract"}
    BY <1>0, <1>1, <2>1 DEF Call
  <2> QED BY <2>1, <2>2, DiskKept
<1>9. CASE Publish
  <2>1. /\ disk' = With(disk, call.row.id, ManifestOf(records[call.row.id]))
        /\ partial' = partial /\ call'.pc = "idle"
    BY <1>1, <1>9 DEF Publish, Published
  <2>2. DOMAIN disk \subseteq DOMAIN disk'
    BY <2>1 DEF With
  <2> QED BY <2>1, <2>2 DEF KeepsPublished, Removing
<1>10. CASE PublishFails
  <2>1. /\ disk' = With(disk, call.row.id, ManifestOf(records[call.row.id]))
        /\ partial' = partial \cup {call.row.id} /\ call' = [call EXCEPT !.pc = "retract"]
        /\ call.pc = "save"
    BY <1>10 DEF PublishFails, Published
  <2>2. call'.pc = "retract" /\ call'.row = call.row
    BY <1>0, <2>1 DEF Call
  <2>3. DOMAIN disk \subseteq DOMAIN disk'
    BY <2>1 DEF With
  <2>4. attached = TRUE
    BY <2>1, BusyFacts
  <2>5. call.row.id \notin DOMAIN disk
    BY <2>1, <2>4 DEF IInv, CallInv, CallHolds, RegistryInv, DirectoriesAreRecords
  <2> QED BY <2>1, <2>2, <2>3, <2>5 DEF KeepsPublished, Removing
<1>11. CASE Retract
  <2>1. /\ call.row.id \in partial /\ disk' = Without(disk, call.row.id)
        /\ partial' = partial \ {call.row.id} /\ call'.pc = "idle"
    BY <1>1, <1>11 DEF Retract, Removing
  <2>2. DOMAIN disk' = DOMAIN disk \ {call.row.id}
    BY <2>1 DEF Without, Restrict
  <2> QED BY <2>1, <2>2 DEF KeepsPublished, Removing
<1>12. CASE SaveFails
  BY <1>1, <1>12, DiskKept DEF SaveFails
<1>13. CASE \E c \in known : EvictDisk(c) \/ EvictMemory(c)
  BY <1>2, <1>13, DiskKept DEF EvictDisk, EvictMemory
<1>14. CASE Load
  BY <1>1, <1>14, DiskKept DEF Load
<1>15. CASE DropTarget
  <2>1. /\ call.pc = "drop" /\ disk' = disk
        /\ \/ partial' = partial /\ call' = Ended(TRUE)
           \/ /\ partial' = partial \cup {call.target}
              /\ call' = [call EXCEPT !.pc = "unlink", !.victim = call.target]
    BY <1>15 DEF DropTarget
  <2>2. call.op = "delete"
    BY <2>1, BusyFacts
  <2>3. CASE partial' = partial /\ call' = Ended(TRUE)
    BY <1>1, <2>1, <2>3 DEF KeepsPublished, Removing
  <2>4. CASE /\ partial' = partial \cup {call.target}
             /\ call' = [call EXCEPT !.pc = "unlink", !.victim = call.target]
    <3>1. call'.pc = "unlink" /\ call'.victim = call.target
      BY <1>0, <2>4 DEF Call
    <3> QED BY <2>1, <2>2, <2>4, <3>1 DEF KeepsPublished, Removing
  <2> QED BY <2>1, <2>3, <2>4
<1>16. CASE RefuseRow \/ StoreFull \/ LoadRefused \/ TransportFails
  BY <1>2, <1>16, DiskKept DEF RefuseRow, StoreFull, LoadRefused, TransportFails
<1> QED BY <1>3, <1>4, <1>5, <1>6, <1>7, <1>8, <1>9, <1>10, <1>11, <1>12, <1>13, <1>14,
        <1>15, <1>16 DEF StoreStep

\* Entering the store starts no removal, and leaves the directory alone.
LEMMA ClientPublished ==
    ASSUME Removing, Client
    PROVE  KeepsPublished /\ Removing'
<1>1. ASSUME NEW ok \in BOOLEAN PROVE Ended(ok).pc = "idle"
  BY EndedFields
<1>2. ASSUME NEW op, NEW pc, NEW after PROVE Started(op, pc, after).pc = pc
  BY DEF Started, Ended
<1>3. CASE CallExpire \/ CommandLost \/ Release
  <2>1. UNCHANGED diskVars
    BY <1>3 DEF CallExpire, CommandLost, Release
  <2>2. CASE call' = Started("expire", "expire", "idle")
    <3>1. call'.pc = "expire"
      BY <1>2, <2>2
    <3> QED BY <2>1, <3>1, DiskKept
  <2>3. CASE call' = Ended(FALSE)
    <3>1. call'.pc = "idle"
      BY <1>1, <2>3
    <3> QED BY <2>1, <3>1, DiskKept
  <2>4. CASE call' = call
    BY <2>1, <2>4, DiskKept
  <2> QED BY <1>3, <2>2, <2>3, <2>4 DEF CallExpire, CommandLost, Release
<1>4. CASE \E id \in known : Get(id) \/ Lease(id)
  BY <1>1, <1>4, DiskKept DEF Get, Lease, Returns
<1>5. CASE \E id \in known : CallRestore(id) \/ CallDelete(id)
  <2>1. PICK id \in known : CallRestore(id) \/ CallDelete(id)
    BY <1>5
  <2>2. /\ UNCHANGED diskVars
        /\ \/ call' = Ended(FALSE)
           \/ call' = [Started("restore", "expire", "budget") EXCEPT !.target = id]
           \/ call' = [Started("delete", "drop", "idle") EXCEPT !.target = id]
    BY <2>1 DEF CallRestore, CallDelete
  <2>3. call'.pc \in {"idle", "expire", "drop"}
    BY <1>1, <2>2 DEF Started, Ended
  <2> QED BY <2>2, <2>3, DiskKept
<1>6. CASE \E p \in known : ConsultMemo(p) \/ \E c \in known : Memoize(p, c)
  BY <1>1, <1>6, DiskKept DEF ConsultMemo, Memoize, Returns
<1>7. CASE \E a \in Fresh :
              \/ \E depth \in Depth : Create(a, depth)
              \/ \E b \in Fresh : CreatePair(a, b)
              \/ \E p \in outer : Promote(p, a)
  BY <1>1, <1>7, DiskKept DEF Create, CreatePair, Promote, Publishes, Returns
<1>8. CASE \E p \in outer, S \in (SUBSET Fresh) \ {{}}, kind \in {"branch", "orphan"} :
              Branch(p, S, kind)
  BY <1>1, <1>8, DiskKept DEF Branch, Publishes, Returns
<1>9. CASE \E id : GiveUp(id)
  BY <1>1, <1>9, DiskKept DEF GiveUp, Returns
<1>10. CASE \E w, q, b : Register(w, q, b)
  <2>1. PICK r : UNCHANGED diskVars
                 /\ call' = [Started("register", "expire", "admit") EXCEPT !.row = r]
    BY <1>10 DEF Register, CallRegister
  <2>2. call'.pc = "expire"
    BY <2>1 DEF Started, Ended
  <2> QED BY <2>1, <2>2, DiskKept
<1> QED BY <1>3, <1>4, <1>5, <1>6, <1>7, <1>8, <1>9, <1>10 DEF Client

LEMMA PublishedKept ==
    ASSUME IInv, Removing, [Next]_vars
    PROVE  KeepsPublished /\ Removing'
<1>1. CASE StoreStep \/ Client
  BY <1>1, StoreStepPublished, ClientPublished
<1>2. CASE Attach \/ Crash
  <2>1. UNCHANGED diskVars /\ call'.pc = "idle"
    BY <1>2, EndedFields DEF Attach, Crash, Returns
  <2> QED BY <2>1, DiskKept
<1>3. CASE WorkerDies
  BY <1>3, DiskKept DEF WorkerDies
<1>4. CASE \E id \in known \cup DOMAIN disk : Tick(id)
  BY <1>4, DiskKept DEF Tick
<1>5. CASE UNCHANGED vars
  BY <1>5, DiskKept DEF vars
<1> QED BY <1>1, <1>2, <1>3, <1>4, <1>5 DEF Next

----------------------------------------------------------------------------
(* What a step does to the records.                                        *)

\* Two records of a snapshot that differ in counts and marks alone.
Same(a, b) ==
    /\ b.depth = a.depth /\ b.parent = a.parent /\ b.contextParent = a.contextParent
    /\ b.promotionOf = a.promotionOf /\ b.persistence = a.persistence
    /\ b.hostBytes = a.hostBytes /\ b.resident = a.resident
    /\ b.boundary = a.boundary

Kept(a, b) == Same(a, b) /\ b.durable = a.durable /\ b.promotionChild = a.promotionChild

\* What a step may do to the registry.
Unchanged ==
    /\ UNCHANGED <<attached, residentBytes>>
    /\ known' = known /\ \A x \in known : Kept(records[x], records'[x])

Remembers ==
    /\ Idle /\ UNCHANGED <<attached, residentBytes>> /\ known' = known
    /\ \A x \in known :
          /\ Same(records[x], records'[x]) /\ records'[x].durable = records[x].durable
          /\ LET c == records'[x].promotionChild IN
             \/ c \in {records[x].promotionChild, None}
             \/ c \in known /\ records[c].promotionOf = x

Marks ==
    /\ call.pc = "save" /\ UNCHANGED <<attached, residentBytes>> /\ known' = known
    /\ \A x \in known :
          /\ Same(records[x], records'[x])
          /\ records'[x].promotionChild = records[x].promotionChild
          /\ records'[x].durable = IF x = call.row.id THEN TRUE ELSE records[x].durable

Removes(id) ==
    /\ UNCHANGED attached /\ Loose(id)
    /\ known' = known \ {id} /\ \A x \in known' : Kept(records[x], records'[x])
    /\ residentBytes' =
           residentBytes - (IF records[id].resident THEN records[id].hostBytes ELSE 0)

Inserts ==
    /\ UNCHANGED attached /\ call.pc = "budget" /\ call.op = "register"
    /\ call.row \in Row /\ call.row.id \notin known
    /\ Refs(call.row) \subseteq known \cap call.pinned
    /\ known' = known \cup {call.row.id} /\ \A x \in known : Kept(records[x], records'[x])
    /\ Kept(NewRecord(call.row), records'[call.row.id])
    /\ residentBytes' = residentBytes + call.row.hostBytes /\ residentBytes' <= HostBytes

\* The record of one snapshot that leaves the worker's memory, or enters it.
Moved(id, bytes, into) ==
    /\ UNCHANGED attached /\ known' = known /\ call.pc = "budget"
    /\ \A x \in known \ {id} : Kept(records[x], records'[x])
    /\ Kept([records[id] EXCEPT !.resident = into, !.hostBytes = bytes], records'[id])

LEMMA PinKept ==
    ASSUME NEW D, NEW recs \in [D -> Record], NEW S
    PROVE  \A x \in D : Kept(recs[x], Pin(recs, S)[x])
<1>1. \A r \in Record : Kept(r, [r EXCEPT !.leases = @ + 1]) /\ Kept(r, r)
  BY DEF Record, Kept, Same
<1> QED BY <1>1 DEF Pin

LEMMA UnpinKept ==
    ASSUME NEW D, NEW recs \in [D -> Record], NEW S
    PROVE  \A x \in D : Kept(recs[x], Unpin(recs, S)[x])
<1>1. \A r \in Record : Kept(r, [r EXCEPT !.leases = @ - 1]) /\ Kept(r, r)
  BY DEF Record, Kept, Same
<1> QED BY <1>1 DEF Unpin

LEMMA KeptTrans ==
    ASSUME NEW a, NEW b, NEW c, Kept(a, b), Kept(b, c)
    PROVE  Kept(a, c)
BY DEF Kept, Same

LEMMA SameTrans ==
    ASSUME NEW a, NEW b, NEW c, Same(a, b), Same(b, c)
    PROVE  Same(a, c)
BY DEF Same

LEMMA UnpinnedStep ==
    ASSUME IInv, UNCHANGED <<attached, residentBytes>>, NEW S,
           records' = Unpin(records, S) \/ records' = Pin(records, S) \/ records' = records
    PROVE  Unchanged
<1>1. records \in [known -> Record] /\ \A r : Kept(r, r)
  BY DEF IInv, TypeOK, Kept, Same
<1>2. CASE records' = Unpin(records, S)
  BY <1>1, <1>2, UnpinKept, UnpinEffect DEF Unchanged, known
<1>3. CASE records' = Pin(records, S)
  BY <1>1, <1>3, PinKept, PinEffect DEF Unchanged, known
<1>4. CASE records' = records
  BY <1>1, <1>4 DEF Unchanged, known
<1> QED BY <1>2, <1>3, <1>4

LEMMA ForgetsStep ==
    ASSUME IInv, NEW id, Loose(id), NEW pins, Forgets(id, pins)
    PROVE  Removes(id)
<1> DEFINE F == Forget(records, id)
<1>1. records \in [known -> Record]
  BY DEF IInv, TypeOK
<1>2. \A r \in Record : /\ r.refcount > 0 => [r EXCEPT !.refcount = @ - 1] \in Record
                        /\ Kept(r, [r EXCEPT !.refcount = @ - 1]) /\ Kept(r, r)
  BY DEF Record, Kept, Same
<1>3. F \in [known \ {id} -> Record] /\ \A x \in known \ {id} : Kept(records[x], F[x])
  BY <1>1, <1>2 DEF Forget, known
<1>4. records' = Unpin(F, pins)
  BY DEF Forgets
<1> HIDE DEF F
<1>5. /\ DOMAIN records' = known \ {id}
      /\ \A x \in known \ {id} : Kept(F[x], records'[x])
  BY <1>3, <1>4, UnpinKept, UnpinEffect
<1>6. known' = known \ {id}
  BY <1>5 DEF known
<1>7. \A x \in known' : Kept(records[x], records'[x])
  BY <1>3, <1>5, <1>6, KeptTrans
<1> QED BY <1>6, <1>7 DEF Removes, Forgets

LEMMA InsertStep ==
    ASSUME IInv, InsertRow
    PROVE  Inserts
<1> DEFINE I == Insert(records, call.row)
<1>1. /\ call.row \in Row /\ call.row.id \notin known
      /\ Refs(call.row) \subseteq known \cap call.pinned
      /\ records \in [known -> Record] /\ Linked(records) /\ IsFiniteSet(known)
  BY LinkedRecords, KnownFinite DEF InsertRow, IInv, TypeOK, CallInv, CallHolds, Admitted,
     RegistryInv, PinsRegistered
<1>2. \A r \in Record : /\ [r EXCEPT !.refcount = @ + 1] \in Record
                        /\ Kept(r, [r EXCEPT !.refcount = @ + 1]) /\ Kept(r, r)
  BY DEF Record, Kept, Same
<1>3. NewRecord(call.row) \in Record
  BY <1>1 DEF NewRecord, Record, Row, Ref
<1>4. /\ I \in [known \cup {call.row.id} -> Record]
      /\ \A x \in known : Kept(records[x], I[x])
      /\ I[call.row.id] = NewRecord(call.row)
  BY <1>1, <1>2, <1>3 DEF Insert, known
<1>5. records' = I \/ records' = Unpin(I, call.pinned)
  BY DEF InsertRow
<1> HIDE DEF I
<1>6. /\ DOMAIN records' = known \cup {call.row.id}
      /\ \A x \in known \cup {call.row.id} : Kept(I[x], records'[x])
  <2>1. \A r \in Record : Kept(r, r)
    BY <1>2
  <2>2. CASE records' = I
    BY <1>4, <2>1, <2>2
  <2>3. CASE records' = Unpin(I, call.pinned)
    BY <1>4, <2>3, UnpinKept, UnpinEffect
  <2> QED BY <1>5, <2>2, <2>3
<1>7. \A x \in known : Kept(records[x], records'[x])
  BY <1>4, <1>6, KeptTrans
<1> QED BY <1>1, <1>4, <1>6, <1>7 DEF Inserts, InsertRow, known

LEMMA PublishStep ==
    ASSUME IInv, Publish
    PROVE  Marks
<1> DEFINE R == [records EXCEPT ![call.row.id].durable = TRUE]
<1>1. records \in [known -> Record] /\ call.row.id \in known
  BY DEF Publish, Published, IInv, TypeOK, CallInv, CallHolds, Loose
<1>2. \A r \in Record : LET s == [r EXCEPT !.durable = TRUE] IN
          /\ s \in Record /\ Same(r, s) /\ s.promotionChild = r.promotionChild /\ s.durable = TRUE
          /\ Same(r, r)
  BY DEF Record, Same
<1>3. /\ R \in [known -> Record]
      /\ \A x \in known : /\ Same(records[x], R[x]) /\ R[x].promotionChild = records[x].promotionChild
                          /\ R[x].durable = IF x = call.row.id THEN TRUE ELSE records[x].durable
  <2>1. R \in [known -> Record]
    BY <1>1, <1>2
  <2>2. R[call.row.id] = [records[call.row.id] EXCEPT !.durable = TRUE]
    BY <1>1
  <2>3. \A x \in known \ {call.row.id} : R[x] = records[x]
    BY <1>1
  <2>4. \A x \in known : records[x] \in Record
    BY <1>1
  <2> HIDE DEF R
  <2>5. /\ Same(records[call.row.id], R[call.row.id]) /\ R[call.row.id].durable = TRUE
        /\ R[call.row.id].promotionChild = records[call.row.id].promotionChild
    BY <1>1, <1>2, <2>2, <2>4
  <2>6. \A x \in known \ {call.row.id} : Same(records[x], R[x])
    BY <1>2, <2>3, <2>4
  <2> QED BY <2>1, <2>3, <2>5, <2>6
<1>4. records' = Unpin(R, call.pinned)
  BY DEF Publish
<1> HIDE DEF R
<1>5. DOMAIN records' = known /\ \A x \in known : Kept(R[x], records'[x])
  BY <1>3, <1>4, UnpinKept, UnpinEffect
<1>6. \A x \in known : Same(records[x], records'[x])
  <2>1. \A x \in known : Same(R[x], records'[x])
    BY <1>5 DEF Kept
  <2> QED BY <1>3, <2>1, SameTrans
<1> QED BY <1>3, <1>5, <1>6 DEF Marks, Publish, Published, known, Kept

LEMMA RememberStep ==
    ASSUME IInv, NEW p, NEW c, Memoize(p, c) \/ ConsultMemo(p)
    PROVE  Remembers
<1>1. PICK v : /\ records' = [records EXCEPT ![p].promotionChild = v]
               /\ p \in known
               /\ \/ v \in {records[p].promotionChild, None}
                  \/ v \in known /\ records[v].promotionOf = p
  <2>1. CASE Memoize(p, c)
    BY <2>1 DEF Memoize, Gettable
  <2>2. CASE ConsultMemo(p)
    BY <2>2 DEF ConsultMemo, MemoizedPromotion, Gettable
  <2> QED BY <2>1, <2>2
<1>2. records \in [known -> Record]
  BY DEF IInv, TypeOK
<1>3. \A r \in Record : LET s == [r EXCEPT !.promotionChild = v] IN
          Same(r, s) /\ s.durable = r.durable /\ s.promotionChild = v /\ Same(r, r)
  BY DEF Record, Same
<1>4. /\ DOMAIN records' = known /\ records'[p] = [records[p] EXCEPT !.promotionChild = v]
      /\ \A x \in known \ {p} : records'[x] = records[x]
  BY <1>1, <1>2
<1>5. Idle /\ UNCHANGED <<attached, residentBytes>>
  BY DEF Memoize, ConsultMemo
<1>6. \A x \in known : Same(records[x], records'[x]) /\ records'[x].durable = records[x].durable
  <2>1. \A x \in known : records[x] \in Record
    BY <1>2
  <2>2. Same(records[p], records'[p]) /\ records'[p].durable = records[p].durable
    BY <1>1, <1>3, <1>4, <2>1
  <2> QED BY <1>3, <1>4, <2>1, <2>2
<1>7. \A x \in known : LET d == records'[x].promotionChild IN
          d \in {records[x].promotionChild, None} \/ (d \in known /\ records[d].promotionOf = x)
  <2>1. records'[p].promotionChild = v
    BY <1>1, <1>2, <1>3, <1>4
  <2> QED BY <1>1, <1>4, <2>1
<1> QED BY <1>4, <1>5, <1>6, <1>7 DEF Remembers, known

LEMMA MoveStep ==
    ASSUME IInv, NEW id \in known, call.pc = "budget", NEW bytes, NEW into, attached' = attached,
           records' = [records EXCEPT ![id] = [@ EXCEPT !.resident = into, !.hostBytes = bytes]]
    PROVE  Moved(id, bytes, into)
<1>1. records \in [known -> Record]
  BY DEF IInv, TypeOK
<1>2. \A r : Kept(r, r)
  BY DEF Kept, Same
<1> QED BY <1>1, <1>2 DEF Moved, known

LEMMA StoreStepEffect ==
    ASSUME IInv, StoreStep
    PROVE  \/ Unchanged \/ (Publish /\ Marks) \/ (InsertRow /\ Inserts)
           \/ \E id \in known : Removes(id)
           \/ \E c \in known : EvictDisk(c) /\ Moved(c, records[c].hostBytes, FALSE)
           \/ Load /\ Moved(call.target, LoadedBytes(records[call.target]), TRUE)
<1>1. CASE \E id \in known : ReclaimMemory(id) \/ ReclaimDisk(id)
  <2>1. PICK id \in known : ReclaimMemory(id) \/ ReclaimDisk(id)
    BY <1>1
  <2>2. CASE ReclaimMemory(id)
    <3>1. Loose(id) /\ Forgets(id, {})
      BY <2>2 DEF ReclaimMemory, Reclaimable, Loose
    <3> QED BY <3>1, ForgetsStep
  <2>3. CASE ReclaimDisk(id)
    BY <2>3, UnpinnedStep DEF ReclaimDisk, storeVars
  <2> QED BY <2>1, <2>2, <2>3
<1>2. CASE Unlink \/ DropTarget
  <2>1. CASE Unlink
    <3>1. Loose(call.victim) /\ Forgets(call.victim, {})
      BY <2>1 DEF Unlink, IInv, CallInv, CallHolds
    <3> QED BY <3>1, ForgetsStep DEF Loose
  <2>2. CASE DropTarget
    <3>1. Loose(call.target) /\ (UNCHANGED storeVars \/ Forgets(call.target, {}))
      BY <2>2 DEF DropTarget, IInv, CallInv, CallHolds
    <3> QED BY <3>1, ForgetsStep, UnpinnedStep DEF storeVars, Loose
  <2> QED BY <1>2, <2>1, <2>2
<1>3. CASE ExpireDone \/ PublishFails
  BY <1>3, UnpinnedStep DEF ExpireDone, PublishFails, storeVars
<1>4. CASE AdmitRow
  <2>1. /\ UNCHANGED <<attached, residentBytes>>
        /\ records' = Pin(records, UNION {Ancestors(p) : p \in Refs(call.row)})
    BY <1>4 DEF AdmitRow
  <2> QED BY <2>1, UnpinnedStep
<1>5. CASE InsertRow \/ Publish
  BY <1>5, InsertStep, PublishStep
<1>6. CASE Retract \/ SaveFails
  <2>1. Loose(call.row.id) /\ Forgets(call.row.id, call.pinned)
    BY <1>6 DEF Retract, SaveFails, IInv, CallInv, CallHolds
  <2> QED BY <2>1, ForgetsStep DEF Loose
<1>7. CASE \E c \in known : EvictDisk(c) \/ EvictMemory(c)
  <2>1. PICK c \in known : EvictDisk(c) \/ EvictMemory(c)
    BY <1>7
  <2>2. CASE EvictDisk(c)
    <3>1. /\ call.pc = "budget" /\ UNCHANGED attached
          /\ records' = [records EXCEPT ![c].resident = FALSE]
          /\ records \in [known -> Record]
      BY <2>2 DEF EvictDisk, Over, IInv, TypeOK
    <3> DEFINE b == records[c].hostBytes
    <3>2. /\ [records[c] EXCEPT !.resident = FALSE] =
                [records[c] EXCEPT !.resident = FALSE, !.hostBytes = b]
      BY <3>1 DEF Record
    <3>3. records' = [records EXCEPT ![c] = [records[c] EXCEPT !.resident = FALSE, !.hostBytes = b]]
      BY <3>1, <3>2
    <3>4. records' = [records EXCEPT ![c] = [@ EXCEPT !.resident = FALSE, !.hostBytes = b]]
      BY <3>3
    <3> HIDE DEF b
    <3>5. Moved(c, b, FALSE)
      BY <3>1, <3>4, MoveStep
    <3> QED BY <2>2, <3>5 DEF b
  <2>3. CASE EvictMemory(c)
    <3>1. CASE Raises
      BY <3>1, UnpinnedStep DEF Raises
    <3>2. CASE Forgets(c, {})
      <4>1. Loose(c)
        BY <2>3 DEF EvictMemory, LeastRecentlyUsed, Candidates, Loose, IInv, RegistryInv, DurableIsDisk
      <4> QED BY <3>2, <4>1, ForgetsStep
    <3> QED BY <2>3, <3>1, <3>2 DEF EvictMemory
  <2> QED BY <2>1, <2>2, <2>3
<1>8. CASE Load
  <2> DEFINE id == call.target
             b == LoadedBytes(records[call.target])
  <2>1. /\ call.pc = "budget" /\ UNCHANGED attached /\ id \in known
        /\ records' = [records EXCEPT ![id].resident = TRUE, ![id].hostBytes = b]
        /\ records \in [known -> Record]
    BY <1>8 DEF Load, LoadDue, IInv, TypeOK, CallInv, CallHolds
  <2> HIDE DEF id, b
  <2>2. records' = [records EXCEPT ![id] = [@ EXCEPT !.resident = TRUE, !.hostBytes = b]]
    BY <2>1
  <2>3. Moved(id, b, TRUE)
    BY <2>1, <2>2, MoveStep
  <2> QED BY <1>8, <2>3 DEF id, b
<1>9. CASE RefuseRow \/ StoreFull \/ LoadRefused \/ TransportFails
  <2>1. Raises
    BY <1>9 DEF RefuseRow, StoreFull, LoadRefused, TransportFails
  <2> QED BY <2>1, UnpinnedStep DEF Raises
<1> QED BY <1>1, <1>2, <1>3, <1>4, <1>5, <1>6, <1>7, <1>8, <1>9 DEF StoreStep

LEMMA ClientEffect ==
    ASSUME IInv, Client
    PROVE  Unchanged \/ Remembers
<1>1. CASE CallExpire \/ CommandLost
  BY <1>1, UnpinnedStep DEF CallExpire, CommandLost, storeVars
<1>2. CASE \E id \in known : Get(id) \/ Lease(id) \/ CallRestore(id) \/ CallDelete(id)
  BY <1>2, UnpinnedStep DEF Get, Lease, CallRestore, CallDelete
<1>3. CASE \E p \in known : ConsultMemo(p) \/ \E c \in known : Memoize(p, c)
  BY <1>3, RememberStep
<1>4. CASE \E a \in Fresh :
              \/ \E depth \in Depth : Create(a, depth)
              \/ \E b \in Fresh : CreatePair(a, b)
              \/ \E p \in outer : Promote(p, a)
  BY <1>4, UnpinnedStep DEF Create, CreatePair, Promote, Publishes, storeVars
<1>5. CASE \E p \in outer, S \in (SUBSET Fresh) \ {{}}, kind \in {"branch", "orphan"} :
              Branch(p, S, kind)
  BY <1>5, UnpinnedStep DEF Branch, Publishes, storeVars
<1>6. CASE \E id : GiveUp(id)
  BY <1>6, UnpinnedStep DEF GiveUp, storeVars
<1>7. CASE \E w, q, b : Register(w, q, b)
  BY <1>7, UnpinnedStep DEF Register, CallRegister, storeVars
<1>8. CASE Release
  BY <1>8, UnpinnedStep DEF Release
<1> QED BY <1>1, <1>2, <1>3, <1>4, <1>5, <1>6, <1>7, <1>8 DEF Client

\* Every step leaves the registry as it is, or changes it in one of these ways.
LEMMA StepEffect ==
    ASSUME IInv, [Next]_vars
    PROVE  \/ Unchanged \/ Remembers \/ (Publish /\ Marks) \/ (InsertRow /\ Inserts)
           \/ \E id \in known : Removes(id)
           \/ \E c \in known : EvictDisk(c) /\ Moved(c, records[c].hostBytes, FALSE)
           \/ Load /\ Moved(call.target, LoadedBytes(records[call.target]), TRUE)
           \/ Attach \/ Crash
<1>1. CASE StoreStep \/ Client
  BY <1>1, StoreStepEffect, ClientEffect
<1>2. CASE WorkerDies
  BY <1>2, UnpinnedStep DEF WorkerDies, storeVars
<1>3. CASE \E id \in known \cup DOMAIN disk : Tick(id)
  BY <1>3, UnpinnedStep DEF Tick, storeVars
<1>4. CASE UNCHANGED vars
  BY <1>4, UnpinnedStep DEF vars, storeVars
<1> QED BY <1>1, <1>2, <1>3, <1>4 DEF Next

----------------------------------------------------------------------------
(* The ledger: what the charge consists of.                                *)

\* Nobody refers to an unreferenced snapshot.
LEMMA LooseIsChildless ==
    ASSUME IInv, NEW id \in known, records[id].refcount = 0, NEW c \in known
    PROVE  id \notin Refs(records[c])
<1> DEFINE C == {x \in known : id \in Refs(records[x])}
<1>1. Cardinality(C) = 0
  BY DEF IInv, RegistryInv, RefcountsExact
<1>2. IsFiniteSet(known) /\ C \in SUBSET known
  BY KnownFinite DEF IInv, TypeOK
<1>3. IsFiniteSet(C)
  BY <1>2, FS_Subset
<1>4. C = {}
  BY <1>1, <1>3, FS_EmptySet
<1> QED BY <1>4

\* What one snapshot adds to a charge of l bytes for each.
LEMMA ChargePart ==
    ASSUME NEW S, IsFiniteSet(S), NEW x, NEW l \in Nat
    PROVE  /\ l * Cardinality(S) = l * Cardinality(S \ {x}) + (IF x \in S THEN l ELSE 0)
           /\ l * Cardinality(S \ {x}) \in Nat
<1>1. /\ Cardinality(S) \in Nat /\ Cardinality(S \ {x}) \in Nat
      /\ x \in S => Cardinality(S) = Cardinality(S \ {x}) + 1
      /\ x \notin S => Cardinality(S) = Cardinality(S \ {x})
  <2>1. /\ IsFiniteSet(S \ {x})
        /\ Cardinality(S \ {x}) = IF x \in S THEN Cardinality(S) - 1 ELSE Cardinality(S)
    BY FS_RemoveElement
  <2>2. Cardinality(S) \in Nat /\ Cardinality(S \ {x}) \in Nat
    BY <2>1, FS_CardinalityType
  <2> QED BY <2>1, <2>2
<1>2. \A n \in Nat : l * n \in Nat /\ l * (n + 1) = l * n + l
  OBVIOUS
<1>3. CASE x \in S
  BY <1>1, <1>2, <1>3
<1>4. CASE x \notin S
  BY <1>1, <1>2, <1>4
<1> QED BY <1>3, <1>4

LEMMA ChargedSetsFinite ==
    ASSUME IInv
    PROVE  IsFiniteSet(Owners) /\ IsFiniteSet(Uppers)
<1>1. IsFiniteSet(known) /\ Owners \in SUBSET known /\ Uppers \in SUBSET known
  BY KnownFinite DEF IInv, TypeOK, Owners, Uppers
<1> QED BY <1>1, FS_Subset

\* What is charged for one record.
LEMMA SizedBytes ==
    ASSUME NEW r, r.depth \in Depth, Sized(r)
    PROVE  r.hostBytes = (IF OwnsLower(r) THEN LowerBytes ELSE 0)
                             + (IF r.depth = 30 THEN UpperBytes ELSE 0)
BY DEF Sized, UpperPart

LEMMA SameSize ==
    ASSUME NEW a, NEW b, Same(a, b)
    PROVE  /\ OwnsLower(a) <=> OwnsLower(b)
           /\ Sized(a) <=> Sized(b)
BY DEF Same, Sized, OwnsLower, UpperPart

LEMMA UnchangedShares ==
    ASSUME LedgerInv, Unchanged \/ Remembers \/ Marks
    PROVE  LedgerInv'
<1>1. /\ known' = known /\ residentBytes' = residentBytes
      /\ \A x \in known : Same(records[x], records'[x])
  BY DEF Unchanged, Remembers, Marks, Kept
<1>2. \A x \in known : /\ OwnsLower(records[x]) <=> OwnsLower(records'[x])
                       /\ Sized(records[x]) <=> Sized(records'[x])
  BY <1>1, SameSize
<1>3. Owners' = Owners /\ Uppers' = Uppers
  BY <1>1, <1>2 DEF Owners, Uppers, Same
<1> QED BY <1>1, <1>2, <1>3 DEF LedgerInv, Shares, LendsLower, Same

\* What the budget is charged for a snapshot.
Charged(id) == (IF id \in Owners THEN LowerBytes ELSE 0) + (IF id \in Uppers THEN UpperBytes ELSE 0)

LEMMA ChargedBytes ==
    ASSUME IInv, LedgerInv, NEW id \in known
    PROVE  Charged(id) = IF records[id].resident THEN records[id].hostBytes ELSE 0
<1>1. records[id].depth \in Depth /\ Sized(records[id])
  BY DEF IInv, TypeOK, LedgerInv, Record
<1>2. records[id].hostBytes = (IF OwnsLower(records[id]) THEN LowerBytes ELSE 0)
                                  + (IF records[id].depth = 30 THEN UpperBytes ELSE 0)
  BY <1>1, SizedBytes
<1> QED BY <1>2 DEF Charged, Owners, Uppers

\* A step that charges for one snapshot what it takes keeps the charge exact.
LEMMA ChargeStep ==
    ASSUME IInv, LedgerInv, NEW id, Owners' \ {id} = Owners \ {id}, Uppers' \ {id} = Uppers \ {id},
           residentBytes' = residentBytes - Charged(id) + Charged(id)'
    PROVE  residentBytes' = LowerBytes * Cardinality(Owners') + UpperBytes * Cardinality(Uppers')
<1> DEFINE a == IF id \in Owners THEN LowerBytes ELSE 0
           b == IF id \in Uppers THEN UpperBytes ELSE 0
           c == IF id \in Owners' THEN LowerBytes ELSE 0
           d == IF id \in Uppers' THEN UpperBytes ELSE 0
           o == LowerBytes * Cardinality(Owners \ {id})
           u == UpperBytes * Cardinality(Uppers \ {id})
<1>1. IsFiniteSet(Owners) /\ IsFiniteSet(Uppers)
  BY ChargedSetsFinite
<1>2. IsFiniteSet(Owners \cup {id}) /\ IsFiniteSet(Uppers \cup {id})
  BY <1>1, FS_AddElement
<1>3. Owners' \in SUBSET (Owners \cup {id}) /\ Uppers' \in SUBSET (Uppers \cup {id})
  OBVIOUS
<1>4. IsFiniteSet(Owners') /\ IsFiniteSet(Uppers')
  BY <1>2, <1>3, FS_Subset
<1>5. LowerBytes \in Nat /\ UpperBytes \in Nat
  BY BytesAssumption
<1>6. LowerBytes * Cardinality(Owners) = o + a /\ o \in Nat
  BY <1>1, <1>5, ChargePart
<1>7. UpperBytes * Cardinality(Uppers) = u + b /\ u \in Nat
  BY <1>1, <1>5, ChargePart
<1>8. LowerBytes * Cardinality(Owners') = o + c
  BY <1>4, <1>5, ChargePart
<1>9. UpperBytes * Cardinality(Uppers') = u + d
  BY <1>4, <1>5, ChargePart
<1>10. a \in Nat /\ b \in Nat /\ c \in Nat /\ d \in Nat
  BY <1>5
<1>11. /\ residentBytes = LowerBytes * Cardinality(Owners) + UpperBytes * Cardinality(Uppers)
       /\ residentBytes' = residentBytes - (a + b) + (c + d)
  BY DEF LedgerInv, Charged
<1> HIDE DEF a, b, c, d, o, u
<1> QED BY <1>6, <1>7, <1>8, <1>9, <1>10, <1>11

LEMMA RemovesLedger ==
    ASSUME IInv, LedgerInv, NEW id \in known, Removes(id)
    PROVE  LedgerInv'
<1>1. /\ known' = known \ {id}
      /\ \A x \in known' : Same(records[x], records'[x])
  BY DEF Removes, Kept
<1>2. \A x \in known' : /\ OwnsLower(records[x]) <=> OwnsLower(records'[x])
                        /\ Sized(records[x]) <=> Sized(records'[x])
  BY <1>1, SameSize
<1>3. \A x \in known' : Sized(records'[x])
  BY <1>1, <1>2 DEF LedgerInv
<1>4. \A x \in known : id \notin Refs(records[x])
  BY LooseIsChildless DEF Removes, Loose
<1>5. ASSUME NEW x \in known', Shares(x)' PROVE LendsLower(records[x].parent)'
  <2>1. Shares(x) /\ records'[x].parent = records[x].parent /\ x \in known
    BY <1>1, <1>2, <1>5 DEF Shares, Same
  <2>2. LendsLower(records[x].parent)
    BY <2>1 DEF LedgerInv
  <2>3. records[x].parent # None /\ records[x].parent \in known
    BY <2>2, IdsAssumption DEF LendsLower, IInv, TypeOK
  <2>4. records[x].parent # id
    BY <1>4, <2>1, <2>3 DEF Refs
  <2> QED BY <1>1, <2>1, <2>2, <2>3, <2>4 DEF LendsLower, Same
<1>6. Owners' = Owners \ {id} /\ Uppers' = Uppers \ {id}
  BY <1>1, <1>2 DEF Owners, Uppers, Same
<1>7. /\ residentBytes' = residentBytes - Charged(id)
      /\ Charged(id) = (IF records[id].resident THEN records[id].hostBytes ELSE 0)
      /\ Charged(id)' = 0
  BY <1>6, ChargedBytes DEF Removes, Charged
<1>8. residentBytes \in Int /\ Charged(id) \in Nat /\ HostBytes \in Nat /\ residentBytes <= HostBytes
  BY <1>7, BytesAssumption DEF IInv, TypeOK, LedgerInv, Record
<1>9. residentBytes' = residentBytes - Charged(id) + Charged(id)' /\ residentBytes' <= HostBytes
  BY <1>7, <1>8
<1>10. residentBytes' = LowerBytes * Cardinality(Owners') + UpperBytes * Cardinality(Uppers')
  BY <1>6, <1>9, ChargeStep
<1> QED BY <1>3, <1>5, <1>9, <1>10 DEF LedgerInv

LEMMA InsertsLedger ==
    ASSUME IInv, WorkerInv, PendingInv, LedgerInv, Inserts, NEW id, id = call.row.id
    PROVE  LedgerInv'
<1> DEFINE r == call.row
<1>1. /\ known' = known \cup {id} /\ id \notin known
      /\ \A x \in known : Same(records[x], records'[x])
      /\ records'[id].depth = r.depth /\ records'[id].hostBytes = r.hostBytes
      /\ records'[id].parent = r.parent /\ records'[id].resident
      /\ r \in Row /\ Refs(r) \subseteq known
  BY DEF Inserts, Kept, Same, NewRecord
<1>2. \A x \in known : /\ OwnsLower(records[x]) <=> OwnsLower(records'[x])
                       /\ Sized(records[x]) <=> Sized(records'[x])
  BY <1>1, SameSize
<1>3. PICK w \in pending : /\ w.id = id /\ w.depth = r.depth
                           /\ w.parent = r.parent /\ w.hostBytes = r.hostBytes
  BY DEF PendingInv, Inserts
<1>4. Sized(w) /\ PendingShares(w) /\ w \in WorkerRow
  BY DEF PendingInv, IInv, TypeOK
<1>5. Sized(records'[id]) /\ (OwnsLower(records'[id]) <=> OwnsLower(w))
  BY <1>1, <1>3, <1>4 DEF Sized, OwnsLower, UpperPart
<1>6. \A x \in known' : Sized(records'[x])
  BY <1>1, <1>2, <1>5 DEF LedgerInv
<1>7. ASSUME NEW p, LendsLower(p) PROVE LendsLower(p)'
  BY <1>1, <1>7 DEF LendsLower, Same
<1>8. ASSUME NEW x \in known', Shares(x)' PROVE LendsLower(records[x].parent)'
  <2>1. CASE x \in known
    BY <1>1, <1>2, <1>7, <1>8, <2>1 DEF LedgerInv, Shares, Same
  <2>2. CASE x = id
    <3>1. ~OwnsLower(w)
      BY <1>5, <1>8, <2>2 DEF Shares
    <3>2. \A v \in pending : v.id \notin known
      BY DEF Inserts, WorkerInv, PendingIsNew, PendingIds
    <3>3. w.parent # None => w.parent \in known
      BY <1>1, <1>3 DEF Refs
    <3>4. ~ \E v \in pending : pending = {v, w} /\ v.id = w.parent /\ v.depth = 18
      BY <3>2, <3>3, IdsAssumption DEF IInv, TypeOK, WorkerRow
    <3>5. LendsLower(w.parent)
      BY <1>4, <3>1, <3>3, <3>4 DEF PendingShares
    <3> QED BY <1>1, <1>3, <1>7, <2>2, <3>5
  <2> QED BY <1>1, <2>1, <2>2
<1>9. Owners' \ {id} = Owners /\ Uppers' \ {id} = Uppers /\ id \notin Owners /\ id \notin Uppers
  BY <1>1, <1>2 DEF Owners, Uppers, Same
<1>10. Charged(id) = 0
  BY <1>9 DEF Charged
<1>11. Charged(id)' = r.hostBytes
  <2>1. r.depth \in Depth
    BY <1>1 DEF Row
  <2>2. records'[id].hostBytes = (IF OwnsLower(records'[id]) THEN LowerBytes ELSE 0)
                                     + (IF records'[id].depth = 30 THEN UpperBytes ELSE 0)
    BY <1>1, <1>5, <2>1, SizedBytes
  <2>3. id \in known' /\ records'[id].hostBytes = r.hostBytes /\ records'[id].resident
    BY <1>1
  <2> QED BY <2>2, <2>3 DEF Charged, Owners, Uppers
<1>12. /\ residentBytes' = residentBytes - Charged(id) + Charged(id)' /\ residentBytes' <= HostBytes
  BY <1>1, <1>10, <1>11 DEF Inserts, IInv, TypeOK, Row
<1>13. residentBytes' = LowerBytes * Cardinality(Owners') + UpperBytes * Cardinality(Uppers')
  <2>1. Owners' \ {id} = Owners \ {id} /\ Uppers' \ {id} = Uppers \ {id}
    BY <1>9
  <2> QED BY <1>12, <2>1, ChargeStep
<1> QED BY <1>6, <1>8, <1>12, <1>13 DEF LedgerInv

LEMMA EvictDiskLedger ==
    ASSUME IInv, LedgerInv, NEW c \in known, EvictDisk(c), Moved(c, records[c].hostBytes, FALSE)
    PROVE  LedgerInv'
<1>1. /\ known' = known /\ records[c].resident
      /\ \A x \in known \ {c} : Same(records[x], records'[x])
      /\ residentBytes' = residentBytes - records[c].hostBytes
  BY DEF Moved, Kept, EvictDisk, LeastRecentlyUsed, Candidates
<1>2. /\ records[c] \in Record
      /\ ~records'[c].resident /\ records'[c].depth = records[c].depth
      /\ records'[c].hostBytes = records[c].hostBytes /\ records'[c].parent = records[c].parent
  BY DEF Moved, Kept, Same, IInv, TypeOK, Record
<1>3. \A x \in known : /\ OwnsLower(records[x]) <=> OwnsLower(records'[x])
                       /\ Sized(records[x]) <=> Sized(records'[x])
  BY <1>1, <1>2, SameSize DEF Sized, OwnsLower, UpperPart
<1>4. ASSUME NEW x \in known, Shares(x)' PROVE LendsLower(records[x].parent)'
  <2>1. x # c /\ Shares(x) /\ Sized(records[x]) /\ records'[x].parent = records[x].parent
    BY <1>1, <1>2, <1>3, <1>4 DEF Shares, Same, LedgerInv
  <2>2. LendsLower(records[x].parent) /\ records[x].depth = 30
    BY <2>1 DEF LedgerInv, Shares, Sized, IInv, TypeOK, Record, Depth
  <2>3. records[x].parent # None
    BY <2>2, IdsAssumption DEF LendsLower, IInv, TypeOK
  <2>4. records[x].parent # c
    <3>1. CASE records[c].refcount = 0
      BY <2>3, <3>1, LooseIsChildless DEF Refs
    <3>2. CASE ~HasResidentSharedChild(c)
      BY <2>1, <2>2, <3>2 DEF HasResidentSharedChild, Shares, LendsLower
    <3> QED BY <3>1, <3>2 DEF EvictDisk, LeastRecentlyUsed, Candidates
  <2> QED BY <1>1, <2>1, <2>2, <2>4 DEF LendsLower, Same
<1>5. Owners' = Owners \ {c} /\ Uppers' = Uppers \ {c}
  BY <1>1, <1>2, <1>3 DEF Owners, Uppers, Same
<1>6. Charged(c) = records[c].hostBytes /\ Charged(c)' = 0
  BY <1>1, <1>5, ChargedBytes DEF Charged
<1>7. records[c].hostBytes \in Nat /\ residentBytes \in Int /\ HostBytes \in Nat /\ residentBytes <= HostBytes
  BY <1>2, BytesAssumption DEF IInv, TypeOK, LedgerInv, Record
<1>8. residentBytes' = residentBytes - Charged(c) + Charged(c)' /\ residentBytes' <= HostBytes
  BY <1>1, <1>6, <1>7
<1>9. residentBytes' = LowerBytes * Cardinality(Owners') + UpperBytes * Cardinality(Uppers')
  BY <1>5, <1>8, ChargeStep
<1> QED BY <1>1, <1>3, <1>4, <1>8, <1>9 DEF LedgerInv, Shares, Same

\* A reload always takes a lower K/V of its own.
LEMMA LoadedOwns ==
    ASSUME NEW r, r.depth \in Depth, r.hostBytes \in Nat, Sized(r), NEW s,
           s.depth = r.depth, s.hostBytes = LoadedBytes(r)
    PROVE  OwnsLower(s) /\ Sized(s)
BY BytesAssumption DEF OwnsLower, Sized, UpperPart, LoadedBytes, Depth

LEMMA LoadLedger ==
    ASSUME IInv, LedgerInv, Load, NEW id, id = call.target,
           Moved(call.target, LoadedBytes(records[call.target]), TRUE)
    PROVE  LedgerInv'
<1> DEFINE b == LoadedBytes(records[id])
<1>1. /\ known' = known /\ id \in known /\ ~records[id].resident
      /\ \A x \in known \ {id} : Same(records[x], records'[x])
      /\ residentBytes' = residentBytes + b
  BY DEF Moved, Kept, Load, LoadDue, IInv, CallInv, CallHolds
<1>2. /\ records[id] \in Record
      /\ records'[id].resident /\ records'[id].depth = records[id].depth
      /\ records'[id].hostBytes = b /\ records'[id].parent = records[id].parent
  BY <1>1 DEF Moved, Kept, Same, IInv, TypeOK, Record
<1>3. OwnsLower(records'[id]) /\ Sized(records'[id])
  <2>1. /\ records[id].depth \in Depth /\ records[id].hostBytes \in Nat /\ Sized(records[id])
        /\ records'[id].depth = records[id].depth /\ records'[id].hostBytes = LoadedBytes(records[id])
    BY <1>1, <1>2 DEF Record, LedgerInv
  <2> QED BY <2>1, LoadedOwns
<1>4. \A x \in known \ {id} : /\ OwnsLower(records[x]) <=> OwnsLower(records'[x])
                              /\ Sized(records[x]) <=> Sized(records'[x])
  BY <1>1, SameSize
<1>5. \A x \in known' : Sized(records'[x])
  BY <1>1, <1>3, <1>4 DEF LedgerInv
<1>6. ASSUME NEW p, LendsLower(p) PROVE LendsLower(p)'
  BY <1>1, <1>2, <1>6 DEF LendsLower, Same
<1>7. ASSUME NEW x \in known, Shares(x)' PROVE LendsLower(records[x].parent)'
  <2>1. x # id /\ Shares(x) /\ records'[x].parent = records[x].parent
    BY <1>1, <1>3, <1>4, <1>7 DEF Shares, Same
  <2> QED BY <1>6, <2>1 DEF LedgerInv
<1>8. Owners' \ {id} = Owners \ {id} /\ Uppers' \ {id} = Uppers \ {id} /\ id \notin Owners /\ id \notin Uppers
  BY <1>1, <1>4 DEF Owners, Uppers, Same
<1>9. Charged(id) = 0
  BY <1>8 DEF Charged
<1>10. Charged(id)' = b
  <2>1. records'[id].depth \in Depth /\ Sized(records'[id])
    BY <1>2, <1>3 DEF Record
  <2>2. records'[id].hostBytes = (IF OwnsLower(records'[id]) THEN LowerBytes ELSE 0)
                                     + (IF records'[id].depth = 30 THEN UpperBytes ELSE 0)
    BY <2>1, SizedBytes
  <2>3. id \in known'
    BY <1>1
  <2> QED BY <1>2, <2>2, <2>3 DEF Charged, Owners, Uppers
<1>11. b \in Nat /\ residentBytes \in Int /\ residentBytes + b <= HostBytes
  <2>1. residentBytes \in Int /\ HostBytes \in Nat /\ b \in Nat
    BY <1>2, BytesAssumption DEF IInv, TypeOK, Record, LoadedBytes
  <2>2. ~(residentBytes + b > HostBytes)
    BY DEF Load, LoadDue, Over, Need
  <2> HIDE DEF b
  <2> QED BY <2>1, <2>2
<1> HIDE DEF b
<1>12. residentBytes' = residentBytes - Charged(id) + Charged(id)' /\ residentBytes' <= HostBytes
  BY <1>1, <1>9, <1>10, <1>11
<1>13. residentBytes' = LowerBytes * Cardinality(Owners') + UpperBytes * Cardinality(Uppers')
  BY <1>8, <1>12, ChargeStep
<1> QED BY <1>1, <1>5, <1>7, <1>12, <1>13 DEF LedgerInv, Shares, Same

\* A registry with nothing in memory is charged nothing.
LEMMA EmptyLedger ==
    ASSUME residentBytes' = 0, \A x \in known' : Sized(records'[x]) /\ ~records'[x].resident
    PROVE  LedgerInv'
<1>1. Owners' = {} /\ Uppers' = {}
  BY DEF Owners, Uppers
<1>2. Cardinality({}) = 0 /\ LowerBytes * 0 = 0 /\ UpperBytes * 0 = 0 /\ 0 <= HostBytes
  BY FS_EmptySet, BytesAssumption
<1> QED BY <1>1, <1>2 DEF LedgerInv, Shares

LEMMA AttachLedger ==
    ASSUME IInv, DirectoryInv, Attach
    PROVE  LedgerInv'
<1>1. /\ residentBytes' = 0 /\ known' = DOMAIN disk
      /\ \A x \in DOMAIN disk : /\ ~records'[x].resident /\ records'[x].depth = disk[x].depth
                               /\ records'[x].hostBytes = disk[x].hostBytes
  BY DEF Attach, LoadIndex, IndexRecord, known
<1>2. \A x \in DOMAIN disk : Sized(disk[x])
  BY DEF DirectoryInv
<1> QED BY <1>1, <1>2, EmptyLedger DEF Sized, OwnsLower, UpperPart

LEMMA CrashLedger ==
    ASSUME Crash
    PROVE  LedgerInv'
<1>1. residentBytes' = 0 /\ known' = {}
  BY DEF Crash, known, Nothing
<1> QED BY <1>1, EmptyLedger

LEMMA LedgerStep ==
    ASSUME IInv, WorkerInv, PromiseInv, [Next]_vars
    PROVE  LedgerInv'
<1>1. PendingInv /\ LedgerInv /\ DirectoryInv
  BY DEF PromiseInv
<1>2. CASE Unchanged \/ Remembers \/ Marks
  BY <1>1, <1>2, UnchangedShares
<1>3. CASE \E id \in known : Removes(id)
  BY <1>1, <1>3, RemovesLedger
<1>4. CASE Inserts
  BY <1>1, <1>4, InsertsLedger
<1>5. CASE \E c \in known : EvictDisk(c) /\ Moved(c, records[c].hostBytes, FALSE)
  BY <1>1, <1>5, EvictDiskLedger
<1>6. CASE Load /\ Moved(call.target, LoadedBytes(records[call.target]), TRUE)
  BY <1>1, <1>6, LoadLedger
<1>7. CASE Attach \/ Crash
  BY <1>1, <1>7, AttachLedger, CrashLedger
<1> QED BY <1>2, <1>3, <1>4, <1>5, <1>6, <1>7, StepEffect

----------------------------------------------------------------------------
(* The call in progress, and the directory.                                *)

\* Every step keeps the row that is being registered, or begins with one.
LEMMA RowStep ==
    ASSUME IInv, [Next]_vars, call'.op = "register"
    PROVE  \/ call.op = "register" /\ call'.row = call.row
           \/ \E w \in pending, q \in Persistence, b \in Boundaries : Register(w, q, b)
<1>0. call \in Call
  BY DEF IInv, TypeOK
<1>1. \A ok \in BOOLEAN : Ended(ok).op = "none"
  BY EndedFields
<1>2. ASSUME Raises PROVE call'.op = "none"
  BY <1>1, <1>2 DEF Raises
<1>3. CASE StoreStep
  <2>1. CASE \E id \in known : ReclaimMemory(id) \/ ReclaimDisk(id)
    BY <1>0, <2>1 DEF ReclaimMemory, ReclaimDisk, Call
  <2>2. CASE Unlink \/ ExpireDone \/ AdmitRow \/ RefuseRow \/ StoreFull \/ LoadRefused \/ TransportFails
    BY <1>0, <1>1, <1>2, <2>2
       DEF Unlink, ExpireDone, AdmitRow, RefuseRow, StoreFull, LoadRefused, TransportFails, Call
  <2>3. CASE InsertRow \/ Publish \/ PublishFails \/ Retract \/ SaveFails
    BY <1>0, <1>1, <2>3 DEF InsertRow, Publish, PublishFails, Retract, SaveFails, Call
  <2>4. CASE \E c \in known : EvictDisk(c) \/ EvictMemory(c)
    BY <1>0, <1>2, <2>4 DEF EvictDisk, EvictMemory
  <2>5. CASE Load \/ DropTarget
    BY <1>0, <1>1, <2>5 DEF Load, DropTarget, Call
  <2> QED BY <1>3, <2>1, <2>2, <2>3, <2>4, <2>5 DEF StoreStep
<1>4. CASE Client
  <2>1. CASE CallExpire
    BY <2>1 DEF CallExpire, Started, Ended
  <2>2. CASE \E id \in known : Get(id) \/ Lease(id)
    BY <1>1, <2>2 DEF Get, Lease, Returns
  <2>3. CASE \E id \in known : CallRestore(id) \/ CallDelete(id)
    <3>1. PICK id \in known : CallRestore(id) \/ CallDelete(id)
      BY <2>3
    <3>2. \/ call' = Ended(FALSE)
          \/ call' = [Started("restore", "expire", "budget") EXCEPT !.target = id]
          \/ call' = [Started("delete", "drop", "idle") EXCEPT !.target = id]
      BY <3>1 DEF CallRestore, CallDelete
    <3> QED BY <1>1, <3>2 DEF Started, Ended
  <2>4. CASE \E p \in known : ConsultMemo(p) \/ \E c \in known : Memoize(p, c)
    BY <1>1, <2>4 DEF ConsultMemo, Memoize, Returns
  <2>5. CASE \E hs, kind : Publishes(hs, kind)
    BY <1>1, <2>5 DEF Publishes, Returns
  <2>6. CASE \E id : GiveUp(id)
    BY <1>1, <2>6 DEF GiveUp, Returns
  <2>7. CASE Release \/ CommandLost
    BY <1>1, <2>7 DEF Release, CommandLost, Idle
  <2> QED BY <1>4, <2>1, <2>2, <2>3, <2>4, <2>5, <2>6, <2>7 DEF Client, Create, CreatePair, Promote, Branch
<1>5. CASE Attach \/ Crash
  BY <1>1, <1>5 DEF Attach, Crash, Returns
<1>6. CASE WorkerDies \/ (\E id : Tick(id)) \/ UNCHANGED vars
  BY <1>6 DEF WorkerDies, Tick, vars
<1> QED BY <1>3, <1>4, <1>5, <1>6 DEF Next

\* What a step may do to the directory.
LEMMA DiskStep ==
    ASSUME IInv, [Next]_vars
    PROVE  \/ /\ UNCHANGED diskVars
              /\ \/ call'.pc = call.pc /\ call'.victim = call.victim /\ call'.row = call.row
                 \/ call.pc \notin {"unlink", "retract"} /\ call'.pc \notin {"unlink", "retract"}
                 \/ Crash
           \/ /\ disk' = disk /\ call.pc \in {"expire", "drop"} /\ call'.pc = "unlink"
              /\ partial' = partial \cup {call'.victim}
           \/ Unlink \/ Publish \/ PublishFails \/ Retract
<1>0. call \in Call
  BY DEF IInv, TypeOK
<1>1. \A ok \in BOOLEAN : Ended(ok).pc = "idle"
  BY EndedFields
<1>2. ASSUME Raises PROVE call'.pc = "idle"
  BY <1>1, <1>2 DEF Raises
<1>3. CASE StoreStep
  <2>1. CASE \E id \in known : ReclaimMemory(id) \/ ReclaimDisk(id)
    BY <1>0, <2>1 DEF ReclaimMemory, ReclaimDisk, Call
  <2>2. CASE ExpireDone \/ AdmitRow \/ RefuseRow \/ StoreFull \/ LoadRefused \/ TransportFails
    <3>1. UNCHANGED diskVars
      BY <2>2 DEF ExpireDone, AdmitRow, RefuseRow, StoreFull, LoadRefused, TransportFails
    <3>2. call.pc \notin {"unlink", "retract"}
      BY <2>2 DEF ExpireDone, AdmitRow, RefuseRow, StoreFull, Over, LoadRefused, LoadDue, TransportFails
    <3>3. call'.pc \notin {"unlink", "retract"}
      BY <1>0, <1>1, <1>2, <2>2
         DEF ExpireDone, AdmitRow, RefuseRow, StoreFull, LoadRefused, TransportFails, Call
    <3> QED BY <3>1, <3>2, <3>3
  <2>3. CASE InsertRow \/ SaveFails
    BY <1>0, <1>1, <2>3 DEF InsertRow, SaveFails, Call
  <2>4. CASE \E c \in known : EvictDisk(c) \/ EvictMemory(c)
    BY <1>0, <1>2, <2>4 DEF EvictDisk, EvictMemory, Over
  <2>5. CASE Load \/ DropTarget
    <3>1. CASE Load
      BY <1>1, <3>1 DEF Load, LoadDue
    <3>2. CASE DropTarget
      BY <1>0, <1>1, <3>2 DEF DropTarget, Call, diskVars
    <3> QED BY <2>5, <3>1, <3>2
  <2> QED BY <1>3, <2>1, <2>2, <2>3, <2>4, <2>5 DEF StoreStep
<1>4. CASE Client
  <2>0. UNCHANGED diskVars
    BY <1>4 DEF Client, CallExpire, Get, Lease, CallRestore, CallDelete, ConsultMemo, Memoize,
       Create, CreatePair, Promote, Branch, Publishes, GiveUp, Register, CallRegister, Release, CommandLost
  <2>1. call.pc = "idle"
    <3>1. Idle
      BY <1>4 DEF Client, CallExpire, Get, Lease, CallRestore, CallDelete, ConsultMemo, Memoize,
       Create, CreatePair, Promote, Branch, Infers, GiveUp, Register, CallRegister, Release, CommandLost
    <3> QED BY <3>1 DEF Idle, IInv, CallInv, CallSteps
  <2>2. call'.pc \notin {"unlink", "retract"}
    <3>1. CASE CallExpire
      BY <3>1 DEF CallExpire, Started, Ended
    <3>2. CASE \E id \in known : Get(id) \/ Lease(id)
      BY <1>1, <3>2 DEF Get, Lease, Returns
    <3>3. CASE \E id \in known : CallRestore(id) \/ CallDelete(id)
      <4>1. PICK id \in known : CallRestore(id) \/ CallDelete(id)
        BY <3>3
      <4>2. \/ call' = Ended(FALSE)
            \/ call' = [Started("restore", "expire", "budget") EXCEPT !.target = id]
            \/ call' = [Started("delete", "drop", "idle") EXCEPT !.target = id]
        BY <4>1 DEF CallRestore, CallDelete
      <4> QED BY <1>1, <4>2 DEF Started, Ended
    <3>4. CASE \E p \in known : ConsultMemo(p) \/ \E c \in known : Memoize(p, c)
      BY <1>1, <3>4 DEF ConsultMemo, Memoize, Returns
    <3>5. CASE \E hs, kind : Publishes(hs, kind)
      BY <1>1, <3>5 DEF Publishes, Returns
    <3>6. CASE \E id : GiveUp(id)
      BY <1>1, <3>6 DEF GiveUp, Returns
    <3>7. CASE Release \/ CommandLost
      BY <1>1, <2>1, <3>7 DEF Release, CommandLost
    <3>8. CASE \E w \in pending, q \in Persistence, b \in Boundaries : Register(w, q, b)
      BY <3>8 DEF Register, CallRegister, Started, Ended
    <3> QED BY <1>4, <3>1, <3>2, <3>3, <3>4, <3>5, <3>6, <3>7, <3>8 DEF Client, Create, CreatePair, Promote, Branch
  <2> QED BY <2>0, <2>1, <2>2
<1>5. CASE Attach
  <2>1. call.pc = "idle"
    BY <1>5 DEF Attach, Idle, IInv, CallInv, CallSteps
  <2> QED BY <1>1, <1>5, <2>1 DEF Attach, Returns
<1>6. CASE Crash
  BY <1>6 DEF Crash
<1>7. CASE WorkerDies \/ (\E id : Tick(id)) \/ UNCHANGED vars
  BY <1>7 DEF WorkerDies, Tick, vars
<1> QED BY <1>3, <1>4, <1>5, <1>6, <1>7 DEF Next

\* What a record says of itself.
Says(a, b) ==
    /\ b.depth = a.depth /\ b.parent = a.parent /\ b.contextParent = a.contextParent
    /\ b.promotionOf = a.promotionOf /\ b.persistence = a.persistence
    /\ b.boundary = a.boundary

\* It never changes, and what is new was the row of a registration.
LEMMA FieldsKept ==
    ASSUME IInv, [Next]_vars, ~Attach, ~Crash
    PROVE  /\ attached' = attached
           /\ \A x \in known \cap known' : Says(records[x], records'[x])
           /\ \A x \in known' \ known :
                  InsertRow /\ Inserts /\ x = call.row.id /\ Says(call.row, records'[x])
<1>1. CASE Unchanged
  BY <1>1 DEF Unchanged, Kept, Same, Says
<1>2. CASE Remembers
  BY <1>2 DEF Remembers, Same, Says
<1>3. CASE Publish /\ Marks
  BY <1>3 DEF Marks, Same, Says
<1>4. CASE InsertRow /\ Inserts
  BY <1>4 DEF Inserts, Kept, Same, Says, NewRecord
<1>5. CASE \E id \in known : Removes(id)
  BY <1>5 DEF Removes, Kept, Same, Says
<1>6. ASSUME NEW id \in known, NEW bytes, NEW into, Moved(id, bytes, into)
      PROVE  attached' = attached /\ known' = known /\ \A x \in known : Says(records[x], records'[x])
  <2>1. records[id] \in Record
    BY DEF IInv, TypeOK
  <2>2. Says(records[id], records'[id])
    BY <1>6, <2>1 DEF Moved, Kept, Same, Says, Record
  <2> QED BY <1>6, <2>2 DEF Moved, Kept, Same, Says
<1>7. CASE \E c \in known : EvictDisk(c) /\ Moved(c, records[c].hostBytes, FALSE)
  BY <1>6, <1>7
<1>8. CASE Load /\ Moved(call.target, LoadedBytes(records[call.target]), TRUE)
  <2>1. call.target \in known
    BY <1>8 DEF Load, LoadDue, IInv, CallInv, CallHolds
  <2> QED BY <1>6, <1>8, <2>1
<1> QED BY <1>1, <1>2, <1>3, <1>4, <1>5, <1>7, <1>8, StepEffect

\* A registration begins with the persistence of what its row refers to.
LEMMA RowPersistence ==
    ASSUME IInv, DirectoryInv, NEW w \in pending, NEW q, NEW b, NEW r, r = RowFor(w, q, b)
    PROVE  SamePersistence(r)
<1>0. w \in WorkerRow /\ None \notin known
  BY IdsAssumption DEF IInv, TypeOK
<1>1. CASE w.parent \in known
  <2> DEFINE e == records[w.parent]
  <2>1. r.persistence = e.persistence /\ r.parent = w.parent
        /\ r.contextParent \in {e.contextParent, w.parent, None}
    BY <1>1 DEF RowFor
  <2>2. SamePersistence(e)
    BY <1>1 DEF DirectoryInv
  <2> QED BY <1>0, <2>1, <2>2 DEF SamePersistence, Refs
<1>2. CASE w.parent \notin known
  <2>1. r.parent = w.parent /\ r.contextParent \in {w.parent, None}
    BY <1>2 DEF RowFor
  <2> QED BY <1>0, <1>2, <2>1 DEF SamePersistence, Refs
<1> QED BY <1>1, <1>2

LEMMA PersistenceStep ==
    ASSUME IInv, DirectoryInv, [Next]_vars
    PROVE  /\ \A x \in known' : SamePersistence(records[x])'
           /\ call'.op = "register" => SamePersistence(call.row)'
<1>1. CASE Crash
  <2>1. known' = {} /\ call'.op = "none"
    BY <1>1, EndedFields DEF Crash, known, Nothing
  <2> QED BY <2>1
<1>2. CASE Attach
  <2>1. known' = DOMAIN disk /\ \A x \in known' : records'[x].persistence = "disk"
    BY <1>2 DEF Attach, LoadIndex, IndexRecord, known
  <2>2. call'.op = "none"
    BY <1>2, EndedFields DEF Attach, Returns
  <2> QED BY <2>1, <2>2 DEF SamePersistence
<1>3. CASE ~Attach /\ ~Crash
  <2>1. /\ \A x \in known \cap known' : Says(records[x], records'[x])
        /\ \A x \in known' \ known : Inserts /\ x = call.row.id /\ Says(call.row, records'[x])
    BY <1>3, FieldsKept
  <2>2. \A x \in known : Refs(records[x]) \subseteq known /\ SamePersistence(records[x])
    BY DEF IInv, RegistryInv, ParentsRegistered, DirectoryInv
  <2>3. ASSUME NEW r, SamePersistence(r), Refs(r) \cap (known' \ known) = {}
        PROVE  \A p \in Refs(r) \cap known' : records'[p].persistence = r.persistence
    BY <2>1, <2>3 DEF SamePersistence, Says
  <2>4. ASSUME NEW x \in known' PROVE SamePersistence(records[x])'
    <3>1. CASE x \in known
      <4>1. Says(records[x], records'[x]) /\ Refs(records'[x]) = Refs(records[x])
        BY <2>1, <2>4, <3>1 DEF Says, Refs
      <4>2. \A p \in Refs(records[x]) \cap known' : records'[p].persistence = records[x].persistence
        BY <2>2, <2>3, <3>1
      <4> QED BY <4>1, <4>2 DEF SamePersistence, Says
    <3>2. CASE x \notin known
      <4>1. Inserts /\ x = call.row.id /\ Says(call.row, records'[x])
        BY <2>1, <2>4, <3>2
      <4>2. SamePersistence(call.row) /\ Refs(call.row) \subseteq known
        BY <4>1 DEF DirectoryInv, Inserts
      <4>3. \A p \in Refs(call.row) \cap known' : records'[p].persistence = call.row.persistence
        BY <2>3, <4>2
      <4>4. Refs(records'[x]) = Refs(call.row) /\ records'[x].persistence = call.row.persistence
        BY <4>1 DEF Says, Refs
      <4> QED BY <4>3, <4>4 DEF SamePersistence
    <3> QED BY <3>1, <3>2
  <2>5. ASSUME call'.op = "register" PROVE SamePersistence(call.row)'
    <3>1. CASE call.op = "register" /\ call'.row = call.row
      <4>1. SamePersistence(call.row)
        BY <3>1 DEF DirectoryInv
      <4>2. Refs(call.row) \cap (known' \ known) = {}
        BY <2>1 DEF Inserts
      <4>3. \A p \in Refs(call.row) \cap known' : records'[p].persistence = call.row.persistence
        BY <2>3, <4>1, <4>2
      <4> QED BY <3>1, <4>3 DEF SamePersistence
    <3>2. CASE \E w \in pending, q \in Persistence, b \in Boundaries : Register(w, q, b)
      <4>1. PICK w \in pending, q \in Persistence, b \in Boundaries : Register(w, q, b)
        BY <3>2
      <4>2. records' = records /\ call' = [Started("register", "expire", "admit") EXCEPT !.row = RowFor(w, q, b)]
        BY <4>1 DEF Register, CallRegister, storeVars
      <4>3. call'.row = RowFor(w, q, b)
        BY <4>2 DEF Started, Ended
      <4>4. SamePersistence(call'.row)
        BY <4>3, RowPersistence
      <4> QED BY <4>2, <4>4 DEF SamePersistence, known
    <3> QED BY <2>5, <3>1, <3>2, RowStep
  <2> QED BY <2>4, <2>5
<1> QED BY <1>1, <1>2, <1>3

\* A save ends with a directory, or with the record forgotten.
LEMMA SavingStep ==
    ASSUME IInv, [Next]_vars, Saving
    PROVE  \/ Saving' /\ call'.row = call.row
           \/ Publish /\ Marks
           \/ Removes(call.row.id)
           \/ Crash
<1>0. call \in Call /\ call.pc \in {"save", "retract"} /\ call.op = "register" /\ Loose(call.row.id)
  BY BusyFacts DEF IInv, TypeOK, Saving, CallInv, CallHolds
<1>1. CASE StoreStep
  <2>1. Publish \/ PublishFails \/ Retract \/ SaveFails
    BY <1>0, <1>1 DEF StoreStep, ReclaimMemory, ReclaimDisk, Unlink, ExpireDone, AdmitRow, RefuseRow,
       InsertRow, EvictDisk, EvictMemory, StoreFull, Over, Load, LoadRefused, LoadDue, DropTarget,
       TransportFails
  <2>2. CASE Publish
    BY <2>2, PublishStep
  <2>3. CASE PublishFails
    BY <1>0, <2>3 DEF PublishFails, Saving, Call
  <2>4. CASE Retract \/ SaveFails
    BY <1>0, <2>4, ForgetsStep DEF Retract, SaveFails
  <2> QED BY <2>1, <2>2, <2>3, <2>4
<1>2. ~Client /\ ~Attach
  <2>1. ~Idle /\ attached
    BY <1>0, BusyFacts DEF Idle
  <2> QED BY <2>1 DEF Client, CallExpire, Get, Lease, CallRestore, CallDelete, ConsultMemo, Memoize,
       Create, CreatePair, Promote, Branch, Infers, GiveUp, Register, CallRegister, Release, CommandLost, Attach
<1>3. CASE WorkerDies \/ (\E id : Tick(id)) \/ UNCHANGED vars
  BY <1>3 DEF WorkerDies, Tick, vars, Saving
<1> QED BY <1>1, <1>2, <1>3 DEF Next

LEMMA UndurableStep ==
    ASSUME IInv, DirectoryInv, [Next]_vars
    PROVE  \A x \in known' : records'[x].persistence = "disk" /\ ~records'[x].durable
               => Saving' /\ x = call'.row.id
<1> DEFINE Undurable(r) == r.persistence = "disk" /\ ~r.durable
<1>0. \A x \in known : Undurable(records[x]) => Saving /\ x = call.row.id
  BY DEF DirectoryInv
<1>1. CASE Crash
  BY <1>1 DEF Crash, known, Nothing
<1>2. CASE Attach
  BY <1>2 DEF Attach, LoadIndex, IndexRecord, known
<1>3. CASE ~Attach /\ ~Crash
  <2>1. \A x \in known \cap known' :
            /\ records'[x].persistence = records[x].persistence
            /\ records'[x].durable = records[x].durable \/ (records'[x].durable /\ Publish)
    <3>1. CASE Unchanged
      BY <3>1 DEF Unchanged, Kept, Same
    <3>2. CASE Remembers
      BY <3>2 DEF Remembers, Same
    <3>3. CASE Publish /\ Marks
      BY <3>3 DEF Marks, Same
    <3>4. CASE InsertRow /\ Inserts
      BY <3>4 DEF Inserts, Kept, Same
    <3>5. CASE \E id \in known : Removes(id)
      BY <3>5 DEF Removes, Kept, Same
    <3>6. ASSUME NEW id \in known, NEW bytes, NEW into, Moved(id, bytes, into)
          PROVE  \A x \in known : /\ records'[x].persistence = records[x].persistence
                                 /\ records'[x].durable = records[x].durable
      <4>1. records[id] \in Record
        BY DEF IInv, TypeOK
      <4> QED BY <3>6, <4>1 DEF Moved, Kept, Same, Record
    <3>7. CASE \E c \in known : EvictDisk(c) /\ Moved(c, records[c].hostBytes, FALSE)
      BY <3>6, <3>7
    <3>8. CASE Load /\ Moved(call.target, LoadedBytes(records[call.target]), TRUE)
      <4>1. call.target \in known
        BY <3>8 DEF Load, LoadDue, IInv, CallInv, CallHolds
      <4> QED BY <3>6, <3>8, <4>1
    <3> QED BY <1>3, <3>1, <3>2, <3>3, <3>4, <3>5, <3>7, <3>8, StepEffect
  <2>2. ASSUME NEW x \in known', Undurable(records'[x]) PROVE Saving' /\ x = call'.row.id
    <3>1. CASE x \in known
      <4>1. Saving /\ x = call.row.id
        BY <1>0, <2>1, <2>2, <3>1
      <4>2. ~(Publish /\ Marks)
        BY <2>2, <4>1 DEF Marks
      <4>3. ~Removes(call.row.id)
        BY <2>2, <4>1 DEF Removes
      <4> QED BY <1>3, <4>1, <4>2, <4>3, SavingStep
    <3>2. CASE x \notin known
      <4>1. InsertRow /\ x = call.row.id /\ call.row.persistence = "disk"
        BY <1>3, <2>2, <3>2, FieldsKept DEF Says
      <4>2. call' = [call EXCEPT !.pc = "save"] /\ call \in Call
        BY <4>1 DEF InsertRow, IInv, TypeOK
      <4> QED BY <4>1, <4>2 DEF Saving, Call
    <3> QED BY <3>1, <3>2
  <2> QED BY <2>2
<1> QED BY <1>1, <1>2, <1>3

\* What a directory says.
LEMMA ManifestStep ==
    ASSUME IInv, LedgerInv, DirectoryInv, [Next]_vars
    PROVE  /\ \A x \in DOMAIN disk' : Sized(disk'[x])
           /\ ManifestsMatch'
<1>1. \A x \in DOMAIN disk' :
          \/ x \in DOMAIN disk /\ disk'[x] = disk[x]
          \/ /\ Publish \/ PublishFails
             /\ x = call.row.id /\ x \in known /\ disk'[x] = ManifestOf(records[x])
  <2>1. CASE disk' = disk
    BY <2>1
  <2>2. CASE Unlink \/ Retract
    BY <2>2 DEF Unlink, Retract, Without, Restrict
  <2>3. CASE Publish \/ PublishFails
    <3>1. /\ call.row.id \in known
          /\ disk' = With(disk, call.row.id, ManifestOf(records[call.row.id]))
      BY <2>3 DEF Publish, PublishFails, Published, IInv, CallInv, CallHolds, Loose
    <3> QED BY <2>3, <3>1 DEF With
  <2> QED BY <2>1, <2>2, <2>3, DiskStep DEF diskVars
<1>2. \A x \in known : Sized(ManifestOf(records[x])) /\ ManifestMatches(ManifestOf(records[x]), records[x])
  BY DEF LedgerInv, Sized, OwnsLower, UpperPart, ManifestOf, ManifestMatches
<1>3. \A x \in DOMAIN disk' : Sized(disk'[x])
  BY <1>1, <1>2 DEF DirectoryInv
<1>4. ASSUME NEW x \in DOMAIN disk', x \in known' PROVE ManifestMatches(disk'[x], records'[x])
  <2>1. CASE Crash
    BY <1>4, <2>1 DEF Crash, known, Nothing
  <2>2. CASE Attach
    BY <1>4, <2>2 DEF Attach, LoadIndex, IndexRecord, known, ManifestMatches, diskVars
  <2>3. CASE ~Attach /\ ~Crash /\ x \in known
    <3>1. Says(records[x], records'[x])
      BY <1>4, <2>3, FieldsKept
    <3>2. ManifestMatches(disk'[x], records[x])
      BY <1>1, <1>2, <1>4, <2>3 DEF DirectoryInv, ManifestsMatch
    <3> QED BY <3>1, <3>2 DEF ManifestMatches, Says
  <2>4. CASE ~Attach /\ ~Crash /\ x \notin known
    <3>1. InsertRow /\ x = call.row.id
      BY <1>4, <2>4, FieldsKept
    <3>2. call.pc = "budget" /\ disk' = disk /\ attached = TRUE
      BY <3>1, BusyFacts DEF InsertRow, diskVars
    <3>3. x \in known
      BY <1>4, <3>2 DEF IInv, RegistryInv, DirectoriesAreRecords
    <3> QED BY <2>4, <3>3
  <2> QED BY <2>1, <2>2, <2>3, <2>4
<1> QED BY <1>3, <1>4 DEF ManifestsMatch

\* Where a snapshot has a directory, what it refers to has one.
LEMMA ParentsHaveDirectories ==
    ASSUME IInv, DirectoryInv, attached, NEW x \in DOMAIN disk
    PROVE  Refs(disk[x]) \subseteq DOMAIN disk
<1>1. DOMAIN disk = {id \in known : records[id].durable}
                        \cup (IF call.pc = "retract" THEN {call.row.id} ELSE {})
  BY DEF IInv, RegistryInv, DirectoriesAreRecords
<1>2. x \in known /\ records[x].persistence = "disk"
  BY <1>1 DEF IInv, CallInv, CallHolds, Loose, RegistryInv, DurableIsDisk
<1>3. Refs(disk[x]) = Refs(records[x])
  BY <1>2 DEF DirectoryInv, ManifestsMatch, ManifestMatches, Refs
<1>4. ASSUME NEW p \in Refs(records[x]) PROVE p \in DOMAIN disk
  <2>1. p \in known /\ records[p].persistence = "disk"
    BY <1>2, <1>4 DEF IInv, RegistryInv, ParentsRegistered, DirectoryInv, SamePersistence
  <2>2. CASE records[p].durable
    BY <1>1, <2>1, <2>2
  <2>3. CASE ~records[p].durable
    <3>1. Saving /\ p = call.row.id
      BY <2>1, <2>3 DEF DirectoryInv
    <3>2. records[p].refcount = 0
      BY <3>1 DEF Saving, IInv, CallInv, CallHolds, Loose
    <3> QED BY <1>2, <1>4, <2>1, <3>2, LooseIsChildless
  <2> QED BY <2>2, <2>3
<1> QED BY <1>3, <1>4

LEMMA PartialStep ==
    ASSUME IInv, DirectoryInv, [Next]_vars
    PROVE  /\ ~attached' => \A x \in DOMAIN disk' : Refs(disk'[x]) \subseteq DOMAIN disk'
           /\ attached' => partial' \subseteq (IF call'.pc = "unlink" THEN {call'.victim}
                                            ELSE IF call'.pc = "retract" THEN {call'.row.id} ELSE {})
           /\ ~attached' /\ ~CrashInUnlink => partial' = {}
<1>0. call \in Call /\ attached \in BOOLEAN
  BY DEF IInv, TypeOK
<1>1. CASE Crash
  <2>1. attached /\ ~attached' /\ disk' = disk /\ partial' = partial
        /\ (CrashInUnlink \/ call.pc \notin {"unlink", "retract"})
    BY <1>1 DEF Crash, diskVars
  <2>2. call.pc \notin {"unlink", "retract"} => partial = {}
    BY <2>1 DEF DirectoryInv
  <2> QED BY <2>1, <2>2, ParentsHaveDirectories
<1>2. CASE Attach
  BY <1>2 DEF Attach, LoadIndex, IndexLoads, diskVars
<1>3. CASE ~Attach /\ ~Crash
  <2>0. attached' = attached
    BY <1>3, FieldsKept
  <2>1. CASE ~attached
    <3>1. call.pc = "idle"
      BY <2>1 DEF IInv, CallInv, CallSteps
    <3>2. UNCHANGED diskVars
      BY <3>1, DiskStep DEF Unlink, Publish, PublishFails, Published, Retract
    <3> QED BY <2>0, <2>1, <3>2 DEF diskVars, DirectoryInv
  <2>2. CASE attached
    <3>1. partial \subseteq (IF call.pc = "unlink" THEN {call.victim}
                            ELSE IF call.pc = "retract" THEN {call.row.id} ELSE {})
      BY <2>2 DEF DirectoryInv
    <3>2. CASE Unlink \/ Retract
      BY <2>0, <2>2, <3>1, <3>2 DEF Unlink, Retract
    <3>3. CASE Publish \/ PublishFails
      <4>1. call.pc = "save" /\ partial = {}
        BY <3>1, <3>3 DEF Publish, PublishFails, Published
      <4>2. CASE Publish
        BY <2>0, <2>2, <4>1, <4>2 DEF Publish
      <4>3. CASE PublishFails
        <5>1. call' = [call EXCEPT !.pc = "retract"] /\ partial' = {call.row.id}
          BY <4>1, <4>3 DEF PublishFails
        <5>2. call'.pc = "retract" /\ call'.row = call.row
          BY <1>0, <5>1 DEF Call
        <5> QED BY <2>0, <2>2, <5>1, <5>2
      <4> QED BY <3>3, <4>2, <4>3
    <3>4. CASE /\ disk' = disk /\ call.pc \in {"expire", "drop"} /\ call'.pc = "unlink"
               /\ partial' = partial \cup {call'.victim}
      BY <2>0, <2>2, <3>1, <3>4
    <3>5. CASE /\ UNCHANGED diskVars
               /\ \/ call'.pc = call.pc /\ call'.victim = call.victim /\ call'.row = call.row
                  \/ call.pc \notin {"unlink", "retract"} /\ call'.pc \notin {"unlink", "retract"}
      BY <2>0, <2>2, <3>1, <3>5 DEF diskVars
    <3> QED BY <1>3, <2>0, <2>2, <3>2, <3>3, <3>4, <3>5, DiskStep
  <2> QED BY <2>1, <2>2
<1> QED BY <1>1, <1>2, <1>3

LEMMA DirectoryStep ==
    ASSUME IInv, LedgerInv, DirectoryInv, [Next]_vars
    PROVE  DirectoryInv'
BY PersistenceStep, UndurableStep, ManifestStep, PartialStep DEF DirectoryInv

----------------------------------------------------------------------------
(* What is pending, and what the worker holds.                             *)

LEMMA PromotedStep ==
    ASSUME IInv, DirectoryInv, MemoInv, PendingInv, [Next]_vars
    PROVE  /\ \A x \in known' : PromotedIs30(records'[x])
           /\ \A x \in DOMAIN disk' : PromotedIs30(disk'[x])
           /\ call'.op = "register" => PromotedIs30(call'.row)
<1>1. \A x \in known' : PromotedIs30(records'[x])
  <2>1. CASE Crash
    BY <2>1 DEF Crash, known, Nothing
  <2>2. CASE Attach
    BY <2>2 DEF Attach, LoadIndex, IndexRecord, known, MemoInv, PromotedIs30
  <2>3. CASE ~Attach /\ ~Crash
    BY <2>3, FieldsKept DEF Says, PromotedIs30, MemoInv, Inserts
  <2> QED BY <2>1, <2>2, <2>3
<1>2. \A x \in DOMAIN disk' : PromotedIs30(disk'[x])
  <2>1. CASE disk' = disk
    BY <2>1 DEF MemoInv
  <2>2. CASE Unlink \/ Retract
    BY <2>2 DEF Unlink, Retract, Without, Restrict, MemoInv
  <2>3. CASE Publish \/ PublishFails
    <3>1. /\ call.row.id \in known
          /\ disk' = With(disk, call.row.id, ManifestOf(records[call.row.id]))
      BY <2>3 DEF Publish, PublishFails, Published, IInv, CallInv, CallHolds, Loose
    <3> QED BY <2>3, <3>1 DEF With, ManifestOf, PromotedIs30, MemoInv
  <2> QED BY <2>1, <2>2, <2>3, DiskStep DEF diskVars
<1>3. ASSUME call'.op = "register" PROVE PromotedIs30(call'.row)
  <2>1. CASE call.op = "register" /\ call'.row = call.row
    BY <2>1 DEF MemoInv
  <2>2. CASE \E w \in pending, q \in Persistence, b \in Boundaries : Register(w, q, b)
    <3>1. PICK w \in pending, q \in Persistence, b \in Boundaries : Register(w, q, b)
      BY <2>2
    <3>2. call' = [Started("register", "expire", "admit") EXCEPT !.row = RowFor(w, q, b)]
      BY <3>1 DEF Register, CallRegister
    <3>3. call'.row = RowFor(w, q, b)
      BY <3>2 DEF Started, Ended
    <3>4. w.kind = "promote" => w.depth = 30
      BY DEF PendingInv
    <3> QED BY <3>3, <3>4 DEF RowFor, PromotedIs30
  <2> QED BY <1>3, <2>1, <2>2, RowStep
<1> QED BY <1>1, <1>2, <1>3

\* What is pending was pending, or has just been published.
LEMMA PendingStep ==
    ASSUME IInv, [Next]_vars
    PROVE  \/ pending' = pending
           \/ pending' = {} /\ call'.op = "none"
           \/ Idle /\ call'.op = "none" /\ records' = records
              /\ \E id : pending' = {w \in pending : w.id # id} /\ held' = Without(held, id)
           \/ /\ call.op = "register" /\ call'.op = "none" /\ (InsertRow \/ Publish)
              /\ pending' = {w \in pending : w.id # call.row.id}
           \/ /\ Infers /\ call'.op = "none" /\ records' = records /\ attached' = attached
              /\ \/ \E a \in Fresh :
                       \/ \E depth \in Depth : Create(a, depth)
                       \/ \E b \in Fresh : CreatePair(a, b)
                       \/ \E p \in outer : Promote(p, a)
                 \/ \E p \in outer, S \in (SUBSET Fresh) \ {{}}, kind \in {"branch", "orphan"} :
                       Branch(p, S, kind)
<1>1. \A ok \in BOOLEAN : Ended(ok).op = "none"
  BY EndedFields
<1>2. CASE StoreStep
  <2>1. CASE \E id \in known : ReclaimMemory(id) \/ ReclaimDisk(id)
    BY <2>1 DEF ReclaimMemory, ReclaimDisk, clientVars
  <2>2. CASE Unlink \/ ExpireDone \/ AdmitRow \/ RefuseRow \/ StoreFull \/ LoadRefused \/ Load
             \/ DropTarget \/ PublishFails \/ Retract
    BY <2>2 DEF Unlink, ExpireDone, AdmitRow, RefuseRow, StoreFull, LoadRefused, Load, DropTarget,
       PublishFails, Retract, clientVars
  <2>3. CASE TransportFails \/ SaveFails
    BY <1>1, <2>3 DEF TransportFails, SaveFails, LoseWorker, Raises
  <2>4. CASE InsertRow
    BY <1>1, <2>4 DEF InsertRow, Registered, clientVars
  <2>5. CASE Publish
    <3>1. call.op = "register"
      BY <2>5, BusyFacts DEF Publish, Published
    <3> QED BY <1>1, <2>5, <3>1 DEF Publish, Registered
  <2>6. CASE \E c \in known : EvictDisk(c) \/ EvictMemory(c)
    BY <2>6 DEF EvictDisk, EvictMemory, clientVars
  <2> QED BY <1>2, <2>1, <2>2, <2>3, <2>4, <2>5, <2>6 DEF StoreStep
<1>3. CASE Client
  <2>1. CASE CallExpire \/ Release
             \/ \E id \in known : Get(id) \/ Lease(id) \/ CallRestore(id) \/ CallDelete(id)
    BY <2>1 DEF CallExpire, Release, Get, Lease, CallRestore, CallDelete, clientVars
  <2>2. CASE \E p \in known : ConsultMemo(p) \/ \E c \in known : Memoize(p, c)
    BY <2>2 DEF ConsultMemo, Memoize, clientVars
  <2>3. ASSUME NEW hs, NEW kind, Publishes(hs, kind)
        PROVE  call'.op = "none" /\ records' = records /\ attached' = attached
    BY <1>1, <2>3 DEF Publishes, Returns, storeVars
  <2>4. CASE \E a \in Fresh :
              \/ \E depth \in Depth : Create(a, depth)
              \/ \E b \in Fresh : CreatePair(a, b)
              \/ \E p \in outer : Promote(p, a)
    <3>1. Infers /\ \E hs, kind : Publishes(hs, kind)
      BY <2>4 DEF Create, CreatePair, Promote
    <3> QED BY <2>3, <2>4, <3>1
  <2>5. CASE \E p \in outer, S \in (SUBSET Fresh) \ {{}}, kind \in {"branch", "orphan"} :
              Branch(p, S, kind)
    <3>1. Infers /\ \E hs, kind : Publishes(hs, kind)
      BY <2>5 DEF Branch
    <3> QED BY <2>3, <2>5, <3>1
  <2>6. CASE \E id : GiveUp(id)
    BY <1>1, <2>6 DEF GiveUp, NativeDrop, Returns, storeVars
  <2>7. CASE \E w \in pending, q \in Persistence, b \in Boundaries : Register(w, q, b)
    BY <2>7 DEF Register, CallRegister, clientVars
  <2>8. CASE CommandLost
    BY <1>1, <2>8 DEF CommandLost, LoseWorker
  <2> QED BY <1>3, <2>1, <2>2, <2>4, <2>5, <2>6, <2>7, <2>8 DEF Client
<1>4. CASE Attach
  BY <1>4 DEF Attach, clientVars
<1>5. CASE Crash
  BY <1>1, <1>5 DEF Crash, LoseWorker
<1>6. CASE WorkerDies \/ (\E id : Tick(id)) \/ UNCHANGED vars
  BY <1>6 DEF WorkerDies, Tick, vars, clientVars
<1> QED BY <1>2, <1>3, <1>4, <1>5, <1>6 DEF Next

\* The rows of a reply, and what the worker holds for them.
RowsOf(hs, kind) ==
    /\ \A w \in pending' :
          /\ w.id \in DOMAIN hs /\ held'[w.id] = hs[w.id] /\ w.kind = kind
          /\ w.depth = hs[w.id].depth /\ w.parent = hs[w.id].parent
          /\ w.hostBytes = RowBytes(w.id, hs[w.id])
    /\ \A v, w \in pending' : v.id = w.id => v = w
    /\ \A x \in DOMAIN hs : \E w \in pending' : w.id = x
    /\ DOMAIN held' = DOMAIN held \cup DOMAIN hs
    /\ \A x \in DOMAIN held \ DOMAIN hs : held'[x] = held[x]

LEMMA PublishedRows ==
    ASSUME NEW hs, NEW kind, Publishes(hs, kind)
    PROVE  RowsOf(hs, kind)
<1> DEFINE row(x) == [id |-> x, depth |-> hs[x].depth, parent |-> hs[x].parent,
                      hostBytes |-> RowBytes(x, hs[x]), kind |-> kind]
<1>1. pending' = {row(x) : x \in DOMAIN hs}
  BY DEF Publishes
<1>2. \A x : /\ row(x).id = x /\ row(x).kind = kind /\ row(x).depth = hs[x].depth
             /\ row(x).parent = hs[x].parent /\ row(x).hostBytes = RowBytes(x, hs[x])
  OBVIOUS
<1>3. held' = [x \in DOMAIN held \cup DOMAIN hs |-> IF x \in DOMAIN hs THEN hs[x] ELSE held[x]]
  BY DEF Publishes
<1> HIDE DEF row
<1>4. \A w \in pending' : /\ w.id \in DOMAIN hs /\ w = row(w.id)
  BY <1>1, <1>2
<1>5. \A x \in DOMAIN hs : \E w \in pending' : w.id = x
  BY <1>1, <1>2
<1>6. \A v, w \in pending' : v.id = w.id => v = w
  BY <1>4
<1>7. \A w \in pending' :
          /\ w.id \in DOMAIN hs /\ w.kind = kind
          /\ w.depth = hs[w.id].depth /\ w.parent = hs[w.id].parent
          /\ w.hostBytes = RowBytes(w.id, hs[w.id])
  BY <1>2, <1>4
<1> QED BY <1>3, <1>5, <1>6, <1>7 DEF RowsOf

\* The size of a row says whose lower K/V it extends.
LEMMA RowSize ==
    ASSUME NEW x, NEW h, h.depth \in Depth, h.depth = 18 => h.lower = x,
           h.lower # x => h.lower = h.parent,
           NEW w, w.depth = h.depth, w.parent = h.parent, w.hostBytes = RowBytes(x, h)
    PROVE  Sized(w) /\ (OwnsLower(w) <=> h.lower = x) /\ Matches(h, x, w)
BY BytesAssumption DEF Sized, OwnsLower, UpperPart, Matches, RowBytes, Depth

\* What a reply holds is what a registration may rely on.
Rows ==
    /\ \A w \in pending' :
          /\ w.id \in Fresh /\ Sized(w) /\ PendingShares(w)' /\ (w.kind = "promote" => w.depth = 30)
          /\ Matches(held'[w.id], w.id, w)
    /\ \A v, w \in pending' : v.id = w.id => v = w
    /\ \A x \in DOMAIN held' :
          \/ x \in DOMAIN held /\ held'[x] = held[x]
          \/ x \in Fresh

LEMMA CreateRows ==
    ASSUME IInv, NEW a \in Fresh, NEW b \in Fresh, NEW depth \in Depth,
           Create(a, depth) \/ CreatePair(a, b)
    PROVE  Rows
<1>0. Fresh \cap DOMAIN held = {} /\ a \in Ids /\ b \in Ids /\ a # None
  BY IdsAssumption DEF Fresh
<1>1. CASE Create(a, depth)
  <2> DEFINE hs == [x \in {a} |-> [depth |-> depth, parent |-> None, lower |-> a]]
  <2>1. RowsOf(hs, "capture")
    BY <1>1, PublishedRows DEF Create
  <2>2. DOMAIN hs = {a} /\ hs[a].depth = depth /\ hs[a].parent = None /\ hs[a].lower = a
    OBVIOUS
  <2> HIDE DEF hs
  <2>3. ASSUME NEW w \in pending'
        PROVE  /\ w.id = a /\ w.kind = "capture" /\ Sized(w) /\ OwnsLower(w)
               /\ Matches(held'[w.id], w.id, w)
    <3>1. /\ w.id = a /\ held'[a] = hs[a] /\ w.kind = "capture" /\ w.depth = hs[a].depth
          /\ w.parent = hs[a].parent /\ w.hostBytes = RowBytes(a, hs[a])
      BY <2>1, <2>2, <2>3 DEF RowsOf
    <3>2. Sized(w) /\ OwnsLower(w) /\ Matches(hs[a], a, w)
      BY <2>2, <3>1, RowSize
    <3> QED BY <3>1, <3>2
  <2>4. /\ \A v, w \in pending' : v.id = w.id => v = w
        /\ DOMAIN held' = DOMAIN held \cup DOMAIN hs
        /\ \A x \in DOMAIN held \ DOMAIN hs : held'[x] = held[x]
    BY <2>1 DEF RowsOf
  <2> QED BY <1>0, <2>2, <2>3, <2>4 DEF Rows, PendingShares
<1>2. CASE CreatePair(a, b)
  <2> DEFINE hs == [x \in {a, b} |-> IF x = a THEN [depth |-> 18, parent |-> None, lower |-> a]
                                     ELSE [depth |-> 30, parent |-> a, lower |-> a]]
  <2>1. RowsOf(hs, "capture") /\ a # b
    BY <1>2, PublishedRows DEF CreatePair
  <2>2. /\ DOMAIN hs = {a, b} /\ hs[a].depth = 18 /\ hs[a].parent = None /\ hs[a].lower = a
        /\ hs[b].depth = 30 /\ hs[b].parent = a /\ hs[b].lower = a
    BY <2>1
  <2> HIDE DEF hs
  <2>3. ASSUME NEW w \in pending'
        PROVE  /\ w.id \in {a, b} /\ w.kind = "capture" /\ Sized(w) /\ Matches(held'[w.id], w.id, w)
               /\ w.id = a => OwnsLower(w) /\ w.depth = 18
               /\ w.id = b => w.parent = a
    <3>1. /\ w.id \in {a, b} /\ held'[w.id] = hs[w.id] /\ w.kind = "capture"
          /\ w.depth = hs[w.id].depth
          /\ w.parent = hs[w.id].parent /\ w.hostBytes = RowBytes(w.id, hs[w.id])
      BY <2>1, <2>2, <2>3 DEF RowsOf
    <3>2. /\ hs[w.id].depth \in Depth /\ (hs[w.id].depth = 18 => hs[w.id].lower = w.id)
          /\ (hs[w.id].lower # w.id => hs[w.id].lower = hs[w.id].parent)
      BY <2>2, <3>1 DEF Depth
    <3>3. Sized(w) /\ (OwnsLower(w) <=> hs[w.id].lower = w.id) /\ Matches(hs[w.id], w.id, w)
      BY <3>1, <3>2, RowSize
    <3> QED BY <2>1, <2>2, <3>1, <3>3
  <2>4. /\ \A v, w \in pending' : v.id = w.id => v = w
        /\ DOMAIN held' = DOMAIN held \cup DOMAIN hs
        /\ \A x \in DOMAIN held \ DOMAIN hs : held'[x] = held[x]
        /\ \A x \in DOMAIN hs : \E w \in pending' : w.id = x
    BY <2>1 DEF RowsOf
  <2>5. PICK v \in pending' : v.id = a
    BY <2>2, <2>4
  <2>6. ASSUME NEW w \in pending', ~OwnsLower(w)
        PROVE  pending' = {v, w} /\ v.id = w.parent /\ v.depth = 18
    <3>1. w.id = b
      BY <2>3, <2>6
    <3>2. \A u \in pending' : u = v \/ u = w
      BY <2>3, <2>4, <2>5, <3>1
    <3> QED BY <2>3, <2>5, <3>1, <3>2
  <2>7. \A w \in pending' : PendingShares(w)'
    BY <2>5, <2>6 DEF PendingShares
  <2> QED BY <1>0, <2>2, <2>3, <2>4, <2>7 DEF Rows
<1> QED BY <1>1, <1>2

\* An 18 in the worker owns its lower K/V; what is promoted shares it.
LEMMA PromoteRows ==
    ASSUME IInv, WorkerInv, LedgerInv, HeldMatches, NEW a \in Fresh, NEW p \in outer, Promote(p, a)
    PROVE  Rows
<1>0. /\ Fresh \cap DOMAIN held = {} /\ a \in Ids /\ a \notin known
      /\ p \in known /\ p # None
  BY IdsAssumption DEF Fresh, IInv, TypeOK, RegistryInv, PinsRegistered
<1>1. /\ Serving /\ p \in DOMAIN held /\ LendsLower(p) /\ records[p].depth = 18
      /\ records' = records
  BY <1>0 DEF Promote, Infers, Idle, Answers, Serving, LendsLower, Publishes, storeVars
<1>2. held[p].lower = p
  BY <1>0, <1>1 DEF HeldMatches, Matches, LedgerInv, Sized
<1> DEFINE hs == [x \in {a} |-> [depth |-> 30, parent |-> p, lower |-> held[p].lower]]
<1>3. RowsOf(hs, "promote")
  BY PublishedRows DEF Promote
<1>4. DOMAIN hs = {a} /\ hs[a].depth = 30 /\ hs[a].parent = p /\ hs[a].lower = p
  BY <1>2
<1> HIDE DEF hs
<1>5. ASSUME NEW w \in pending'
      PROVE  /\ w.id = a /\ Sized(w) /\ w.depth = 30 /\ w.parent = p
             /\ Matches(held'[w.id], w.id, w)
  <2>1. /\ w.id = a /\ held'[a] = hs[a] /\ w.depth = hs[a].depth
        /\ w.parent = hs[a].parent /\ w.hostBytes = RowBytes(a, hs[a])
    BY <1>3, <1>4, <1>5 DEF RowsOf
  <2>2. hs[a].depth \in Depth /\ (hs[a].depth = 18 => hs[a].lower = a)
        /\ (hs[a].lower # a => hs[a].lower = hs[a].parent)
    BY <1>4 DEF Depth
  <2>3. Sized(w) /\ Matches(hs[a], a, w)
    BY <2>1, <2>2, RowSize
  <2> QED BY <1>4, <2>1, <2>3
<1>6. /\ \A v, w \in pending' : v.id = w.id => v = w
      /\ DOMAIN held' = DOMAIN held \cup DOMAIN hs
      /\ \A x \in DOMAIN held \ DOMAIN hs : held'[x] = held[x]
  BY <1>3 DEF RowsOf
<1>7. ASSUME NEW w \in pending' PROVE PendingShares(w)'
  <2>1. pending' = {w} /\ w.parent = p
    BY <1>5, <1>6
  <2> QED BY <1>0, <1>1, <2>1 DEF PendingShares, LendsLower, known
<1> QED BY <1>0, <1>4, <1>5, <1>6, <1>7 DEF Rows

LEMMA BranchRows ==
    ASSUME IInv, NEW p \in outer, NEW S \in SUBSET Fresh, NEW kind \in {"branch", "orphan"},
           Branch(p, S, kind)
    PROVE  Rows
<1>0. Fresh \cap DOMAIN held = {}
  BY DEF Fresh
<1> DEFINE hs == [x \in S |-> [depth |-> 30, parent |-> p, lower |-> x]]
<1>1. RowsOf(hs, kind)
  BY PublishedRows DEF Branch
<1>2. DOMAIN hs = S /\ \A x \in S : hs[x].depth = 30 /\ hs[x].parent = p /\ hs[x].lower = x
  OBVIOUS
<1> HIDE DEF hs
<1>3. ASSUME NEW w \in pending'
      PROVE  /\ w.id \in S /\ w.kind = kind /\ Sized(w) /\ OwnsLower(w)
             /\ Matches(held'[w.id], w.id, w)
  <2>1. /\ w.id \in S /\ held'[w.id] = hs[w.id] /\ w.kind = kind
        /\ w.depth = hs[w.id].depth
        /\ w.parent = hs[w.id].parent /\ w.hostBytes = RowBytes(w.id, hs[w.id])
    BY <1>1, <1>2, <1>3 DEF RowsOf
  <2>2. hs[w.id].depth \in Depth /\ hs[w.id].lower = w.id
    BY <1>2, <2>1 DEF Depth
  <2>3. Sized(w) /\ OwnsLower(w) /\ Matches(hs[w.id], w.id, w)
    BY <2>1, <2>2, RowSize
  <2> QED BY <2>1, <2>3
<1>4. /\ \A v, w \in pending' : v.id = w.id => v = w
      /\ DOMAIN held' = DOMAIN held \cup DOMAIN hs
      /\ \A x \in DOMAIN held \ DOMAIN hs : held'[x] = held[x]
  BY <1>1 DEF RowsOf
<1> QED BY <1>0, <1>2, <1>3, <1>4 DEF Rows, PendingShares

\* Who saves is registering.
LEMMA SavesRegister ==
    ASSUME IInv', Saving'
    PROVE  call'.op = "register" /\ call'.row.id \in known'
BY DEF IInv, TypeOK, Call, CallInv, CallSteps, CallHolds, Saving, Expiring, Loose

\* A call that enters with nothing pending keeps it so.
LEMMA OpStep ==
    ASSUME IInv, [Next]_vars, call'.op \in {"expire", "restore"}
    PROVE  call.op = call'.op \/ pending = {}
<1>0. call \in Call
  BY DEF IInv, TypeOK
<1>1. \A ok \in BOOLEAN : Ended(ok).op = "none"
  BY EndedFields
<1>2. ASSUME Raises PROVE call'.op = "none"
  BY <1>1, <1>2 DEF Raises
<1>3. CASE StoreStep
  <2>1. CASE \E id \in known : ReclaimMemory(id) \/ ReclaimDisk(id)
    BY <1>0, <2>1 DEF ReclaimMemory, ReclaimDisk, Call
  <2>2. CASE Unlink \/ ExpireDone \/ AdmitRow \/ RefuseRow \/ StoreFull \/ LoadRefused \/ TransportFails
    BY <1>0, <1>1, <1>2, <2>2
       DEF Unlink, ExpireDone, AdmitRow, RefuseRow, StoreFull, LoadRefused, TransportFails, Call
  <2>3. CASE InsertRow \/ Publish \/ PublishFails \/ Retract \/ SaveFails
    BY <1>0, <1>1, <2>3 DEF InsertRow, Publish, PublishFails, Retract, SaveFails, Call
  <2>4. CASE \E c \in known : EvictDisk(c) \/ EvictMemory(c)
    BY <1>0, <1>2, <2>4 DEF EvictDisk, EvictMemory
  <2>5. CASE Load \/ DropTarget
    BY <1>0, <1>1, <2>5 DEF Load, DropTarget, Call
  <2> QED BY <1>3, <2>1, <2>2, <2>3, <2>4, <2>5 DEF StoreStep
<1>4. CASE Client
  <2>1. CASE CallExpire /\ pending = {}
    BY <2>1
  <2>2. CASE \E id \in known : CallDelete(id)
    BY <2>2 DEF CallDelete, Started, Ended
  <2>3. CASE pending = {} /\ \E id \in known : Get(id) \/ Lease(id) \/ CallRestore(id)
    BY <2>3
  <2>4. CASE \E p \in known : ConsultMemo(p) \/ \E c \in known : Memoize(p, c)
    BY <1>1, <2>4 DEF ConsultMemo, Memoize, Returns
  <2>5. CASE \E hs, kind : Publishes(hs, kind)
    BY <1>1, <2>5 DEF Publishes, Returns
  <2>6. CASE \E id : GiveUp(id)
    BY <1>1, <2>6 DEF GiveUp, Returns
  <2>7. CASE Release \/ CommandLost
    BY <1>1, <2>7 DEF Release, CommandLost, Idle
  <2>8. CASE \E w \in pending, q \in Persistence, b \in Boundaries : Register(w, q, b)
    BY <2>8 DEF Register, CallRegister, Started, Ended
  <2> QED BY <1>4, <2>1, <2>2, <2>3, <2>4, <2>5, <2>6, <2>7, <2>8 DEF Client, Create, CreatePair, Promote, Branch
<1>5. CASE Attach \/ Crash
  BY <1>1, <1>5 DEF Attach, Crash, Returns
<1>6. CASE WorkerDies \/ (\E id : Tick(id)) \/ UNCHANGED vars
  BY <1>6 DEF WorkerDies, Tick, vars
<1> QED BY <1>3, <1>4, <1>5, <1>6 DEF Next

\* What a row extends is registered only as an 18 in memory.
ParentLends(w) == w.parent # None /\ (w.parent \in known => LendsLower(w.parent))

\* The row of a registration is one of those pending.
LEMMA RowIsPending ==
    ASSUME PendingInv, call.op = "register", NEW w \in pending, pending = {w} \/ w.id = call.row.id
    PROVE  /\ w.id = call.row.id /\ w.depth = call.row.depth
           /\ w.parent = call.row.parent /\ w.hostBytes = call.row.hostBytes
BY DEF PendingInv

LEMMA LendsKept ==
    ASSUME IInv, WorkerInv, PendingInv, [Next]_vars, NEW w \in pending, pending = {w}, ParentLends(w)
    PROVE  ParentLends(w)'
<1> DEFINE p == w.parent
<1>0. p # None /\ (p \in known => LendsLower(p)) /\ w \in WorkerRow
  BY DEF ParentLends, IInv, TypeOK
<1>1. CASE Unchanged \/ Remembers \/ (Publish /\ Marks) \/ \E id \in known : Removes(id)
  BY <1>0, <1>1 DEF Unchanged, Remembers, Marks, Removes, Kept, Same, LendsLower, ParentLends
<1>2. CASE InsertRow /\ Inserts
  <2>1. w.id = call.row.id /\ p = call.row.parent
    BY <1>2, RowIsPending DEF Inserts
  <2>2. p \in known
    BY <1>0, <1>2, <2>1 DEF Inserts, Refs
  <2> QED BY <1>0, <1>2, <2>2 DEF Inserts, Kept, Same, LendsLower, ParentLends
<1>3. CASE \E c \in known : EvictDisk(c) /\ Moved(c, records[c].hostBytes, FALSE)
  <2>1. PICK c \in known : EvictDisk(c) /\ Moved(c, records[c].hostBytes, FALSE)
    BY <1>3
  <2>2. call.pc = "budget" /\ call.op = "register" /\ records[c].leases = 0
    BY <2>1, BusyFacts DEF EvictDisk, Over, LeastRecentlyUsed, Candidates, PendingInv
  <2>3. p # c
    <3>1. p = call.row.parent
      BY <2>2, RowIsPending
    <3>2. Refs(call.row) \subseteq call.pinned
      BY <2>2 DEF IInv, CallInv, CallHolds, Admitted
    <3>3. ASSUME p = c PROVE FALSE
      <4>1. c \in call.pinned
        BY <1>0, <3>1, <3>2, <3>3 DEF Refs
      <4>2. records[c].leases = (IF c \in outer THEN 1 ELSE 0) + 1
        BY <4>1 DEF IInv, RegistryInv, LeasesExact
      <4> QED BY <2>2, <4>2
    <3> QED BY <3>3
  <2> QED BY <1>0, <2>1, <2>3 DEF Moved, Kept, Same, LendsLower, ParentLends
<1>4. ~Load /\ ~Attach
  BY DEF Load, LoadDue, Attach, PendingInv
<1>5. CASE Crash
  BY <1>0, <1>5 DEF Crash, known, Nothing, ParentLends
<1> QED BY <1>1, <1>2, <1>3, <1>4, <1>5, StepEffect

\* What was published and is still pending shares as it did.
LEMMA SharesKept ==
    ASSUME IInv, WorkerInv, PendingInv, [Next]_vars, pending' \subseteq pending, NEW w \in pending',
           \/ pending' = pending
           \/ Idle /\ records' = records
           \/ call.op = "register" /\ (InsertRow \/ Publish)
              /\ pending' = {v \in pending : v.id # call.row.id}
    PROVE  PendingShares(w)'
<1>0. w \in pending /\ PendingShares(w)
  BY DEF PendingInv
<1>1. CASE OwnsLower(w)
  BY <1>1 DEF PendingShares
<1>2. CASE pending = {w} /\ w.parent # None /\ (w.parent \in known => LendsLower(w.parent))
  <2>1. ParentLends(w)'
    BY <1>0, <1>2, LendsKept DEF ParentLends
  <2>2. pending' = {w}
    BY <1>2
  <2> QED BY <2>1, <2>2 DEF PendingShares, ParentLends
<1>3. CASE \E v \in pending : pending = {v, w} /\ v.id = w.parent /\ v.depth = 18
  <2>1. PICK v \in pending : pending = {v, w} /\ v.id = w.parent /\ v.depth = 18
    BY <1>3
  <2>2. CASE v \in pending'
    <3>1. pending' = {v, w}
      BY <2>1, <2>2
    <3> QED BY <2>1, <3>1 DEF PendingShares
  <2>3. CASE v \notin pending'
    <3>1. pending' = {w} /\ w.parent = v.id /\ v.id # None
      BY <2>1, <2>3, IdsAssumption DEF IInv, TypeOK, WorkerRow
    <3>2. v.id \in known' => LendsLower(v.id)'
      <4>1. CASE Idle /\ records' = records
        <5>1. call.pc = "idle"
          BY <4>1 DEF Idle, IInv, CallInv, CallSteps
        <5>2. v.id \notin known
          BY <5>1 DEF WorkerInv, PendingIsNew, PendingIds
        <5> QED BY <4>1, <5>2 DEF known
      <4>2. CASE call.op = "register" /\ (InsertRow \/ Publish)
                 /\ pending' = {u \in pending : u.id # call.row.id}
        <5>1. v.id = call.row.id
          BY <2>3, <4>2
        <5>2. call.row.depth = 18
          BY <2>1, <4>2, <5>1, RowIsPending
        <5>3. CASE InsertRow
          <6>1. Inserts
            BY <5>3, InsertStep
          <6> QED BY <5>1, <5>2, <6>1 DEF Inserts, Kept, Same, NewRecord, LendsLower
        <5>4. CASE Publish
          <6>1. Marks /\ Saving
            BY <5>4, PublishStep DEF Publish, Published, Saving
          <6>2. records[v.id].depth = 18 /\ records[v.id].resident /\ v.id \in known
            BY <5>1, <5>2, <6>1 DEF PendingInv, WorkerInv, PendingIsNew, Saving, IInv, CallInv,
               CallHolds, Loose
          <6> QED BY <6>1, <6>2 DEF Marks, Same, LendsLower
        <5> QED BY <4>2, <5>3, <5>4
      <4> QED BY <2>3, <4>1, <4>2
    <3> QED BY <3>1, <3>2 DEF PendingShares
  <2> QED BY <2>2, <2>3
<1> QED BY <1>0, <1>1, <1>2, <1>3 DEF PendingShares

\* Commands that publish.
Publishing ==
    \/ \E a \in Fresh :
          \/ \E depth \in Depth : Create(a, depth)
          \/ \E b \in Fresh : CreatePair(a, b)
          \/ \E p \in outer : Promote(p, a)
    \/ \E p \in outer, S \in (SUBSET Fresh) \ {{}}, kind \in {"branch", "orphan"} : Branch(p, S, kind)

LEMMA PublishingRows ==
    ASSUME IInv, WorkerInv, LedgerInv, HeldMatches, Publishing
    PROVE  Rows
<1>1. CASE \E a \in Fresh : \E depth \in Depth : Create(a, depth)
  BY <1>1, CreateRows
<1>2. CASE \E a \in Fresh : \E b \in Fresh : CreatePair(a, b)
  <2>1. PICK a \in Fresh, b \in Fresh : CreatePair(a, b)
    BY <1>2
  <2>2. 18 \in Depth
    BY DEF Depth
  <2> QED BY <2>1, <2>2, CreateRows
<1>3. CASE \E a \in Fresh : \E p \in outer : Promote(p, a)
  BY <1>3, PromoteRows
<1>4. CASE \E p \in outer, S \in (SUBSET Fresh) \ {{}}, kind \in {"branch", "orphan"} : Branch(p, S, kind)
  <2>1. PICK p \in outer, S \in (SUBSET Fresh) \ {{}}, kind \in {"branch", "orphan"} : Branch(p, S, kind)
    BY <1>4
  <2> QED BY <2>1, BranchRows
<1> QED BY <1>1, <1>2, <1>3, <1>4 DEF Publishing

LEMMA PendingRows ==
    ASSUME IInv, WorkerInv, PromiseInv, [Next]_vars
    PROVE  /\ \A v, w \in pending' : v.id = w.id => v = w
           /\ \A w \in pending' : Sized(w) /\ PendingShares(w)' /\ (w.kind = "promote" => w.depth = 30)
<1>0. PendingInv /\ LedgerInv /\ HeldMatches
  BY DEF PromiseInv
<1>1. CASE Infers /\ Publishing
  BY <1>0, <1>1, PublishingRows DEF Rows
<1>2. CASE pending' = {}
  BY <1>2
<1>3. CASE /\ pending' \subseteq pending
           /\ \/ pending' = pending
              \/ Idle /\ records' = records
              \/ call.op = "register" /\ (InsertRow \/ Publish)
                 /\ pending' = {v \in pending : v.id # call.row.id}
  <2>1. \A w \in pending' : PendingShares(w)'
    BY <1>0, <1>3, SharesKept
  <2> QED BY <1>0, <1>3, <2>1 DEF PendingInv
<1> QED BY <1>1, <1>2, <1>3, PendingStep DEF Publishing

LEMMA PendingInvStep ==
    ASSUME IInv, IInv', WorkerInv, PromiseInv, [Next]_vars
    PROVE  PendingInv'
<1>0. PendingInv
  BY DEF PromiseInv
<1>1. call'.op # "none" => pending' = pending
  BY PendingStep
<1>2. call'.op \in {"expire", "restore"} => pending' = {}
  BY <1>0, <1>1, OpStep DEF PendingInv
<1>3. ASSUME call'.op = "register"
      PROVE  \E w \in pending' : /\ w.id = call'.row.id /\ w.depth = call'.row.depth
                                 /\ w.parent = call'.row.parent /\ w.hostBytes = call'.row.hostBytes
  <2>1. CASE call.op = "register" /\ call'.row = call.row
    BY <1>0, <1>1, <1>3, <2>1 DEF PendingInv
  <2>2. CASE \E w \in pending, q \in Persistence, b \in Boundaries : Register(w, q, b)
    <3>1. PICK w \in pending, q \in Persistence, b \in Boundaries : Register(w, q, b)
      BY <2>2
    <3>2. call' = [Started("register", "expire", "admit") EXCEPT !.row = RowFor(w, q, b)]
      BY <3>1 DEF Register, CallRegister
    <3>3. call'.row = RowFor(w, q, b)
      BY <3>2 DEF Started, Ended
    <3> QED BY <1>1, <1>3, <3>3 DEF RowFor
  <2> QED BY <1>3, <2>1, <2>2, RowStep
<1>4. ASSUME Saving' PROVE records'[call'.row.id].depth = call'.row.depth
  <2>1. call'.op = "register" /\ call'.row.id \in known'
    BY <1>4, SavesRegister
  <2>2. call.op = "register" /\ call'.row = call.row
    <3>1. ASSUME NEW w, NEW q, NEW b, Register(w, q, b) PROVE FALSE
      <4>1. call' = [Started("register", "expire", "admit") EXCEPT !.row = RowFor(w, q, b)]
        BY <3>1 DEF Register, CallRegister
      <4>2. call'.pc = "expire"
        BY <4>1 DEF Started, Ended
      <4> QED BY <1>4, <4>2 DEF Saving
    <3> QED BY <2>1, <3>1, RowStep
  <2>3. ~Attach /\ ~Crash
    BY <2>1, EndedFields DEF Attach, Crash, Returns
  <2>4. CASE call.row.id \in known
    <3>1. Saving
      BY <2>2, <2>4 DEF WorkerInv, PendingIsNew, Saving
    <3>2. records[call.row.id].depth = call.row.depth
      BY <1>0, <3>1 DEF PendingInv
    <3>3. Says(records[call.row.id], records'[call.row.id])
      BY <2>1, <2>2, <2>3, <2>4, FieldsKept
    <3> QED BY <2>2, <3>2, <3>3 DEF Says
  <2>5. CASE call.row.id \notin known
    BY <2>1, <2>2, <2>3, <2>5, FieldsKept DEF Says
  <2> QED BY <2>4, <2>5
<1> QED BY <1>2, <1>3, <1>4, PendingRows DEF PendingInv

\* While one worker serves one store, what it held it holds as it did.
HeldKept == \A x \in DOMAIN held' : x \in DOMAIN held /\ held'[x] = held[x]

LEMMA HeldStep ==
    ASSUME IInv, [Next]_vars, Serving', ~Attach
    PROVE  Serving /\ (HeldKept \/ Load \/ (Infers /\ Publishing /\ call'.op = "none" /\ records' = records))
<1>0. attached \in BOOLEAN /\ ready \in BOOLEAN /\ live \in BOOLEAN
  BY DEF IInv, TypeOK
<1>1. ASSUME UNCHANGED workerVars PROVE HeldKept /\ ready' = ready /\ live' = live
  BY <1>1 DEF workerVars, HeldKept
<1>2. ASSUME NEW id, NativeDrop(id) PROVE HeldKept /\ ready' = ready /\ live' = live
  BY <1>2 DEF NativeDrop, HeldKept, Without, Restrict
<1>3. ~LoseWorker
  BY DEF LoseWorker, Serving
<1>4. CASE Infers /\ Publishing /\ call'.op = "none" /\ records' = records
  <2>1. Serving
    BY <1>4 DEF Infers, Idle, Answers, Serving
  <2> QED BY <1>4, <2>1
<1>5. ASSUME ready' = ready, live' = live, attached' = attached PROVE Serving
  BY <1>0, <1>5 DEF Serving
<1>6. ~Crash
  BY <1>3 DEF Crash
<1>7. attached' = attached
  BY <1>6, FieldsKept
<1>8. CASE StoreStep
  <2>1. CASE \E id \in known : ReclaimMemory(id) \/ ReclaimDisk(id)
    BY <1>1, <1>2, <1>5, <1>7, <2>1 DEF ReclaimMemory, ReclaimDisk, DropIfResident
  <2>2. CASE Unlink \/ ExpireDone \/ AdmitRow \/ RefuseRow \/ InsertRow \/ StoreFull \/ LoadRefused
             \/ Publish \/ PublishFails \/ Retract
    BY <1>1, <1>5, <1>7, <2>2 DEF Unlink, ExpireDone, AdmitRow, RefuseRow, InsertRow, StoreFull,
       LoadRefused, Publish, PublishFails, Published, Retract
  <2>3. CASE TransportFails \/ SaveFails
    BY <1>1, <1>3, <1>5, <1>7, <2>3 DEF TransportFails, SaveFails
  <2>4. CASE \E c \in known : EvictDisk(c) \/ EvictMemory(c)
    BY <1>1, <1>2, <1>5, <1>7, <2>4 DEF EvictDisk, EvictMemory
  <2>5. CASE Load
    BY <1>5, <1>7, <2>5 DEF Load
  <2>6. CASE DropTarget
    BY <1>2, <1>5, <1>7, <2>6 DEF DropTarget
  <2> QED BY <1>8, <2>1, <2>2, <2>3, <2>4, <2>5, <2>6 DEF StoreStep
<1>9. CASE Client
  <2>1. CASE CallExpire \/ Release
             \/ \E id \in known : Get(id) \/ Lease(id) \/ CallRestore(id) \/ CallDelete(id)
    BY <1>1, <1>5, <1>7, <2>1 DEF CallExpire, Release, Get, Lease, CallRestore, CallDelete
  <2>2. CASE \E p \in known : ConsultMemo(p) \/ \E c \in known : Memoize(p, c)
    BY <1>1, <1>5, <1>7, <2>2 DEF ConsultMemo, Memoize
  <2>3. CASE Publishing
    <3>1. Infers /\ \E hs, kind : Publishes(hs, kind)
      BY <2>3 DEF Publishing, Create, CreatePair, Promote, Branch
    <3>2. call'.op = "none" /\ records' = records
      BY <3>1, EndedFields DEF Publishes, Returns, storeVars
    <3> QED BY <1>4, <2>3, <3>1, <3>2
  <2>4. CASE \E id : GiveUp(id)
    BY <1>2, <1>5, <1>7, <2>4 DEF GiveUp
  <2>5. CASE \E w \in pending, q \in Persistence, b \in Boundaries : Register(w, q, b)
    BY <1>1, <1>5, <1>7, <2>5 DEF Register, CallRegister
  <2>6. ~CommandLost
    BY <1>3 DEF CommandLost
  <2> QED BY <1>9, <2>1, <2>2, <2>3, <2>4, <2>5, <2>6 DEF Client, Publishing
<1>10. CASE WorkerDies
  BY <1>10 DEF WorkerDies, Serving
<1>11. CASE (\E id : Tick(id)) \/ UNCHANGED vars
  BY <1>1, <1>5, <1>7, <1>11 DEF Tick, vars
<1> QED BY <1>6, <1>8, <1>9, <1>10, <1>11 DEF Next

\* What the worker keeps for a snapshot depends on its record through these.
Keeps(a, b) == b.depth = a.depth /\ b.parent = a.parent /\ b.hostBytes = a.hostBytes

LEMMA KeepsMatches ==
    ASSUME NEW a, NEW b, Keeps(a, b), NEW h, NEW x, Matches(h, x, a)
    PROVE  Matches(h, x, b)
BY DEF Keeps, Matches, OwnsLower, UpperPart

LEMMA SizesKept ==
    ASSUME IInv, [Next]_vars, ~Attach, ~Crash
    PROVE  /\ \A x \in known \cap known' : (Load /\ x = call.target) \/ Keeps(records[x], records'[x])
           /\ \A x \in known' \ known :
                  InsertRow /\ Inserts /\ x = call.row.id /\ Keeps(call.row, records'[x])
<1>1. CASE Unchanged
  BY <1>1 DEF Unchanged, Kept, Same, Keeps
<1>2. CASE Remembers
  BY <1>2 DEF Remembers, Same, Keeps
<1>3. CASE Publish /\ Marks
  BY <1>3 DEF Marks, Same, Keeps
<1>4. CASE InsertRow /\ Inserts
  BY <1>4 DEF Inserts, Kept, Same, Keeps, NewRecord
<1>5. CASE \E id \in known : Removes(id)
  BY <1>5 DEF Removes, Kept, Same, Keeps
<1>6. CASE \E c \in known : EvictDisk(c) /\ Moved(c, records[c].hostBytes, FALSE)
  <2>1. PICK c \in known : Moved(c, records[c].hostBytes, FALSE)
    BY <1>6
  <2>2. records[c] \in Record
    BY DEF IInv, TypeOK
  <2>3. Keeps(records[c], records'[c])
    BY <2>1, <2>2 DEF Moved, Kept, Same, Keeps, Record
  <2> QED BY <2>1, <2>3 DEF Moved, Kept, Same, Keeps
<1>7. CASE Load /\ Moved(call.target, LoadedBytes(records[call.target]), TRUE)
  BY <1>7 DEF Moved, Kept, Same, Keeps
<1> QED BY <1>1, <1>2, <1>3, <1>4, <1>5, <1>6, <1>7, StepEffect

LEMMA LoadMatches ==
    ASSUME IInv, LedgerInv, DirectoryInv, Load, [Next]_vars
    PROVE  Matches(held'[call.target], call.target, records'[call.target])
<1> DEFINE id == call.target
           b == LoadedBytes(records[id])
<1>1. /\ id \in known /\ records[id].durable /\ records[id] \in Record /\ Sized(records[id])
      /\ attached = TRUE
  BY BusyFacts DEF Load, LoadDue, IInv, TypeOK, CallInv, CallHolds, LedgerInv
<1>2. id \in DOMAIN disk /\ disk[id].depth = records[id].depth
  BY <1>1 DEF IInv, RegistryInv, DirectoriesAreRecords, DirectoryInv, ManifestsMatch, ManifestMatches
<1>3. held'[id].depth = records[id].depth /\ held'[id].lower = id
  BY <1>2 DEF Load, With
<1>4. /\ records' = [records EXCEPT ![id].resident = TRUE, ![id].hostBytes = b]
      /\ records \in [known -> Record]
  BY DEF Load, IInv, TypeOK
<1>5. records'[id].depth = records[id].depth /\ records'[id].hostBytes = b
  BY <1>1, <1>4 DEF Record
<1>6. OwnsLower(records'[id])
  BY <1>1, <1>5, LoadedOwns DEF Record
<1> QED BY <1>3, <1>5, <1>6 DEF Matches

LEMMA HeldMatchesStep ==
    ASSUME IInv, WorkerInv, WorkerInv', PromiseInv, [Next]_vars
    PROVE  HeldMatches'
<1>0. PendingInv /\ LedgerInv /\ HeldMatches /\ DirectoryInv
  BY DEF PromiseInv
<1>1. CASE Attach
  BY <1>1, NothingType DEF Attach, StartWorker, clientVars, HeldMatches
<1>2. CASE ~Attach /\ Serving'
  <2>0. ~Crash
    BY <1>2 DEF Crash, Serving
  <2>1. CASE Infers /\ Publishing /\ call'.op = "none" /\ records' = records
    <3>1. Rows
      BY <1>0, <2>1, PublishingRows
    <3>2. Serving
      BY <2>1 DEF Infers, Idle, Answers, Serving
    <3> QED BY <1>0, <2>1, <3>1, <3>2 DEF Rows, HeldMatches, Fresh, known
  <2>2. CASE Serving /\ (HeldKept \/ Load)
    <3>1. ASSUME NEW x \in DOMAIN held', x \in known'
          PROVE  Matches(held'[x], x, records'[x])
      <4>1. CASE Load /\ x = call.target
        BY <1>0, <4>1, LoadMatches
      <4>2. CASE ~(Load /\ x = call.target)
        <5>1. x \in DOMAIN held /\ held'[x] = held[x]
          <6>1. CASE HeldKept
            BY <3>1, <6>1 DEF HeldKept
          <6>2. CASE Load
            <7>1. PICK v : held' = With(held, call.target, v)
              BY <6>2 DEF Load
            <7> QED BY <3>1, <4>2, <6>2, <7>1 DEF With
          <6> QED BY <2>2, <6>1, <6>2
        <5>2. CASE x \in known
          <6>1. Matches(held[x], x, records[x]) /\ Keeps(records[x], records'[x])
            BY <1>0, <1>2, <2>0, <2>2, <3>1, <4>2, <5>1, <5>2, SizesKept DEF HeldMatches
          <6> QED BY <5>1, <6>1, KeepsMatches
        <5>3. CASE x \notin known
          <6>1. Inserts /\ x = call.row.id /\ Keeps(call.row, records'[x])
            BY <1>2, <2>0, <3>1, <5>3, SizesKept
          <6>2. PICK w \in pending : /\ w.id = call.row.id /\ w.depth = call.row.depth
                                     /\ w.parent = call.row.parent /\ w.hostBytes = call.row.hostBytes
            BY <1>0, <6>1 DEF PendingInv, Inserts
          <6>3. Matches(held[x], x, w)
            BY <1>0, <2>2, <6>1, <6>2 DEF HeldMatches
          <6>4. Keeps(w, records'[x])
            BY <6>1, <6>2 DEF Keeps
          <6> QED BY <5>1, <6>3, <6>4, KeepsMatches
        <5> QED BY <5>2, <5>3
      <4> QED BY <4>1, <4>2
    <3>2. ASSUME NEW w \in pending' PROVE Matches(held'[w.id], w.id, w)
      <4>1. w.id \in DOMAIN held'
        BY <1>2 DEF WorkerInv, HeldIsKnown, PendingIds
      <4>2. w \in pending
        <5>1. CASE Infers /\ Publishing
          <6>1. Rows /\ call.op = "none" /\ call.pc = "idle"
            BY <1>0, <5>1, PublishingRows DEF Infers, Idle, IInv, CallInv, CallSteps
          <6>2. HeldKept
            BY <2>2, <6>1 DEF Load, LoadDue
          <6> QED BY <4>1, <6>1, <6>2 DEF Rows, HeldKept, Fresh
        <5>2. CASE pending' \subseteq pending
          BY <5>2
        <5> QED BY <5>1, <5>2, PendingStep DEF Publishing
      <4>3. ~Load
        BY <1>0, <4>2 DEF Load, LoadDue, PendingInv
      <4>4. held'[w.id] = held[w.id]
        BY <2>2, <4>1, <4>3 DEF HeldKept
      <4> QED BY <1>0, <2>2, <4>2, <4>4 DEF HeldMatches
    <3> QED BY <3>1, <3>2 DEF HeldMatches
  <2> QED BY <1>2, <2>1, <2>2, HeldStep
<1>3. CASE ~Serving'
  BY <1>3 DEF HeldMatches
<1> QED BY <1>1, <1>2, <1>3

LEMMA MemoDepths ==
    ASSUME IInv, WorkerInv, MemoInv, DirectoryInv, PendingInv, LedgerInv, HeldMatches, [Next]_vars
    PROVE  /\ \A x \in known' : LET c == records'[x].promotionChild IN
                  c \in known' => records'[c].depth = 30
           /\ PendingIds' \cap Memos' = {}
<1>0. /\ \A x \in known : records[x].promotionChild \in known => records[records[x].promotionChild].depth = 30
      /\ PendingIds \cap Memos = {} /\ None \notin known /\ PendingIds \subseteq Ids
  BY IdsAssumption DEF MemoInv, IInv, TypeOK, PendingIds, WorkerRow
<1>1. CASE Crash
  <2>1. known' = {} /\ pending' = {}
    BY <1>1 DEF Crash, known, Nothing, LoseWorker
  <2> QED BY <2>1 DEF PendingIds
<1>2. CASE Attach
  <2>1. PICK memo \in [DOMAIN disk -> Ref] :
            IndexMemo(memo) /\ records' = [id \in DOMAIN disk |-> IndexRecord(id, memo[id])]
    BY <1>2 DEF Attach, LoadIndex
  <2>2. /\ known' = DOMAIN disk /\ pending' = {}
        /\ \A x \in DOMAIN disk : /\ records'[x].depth = disk[x].depth
                                  /\ records'[x].promotionChild = memo[x]
    BY <1>2, <2>1 DEF Attach, clientVars, IndexRecord, known
  <2>3. ASSUME NEW x \in DOMAIN disk, memo[x] \in DOMAIN disk PROVE disk[memo[x]].depth = 30
    <3>1. memo[x] # None /\ x # None
      BY <2>3, IdsAssumption DEF IInv, TypeOK
    <3>2. disk[memo[x]].promotionOf = x
      BY <2>1, <2>3, <3>1 DEF IndexMemo
    <3> QED BY <2>3, <3>1, <3>2 DEF MemoInv, PromotedIs30
  <2> QED BY <2>2, <2>3 DEF PendingIds
<1>3. CASE ~Attach /\ ~Crash
  <2>1. ASSUME NEW x \in known', x \in known
        PROVE  LET c == records'[x].promotionChild IN
               \/ c \in {records[x].promotionChild, None}
               \/ Idle /\ c \in known /\ records[c].promotionOf = x
    <3>1. CASE Unchanged
      BY <2>1, <3>1 DEF Unchanged, Kept
    <3>2. CASE Remembers
      BY <2>1, <3>2 DEF Remembers
    <3>3. CASE Publish /\ Marks
      BY <2>1, <3>3 DEF Marks
    <3>4. CASE InsertRow /\ Inserts
      BY <2>1, <3>4 DEF Inserts, Kept
    <3>5. CASE \E id \in known : Removes(id)
      BY <2>1, <3>5 DEF Removes, Kept
    <3>6. ASSUME NEW id \in known, NEW bytes, NEW into, Moved(id, bytes, into)
          PROVE  records'[x].promotionChild = records[x].promotionChild
      <4>1. records[id] \in Record
        BY DEF IInv, TypeOK
      <4> QED BY <2>1, <3>6, <4>1 DEF Moved, Kept, Record
    <3>7. CASE \E c \in known : EvictDisk(c) /\ Moved(c, records[c].hostBytes, FALSE)
      BY <3>6, <3>7
    <3>8. CASE Load /\ Moved(call.target, LoadedBytes(records[call.target]), TRUE)
      <4>1. call.target \in known
        BY <3>8 DEF Load, LoadDue, IInv, CallInv, CallHolds
      <4> QED BY <3>6, <3>8, <4>1
    <3> QED BY <1>3, <3>1, <3>2, <3>3, <3>4, <3>5, <3>7, <3>8, StepEffect
  <2>2. ASSUME NEW x \in known', x \notin known
        PROVE  Inserts /\ x = call.row.id /\ records'[x].promotionChild = None
    BY <1>3, <2>2, FieldsKept DEF Inserts, Kept, NewRecord
  <2>3. ASSUME NEW x \in known', records'[x].promotionChild \in known'
        PROVE  records'[records'[x].promotionChild].depth = 30
    <3> DEFINE c == records'[x].promotionChild
    <3>1. CASE x \in known /\ c \in known
      <4>1. records[c].depth = 30
        <5>1. CASE c = records[x].promotionChild
          BY <1>0, <3>1, <5>1
        <5>2. CASE Idle /\ records[c].promotionOf = x
          <6>1. x # None
            BY <1>0, <3>1
          <6> QED BY <3>1, <5>2, <6>1 DEF MemoInv, PromotedIs30
        <5> QED BY <1>0, <2>1, <3>1, <5>1, <5>2
      <4>2. Says(records[c], records'[c])
        BY <1>3, <2>3, <3>1, FieldsKept
      <4> QED BY <4>1, <4>2 DEF Says
    <3>2. CASE x \in known /\ c \notin known
      <4>1. Inserts /\ c = call.row.id
        BY <2>2, <2>3, <3>2
      <4>2. c \in PendingIds
        BY <4>1 DEF WorkerInv, PendingIsNew, Inserts
      <4>3. c # records[x].promotionChild
        BY <1>0, <3>2, <4>2 DEF Memos
      <4>4. c # None
        BY <1>0, <4>2, IdsAssumption
      <4> QED BY <2>1, <3>2, <4>3, <4>4
    <3>3. CASE x \notin known
      <4>1. c = None /\ c # call.row.id /\ c \notin known
        BY <1>0, <2>2, <3>3, IdsAssumption DEF Inserts, Row
      <4> QED BY <2>2, <2>3, <4>1
    <3> QED BY <3>1, <3>2, <3>3
  <2>4. Memos' \subseteq Memos \cup {None} \cup (IF Idle THEN known ELSE {})
    <3>1. \A x \in known' : records'[x].promotionChild \in Memos \cup {None} \cup (IF Idle THEN known ELSE {})
      BY <2>1, <2>2 DEF Memos
    <3> QED BY <3>1 DEF Memos
  <2>5. CASE pending' \subseteq pending
    <3>1. PendingIds' \subseteq PendingIds
      BY <2>5 DEF PendingIds
    <3>2. Idle => PendingIds \cap known = {}
      BY DEF Idle, WorkerInv, PendingIsNew, IInv, CallInv, CallSteps
    <3>3. None \notin PendingIds
      BY <1>0, IdsAssumption
    <3>4. PendingIds' \cap Memos' = {}
      BY <1>0, <2>4, <3>1, <3>2, <3>3
    <3> QED BY <2>3, <3>4
  <2>6. CASE Infers /\ Publishing /\ records' = records
    <3>1. PendingIds' \subseteq Fresh
      BY <2>6, PublishingRows DEF Rows, PendingIds
    <3>2. Memos' = Memos
      BY <2>6 DEF Memos, known
    <3> QED BY <2>3, <3>1, <3>2 DEF Fresh
  <2> QED BY <2>5, <2>6, PendingStep DEF Publishing
<1> QED BY <1>1, <1>2, <1>3

LEMMA MemoStep ==
    ASSUME IInv, WorkerInv, PromiseInv, [Next]_vars
    PROVE  MemoInv'
<1>0. PendingInv /\ DirectoryInv /\ MemoInv /\ LedgerInv /\ HeldMatches
  BY DEF PromiseInv
<1>1. expired' \subseteq known' \cup DOMAIN disk'
  <2>1. CASE Forgotten
    BY <2>1 DEF Forgotten, known
  <2>2. CASE \E id \in known \cup DOMAIN disk : Tick(id)
    BY <1>0, <2>2 DEF Tick, storeVars, diskVars, known, MemoInv
  <2>3. CASE UNCHANGED vars
    BY <1>0, <2>3 DEF vars, storeVars, diskVars, known, MemoInv
  <2> QED BY <2>1, <2>2, <2>3 DEF Next
<1>2. /\ \A x \in known' : PromotedIs30(records'[x])
      /\ \A x \in DOMAIN disk' : PromotedIs30(disk'[x])
      /\ call'.op = "register" => PromotedIs30(call'.row)
  BY <1>0, PromotedStep
<1>3. /\ \A x \in known' : LET c == records'[x].promotionChild IN
                  c \in known' => records'[c].depth = 30
      /\ PendingIds' \cap Memos' = {}
  BY <1>0, MemoDepths
<1> QED BY <1>1, <1>2, <1>3 DEF MemoInv

----------------------------------------------------------------------------
(* The theorems.                                                           *)

LEMMA InitRemoving ==
    ASSUME Init
    PROVE  Removing
<1>1. call.pc = "idle"
  BY EndedFields DEF Init
<1> QED BY <1>1 DEF Removing

\* No store call takes from one client what another was given: neither a
\* leased snapshot from memory nor a published one from disk.
THEOREM NothingIsEverTakenAway == Spec => NothingIsTakenAway
<1>1. Init => Removing
  BY InitRemoving
<1>2. IInv /\ Removing /\ [Next]_vars => KeepsLeased /\ KeepsPublished /\ Removing'
  BY LeasedKept, PublishedKept
<1>3. Spec => [][KeepsLeased /\ KeepsPublished]_vars
  BY <1>1, <1>2, StoreInvariantHolds, PTL DEF Spec
<1>4. Spec => LeasedStaysResident
  BY <1>3, PTL DEF LeasedStaysResident, KeepsLeased
<1>5. Spec => UnpublishedByOwnerOrTTL
  BY <1>3, PTL DEF UnpublishedByOwnerOrTTL, KeepsPublished
<1> QED BY <1>4, <1>5 DEF NothingIsTakenAway

LEMMA InitPromise ==
    ASSUME Init
    PROVE  PromiseInv
<1>1. /\ known = {} /\ DOMAIN held = {} /\ DOMAIN disk = {} /\ pending = {} /\ partial = {}
      /\ expired = {} /\ residentBytes = 0 /\ attached /\ call.op = "none" /\ call.pc = "idle"
  BY NothingType, EndedFields DEF Init, known
<1>2. PendingInv /\ HeldMatches /\ DirectoryInv
  BY <1>1 DEF PendingInv, HeldMatches, DirectoryInv, ManifestsMatch, Saving
<1>3. MemoInv
  BY <1>1 DEF MemoInv, PendingIds
<1>4. LedgerInv
  <2>1. Owners = {} /\ Uppers = {}
    BY <1>1 DEF Owners, Uppers
  <2>2. Cardinality({}) = 0 /\ LowerBytes * 0 = 0 /\ UpperBytes * 0 = 0 /\ 0 <= HostBytes
    BY FS_EmptySet, BytesAssumption
  <2> QED BY <1>1, <2>1, <2>2 DEF LedgerInv, Shares
<1> QED BY <1>2, <1>3, <1>4 DEF PromiseInv

\* What the charge, the directory and the worker's memory consist of is what
\* the registry says, at every step of every call.
THEOREM PromiseInvariantHolds == Spec => [](IInv /\ WorkerInv /\ PromiseInv)
<1>1. Init => PromiseInv
  BY InitPromise
<1>2. /\ IInv /\ WorkerInv /\ PromiseInv /\ [Next]_vars /\ IInv' /\ WorkerInv'
      => PromiseInv'
  BY PendingInvStep, LedgerStep, HeldMatchesStep, DirectoryStep, MemoStep DEF PromiseInv
<1> QED BY <1>1, <1>2, WorkerInvariantHolds, PTL DEF Spec

\* Whatever is killed, unless it is inside _remove_tree, the directory that is
\* left can be loaded by the next start, and no restore from it is refused for
\* what a manifest says.
THEOREM DirectoryIsAlwaysRestorable ==
    ASSUME CrashInUnlink = FALSE
    PROVE  Spec => []DirectoryIsRestorable
<1>1. PromiseInv => DirectoryIsRestorable
  BY DEF PromiseInv, DirectoryInv, DirectoryIsRestorable, CrashLeavesLoadableIndex, IndexLoads
<1> QED BY <1>1, PromiseInvariantHolds, PTL

LEMMA ChargeIsHeld ==
    ASSUME IInv, WorkerInv, PromiseInv, Serving, Idle, \A id \in known : Gettable(id)
    PROVE  residentBytes = HeldBytes
<1> DEFINE kept == DOMAIN held \cap known
<1>1. LedgerInv /\ HeldMatches /\ PendingIds \cap known = {}
  BY DEF PromiseInv, WorkerInv, PendingIsNew, Idle, IInv, CallInv, CallSteps
<1>2. kept = {x \in known : records[x].resident}
  <2>1. call.victim = None /\ None \notin known
    BY IdsAssumption DEF WorkerInv, Idle, IInv, TypeOK, CallInv, CallSteps
  <2> QED BY <1>1, <2>1 DEF WorkerInv, HeldIsKnown, Wanted
<1>3. \A x \in kept : /\ held[x].depth = records[x].depth
                      /\ held[x].lower = IF OwnsLower(records[x]) THEN x ELSE records[x].parent
  BY <1>1 DEF HeldMatches, Matches
<1>4. {x \in kept : held[x].depth = 30} = Uppers
  BY <1>2, <1>3 DEF Uppers
<1>5. {held[x].lower : x \in kept} = Owners
  <2>1. ASSUME NEW x \in kept PROVE held[x].lower \in Owners
    <3>1. CASE OwnsLower(records[x])
      BY <1>2, <1>3, <2>1, <3>1 DEF Owners
    <3>2. CASE ~OwnsLower(records[x])
      <4>1. LendsLower(records[x].parent)
        BY <1>1, <1>2, <2>1, <3>2 DEF LedgerInv, Shares
      <4>2. records[x].parent \in Owners
        BY <1>1, <4>1 DEF LendsLower, LedgerInv, Sized, Owners
      <4> QED BY <1>3, <2>1, <3>2, <4>2
    <3> QED BY <3>1, <3>2
  <2>2. ASSUME NEW x \in Owners PROVE x \in kept /\ held[x].lower = x
    BY <1>2, <1>3, <2>2 DEF Owners
  <2> QED BY <2>1, <2>2
<1> QED BY <1>1, <1>4, <1>5 DEF LedgerInv, HeldBytes

LEMMA ExactBudget ==
    ASSUME IInv, WorkerInv, PromiseInv
    PROVE  BudgetIsExact
<1>1. ChargedIsHeld
  BY ChargeIsHeld DEF ChargedIsHeld
<1>2. WithinBudget
  <2>1. IsFiniteSet(Owners) /\ IsFiniteSet(Uppers)
    BY ChargedSetsFinite
  <2>2. Cardinality(Owners) \in Nat /\ Cardinality(Uppers) \in Nat
    BY <2>1, FS_CardinalityType
  <2>3. \A l, n \in Nat : l * n \in Nat
    OBVIOUS
  <2>4. LowerBytes * Cardinality(Owners) \in Nat /\ UpperBytes * Cardinality(Uppers) \in Nat
    BY <2>2, <2>3, BytesAssumption
  <2> QED BY <2>4, BytesAssumption DEF PromiseInv, LedgerInv, WithinBudget
<1> QED BY <1>1, <1>2 DEF BudgetIsExact

\* The budget is charged exactly what the worker keeps for the registered
\* snapshots, reloads and shared blobs included, and never exceeds the bound.
THEOREM BudgetIsAlwaysExact == Spec => []BudgetIsExact
<1>1. IInv /\ WorkerInv /\ PromiseInv => BudgetIsExact
  BY ExactBudget
<1> QED BY <1>1, PromiseInvariantHolds, PTL

=============================================================================
