---------------------------- MODULE StoreClient ----------------------------
(***************************************************************************)
(* The snapshot store under its most general caller: any store call, any   *)
(* worker command, in any order the service could issue them.  The caller  *)
(* keeps two rules of snapshots/service.py.  Inference on a snapshot       *)
(* happens under a lease on it, which stays open until the ids it made are *)
(* registered; and every id the worker published is registered or given up *)
(* before the next request.                                                *)
(***************************************************************************)
EXTENDS SnapshotStore

CONSTANT
    Boundaries      \* the boundaries callers capture at

ASSUME BoundariesAssumption == Boundaries \subseteq Boundary /\ Boundaries # {}

Memos == {records[x].promotionChild : x \in known}
Fresh == Ids \ (known \cup DOMAIN held \cup DOMAIN disk \cup {w.id : w \in pending} \cup Memos)

----------------------------------------------------------------------------
(* Worker commands that publish snapshots.  hs maps each new id to what    *)
(* the worker then holds for it; the reply has a row for each.             *)

Infers == Idle /\ pending = {} /\ Answers

Publishes(hs, kind) ==
    /\ held' = [x \in DOMAIN held \cup DOMAIN hs |->
                   IF x \in DOMAIN hs THEN hs[x] ELSE held[x]]
    /\ pending' = {[id |-> x, depth |-> hs[x].depth, parent |-> hs[x].parent,
                    hostBytes |-> RowBytes(x, hs[x]), kind |-> kind] : x \in DOMAIN hs}
    /\ Returns
    /\ UNCHANGED <<storeVars, ready, live, diskVars, outer>>

\* create: one checkpoint, or the 18/30 pair over one lower pass.
Create(a, depth) ==
    /\ Infers /\ outer = {}
    /\ Publishes([x \in {a} |-> [depth |-> depth, parent |-> None, lower |-> a]], "capture")

CreatePair(a, b) ==
    /\ Infers /\ outer = {} /\ a # b
    /\ Publishes([x \in {a, b} |->
            IF x = a THEN [depth |-> 18, parent |-> None, lower |-> a]
            ELSE [depth |-> 30, parent |-> a, lower |-> a]], "capture")

\* promote: the upper blocks only, over the parent's lower blob.
Promote(p, a) ==
    /\ Infers /\ p \in DOMAIN held /\ records[p].resident /\ records[p].depth = 18
    /\ Publishes([x \in {a} |-> [depth |-> 30, parent |-> p, lower |-> held[p].lower]], "promote")

\* evaluate and state_eval: each saved question is a child with its own K/V.
\* When a later question fails, those before it stay published: orphans.
Branch(p, S, kind) ==
    /\ Infers /\ p \in DOMAIN held /\ records[p].resident /\ records[p].depth = 30
    /\ Publishes([x \in S |-> [depth |-> 30, parent |-> p, lower |-> x]], kind)

\* A worker command fails in transport.
CommandLost ==
    /\ Idle /\ ready
    /\ LoseWorker /\ call' = Ended(FALSE)
    /\ UNCHANGED <<storeVars, diskVars, outer>>

----------------------------------------------------------------------------
(* Registration of a reply, and rollback.                                  *)

\* What a row is registered with: all but its size and depth is inherited
\* from its parent, and a captured row takes the request's choices.
RowFor(w, persistence, boundary) ==
    LET e == IF w.parent \in known THEN records[w.parent]
             ELSE [persistence |-> persistence, boundary |-> boundary, contextParent |-> None]
    IN [id |-> w.id, depth |-> w.depth, parent |-> w.parent, hostBytes |-> w.hostBytes,
        persistence |-> e.persistence,
        boundary |-> IF w.kind = "branch" THEN "readout" ELSE e.boundary,
        contextParent |-> IF e.boundary = "readout" THEN e.contextParent
                          ELSE IF w.kind = "branch" THEN w.parent ELSE None,
        promotionOf |-> IF w.kind = "promote" THEN w.parent ELSE None]

Register(w, persistence, boundary) ==
    /\ w.kind # "orphan"
    /\ w.kind \in {"promote", "branch"} => w.parent \in outer
    /\ \A v \in pending : v.id # w.parent    \* rows in order of depth
    /\ CallRegister(RowFor(w, persistence, boundary))

\* _rollback of an id the store does not know, or no longer returns because
\* its TTL has run out: the worker drops it, behind the store's back.
GiveUp(id) ==
    /\ Idle /\ NativeDrop(id)
    /\ pending' = {w \in pending : w.id # id} /\ Returns
    /\ UNCHANGED <<storeVars, diskVars, outer>>

\* Mutant: a new worker beside the old store.
AttachOldStore ==
    /\ Idle /\ ~ready /\ outer = {} /\ pending = {}
    /\ StartWorker /\ Returns
    /\ UNCHANGED <<storeVars, diskVars, clientVars>>

\* The service notices the worker is gone, or is itself restarted.
Attach ==
    /\ ~attached \/ (Idle /\ ~ready)
    /\ outer = {} /\ pending = {}
    /\ StartWorker /\ LoadIndex /\ Returns
    /\ UNCHANGED <<diskVars, clientVars>>

----------------------------------------------------------------------------
(* The specification.                                                      *)

Client ==
    \/ outer = {} /\ pending = {} /\ CallExpire
    \/ pending = {} /\ \E id \in known : Get(id) \/ Lease(id) \/ CallRestore(id)
    \/ outer = {} /\ \E id \in known : CallDelete(id)
    \/ \E p \in known : ConsultMemo(p) \/ \E c \in known : Memoize(p, c)
    \/ \E a \in Fresh :
          \/ \E depth \in Depth : Create(a, depth)
          \/ \E b \in Fresh : CreatePair(a, b)
          \/ \E p \in outer : Promote(p, a)
    \/ \E p \in outer, S \in (SUBSET Fresh) \ {{}}, kind \in {"branch", "orphan"} :
          Branch(p, S, kind)
    \/ \E id \in Ids \ known : GiveUp(id)
    \/ outer = {} /\ \E id \in known : ~Gettable(id) /\ GiveUp(id)
    \/ \E w \in pending, q \in Persistence, b \in Boundaries : Register(w, q, b)
    \/ Release \/ CommandLost

\* An expires_at passes.
Tick(id) ==
    /\ id \notin expired /\ expired' = expired \cup {id}
    /\ UNCHANGED <<storeVars, workerVars, diskVars, call, clientVars>>

\* An id neither recorded nor on disk has no TTL any more.
Forgotten == expired' = expired \cap (DOMAIN records' \cup DOMAIN disk')

Next ==
    \/ (StoreStep \/ Client \/ Attach \/ WorkerDies \/ Crash) /\ Forgotten
    \/ \E id \in known \cup DOMAIN disk : Tick(id)

\* Every await of a call is bounded by a timeout, so a call that has begun
\* goes on; nothing else is required to happen.
Spec == Init /\ [][Next]_vars /\ WF_vars(StoreStep /\ Forgotten)

----------------------------------------------------------------------------
(* Action and liveness properties.                                         *)

\* A leased snapshot stays registered and resident until the lease ends.
LeasedStaysResident ==
    [][attached' => \A id \in known :
          records[id].leases > 0 /\ records[id].resident
             => id \in DOMAIN records' /\ records'[id].resident]_vars

\* A published directory goes only by its client's delete or by its TTL;
\* eviction, restore, a worker death and a restart leave it alone.
UnpublishedByOwnerOrTTL ==
    [][\A id \in DOMAIN disk \ partial :
          id \notin DOMAIN disk' \ partial'
             => id \in expired \/ (call.op = "delete" /\ id = call.target)]_vars

\* The expiry and eviction loops end, and no call waits for ever.
CallsEnd == (call.op # "none") ~> (call.op = "none")

\* No store call takes from one client what another was given: neither a leased
\* snapshot from memory nor a published one from disk.
NothingIsTakenAway == LeasedStaysResident /\ UnpublishedByOwnerOrTTL
============================================================================
