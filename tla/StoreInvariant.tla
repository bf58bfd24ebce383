--------------------------- MODULE StoreInvariant ---------------------------
(* The inductive invariant of the snapshot store under its general caller. *)
(* The invariants proved of the registry do not hold step by step on their *)
(* own: what a call checked before it awaited the worker must still hold   *)
(* when it goes on.                                                        *)
EXTENDS StoreClient

\* The expiry loop a call is in, its removal of a directory included.
Expiring == call.pc \in {"expire", "unlink"} /\ call.op # "delete"

\* register() has checked its row and pinned the parents.
Admitted == call.op = "register" /\ (call.pc = "budget" \/ (Expiring /\ call.after = "budget"))

\* Which steps a call can be at.
CallSteps ==
    /\ call.op = "none" => call.pc = "idle"
    /\ call.op = "expire" => Expiring /\ call.after = "idle"
    /\ call.op = "register" =>
          \/ call.pc \in {"admit", "budget", "save", "retract"}
          \/ Expiring /\ call.after \in {"admit", "budget"}
    /\ call.op = "restore" => call.pc = "budget" \/ (Expiring /\ call.after = "budget")
    /\ call.op = "delete" => call.pc \in {"drop", "unlink"}
    /\ ~attached => call.op = "none" /\ known = {} /\ outer = {}

\* An unreferenced, unleased snapshot.
Loose(id) == id \in known /\ records[id].leases = 0 /\ records[id].refcount = 0

\* What a store method checked before it awaited the worker still holds when
\* it goes on: the snapshot restore() loads is leased and durable, the parents
\* register() checked are pinned, the id it checked is still free, and what is
\* being dropped, unlinked or saved is leased and referred to by nobody.
CallHolds ==
    /\ call.op = "register" => call.row \in Row
    /\ call.op = "restore" =>
          /\ call.target \in known \cap outer
          /\ records[call.target].durable /\ ~records[call.target].resident
    /\ call.pc = "unlink" => Loose(call.victim) /\ records[call.victim].durable
    /\ call.pc = "drop" => Loose(call.target)
    /\ Admitted => call.row.id \notin known /\ Refs(call.row) \subseteq call.pinned
    /\ call.pc \in {"save", "retract"} =>
          /\ Loose(call.row.id) /\ ~records[call.row.id].durable
          /\ records[call.row.id].persistence = "disk"

\* Only register() pins on its own, and only once its row is admitted.
CallPins == call.pinned # {} => call.pc \in {"save", "retract"} \/ Admitted

\* What a lease pins is registered.
PinsRegistered == outer \subseteq known /\ call.pinned \subseteq known

\* Only a disk snapshot has a directory.
DurableIsDisk == \A id \in known : records[id].durable => records[id].persistence = "disk"

CallInv == CallSteps /\ CallHolds /\ CallPins

RegistryInv ==
    /\ ParentsRegistered /\ RefcountsExact /\ LeasesExact /\ PinsRegistered
    /\ DirectoriesAreRecords /\ DurableIsDisk

IInv == TypeOK /\ CallInv /\ RegistryInv

----------------------------------------------------------------------------
(* What strengthens RegistryMatchesWorker, beside IInv.                    *)

PendingIds == {w.id : w \in pending}

\* The store may still ask the worker for it: it has not expired, something
\* refers to it, or a lease opened in time pins it.
Wanted(id) == Gettable(id) \/ records[id].leases > 0

\* What the worker made is not registered before its registration inserts it.
PendingIsNew ==
    /\ call.op = "register" => call.row.id \in PendingIds
    /\ \A id \in PendingIds \cap known :
          call.pc \in {"save", "retract"} /\ id = call.row.id
    /\ call.pc \in {"save", "retract"} => records[call.row.id].resident

\* While one worker serves one store: the records that are resident and the
\* rows to be registered are what it holds.
HeldIsKnown ==
    Serving =>
        /\ PendingIds \subseteq DOMAIN held
        /\ \A id \in known \ {call.victim} :
              records[id].resident /\ Wanted(id) => id \in DOMAIN held
        /\ DOMAIN held \subseteq {id \in known : records[id].resident} \cup PendingIds
        /\ call.victim \notin DOMAIN held

WorkerInv == (call.pc # "unlink" => call.victim = None) /\ PendingIsNew /\ HeldIsKnown

----------------------------------------------------------------------------
(* What strengthens BudgetIsExact: what the charge consists of.            *)

\* The row is registered, but its save has not ended.
Saving == call.pc \in {"save", "retract"}

\* What is charged for a record or a row, beside its own upper K/V.
UpperPart(r) == IF r.depth = 30 THEN UpperBytes ELSE 0
OwnsLower(r) == r.hostBytes # UpperPart(r)

\* The charge is the upper K/V of a 30, the lower K/V of whoever owns it; an
\* 18 always does.
Sized(r) ==
    /\ r.hostBytes = (IF OwnsLower(r) THEN LowerBytes ELSE 0) + UpperPart(r)
    /\ r.depth = 18 => OwnsLower(r)

\* A 30 that owns no lower K/V shares that of its parent, an 18 in memory.
Shares(id) == records[id].resident /\ ~OwnsLower(records[id])
LendsLower(p) == p \in known /\ records[p].resident /\ records[p].depth = 18

\* The same of what is not registered yet.  Only the pair of one create has
\* its 18 in the same reply.
PendingShares(w) ==
    \/ OwnsLower(w)
    \/ \E v \in pending : pending = {v, w} /\ v.id = w.parent /\ v.depth = 18
    \/ pending = {w} /\ w.parent # None /\ (w.parent \in known => LendsLower(w.parent))

PendingInv ==
    /\ \A v, w \in pending : v.id = w.id => v = w
    /\ \A w \in pending : Sized(w) /\ PendingShares(w) /\ (w.kind = "promote" => w.depth = 30)
    /\ call.op \in {"expire", "restore"} => pending = {}
    /\ call.op = "register" =>
          \E w \in pending : /\ w.id = call.row.id /\ w.depth = call.row.depth
                             /\ w.parent = call.row.parent /\ w.hostBytes = call.row.hostBytes
    /\ Saving => records[call.row.id].depth = call.row.depth

Owners == {x \in known : records[x].resident /\ OwnsLower(records[x])}
Uppers == {x \in known : records[x].resident /\ records[x].depth = 30}

LedgerInv ==
    /\ \A x \in known : Sized(records[x])
    /\ \A x \in known : Shares(x) => LendsLower(records[x].parent)
    /\ residentBytes = LowerBytes * Cardinality(Owners) + UpperBytes * Cardinality(Uppers)
    /\ residentBytes <= HostBytes

\* The worker keeps for a snapshot what its record or its row says.
Matches(h, id, r) ==
    /\ h.depth = r.depth
    /\ h.lower = IF OwnsLower(r) THEN id ELSE r.parent

HeldMatches ==
    Serving =>
        /\ \A x \in DOMAIN held \cap known : Matches(held[x], x, records[x])
        /\ \A w \in pending : Matches(held[w.id], w.id, w)

----------------------------------------------------------------------------
(* What strengthens DirectoryIsRestorable: where a snapshot is kept its    *)
(* parents are kept.                                                       *)

SamePersistence(r) == \A p \in Refs(r) \cap known : records[p].persistence = r.persistence

DirectoryInv ==
    /\ \A x \in known : SamePersistence(records[x])
    /\ call.op = "register" => SamePersistence(call.row)
    /\ \A x \in known : records[x].persistence = "disk" /\ ~records[x].durable
           => Saving /\ x = call.row.id
    /\ \A x \in DOMAIN disk : Sized(disk[x])
    /\ ManifestsMatch
    /\ ~attached => \A x \in DOMAIN disk : Refs(disk[x]) \subseteq DOMAIN disk
    /\ attached => partial \subseteq (IF call.pc = "unlink" THEN {call.victim}
                                      ELSE IF call.pc = "retract" THEN {call.row.id} ELSE {})
    /\ ~attached /\ ~CrashInUnlink => partial = {}

----------------------------------------------------------------------------
(* What a promotion is remembered as: a 30.                                *)

PromotedIs30(r) == r.promotionOf # None => r.depth = 30

MemoInv ==
    /\ \A x \in known : PromotedIs30(records[x])
    /\ \A x \in DOMAIN disk : PromotedIs30(disk[x])
    /\ call.op = "register" => PromotedIs30(call.row)
    /\ \A x \in known : LET c == records[x].promotionChild IN
          c \in known => records[c].depth = 30
    /\ PendingIds \cap Memos = {}
    /\ expired \subseteq known \cup DOMAIN disk

PromiseInv == PendingInv /\ LedgerInv /\ HeldMatches /\ DirectoryInv /\ MemoInv
============================================================================
