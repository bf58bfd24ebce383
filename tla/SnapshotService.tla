-------------------------- MODULE SnapshotService --------------------------
(***************************************************************************)
(* The request orchestration of unridden/api/snapshots/service.py over the *)
(* snapshot store.  One request, or one background recovery, holds _busy   *)
(* at a time; a request that finds it taken is refused and changes nothing.*)
(* The steps of a handler are the store's steps with the handler's own     *)
(* program counter, so every failure of the store or the worker is one the *)
(* handler has to unwind.                                                  *)
(***************************************************************************)
EXTENDS StoreClient, Sequences

CONSTANTS
    Requests,       \* the requests clients send
    IndexFaults     \* may reading the index fail after the worker restarted?

\* What passes the schemas.  Decisions, state evaluations and rides branch, and
\* differ in how many children they may save.
CreateRequests ==
    [kind: {"create"}, depths: (SUBSET Depth) \ {{}}, persistence: Persistence,
     boundary: Boundaries]
Branching(saves) == [kind: {"decide"}, ref: Ids, replace: BOOLEAN, saves: saves]
DecisionRequests == Branching(0..32)
StateEvaluationRequests == Branching(0..1)
RiderRequests == Branching({0})
ReadRequests == [kind: {"vectors", "delete", "metadata"}, ref: Ids]

\* What the /v2 routes hand to the service.
Routed ==
    CreateRequests \cup DecisionRequests \cup StateEvaluationRequests
        \cup RiderRequests \cup ReadRequests

ASSUME ServiceAssumption == Requests \subseteq Routed /\ IndexFaults \in BOOLEAN

VARIABLES
    busy,           \* _busy
    task,           \* the handler that holds it
    backoff,        \* a restart failed less than RECOVERY_BACKOFF_SECONDS ago
    scheduled,      \* a background recovery task waits to run
    replied         \* the ids named in the last successful reply

svcVars == <<busy, task, backoff, scheduled, replied>>
allVars == <<vars, svcVars>>
storeState == <<storeVars, workerVars, diskVars, call, clientVars>>

NoRequest == [kind |-> "none"]
Recovery == [kind |-> "recover"]

\* A handler: what it serves, its next step, what its lease is for, the
\* snapshot it works on, the ids it allotted in the order it registers them,
\* how many are registered (or are still to be undone), and did it raise.
Handler(r, s) == [req |-> r, step |-> s, phase |-> "none", subject |-> None,
                  rows |-> <<>>, pos |-> 0, failed |-> FALSE]
Free == Handler(NoRequest, "free")

----------------------------------------------------------------------------
(* Moving the handler.                                                     *)

At(s) == task.step = s /\ Idle
Becomes(t) == task' = t /\ UNCHANGED <<busy, backoff, scheduled, replied>>
Goto(s) == Becomes([task EXCEPT !.step = s])
Go(s, sub, ph) == Becomes([task EXCEPT !.step = s, !.subject = sub, !.phase = ph])

\* An exception: the lease of a branch or an export closes before the rollback
\* of _serialized; create and promote roll back first.
Raised(ids) ==
    [task EXCEPT !.failed = TRUE, !.rows = ids, !.pos = Len(ids),
        !.step = IF outer # {} /\ task.phase \in {"branch", "vectors"} THEN "release"
                 ELSE "undo"]
Fails == Becomes(Raised(task.rows))

\* _serialized takes _busy; a backend that is not ready is recovered first.
\* Ids are unbounded: a request is sent only when enough of them are left.
Needed(r) ==
    CASE r.kind = "create" -> Cardinality(r.depths)
      [] r.kind = "decide" -> r.saves + (IF \A id \in known : records[id].depth = 30 THEN 0 ELSE 1)
      [] OTHER -> 0

Arrive(r) ==
    /\ Idle /\ ~busy /\ Needed(r) <= Cardinality(Fresh)
    /\ busy' = TRUE /\ replied' = {}
    /\ task' = Handler(r, IF ready THEN "expire" ELSE "recover")
    /\ UNCHANGED <<storeState, backoff, scheduled>>

\* What /health answers of the snapshot service.
Healthy == attached /\ ready

\* /health finds the worker gone and schedules a background recovery, which
\* gives way if a request took _busy before it runs.
ScheduleRecovery ==
    /\ Idle /\ ~Healthy /\ ~busy /\ ~scheduled
    /\ scheduled' = TRUE
    /\ UNCHANGED <<storeState, busy, task, backoff, replied>>

\* Mutant: the background task runs only when there is nothing to recover.
RunRecoveryIfReady ==
    /\ attached /\ scheduled /\ scheduled' = FALSE
    /\ IF busy \/ ~ready THEN UNCHANGED <<busy, task>>
       ELSE busy' = TRUE /\ task' = Handler(Recovery, "finish")
    /\ UNCHANGED <<storeState, backoff, replied>>

RunRecovery ==
    /\ attached /\ scheduled /\ scheduled' = FALSE
    /\ IF busy THEN UNCHANGED <<busy, task>>
       ELSE busy' = TRUE /\ task' = Handler(Recovery, IF ready THEN "finish" ELSE "recover")
    /\ UNCHANGED <<storeState, backoff, replied>>

----------------------------------------------------------------------------
(* recover(), and the start of the service.                                *)

RefuseInBackoff == At("recover") /\ backoff /\ Fails /\ UNCHANGED storeState

RestartError ==
    /\ task' = Raised(<<>>) /\ backoff' = TRUE
    /\ UNCHANGED <<busy, scheduled, replied>>

RestartFails == At("recover") /\ ~backoff /\ RestartError /\ UNCHANGED storeState

\* The worker starts, and the store is rebuilt from the directory.
Restart == At("recover") /\ ~backoff /\ Attach /\ Goto("expire")

\* The worker starts, but a manifest cannot be read: the error leaves the new
\* worker ready beside the old store.
RestartStale ==
    /\ At("recover") /\ ~backoff /\ IndexFaults
    /\ StartWorker /\ RestartError
    /\ UNCHANGED <<storeVars, diskVars, call, clientVars>>

BackoffEnds ==
    /\ backoff /\ backoff' = FALSE
    /\ UNCHANGED <<storeState, busy, task, scheduled, replied>>

\* The process is killed, and starts again: no request is taken meanwhile.
Killed ==
    /\ Crash
    /\ busy' = FALSE /\ task' = Free /\ backoff' = FALSE /\ scheduled' = FALSE
    /\ replied' = {}

Start ==
    /\ ~attached /\ Attach
    /\ busy' = TRUE /\ task' = Handler(Recovery, "expire")
    /\ UNCHANGED <<backoff, scheduled, replied>>

----------------------------------------------------------------------------
(* The common prologue, and the epilogue.                                  *)

Expire == At("expire") /\ CallExpire /\ Goto("expiring")

Expired ==
    /\ At("expiring") /\ UNCHANGED storeState
    /\ IF ~call.ok THEN Fails
       ELSE Goto(IF task.req = Recovery THEN "finish" ELSE task.req.kind)

\* What store.delete will not refuse.
Deletable(id) == Gettable(id) /\ records[id].leases = 0 /\ records[id].refcount = 0

\* Mutant: rollback by deleting alone.
UndoByDelete ==
    /\ At("undo") /\ task.pos > 0
    /\ LET id == task.rows[task.pos] IN
       IF Deletable(id) THEN CallDelete(id) /\ Goto("undoing")
       ELSE UNCHANGED storeState /\ Becomes([task EXCEPT !.pos = @ - 1])

\* _rollback, last id first: store.delete, and for an id the store does not
\* know or will not delete, the worker's drop, whose failure is suppressed.
Undo ==
    /\ At("undo") /\ task.pos > 0
    /\ LET id == task.rows[task.pos] IN
       IF Deletable(id) THEN CallDelete(id) /\ Goto("undoing")
       ELSE /\ GiveUp(id) \/ CommandLost \/ (~ready /\ UNCHANGED storeState)
            /\ Becomes([task EXCEPT !.pos = @ - 1])

Undone ==
    /\ At("undoing") /\ UNCHANGED storeState
    /\ Becomes([task EXCEPT !.step = "undo", !.pos = @ - 1])

UndoDone ==
    /\ At("undo") /\ task.pos = 0 /\ UNCHANGED storeState
    /\ Goto(IF outer # {} THEN "release" ELSE "finish")

\* Mutant: no rollback after the lease of a failed branch.
EndLeaseOnly ==
    /\ At("release") /\ Release
    /\ Goto(IF ~task.failed /\ task.phase = "promotion" THEN "memo" ELSE "finish")

EndLease ==
    /\ At("release") /\ Release
    /\ Goto(IF task.failed THEN (IF task.pos > 0 THEN "undo" ELSE "finish")
            ELSE IF task.phase = "promotion" THEN "memo" ELSE "finish")

\* _run_snapshot(): an exception becomes an error body, which names no snapshot.
Reply(t) == IF t.failed THEN {} ELSE Range(t.rows)

\* Mutant: a failed request keeps _busy.
FinishBusy ==
    /\ At("finish") /\ UNCHANGED storeState
    /\ busy' = task.failed /\ task' = Free /\ replied' = Reply(task)
    /\ UNCHANGED <<backoff, scheduled>>

Finish ==
    /\ At("finish") /\ UNCHANGED storeState
    /\ busy' = FALSE /\ task' = Free /\ replied' = Reply(task)
    /\ UNCHANGED <<backoff, scheduled>>

----------------------------------------------------------------------------
(* create, and the registration of what a command published.               *)

\* The handler allots ids, and the worker publishes them all, answers an
\* error and publishes none, or is lost.
Allots(ids) ==
    Becomes([task EXCEPT !.rows = ids, !.pos = 0, !.step = "register"])
Refused == Answers /\ UNCHANGED storeState
CommandFails(ids) == (Refused \/ CommandLost) /\ Becomes(Raised(ids))

CreateSnapshots ==
    /\ At("create")
    /\ \/ \E a \in Fresh, depth \in task.req.depths :
             /\ task.req.depths = {depth}
             /\ \/ Create(a, depth) /\ Allots(<<a>>)
                \/ CommandFails(<<a>>)
       \/ \E a, b \in Fresh :
             /\ task.req.depths = Depth /\ a # b
             /\ \/ CreatePair(a, b) /\ Allots(<<a, b>>)
                \/ CommandFails(<<a, b>>)

RegisterNext ==
    /\ At("register")
    /\ \E w \in pending :
          /\ w.id = task.rows[task.pos + 1]
          /\ IF task.req.kind = "create"
             THEN Register(w, task.req.persistence, task.req.boundary)
             ELSE Register(w, "memory", "context")     \* it inherits both
    /\ Goto("registering")

\* A reply fails a check of the handler: of its ids before anything of it is
\* registered, of an answer before its own child is.
ReplyRefused == At("register") /\ Fails /\ UNCHANGED storeState

RowRegistered ==
    /\ At("registering") /\ UNCHANGED storeState
    /\ IF ~call.ok THEN Fails
       ELSE Becomes([task EXCEPT !.pos = @ + 1,
                !.step = IF task.pos + 1 < Len(task.rows) THEN "register"
                         ELSE IF task.req.kind = "create" THEN "finish" ELSE "release"])

----------------------------------------------------------------------------
(* decide, state_eval and ride: plan, promote if needed, branch.  They     *)
(* differ in how many children they save: state_eval at most one, ride     *)
(* none.                                                                   *)

\* _plan: the snapshot, and the context anchor a replaced question branches
\* from instead.
Plan ==
    LET ref == task.req.ref IN
    /\ At("decide")
    /\ IF ~Gettable(ref) THEN Fails /\ UNCHANGED storeState
       ELSE /\ Get(ref)
            /\ IF ~task.req.replace THEN Go("ensure", ref, "none")
               ELSE IF records[ref].boundary = "readout" /\ records[ref].contextParent # None
                    THEN Go("anchor", records[ref].contextParent, "none") ELSE Fails

Anchor ==
    /\ At("anchor")
    /\ IF Gettable(task.subject) THEN Get(task.subject) /\ Goto("ensure")
       ELSE Fails /\ UNCHANGED storeState

\* _ensure_30: a 30 as it is, an 18 by its memoized promotion or a new one.
Ensure30 ==
    LET s == task.subject IN
    /\ At("ensure")
    /\ IF s \in known /\ records[s].depth = 30
       THEN Go("lease", s, "branch") /\ UNCHANGED storeState
       ELSE IF ~Gettable(s) THEN Fails /\ UNCHANGED storeState
       ELSE /\ ConsultMemo(s)
            /\ IF MemoizedPromotion(s) = None THEN Go("lease", s, "promotion")
               ELSE Go("lease", MemoizedPromotion(s), "branch")

MemoizeChild ==
    LET s == task.subject  child == task.rows[1] IN
    /\ At("memo")
    /\ IF Gettable(s) /\ Gettable(child)
       THEN /\ Memoize(s, child)
            /\ Becomes([Handler(task.req, "lease") EXCEPT !.subject = child, !.phase = "branch"])
       ELSE /\ Becomes([Raised(<<>>) EXCEPT !.step = "finish"])
            /\ UNCHANGED storeState

\* Mutant: get() instead of lease().
OpenNoLease ==
    /\ At("lease")
    /\ \E ids \in [1..(IF task.phase = "branch" THEN task.req.saves ELSE 0) -> Fresh] :
          /\ IsInjective(ids)
          /\ IF Gettable(task.subject)
             THEN /\ Get(task.subject)
                  /\ Becomes([task EXCEPT !.rows = ids, !.pos = 0, !.step = "restore"])
             ELSE Becomes(Raised(ids)) /\ UNCHANGED storeState

\* The children a decision saves are named before the lease is taken.
OpenLease ==
    /\ At("lease")
    /\ \E ids \in [1..(IF task.phase = "branch" THEN task.req.saves ELSE 0) -> Fresh] :
          /\ IsInjective(ids)
          /\ IF Gettable(task.subject)
             THEN /\ Lease(task.subject)
                  /\ Becomes([task EXCEPT !.rows = ids, !.pos = 0, !.step = "restore"])
             ELSE Becomes(Raised(ids)) /\ UNCHANGED storeState

\* Mutant: what the registry knows is taken to be resident.
RestoreNothing ==
    /\ At("restore")
    /\ IF Gettable(task.subject) THEN Get(task.subject) /\ Goto("infer")
       ELSE Fails /\ UNCHANGED storeState

Restore ==
    LET s == task.subject IN
    /\ At("restore")
    /\ IF ~Gettable(s) \/ ~(records[s].resident \/ records[s].durable)
       THEN Fails /\ UNCHANGED storeState
       ELSE IF records[s].resident THEN Get(s) /\ Goto("infer")
       ELSE CallRestore(s) /\ Goto("restoring")

Restored ==
    /\ At("restoring") /\ UNCHANGED storeState
    /\ IF call.ok THEN Goto("infer") ELSE Fails

PromoteParent ==
    /\ At("infer") /\ task.phase = "promotion"
    /\ \E a \in Fresh :
          \/ Promote(task.subject, a) /\ Allots(<<a>>)
          \/ CommandFails(<<a>>)

\* evaluate, state_eval or ride.  A question that fails leaves the children
\* of those before it published.
BranchParent ==
    LET saved == task.rows IN
    /\ At("infer") /\ task.phase = "branch"
    /\ \/ saved = <<>> /\ Refused /\ Goto("release")
       \/ saved # <<>> /\ Branch(task.subject, Range(saved), "branch") /\ Goto("register")
       \/ \E n \in 1..Len(saved) - 1 :
             Branch(task.subject, Range(SubSeq(saved, 1, n)), "orphan") /\ Fails
       \/ CommandFails(saved)

----------------------------------------------------------------------------
(* vectors, metadata and delete.                                           *)

StartVectors ==
    At("vectors") /\ Go("lease", task.req.ref, "vectors") /\ UNCHANGED storeState

ReadVectors ==
    /\ At("infer") /\ task.phase = "vectors"
    /\ \/ Refused /\ Goto("release")
       \/ CommandFails(<<>>)

Metadata ==
    /\ At("metadata")
    /\ IF Gettable(task.req.ref) THEN Get(task.req.ref) /\ Goto("finish")
       ELSE Fails /\ UNCHANGED storeState

Delete ==
    LET ref == task.req.ref IN
    /\ At("delete")
    /\ IF Deletable(ref) THEN CallDelete(ref) /\ Goto("deleting")
       ELSE Fails /\ IF Gettable(ref) THEN Get(ref) ELSE UNCHANGED storeState

Deleted ==
    /\ At("deleting") /\ UNCHANGED storeState
    /\ IF call.ok THEN Goto("finish") ELSE Fails

----------------------------------------------------------------------------
(* The specification.                                                      *)

HandlerStep ==
    \/ RefuseInBackoff \/ RestartFails \/ Restart \/ RestartStale
    \/ Expire \/ Expired \/ Undo \/ Undone \/ UndoDone \/ EndLease \/ Finish
    \/ CreateSnapshots \/ RegisterNext \/ ReplyRefused \/ RowRegistered
    \/ Plan \/ Anchor \/ Ensure30 \/ MemoizeChild \/ OpenLease \/ Restore \/ Restored
    \/ PromoteParent \/ BranchParent
    \/ StartVectors \/ ReadVectors \/ Metadata \/ Delete \/ Deleted

ServiceStep == HandlerStep \/ (StoreStep /\ UNCHANGED svcVars)

SvcInit ==
    /\ Init
    /\ busy = FALSE /\ task = Free /\ backoff = FALSE /\ scheduled = FALSE
    /\ replied = {}

SvcNext ==
    \/ /\ \/ \E r \in Requests : Arrive(r)
          \/ ScheduleRecovery \/ RunRecovery \/ BackoffEnds
          \/ ServiceStep \/ Killed \/ Start
          \/ WorkerDies /\ UNCHANGED svcVars
       /\ Forgotten
    \/ \E id \in known \cup DOMAIN disk : Tick(id) /\ UNCHANGED svcVars

\* Every await of a handler is bounded by a timeout, so a handler goes on.
SvcSpec == SvcInit /\ [][SvcNext]_allVars /\ WF_allVars(ServiceStep /\ Forgotten)

\* What recovery needs besides: /health is polled, the event loop runs the
\* task it scheduled, the backoff passes, and a restart that is tried again
\* and again succeeds at last.
RecoverySpec ==
    /\ SvcSpec
    /\ WF_allVars(ScheduleRecovery /\ Forgotten) /\ WF_allVars(RunRecovery /\ Forgotten)
    /\ WF_allVars(BackoffEnds /\ Forgotten) /\ SF_allVars(Restart /\ Forgotten)
----------------------------------------------------------------------------
(* Properties.                                                             *)

\* The handler's own state is typed (the store's is TypeOK).
ServiceTypeOK ==
    /\ busy \in BOOLEAN /\ backoff \in BOOLEAN /\ scheduled \in BOOLEAN
    /\ replied \subseteq Ids
    /\ task.req \in Requests \cup {NoRequest, Recovery}
    /\ task.phase \in {"none", "promotion", "branch", "vectors"} /\ task.subject \in Ref
    /\ task.pos \in 0..Len(task.rows) /\ Range(task.rows) \subseteq Ids

\* However a request ends, no lease stays open, and the worker keeps nothing
\* the registry does not know: what no id can reach would never be evicted.
NoRequestLeaks ==
    ~busy =>
        /\ outer = {} /\ pending = {}
        /\ Serving => DOMAIN held \subseteq {id \in known : records[id].resident}

\* A handler that is out of the service left its state typed and nothing open.
HandlersLeaveNothing == ServiceTypeOK /\ NoRequestLeaks

\* When the worker is asked to work on a snapshot, it holds it, as a 30 if it
\* is to branch from: no eviction, TTL or promotion came between.
InferenceFindsParent ==
    task.step = "infer" /\ Serving =>
        /\ task.subject \in known /\ task.subject \in DOMAIN held
        /\ task.phase = "branch" => held[task.subject].depth = 30

\* A request that failed, on a worker that still runs, leaves none of the
\* snapshots it allotted: not in the registry, the worker or the directory.
FailureIsUndone ==
    task.step = "finish" /\ task.failed /\ ready =>
        \A id \in Range(task.rows) :
            /\ id \notin DOMAIN held
            /\ id \in known \cup DOMAIN disk => id \in expired

\* Every step of the service is a step its store allows a caller: inference
\* under a lease, and all it published registered or given up in the end.
UsesStoreProperly == Init /\ [][Next]_vars

\* _busy is always given back.
RequestsEnd == busy ~> ~busy

\* A worker the backend lost is replaced, whether or not requests come.
WorkerRecovers == (attached /\ ~ready) ~> (ready \/ ~attached)
============================================================================
