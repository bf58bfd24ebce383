-------------------------- MODULE ServiceInvariant --------------------------
(* The inductive invariant of the snapshot service over its store: what a  *)
(* handler may rely on at each of its steps, and what it still has to undo.*)
EXTENDS SnapshotService, StoreInvariant

Steps == {"free", "recover", "expire", "expiring", "create", "decide", "anchor", "ensure", "lease",
          "restore", "restoring", "infer", "register", "registering", "release", "memo",
          "vectors", "metadata", "delete", "deleting", "undo", "undoing", "finish"}

Task == [req: Requests \cup {NoRequest, Recovery}, step: Steps,
         phase: {"none", "promotion", "branch", "vectors"}, subject: Ref,
         rows: Seq(Ids), pos: Nat, failed: BOOLEAN]

ServiceTyped ==
    /\ busy \in BOOLEAN /\ backoff \in BOOLEAN /\ scheduled \in BOOLEAN /\ replied \subseteq Ids
    /\ task \in Task /\ task.pos <= Len(task.rows)

Serves(kind) == task.req \in Requests /\ task.req.kind = kind

\* Whom a handler serves at a step, and what for.
Steering ==
    /\ busy <=> task.step # "free"
    /\ ~attached => task.step = "free"
    /\ task.step # "free" => task.req # NoRequest
    /\ task.step = "create" => Serves("create")
    /\ task.step \in {"decide", "anchor", "ensure", "memo"} => Serves("decide")
    /\ task.phase \in {"promotion", "branch"} => Serves("decide")
    /\ task.step = "vectors" => Serves("vectors")
    /\ task.step = "metadata" => Serves("metadata")
    /\ task.step \in {"delete", "deleting"} => Serves("delete")
    /\ task.step \in {"lease", "restore", "restoring", "infer"} => task.phase # "none"
    /\ task.step \in {"register", "registering"} =>
          IF task.phase \in {"promotion", "branch"} THEN TRUE ELSE Serves("create") /\ outer = {}
    /\ task.failed => task.step \in {"undo", "undoing", "release", "finish"}
    /\ task.step \in {"undo", "undoing"} => task.failed

\* Which step waits for which store call.
Waiting ==
    /\ call.op = "expire" => task.step = "expiring"
    /\ call.op = "register" => task.step = "registering"
    /\ call.op = "restore" => task.step = "restoring" /\ call.target = task.subject
    /\ call.op = "delete" =>
          \/ task.step = "deleting"
          \/ task.step = "undoing" /\ call.target = task.rows[task.pos]

\* A worker that is lost or dead holds nothing, and a lost one has published
\* nothing that could still be registered; what _remove_tree removes for
\* delete() is what delete() was given.
LostHoldsNothing ==
    /\ ~Answers => DOMAIN held = {}
    /\ ~ready => pending = {}
    /\ ~attached => ~ready
    /\ call.op = "delete" /\ call.pc = "unlink" => call.victim = call.target

\* Before its lease is taken, and after it is closed, nothing is open.
Unleased ==
    {"free", "recover", "expire", "expiring", "create", "decide", "anchor", "ensure", "lease",
     "memo", "vectors", "metadata", "delete", "deleting", "finish"}

NothingOpen ==
    /\ task.step \in Unleased => outer = {} /\ pending = {}
    /\ task.step \in Unleased \ {"memo", "finish"} => task.rows = <<>> /\ task.pos = 0

\* Under its lease a handler works on a snapshot that stays; the ids it has
\* allotted are nobody's yet.
UnderLease ==
    task.step \in {"restore", "restoring", "infer"} =>
        /\ pending = {} /\ task.subject \in outer /\ task.pos = 0
        /\ Range(task.rows) \subseteq Fresh /\ IsInjective(task.rows)
        /\ task.phase # "branch" => task.rows = <<>>
        /\ task.step = "infer" => records[task.subject].resident
        /\ task.step = "restoring" /\ call.op = "none" /\ call.ok => records[task.subject].resident

\* What is branched from is a 30.
BranchesFrom30 ==
    task.phase = "branch" /\ task.step \in {"lease", "restore", "restoring", "infer"} =>
        (task.subject \in known => records[task.subject].depth = 30)

LastId == task.rows[Len(task.rows)]

\* Of the ids allotted only the last may refer to another.
OnlyLastRefers == \A x \in known : Refs(records[x]) \cap Range(task.rows) # {} => x = LastId

\* A row that waits for its registration: not reached yet, and registered
\* under the lease on its parent, or after the row it refers to.
RowWaits(w) ==
    /\ \E i \in DOMAIN task.rows : i > task.pos /\ w.id = task.rows[i]
    /\ w.parent \in Range(task.rows) => w.id = LastId /\ w.parent # w.id
    /\ IF task.phase \in {"promotion", "branch"}
       THEN w.kind \in {"promote", "branch"} /\ w.parent \in outer
       ELSE w.kind = "capture"

\* The rows of a reply are registered in order: those not reached are pending,
\* or lost, and unknown to the store.
InOrder ==
    task.step \in {"register", "registering"} =>
        /\ task.pos < Len(task.rows) /\ IsInjective(task.rows)
        /\ task.phase = "promotion" => Len(task.rows) = 1
        /\ outer \cap Range(task.rows) = {} /\ OnlyLastRefers
        /\ \A w \in pending : RowWaits(w)
        /\ \A i \in DOMAIN task.rows : i > task.pos + 1 => task.rows[i] \notin known
        /\ task.step = "register" => task.rows[task.pos + 1] \notin known

\* The row a registration is about, until it has ended.
AtRow ==
    task.step = "registering" =>
        /\ call.op = "register" =>
              /\ call.row.id = task.rows[task.pos + 1]
              /\ Refs(call.row) \cap Range(task.rows) # {} => call.row.id = LastId
        /\ task.rows[task.pos + 1] \in known => Saving \/ (call.op = "none" /\ call.ok)
        /\ call.op = "none" /\ call.ok => task.rows[task.pos + 1] \notin PendingIds

\* An id that is undone: the worker does not hold it, and what the registry
\* may still know of it nobody can get.
Gone(id) == id \notin DOMAIN held /\ (id \in known => id \in expired)

\* A handler that failed, before it has finished: what is pending it will give
\* up, what it registered it can delete, and what it has undone is gone.
Unwinding ==
    /\ task.failed =>
          /\ \A id \in Range(task.rows) \cap known : records[id].refcount = 0
          /\ ready => \A i \in DOMAIN task.rows : i > task.pos => Gone(task.rows[i])
          /\ \A w \in pending : \E i \in DOMAIN task.rows :
                i <= task.pos /\ w.id = task.rows[i] /\ (task.step = "undoing" => i # task.pos)
          /\ task.step = "finish" => task.pos = 0
    /\ task.step \in {"undo", "undoing"} /\ outer # {} => Range(task.rows) \cap known = {}
    /\ task.step = "undoing" =>
          /\ task.pos > 0
          /\ call.op = "none" /\ ready => Gone(task.rows[task.pos])
    /\ task.step = "release" /\ ~task.failed => pending = {}

ServiceInv ==
    /\ ServiceTyped /\ Steering /\ Waiting /\ LostHoldsNothing /\ NothingOpen
    /\ UnderLease /\ BranchesFrom30 /\ InOrder /\ AtRow /\ Unwinding
=============================================================================
