--------------------------- MODULE WorkerTransport --------------------------
(***************************************************************************)
(* The transport between the snapshot service and its worker process: the  *)
(* methods of unridden/api/snapshots/backend.py, one action per step       *)
(* between two awaits, and the read-handle-answer loop of                  *)
(* snapshot-worker.cpp at the other end of the pipes.                      *)
(*                                                                         *)
(* A task is an asyncio task in which the service calls the backend.  The  *)
(* service lets one at a time through (_busy); the backend's own lock,     *)
(* ready flag and reaping are modelled as they are.  Tasks may be          *)
(* cancelled at any await, workers may die, hang or answer out of bounds.  *)
(***************************************************************************)
EXTENDS Sequences

CONSTANTS
    Tasks,
    Children,       \* the worker processes ever spawned
    Commands,       \* the correlation ids ever drawn
    None

ASSUME TransportAssumption == None \notin Tasks \cup Children \cup Commands

VARIABLES
    ready,          \* ready
    process,        \* _process
    drain,          \* the worker whose stderr _stderr_task reads
    ioLock,         \* the holder of _io_lock
    task,           \* what each task does in the backend
    outcome,        \* how a command ended for its caller
    phase,          \* of each process: unborn, loading, serving, working, dead
    killed,         \* the processes sent SIGKILL
    eof,            \* those whose stdin the backend closed
    stdin, stdout,  \* the pipes of each, lines not yet read
    doing,          \* the command it works on
    applied         \* the commands whose effect it holds

backendVars == <<ready, process, drain, ioLock, task, outcome>>
pipes == <<stdin, stdout>>
work == <<doing, applied>>
childVars == <<phase, killed, eof, pipes, work>>
vars == <<backendVars, childVars>>

Out == [pc |-> "out", child |-> None, command |-> None]

\* A line of the worker: the command it answers and how.  A bad answer is one
\* beyond the size limit or one that fails validation.
Line(kind, c) == [kind |-> kind, command |-> c]
Hello == Line("hello", None)
Answers == {"result", "refused", "failed", "bad"}

At(t, pc) == task[t].pc = pc
Goes(t, pc, p, c) == task' = [task EXCEPT ![t] = [pc |-> pc, child |-> p, command |-> c]]
Leaves(t) == task' = [task EXCEPT ![t] = Out]
Ends(c, how) == outcome' = [outcome EXCEPT ![c] = how]
Alive(p) == phase[p] \notin {"unborn", "dead"}
Gone(p) == p \notin {q \in Children : Alive(q)}     \* so is None

\* _busy: the service has one task at a time in the backend.
OneAtATime == \A t \in Tasks : At(t, "out")

----------------------------------------------------------------------------
(* _invalidate(): the worker is forgotten, its stdin closed, killed, and   *)
(* waited for; then the task that drains its stderr is stopped.            *)

\* Mutants: ready is left set; stdin is closed but nothing is killed.
ForgetsReady(t) ==
    /\ process' = None
    /\ killed' = killed \cup ({process} \ {None}) /\ eof' = eof \cup ({process} \ {None})
    /\ Goes(t, "reaping", process, task[t].command)
    /\ UNCHANGED <<ready, phase, pipes, work>>

ClosesOnly(t) ==
    /\ ready' = FALSE /\ process' = None
    /\ eof' = eof \cup ({process} \ {None})
    /\ Goes(t, "reaping", process, task[t].command)
    /\ UNCHANGED <<phase, killed, pipes, work>>

Invalidate(t) ==
    /\ ready' = FALSE /\ process' = None
    /\ killed' = killed \cup ({process} \ {None}) /\ eof' = eof \cup ({process} \ {None})
    /\ Goes(t, "reaping", process, task[t].command)
    /\ UNCHANGED <<phase, pipes, work>>

Unlocks(t) == ioLock' = IF ioLock = t THEN None ELSE ioLock

Reaped(t) ==
    /\ At(t, "reaping")
    /\ Gone(task[t].child)
    /\ drain' = None /\ Unlocks(t) /\ Leaves(t)
    /\ UNCHANGED <<ready, process, outcome, childVars>>

\* The task is cancelled while it waits: the worker is killed, but neither
\* waited for nor is its drain stopped.
ReapCancelled(t) ==
    /\ At(t, "reaping")
    /\ Unlocks(t) /\ Leaves(t)
    /\ UNCHANGED <<ready, process, drain, outcome, childVars>>

----------------------------------------------------------------------------
(* start().                                                                *)

StartCall(t) ==
    /\ OneAtATime /\ ~ready
    /\ Goes(t, "verifying", None, None)
    /\ UNCHANGED <<ready, process, drain, ioLock, outcome, childVars>>

Spawn(t) ==
    /\ At(t, "verifying")
    /\ \E p \in Children :
          /\ phase[p] = "unborn"
          /\ phase' = [phase EXCEPT ![p] = "loading"]
          /\ process' = p /\ drain' = p
    /\ Goes(t, "hello", None, None)
    /\ UNCHANGED <<ready, ioLock, outcome, killed, eof, pipes, work>>

HelloRead(t) ==
    /\ At(t, "hello") /\ process # None /\ stdout[process] # <<>>
    /\ Head(stdout[process]) = Hello
    /\ ready' = TRUE
    /\ stdout' = [stdout EXCEPT ![process] = Tail(@)]
    /\ Leaves(t)
    /\ UNCHANGED <<process, drain, ioLock, outcome, phase, killed, eof, stdin, work>>

\* Mutant: a start that fails leaves its worker running.
StartAbandoned(t) ==
    /\ At(t, "verifying") \/ At(t, "hello")
    /\ Leaves(t) /\ UNCHANGED <<ready, process, drain, ioLock, outcome, childVars>>

\* Verification, the spawn or the handshake fails, is late or is cancelled.
StartFails(t) ==
    /\ At(t, "verifying") \/ At(t, "hello")
    /\ Invalidate(t) /\ UNCHANGED <<drain, ioLock, outcome>>

----------------------------------------------------------------------------
(* _request(), with the validation of its answer.                          *)

\* The ready check, before the lock.
RequestCall(t) ==
    /\ OneAtATime /\ ready /\ process # None
    /\ \E c \in Commands :
          /\ outcome[c] = "none" /\ \A u \in Tasks : task[u].command # c
          /\ Goes(t, "queued", None, c)
    /\ UNCHANGED <<ready, process, drain, ioLock, outcome, childVars>>

\* Too long to encode, or cancelled in the queue: nothing was written.
Unsent(t) ==
    /\ At(t, "queued")
    /\ Ends(task[t].command, "unsent") /\ Leaves(t)
    /\ UNCHANGED <<ready, process, drain, ioLock, childVars>>

\* The lock is taken and the line written.  Without a worker the code fails
\* with an attribute error (never: ReadyCheckHolds).
Write(t) ==
    /\ At(t, "queued") /\ ioLock = None /\ process # None
    /\ ioLock' = t
    /\ stdin' = [stdin EXCEPT ![process] = Append(@, task[t].command)]
    /\ Goes(t, "reading", None, task[t].command)
    /\ UNCHANGED <<ready, process, drain, outcome, phase, killed, eof, stdout, work>>

\* An answer with the right id is a result, or a typed error, and leaves the
\* worker running.  "failed" is the worker's execution_error.
Ending(kind) == IF kind = "result" THEN "answered" ELSE kind

ReadAnswer(t) ==
    LET c == task[t].command  line == Head(stdout[process]) IN
    /\ At(t, "reading") /\ process # None /\ stdout[process] # <<>>
    /\ line.command = c /\ line.kind # "bad"
    /\ stdout' = [stdout EXCEPT ![process] = Tail(@)]
    /\ Ends(c, Ending(line.kind))
    /\ Unlocks(t) /\ Leaves(t)
    /\ UNCHANGED <<ready, process, drain, phase, killed, eof, stdin, work>>

\* Another id, an answer out of bounds, or the end of stdout.  (An answer that
\* fails validation is reaped after the lock was released; nobody else is in
\* the backend to see the difference.)
Unusable(t) ==
    LET lines == stdout[process] IN
    IF lines = <<>> THEN ~Alive(process)
    ELSE Head(lines).command # task[t].command \/ Head(lines).kind = "bad"

AnswerUnusable(t) ==
    /\ At(t, "reading") /\ process # None /\ Unusable(t)
    /\ Ends(task[t].command, "lost") /\ Invalidate(t)
    /\ UNCHANGED <<drain, ioLock>>

\* Mutants: a deadline that keeps the worker; no deadline at all.
DeadlineKeepsWorker(t) ==
    /\ At(t, "reading")
    /\ Ends(task[t].command, "lost") /\ Unlocks(t) /\ Leaves(t)
    /\ UNCHANGED <<ready, process, drain, childVars>>

NoDeadline(t) == FALSE /\ UNCHANGED vars

\* The deadline passes, or the task is cancelled, answer or no answer.
Deadline(t) ==
    /\ At(t, "reading")
    /\ Ends(task[t].command, "lost") /\ Invalidate(t)
    /\ UNCHANGED <<drain, ioLock>>

----------------------------------------------------------------------------
(* close(), of a restarted worker that differs or at shutdown, when the    *)
(* requests have ended and the recovery task was cancelled and awaited.    *)

\* Mutant: stdin stays open.
CloseOpenly(t) ==
    /\ OneAtATime
    /\ ready' = FALSE /\ process' = None
    /\ Goes(t, "closing", process, None)
    /\ UNCHANGED <<drain, ioLock, outcome, childVars>>

CloseCall(t) ==
    /\ OneAtATime
    /\ ready' = FALSE /\ process' = None
    /\ eof' = eof \cup ({process} \ {None})
    /\ Goes(t, "closing", process, None)
    /\ UNCHANGED <<drain, ioLock, outcome, phase, killed, pipes, work>>

ClosedDown(t) ==
    /\ At(t, "closing")
    /\ Gone(task[t].child)
    /\ drain' = None /\ Leaves(t)
    /\ UNCHANGED <<ready, process, ioLock, outcome, childVars>>

\* The worker did not stop within ten seconds.
CloseKills(t) ==
    /\ At(t, "closing") /\ ~Gone(task[t].child)
    /\ killed' = killed \cup {task[t].child}
    /\ Goes(t, "reaping", task[t].child, None)
    /\ UNCHANGED <<ready, process, drain, ioLock, outcome, phase, eof, pipes, work>>

CloseCancelled(t) ==
    /\ At(t, "closing") /\ Leaves(t)
    /\ UNCHANGED <<ready, process, drain, ioLock, outcome, childVars>>

----------------------------------------------------------------------------
(* The worker process.  A killed one does nothing but die.                 *)

Runs(p, ph) == phase[p] = ph /\ p \notin killed

SayHello(p) ==
    /\ Runs(p, "loading") /\ phase' = [phase EXCEPT ![p] = "serving"]
    /\ stdout' = [stdout EXCEPT ![p] = Append(@, Hello)]
    /\ UNCHANGED <<backendVars, killed, eof, stdin, work>>

TakeLine(p) ==
    /\ Runs(p, "serving") /\ stdin[p] # <<>>
    /\ phase' = [phase EXCEPT ![p] = "working"]
    /\ doing' = [doing EXCEPT ![p] = Head(stdin[p])]
    /\ stdin' = [stdin EXCEPT ![p] = Tail(@)]
    /\ UNCHANGED <<backendVars, killed, eof, stdout, applied>>

\* handle(): a refused command changes nothing, a failed one may have.
Effects(kind, c) ==
    IF kind = "refused" THEN {{}} ELSE IF kind = "result" THEN {{c}} ELSE {{}, {c}}

HandleLine(p) ==
    /\ Runs(p, "working") /\ phase' = [phase EXCEPT ![p] = "serving"]
    /\ doing' = [doing EXCEPT ![p] = None]
    /\ \E kind \in Answers :
          /\ stdout' = [stdout EXCEPT ![p] = Append(@, Line(kind, doing[p]))]
          /\ \E effects \in Effects(kind, doing[p]) :
                applied' = [applied EXCEPT ![p] = @ \cup effects]
    /\ UNCHANGED <<backendVars, killed, eof, stdin>>

EndOfInput(p) ==
    /\ Runs(p, "serving") /\ stdin[p] = <<>> /\ p \in eof
    /\ phase' = [phase EXCEPT ![p] = "dead"]
    /\ UNCHANGED <<backendVars, killed, eof, pipes, work>>

Dies(p) ==
    /\ Alive(p) /\ phase' = [phase EXCEPT ![p] = "dead"]
    /\ UNCHANGED <<backendVars, killed, eof, pipes, work>>

----------------------------------------------------------------------------
Init ==
    /\ ready = FALSE /\ process = None /\ drain = None /\ ioLock = None
    /\ task = [t \in Tasks |-> Out]
    /\ outcome = [c \in Commands |-> "none"]
    /\ phase = [p \in Children |-> "unborn"] /\ killed = {} /\ eof = {}
    /\ stdin = [p \in Children |-> <<>>] /\ stdout = [p \in Children |-> <<>>]
    /\ doing = [p \in Children |-> None] /\ applied = [p \in Children |-> {}]

\* What a task does when nobody cancels it and the worker says nothing.
TaskStep(t) ==
    \/ Reaped(t) \/ StartFails(t) \/ Write(t) \/ Deadline(t)
    \/ ClosedDown(t) \/ CloseKills(t)

TaskNext(t) ==
    \/ StartCall(t) \/ RequestCall(t) \/ CloseCall(t) \/ TaskStep(t)
    \/ Spawn(t) \/ HelloRead(t) \/ ReadAnswer(t) \/ AnswerUnusable(t)
    \/ Unsent(t) \/ ReapCancelled(t) \/ CloseCancelled(t)

ChildNext(p) == SayHello(p) \/ TakeLine(p) \/ HandleLine(p) \/ EndOfInput(p) \/ Dies(p)

Next == (\E t \in Tasks : TaskNext(t)) \/ (\E p \in Children : ChildNext(p))

\* Every await of a task has a timeout or waits for a killed process; a
\* killed process dies; one that serves sees the end of its input.  Nothing
\* else is expected of a worker: it may hang for ever.
Fairness ==
    /\ \A t \in Tasks : WF_vars(TaskStep(t))
    /\ \A p \in Children :
          WF_vars(p \in killed /\ Dies(p)) /\ WF_vars(EndOfInput(p))

Spec == Init /\ [][Next]_vars /\ Fairness

----------------------------------------------------------------------------
(* Properties.                                                             *)

LineType == [kind : Answers \cup {"hello"}, command : Commands \cup {None}]
TaskType ==
    [pc : {"out", "verifying", "hello", "queued", "reading", "reaping", "closing"},
     child : Children \cup {None}, command : Commands \cup {None}]

\* The state is typed.
TypeOK ==
    /\ ready \in BOOLEAN /\ {process, drain} \subseteq Children \cup {None}
    /\ ioLock \in Tasks \cup {None}
    /\ task \in [Tasks -> TaskType]
    /\ outcome \in [Commands -> {"none", "unsent", "answered", "refused", "failed", "lost"}]
    /\ phase \in [Children -> {"unborn", "loading", "serving", "working", "dead"}]
    /\ killed \subseteq Children /\ eof \subseteq Children
    /\ stdin \in [Children -> Seq(Commands)] /\ stdout \in [Children -> Seq(LineType)]
    /\ doing \in [Children -> Commands \cup {None}]
    /\ applied \in [Children -> SUBSET Commands]

\* Between two calls nothing is left in the pipes of a ready worker, so the
\* next command cannot be taken for, or answered by, an earlier one: a late
\* answer dies with the worker that would have given it.
QuietWhenFree ==
    ready /\ OneAtATime =>
        /\ process # None
        /\ stdin[process] = <<>> /\ stdout[process] = <<>> /\ doing[process] = None

\* The lock finds the worker the ready check found before it was awaited;
\* _request would otherwise fail with an attribute error and reap nothing.
ReadyCheckHolds == \A t \in Tasks : At(t, "queued") /\ ioLock = None => process # None

\* However starts fail, deadlines pass and tasks are cancelled, a worker the
\* backend no longer knows was killed or told to stop: two never hold the GPU
\* for good.
OneWorker ==
    \A p \in Children : Alive(p) /\ p # process => p \in killed \cup eof

\* The stderr of the worker in use is read, or its pipe would fill and the
\* worker block: the reaping of one never stops the drain of its successor.
StderrDrained == process # None => drain = process

\* What the lock and the service's gate keep in step: the pipes, the ready check
\* and the drain belong to the worker in use, and to one command.
LockProtects == TypeOK /\ QuietWhenFree /\ ReadyCheckHolds /\ StderrDrained

\* A command takes effect only while its caller waits for it: once the caller
\* was told that it is lost it may clean up (the temporary directory of a
\* save, the ids of a create) with nothing still at work.
NoLateEffect ==
    [][\A p \in Children : \A c \in applied'[p] \ applied[p] :
          outcome[c] = "none"]_vars

\* The three outcomes the registry counts on: an answered command was applied
\* in the worker that is up, a refused one was not, and one that is lost took
\* the worker with it.
Running == {task[t].command : t \in {u \in Tasks : At(u, "reading")}}
Held == IF process = None THEN {} ELSE applied[process]
Channel == INSTANCE CommandChannel WITH up <- ready, running <- Running, applied <- Held
ImplementsChannel == Channel!Spec

\* Every call of the backend ends, whatever the worker does.
CallsEnd == \A t \in Tasks : ~At(t, "out") ~> At(t, "out")

\* A worker the backend let go of is gone in the end, though the task that
\* stopped it was cancelled.
ForgottenWorkersEnd ==
    \A p \in Children : (Alive(p) /\ p # process) ~> ~Alive(p)
============================================================================
