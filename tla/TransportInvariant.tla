------------------------- MODULE TransportInvariant -------------------------
(* The inductive invariant of WorkerTransport: who is in the backend, what *)
(* the flags then are, and what the pipes of the worker in use can hold.   *)
EXTENDS WorkerTransport

\* The service's gate, as an invariant.
OneCaller == \A t, u \in Tasks : At(t, "out") \/ At(u, "out") \/ t = u

InFlight(c) == c \in Commands /\ outcome[c] = "none"

\* What a task's place in the backend says of the flags.
TaskPlaces ==
    \A t \in Tasks :
        /\ At(t, "out") => task[t] = Out
        /\ At(t, "verifying") => ~ready /\ process = None /\ task[t].command = None
        /\ At(t, "hello") => ~ready /\ process # None /\ task[t].command = None
        /\ At(t, "queued") => ready /\ ioLock = None /\ InFlight(task[t].command)
        /\ At(t, "reading") => ready /\ ioLock = t /\ InFlight(task[t].command)
        /\ At(t, "reaping") \/ At(t, "closing") => ~ready /\ process = None
        /\ ioLock = t => At(t, "reading") \/ At(t, "reaping")

\* The worker in use was neither killed nor told to stop, and is drained.
InUse ==
    /\ ready => process # None
    /\ process # None =>
        /\ drain = process /\ phase[process] # "unborn"
        /\ process \notin killed \cup eof
        /\ ready \/ \E t \in Tasks : At(t, "hello")

\* The pipes of a worker: starting, idle, or carrying one command.
Starting(p) ==
    /\ phase[p] \in {"loading", "serving", "dead"}
    /\ stdin[p] = <<>> /\ doing[p] = None /\ applied[p] = {}
    /\ stdout[p] \in {<<>>, <<Hello>>}
    /\ phase[p] = "loading" => stdout[p] = <<>>

Quiet(p) ==
    /\ phase[p] \in {"serving", "dead"}
    /\ stdin[p] = <<>> /\ stdout[p] = <<>> /\ doing[p] = None

Unread(p, c) ==
    /\ phase[p] \in {"serving", "dead"} /\ c \notin applied[p]
    /\ stdin[p] = <<c>> /\ stdout[p] = <<>> /\ doing[p] = None

Handled(p, c) ==
    /\ phase[p] \in {"working", "dead"} /\ c \notin applied[p]
    /\ stdin[p] = <<>> /\ stdout[p] = <<>> /\ doing[p] = c

Answered(p, c) ==
    /\ phase[p] \in {"serving", "dead"}
    /\ stdin[p] = <<>> /\ doing[p] = None
    /\ \E kind \in Answers :
          /\ stdout[p] = <<Line(kind, c)>>
          /\ kind = "result" => c \in applied[p]
          /\ kind = "refused" => c \notin applied[p]

Pipes ==
    process # None =>
        /\ ~ready => Starting(process)
        /\ ready /\ (\A t \in Tasks : ~At(t, "reading")) => Quiet(process)
        /\ \A t \in Tasks : At(t, "reading") =>
              \/ Unread(process, task[t].command) \/ Handled(process, task[t].command)
              \/ Answered(process, task[t].command)

\* What the worker in use applied is over, or being waited for.
AppliedForSomebody ==
    process # None =>
        \A c \in applied[process] :
            \/ outcome[c] # "none"
            \/ \E t \in Tasks : At(t, "reading") /\ task[t].command = c

\* A worker let go of was killed, or only waits for the end of its input.
LetGo ==
    \A p \in Children :
        /\ phase[p] = "unborn" =>
              /\ p \notin killed \cup eof /\ stdin[p] = <<>> /\ stdout[p] = <<>>
              /\ doing[p] = None /\ applied[p] = {}
        /\ Alive(p) /\ p # process /\ p \notin killed =>
              p \in eof /\ Quiet(p)

TransportInv ==
    /\ TypeOK /\ OneCaller /\ TaskPlaces /\ InUse /\ Pipes /\ AppliedForSomebody /\ LetGo
=============================================================================
