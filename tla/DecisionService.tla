--------------------------- MODULE DecisionService --------------------------
(***************************************************************************)
(* The v1 API: the application (unridden/api/app.py), its ApiService and   *)
(* its NativeBackend (unridden/api/native_backend.py), and the worker at   *)
(* the other end of the pipes.                                             *)
(*                                                                         *)
(* An action is what the event loop runs between two awaits that suspend.  *)
(* _guard and _io_lock never do: nothing awaits while it holds the first,  *)
(* and _busy keeps a second caller from the second.  A request ends with   *)
(* its HTTP status, or "cancelled".                                        *)
(***************************************************************************)
EXTENDS Naturals, Sequences

CONSTANTS
    Requests,   \* the requests the application ever gets
    MaxBytes,   \* max_request_bytes
    None        \* no request

ASSUME NoneAssumption == None \notin Requests
ASSUME BytesAssumption == MaxBytes \in Nat \ {0}

VARIABLES
    app,        \* where the lifespan is
    ready,      \* backend.ready, and a profile
    owned,      \* backend._process is not None
    busy,       \* ApiService._busy
    pc,         \* of each request: the await it is at
    code,       \* of each request: the status it gets, or will once the worker is reaped
    received,   \* of each request: the bytes of its body
    worker,     \* of the process: "none", "loading", "idle", "busy" or "dead"
    doing,      \* the request it works on
    killed,     \* it was sent SIGKILL
    stdinOpen,  \* its stdin is open
    stdin,      \* requests written and not read
    stdout,     \* answers written and not read
    computed    \* the requests inference was begun for

service == <<busy, pc, code, received>>
process == <<worker, doing, stdin, stdout, computed>>
backend == <<ready, owned, killed, stdinOpen>>
vars == <<app, service, backend, process>>

AtBackend == {"waiting", "reaping", "closing"}

----------------------------------------------------------------------------
(* The worker: the loop of worker.cpp's main().                            *)

Runs == worker \in {"loading", "idle", "busy"} /\ ~killed

SayHello ==
    /\ Runs /\ worker = "loading"
    /\ worker' = "idle" /\ stdout' = Append(stdout, [to |-> None, kind |-> "hello"])
    /\ UNCHANGED <<app, service, backend, doing, stdin, computed>>

TakeLine ==
    /\ Runs /\ worker = "idle" /\ stdin # <<>>
    /\ worker' = "busy" /\ doing' = Head(stdin) /\ stdin' = Tail(stdin)
    /\ UNCHANGED <<app, service, backend, stdout, computed>>

\* Preflight is over and inference begins.
Infer ==
    /\ Runs /\ worker = "busy"
    /\ computed' = computed \cup {doing}
    /\ UNCHANGED <<app, service, backend, worker, doing, stdin, stdout>>

\* A result; one that does not match its request; a line that is no valid
\* answer; the caller's fault; or a disagreement with the compiler.
Kinds == IF doing \in computed THEN {"result", "mismatch", "bad"} ELSE {"refusal", "internal"}

Reply ==
    /\ Runs /\ worker = "busy"
    /\ \E kind \in Kinds : stdout' = Append(stdout, [to |-> doing, kind |-> kind])
    /\ worker' = "idle" /\ doing' = None
    /\ UNCHANGED <<app, service, backend, stdin, computed>>

Dead == worker' = "dead" /\ doing' = None

EndOfInput ==
    /\ Runs /\ worker = "idle" /\ stdin = <<>> /\ ~stdinOpen
    /\ Dead /\ UNCHANGED <<app, service, backend, stdin, stdout, computed>>

Killed ==
    /\ killed /\ worker \in {"loading", "idle", "busy"}
    /\ Dead /\ UNCHANGED <<app, service, backend, stdin, stdout, computed>>

\* A failed decode, or a kill from outside.
Dies ==
    /\ Runs /\ Dead /\ UNCHANGED <<app, service, backend, stdin, stdout, computed>>

----------------------------------------------------------------------------
(* NativeBackend: what every path through it shares.                       *)

\* Mutant: the worker is told to stop and not killed.
InvalidateAsks ==
    /\ ready' = FALSE /\ owned' = FALSE /\ stdinOpen' = FALSE /\ killed' = killed

\* _invalidate() up to its first await.
Invalidate ==
    /\ ready' = FALSE /\ owned' = FALSE /\ stdinOpen' = FALSE
    /\ killed' = (killed \/ owned)

\* close() up to its first await: the worker is asked to stop.
AskToStop ==
    /\ ready' = FALSE /\ owned' = FALSE /\ stdinOpen' = FALSE /\ killed' = killed

Gone == worker \in {"none", "dead"}

----------------------------------------------------------------------------
(* The lifespan.                                                           *)

\* start(): the files are verified in a thread, then the worker is spawned.
Spawn ==
    /\ app = "verifying"
    /\ app' = "handshake" /\ worker' = "loading"
    /\ owned' = TRUE /\ stdinOpen' = TRUE
    /\ UNCHANGED <<service, ready, killed, doing, stdin, stdout, computed>>

VerifyFails ==
    /\ app = "verifying"
    /\ app' = "unwinding"
    /\ UNCHANGED <<service, backend, process>>

HelloRead ==
    /\ app = "handshake" /\ stdout # <<>>
    /\ app' = "snapshots" /\ ready' = TRUE /\ stdout' = Tail(stdout)
    /\ UNCHANGED <<service, owned, killed, stdinOpen, worker, doing, stdin, computed>>

\* A hello that differs from the configuration, a closed stdout, a timeout.
StartFails ==
    /\ app = "handshake" /\ Invalidate
    /\ app' = "startReaping"
    /\ UNCHANGED <<service, process>>

\* The wait for the process ends, or the outer startup timeout cuts it short.
StartReaped ==
    /\ app = "startReaping"
    /\ app' = "unwinding"
    /\ UNCHANGED <<service, backend, process>>

\* The snapshot service starts after v1, and both go when it does not.
SnapshotsStart ==
    /\ app = "snapshots" /\ app' \in {"serving", "unwinding"}
    /\ UNCHANGED <<service, backend, process>>

\* The server leaves the lifespan after its last request.
Shutdown ==
    /\ app = "serving" /\ \A r \in Requests : pc[r] \in {"new", "done"}
    /\ app' = "unwinding"
    /\ UNCHANGED <<service, backend, process>>

Close ==
    /\ app = "unwinding" /\ AskToStop
    /\ app' = IF owned THEN "stopping" ELSE "stopped"
    /\ UNCHANGED <<service, process>>

CloseKills ==
    /\ app = "stopping" /\ ~killed
    /\ killed' = TRUE
    /\ UNCHANGED <<app, service, ready, owned, stdinOpen, process>>

Stopped ==
    /\ app = "stopping" /\ Gone
    /\ app' = "stopped"
    /\ UNCHANGED <<service, backend, process>>

----------------------------------------------------------------------------
(* A request before it reaches the service.                                *)

Goes(r, to) == pc' = [pc EXCEPT ![r] = to]
Ends(r, c) == Goes(r, "done") /\ code' = [code EXCEPT ![r] = c]

\* What a step in the application leaves alone.
Outside == UNCHANGED <<app, backend, process, busy>>

\* request_bounds(): the media type and a declared length.
RefuseHeaders(r) ==
    /\ app = "serving" /\ pc[r] = "new"
    /\ \E c \in {"415", "413", "400"} : Ends(r, c)
    /\ Outside /\ UNCHANGED received

Arrive(r) ==
    /\ app = "serving" /\ pc[r] = "new"
    /\ Goes(r, "body")
    /\ Outside /\ UNCHANGED <<code, received>>

\* The stream, whatever length it declared.
ReadBody(r) ==
    /\ pc[r] = "body"
    /\ \E n \in 1..(MaxBytes - received[r]) : received' = [received EXCEPT ![r] = @ + n]
    /\ Outside /\ UNCHANGED <<pc, code>>

BodyTooLarge(r) ==
    /\ pc[r] = "body" /\ Ends(r, "413")
    /\ Outside /\ UNCHANGED received

\* No JSON, not the schema, not the model.
RefuseBody(r) ==
    /\ pc[r] = "body" /\ \E c \in {"400", "422", "404"} : Ends(r, c)
    /\ Outside /\ UNCHANGED received

Accept(r) ==
    /\ pc[r] = "body" /\ Goes(r, "decide")
    /\ Outside /\ UNCHANGED <<code, received>>

----------------------------------------------------------------------------
(* ApiService.evaluate() and NativeBackend.evaluate().                     *)

RefuseUnavailable(r) ==
    /\ pc[r] = "decide" /\ ~ready /\ Ends(r, "529")
    /\ Outside /\ UNCHANGED received

RefuseBusy(r) ==
    /\ pc[r] = "decide" /\ ready /\ busy /\ Ends(r, "429")
    /\ Outside /\ UNCHANGED received

\* compile_request() or the limit on a line: _busy was taken and given back.
RefuseCompiled(r) ==
    /\ pc[r] = "decide" /\ ready /\ ~busy /\ Ends(r, "422")
    /\ Outside /\ UNCHANGED received

Send(r) ==
    /\ pc[r] = "decide" /\ ready /\ ~busy
    /\ busy' = TRUE /\ Goes(r, "waiting") /\ stdin' = Append(stdin, r)
    /\ UNCHANGED <<app, code, received, backend, worker, doing, stdout, computed>>

\* finally: _busy is given back.
Leaves(r, c) == Ends(r, c) /\ busy' = FALSE

\* A line that validates and maps onto the request.
Answered(r) ==
    /\ pc[r] = "waiting" /\ stdout # <<>>
    /\ Head(stdout) = [to |-> r, kind |-> "result"]
    /\ stdout' = Tail(stdout) /\ Leaves(r, "200")
    /\ UNCHANGED <<app, received, backend, worker, doing, stdin, computed>>

\* The worker answered in protocol and stays: the caller's fault, or a
\* compiled request the worker's preflight rejects.
Refused(r) ==
    /\ pc[r] = "waiting" /\ stdout # <<>>
    /\ \/ Head(stdout) = [to |-> r, kind |-> "refusal"] /\ Leaves(r, "422")
       \/ Head(stdout) = [to |-> r, kind |-> "internal"] /\ Leaves(r, "500")
    /\ stdout' = Tail(stdout)
    /\ UNCHANGED <<app, received, backend, worker, doing, stdin, computed>>

\* Mutant: the ValueError of map_response() leaves as it is.
MismatchedRaises(r) ==
    /\ pc[r] = "waiting" /\ stdout # <<>>
    /\ Head(stdout) = [to |-> r, kind |-> "mismatch"]
    /\ stdout' = Tail(stdout) /\ Leaves(r, "422")
    /\ UNCHANGED <<app, received, backend, worker, doing, stdin, computed>>

\* map_response() finds the answer of another request in a valid line: the
\* service closes the backend.
Mismatched(r) ==
    /\ pc[r] = "waiting" /\ stdout # <<>>
    /\ Head(stdout) = [to |-> r, kind |-> "mismatch"]
    /\ stdout' = Tail(stdout) /\ AskToStop
    /\ Goes(r, "closing") /\ code' = [code EXCEPT ![r] = "500"]
    /\ UNCHANGED <<app, busy, received, worker, doing, stdin, computed>>

Reap(r, c) ==
    /\ Invalidate
    /\ Goes(r, "reaping") /\ code' = [code EXCEPT ![r] = c]
    /\ UNCHANGED <<app, busy, received, process>>

\* A line that is malformed, too long, another's, or of an unknown error.
AnswerUnusable(r) ==
    /\ pc[r] = "waiting" /\ stdout # <<>>
    /\ Head(stdout).to # r \/ Head(stdout).kind = "bad"
    /\ Reap(r, "500")

\* The pipe is broken or at its end.
WorkerLost(r) ==
    /\ pc[r] = "waiting" /\ worker = "dead" /\ stdout = <<>>
    /\ Reap(r, "500")

\* Mutant: the caller is told and the worker kept.
DeadlineKeeps(r) ==
    /\ pc[r] = "waiting" /\ Leaves(r, "408")
    /\ UNCHANGED <<app, received, backend, process>>

\* Either timeout, the backend's own or the service's around it.
Deadline(r) == pc[r] = "waiting" /\ Reap(r, "408")

\* Mutant: an exception that is no Exception passes by.
CancelKeeps(r) ==
    /\ pc[r] = "waiting" /\ Leaves(r, "cancelled")
    /\ UNCHANGED <<app, received, backend, process>>

Cancel(r) == pc[r] = "waiting" /\ Reap(r, "cancelled")

\* The caller goes away before the request is sent.
Disconnect(r) ==
    /\ pc[r] \in {"body", "decide"} /\ Ends(r, "cancelled")
    /\ Outside /\ UNCHANGED received

Reaped(r) ==
    /\ pc[r] \in {"reaping", "closing"} /\ Gone
    /\ Leaves(r, code[r])
    /\ UNCHANGED <<app, received, backend, process>>

\* close() waits ten seconds.
KillAfterWait(r) ==
    /\ pc[r] = "closing" /\ ~killed
    /\ killed' = TRUE
    /\ UNCHANGED <<app, service, ready, owned, stdinOpen, process>>

\* A cancellation ends the wait for the process, or the outer timeout does; the
\* service closes the backend outside that one.
ReapCut(r) ==
    /\ pc[r] \in {"reaping", "closing"}
    /\ \/ pc[r] = "reaping" /\ Leaves(r, "408")
       \/ Leaves(r, "cancelled")
    /\ UNCHANGED <<app, received, backend, process>>

----------------------------------------------------------------------------

Init ==
    /\ app = "verifying" /\ ready = FALSE /\ owned = FALSE /\ busy = FALSE
    /\ pc = [r \in Requests |-> "new"] /\ code = [r \in Requests |-> "none"]
    /\ received = [r \in Requests |-> 0]
    /\ worker = "none" /\ doing = None /\ killed = FALSE /\ stdinOpen = FALSE
    /\ stdin = <<>> /\ stdout = <<>> /\ computed = {}

Lifespan ==
    Spawn \/ VerifyFails \/ HelloRead \/ StartFails \/ StartReaped \/ SnapshotsStart
    \/ Close \/ CloseKills \/ Stopped

Admission(r) ==
    \/ RefuseHeaders(r) \/ Arrive(r) \/ ReadBody(r) \/ BodyTooLarge(r) \/ RefuseBody(r)
    \/ Accept(r) \/ Disconnect(r)

Handling(r) ==
    \/ RefuseUnavailable(r) \/ RefuseBusy(r) \/ RefuseCompiled(r) \/ Send(r)
    \/ Answered(r) \/ Refused(r) \/ Mismatched(r) \/ AnswerUnusable(r) \/ WorkerLost(r)
    \/ Deadline(r) \/ Reaped(r) \/ KillAfterWait(r)

Worker == SayHello \/ TakeLine \/ Infer \/ Reply \/ EndOfInput \/ Killed \/ Dies

Next ==
    \/ Lifespan \/ Shutdown \/ Worker
    \/ \E r \in Requests : Admission(r) \/ Handling(r) \/ Cancel(r) \/ ReapCut(r)

Spec == Init /\ [][Next]_vars

\* Every await of the lifespan and of a handled request ends: a timeout, or the
\* death of a killed process.  An idle worker sees the end of its input.
\* Nothing makes a worker answer, or a client send its body.
FairSpec ==
    /\ Spec
    /\ WF_vars(Lifespan) /\ WF_vars(Killed) /\ WF_vars(EndOfInput)
    /\ \A r \in Requests : WF_vars(Handling(r))

----------------------------------------------------------------------------
(* Properties.                                                             *)

Lines == [to : Requests \cup {None},
          kind : {"hello", "result", "mismatch", "bad", "refusal", "internal"}]

TypeOK ==
    /\ app \in {"verifying", "handshake", "startReaping", "snapshots", "serving",
                "unwinding", "stopping", "stopped"}
    /\ ready \in BOOLEAN /\ owned \in BOOLEAN /\ busy \in BOOLEAN
    /\ killed \in BOOLEAN /\ stdinOpen \in BOOLEAN
    /\ pc \in [Requests -> {"new", "body", "decide", "done"} \cup AtBackend]
    /\ code \in [Requests -> {"none", "200", "400", "404", "408", "413", "415", "422",
                              "429", "500", "529", "cancelled"}]
    /\ received \in [Requests -> 0..MaxBytes]
    /\ worker \in {"none", "loading", "idle", "busy", "dead"}
    /\ doing \in Requests \cup {None}
    /\ stdin \in Seq(Requests)
    /\ stdout \in Seq(Lines)
    /\ computed \subseteq Requests

\* The request for which something is in the pipes or in the worker.
InTransit ==
    {stdin[i] : i \in DOMAIN stdin} \cup {stdout[i].to : i \in DOMAIN stdout}
    \cup ({doing} \ {None})

\* A backend that will be used again holds nothing of a request whose caller is
\* not waiting for it: no answer can be taken for that of a later request.
NothingIsStale ==
    (ready /\ app = "serving") => \A r \in InTransit : r # None /\ pc[r] = "waiting"

\* The contract of the Backend protocol (backend.py): when evaluate() times out,
\* is cancelled or fails ambiguously, the inference has been stopped and the
\* backend is not ready before the exception leaves.
FailureStopsInference ==
    \A r \in Requests :
        (pc[r] = "done" /\ r \in computed /\ code[r] # "200") =>
            ~ready /\ (Gone \/ killed \/ (doing = None /\ ~stdinOpen))

\* One body of an evaluation at a time, and _busy is given back (app.py: "The
\* one-request backend is occupied").
OneIsHandled ==
    /\ busy = (\E r \in Requests : pc[r] \in AtBackend)
    /\ \A r, q \in Requests : (pc[r] \in AtBackend /\ pc[q] \in AtBackend) => r = q

\* One request is handled at a time, and what is under way is its own.
AnswersAreOwn == TypeOK /\ OneIsHandled /\ NothingIsStale

\* The README's account of the errors, as a specification.
Standing == IF ready THEN "up"
            ELSE IF app \in {"verifying", "handshake"} THEN "starting" ELSE "down"
Ended == [r \in Requests |-> IF pc[r] = "done" THEN code[r] ELSE "none"]
Contract == INSTANCE DecisionContract WITH backend <- Standing, outcome <- Ended

\* A request ends once, refused without a trace or failed together with the
\* backend, and a backend that went down is never up again (docs/architecture.md,
\* "No automatic restart").
KeepsContract == Contract!Spec

\* A request handed to the service is answered, though the worker hangs.
RequestsEnd == \A r \in Requests : (pc[r] \in AtBackend \cup {"decide"}) ~> (pc[r] = "done")

\* A worker the backend let go of ends.
WorkerEnds == (~owned /\ worker # "none") ~> (worker = "dead")

\* Nothing hangs: neither a caller nor the process that was let go of.
NothingHangs == RequestsEnd /\ WorkerEnds
=============================================================================
