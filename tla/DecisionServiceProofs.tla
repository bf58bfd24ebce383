------------------------ MODULE DecisionServiceProofs -----------------------
(* Proofs about the v1 API: its inductive invariant, for any number of     *)
(* requests, what follows from it, and the refinement of its contract.     *)
EXTENDS DecisionService, TLAPS

----------------------------------------------------------------------------
(* The invariant.                                                          *)

Waits == {r \in Requests : pc[r] = "waiting"}

\* Outside the serving phase no request is under way, and only a started
\* backend is owned.
Phases ==
    /\ app # "serving" => \A r \in Requests : pc[r] \in {"new", "done"}
    /\ owned <=> ready \/ app = "handshake"
    /\ ready => stdinOpen /\ ~killed /\ app \in {"snapshots", "serving", "unwinding"}
    /\ app = "snapshots" => ready
    /\ app = "verifying" => worker = "none" /\ ~killed /\ ~stdinOpen
    /\ app = "handshake" => worker \in {"loading", "idle", "dead"} /\ ~killed /\ stdinOpen
    /\ app \in {"verifying", "handshake"} => stdin = <<>> /\ computed = {} /\ ~ready
    /\ app = "verifying" => stdout = <<>>
    /\ app = "handshake" =>
          \/ stdout = <<>>
          \/ worker # "loading" /\ stdout = <<[to |-> None, kind |-> "hello"]>>
    /\ ready => worker # "loading" /\ worker # "none"

\* An answer tells whether the model was run.
Truthful(line) ==
    IF line.kind \in {"refusal", "internal"} THEN line.to \notin computed
    ELSE line.kind # "hello" /\ line.to \in computed

\* The pipes of a ready worker: nothing, or one request that is waited for, in
\* one of the places it can be.
Pipes ==
    /\ worker = "busy" <=> doing # None
    /\ ready =>
          \/ stdin = <<>> /\ stdout = <<>> /\ doing = None
                /\ (worker = "dead" \/ Waits = {})
          \/ \E r \in Waits : stdin = <<r>> /\ stdout = <<>> /\ doing = None /\ r \notin computed
          \/ \E r \in Waits : stdin = <<>> /\ stdout = <<>> /\ doing = r
          \/ \E line \in Lines : /\ line.to \in Waits /\ Truthful(line)
                                 /\ stdin = <<>> /\ stdout = <<line>> /\ doing = None

\* A backend that is not ready any more computes nothing.
Halted ==
    (~ready /\ app \notin {"verifying", "handshake"}) =>
        /\ ~stdinOpen
        /\ Gone \/ killed \/ (doing = None /\ stdin = <<>>)

\* What a request was told, and what it will be.
Outcomes ==
    \A r \in Requests :
        /\ pc[r] \in {"reaping", "closing"} =>
              ~ready /\ code[r] \in {"408", "500", "cancelled"}
        /\ pc[r] = "waiting" => ready
        /\ pc[r] = "done" => code[r] # "none"
        /\ r \in computed => pc[r] \in AtBackend \cup {"done"}
        /\ r \in computed /\ pc[r] = "done" => code[r] = "200" \/ ~ready

IInv == TypeOK /\ OneIsHandled /\ Phases /\ Pipes /\ Halted /\ Outcomes

----------------------------------------------------------------------------
(* Frames.                                                                 *)

\* A pipe of one line.
LEMMA OneLine ==
    ASSUME NEW S, NEW x \in S
    PROVE  /\ Append(<<>>, x) = <<x>> /\ Head(<<x>>) = x /\ Tail(<<x>>) = <<>>
           /\ <<x>> # <<>> /\ <<x>> \in Seq(S) /\ <<>> \in Seq(S)
  OBVIOUS

\* A request away from the backend moves on, or is refused.
LEMMA AsideInv ==
    ASSUME IInv, NEW r \in Requests, NEW to \in {"body", "decide", "done"},
           NEW c \in {"none", "200", "400", "404", "408", "413", "415", "422", "429", "500",
                      "529", "cancelled"},
           pc[r] \in {"new", "body", "decide"}, app = "serving", Outside,
           pc' = [pc EXCEPT ![r] = to], code' = [code EXCEPT ![r] = c],
           to = "done" => c # "none",
           received' \in [Requests -> 0..MaxBytes]
    PROVE  IInv'
<1> USE DEF Outside, backend, process
<1>1. /\ pc' \in [Requests -> {"new", "body", "decide", "done"} \cup AtBackend]
      /\ code' \in [Requests -> {"none", "200", "400", "404", "408", "413", "415", "422",
                                 "429", "500", "529", "cancelled"}]
      /\ \A q \in Requests : q # r => pc'[q] = pc[q] /\ code'[q] = code[q]
      /\ pc'[r] = to /\ code'[r] = c
  BY DEF IInv, TypeOK
<1>2. TypeOK'
  BY <1>1 DEF IInv, TypeOK
<1>3. \A q \in Requests : (pc'[q] \in AtBackend) <=> (pc[q] \in AtBackend)
  BY <1>1 DEF AtBackend
<1>4. OneIsHandled'
  BY <1>3 DEF IInv, OneIsHandled
<1>5. Phases'
  BY <1>1 DEF IInv, Phases
<1>6. Waits' = Waits
  BY <1>1 DEF Waits
<1>7. Pipes'
  BY <1>6 DEF IInv, Pipes, Truthful
<1>8. Halted'
  BY DEF IInv, Halted, Gone
<1>9. Outcomes'
  BY <1>1 DEF IInv, Outcomes, AtBackend
<1> QED BY <1>2, <1>4, <1>5, <1>7, <1>8, <1>9 DEF IInv

\* While a request waits, the pipes are its own.
LEMMA WaitingPipes ==
    ASSUME IInv, NEW r \in Requests, pc[r] = "waiting"
    PROVE  /\ ready /\ owned /\ app = "serving" /\ busy /\ Waits = {r}
           /\ ~killed /\ stdinOpen
           /\ \A q \in Requests : q # r => pc[q] \notin AtBackend
           /\ stdout # <<>> =>
                 \E line \in Lines : /\ line.to = r /\ Truthful(line)
                                     /\ stdin = <<>> /\ stdout = <<line>> /\ doing = None
<1>1. ready /\ owned /\ app = "serving" /\ ~killed /\ stdinOpen
  BY DEF IInv, Outcomes, Phases
<1>2. busy /\ \A q \in Requests : q # r => pc[q] \notin AtBackend
  BY DEF IInv, OneIsHandled, AtBackend
<1>3. Waits = {r}
  BY <1>2 DEF Waits, AtBackend
<1> QED BY <1>1, <1>2, <1>3 DEF IInv, Pipes

\* A request leaves the backend with its status.
LEMMA LeavesInv ==
    ASSUME IInv, NEW r \in Requests, pc[r] \in AtBackend,
           NEW c \in {"200", "408", "422", "500", "cancelled"},
           Leaves(r, c),
           UNCHANGED <<app, received, ready, owned, killed, stdinOpen, worker, doing, stdin, computed>>,
           ready => stdin = <<>> /\ stdout' = <<>> /\ doing = None,
           stdout' \in Seq(Lines),
           r \in computed => c = "200" \/ ~ready
    PROVE  IInv'
<1> USE DEF Leaves, Ends, Goes
<1>1. /\ pc' \in [Requests -> {"new", "body", "decide", "done"} \cup AtBackend]
      /\ code' \in [Requests -> {"none", "200", "400", "404", "408", "413", "415", "422",
                                 "429", "500", "529", "cancelled"}]
      /\ \A q \in Requests : q # r => pc'[q] = pc[q] /\ code'[q] = code[q]
      /\ pc'[r] = "done" /\ code'[r] = c
  BY DEF IInv, TypeOK
<1>2. TypeOK'
  BY <1>1 DEF IInv, TypeOK
<1>3. \A q \in Requests : pc'[q] \notin AtBackend
  BY <1>1 DEF IInv, OneIsHandled, AtBackend
<1>4. OneIsHandled'
  BY <1>3 DEF OneIsHandled
<1>5. app = "serving"
  BY DEF IInv, Phases, AtBackend
<1>6. Phases'
  BY <1>1, <1>5 DEF IInv, Phases
<1>7. Waits' = {}
  BY <1>3 DEF Waits, AtBackend
<1>8. Pipes'
  BY <1>7 DEF IInv, Pipes
<1>9. Halted'
  BY DEF IInv, Halted, Gone
<1>10. Outcomes'
  BY <1>1 DEF IInv, Outcomes, AtBackend
<1> QED BY <1>2, <1>4, <1>6, <1>8, <1>9, <1>10 DEF IInv

\* A waiting request finds the backend unusable, and takes it down.
LEMMA GoesDownInv ==
    ASSUME IInv, NEW r \in Requests, pc[r] = "waiting",
           NEW to \in {"reaping", "closing"}, NEW c \in {"408", "500", "cancelled"},
           Goes(r, to), code' = [code EXCEPT ![r] = c],
           ready' = FALSE, owned' = FALSE, stdinOpen' = FALSE, killed' \in BOOLEAN,
           killed' \/ (doing = None /\ stdin = <<>>),
           UNCHANGED <<app, busy, received, worker, doing, stdin, computed>>,
           stdout' \in Seq(Lines)
    PROVE  IInv'
<1> USE DEF Goes
<1>1. /\ pc' \in [Requests -> {"new", "body", "decide", "done"} \cup AtBackend]
      /\ code' \in [Requests -> {"none", "200", "400", "404", "408", "413", "415", "422",
                                 "429", "500", "529", "cancelled"}]
      /\ \A q \in Requests : q # r => pc'[q] = pc[q] /\ code'[q] = code[q]
      /\ pc'[r] = to /\ code'[r] = c
  BY DEF IInv, TypeOK, AtBackend
<1>2. TypeOK'
  BY <1>1 DEF IInv, TypeOK
<1>3. \A q \in Requests : (pc'[q] \in AtBackend) <=> (pc[q] \in AtBackend)
  BY <1>1 DEF AtBackend
<1>4. OneIsHandled'
  BY <1>3 DEF IInv, OneIsHandled
<1>5. /\ app = "serving"
      /\ \A q \in Requests : q # r => pc[q] \notin AtBackend
  BY WaitingPipes
<1>6. Phases'
  BY <1>1, <1>5 DEF IInv, Phases
<1>7. Pipes'
  BY DEF IInv, Pipes
<1>8. Halted'
  BY DEF Halted
<1>9. Outcomes'
  BY <1>1, <1>5 DEF IInv, Outcomes, AtBackend
<1> QED BY <1>2, <1>4, <1>6, <1>7, <1>8, <1>9 DEF IInv

\* What only the application, the backend or the worker changes leaves every
\* request where it is.
LEMMA RequestsStay ==
    ASSUME IInv, UNCHANGED <<busy, pc, code, received>>
    PROVE  OneIsHandled' /\ Waits' = Waits
  BY DEF IInv, OneIsHandled, Waits

----------------------------------------------------------------------------
(* The worker.                                                             *)

\* Only a ready worker has a request to read or to work on.
LEMMA WorksWhenReady ==
    ASSUME IInv, Runs, (worker = "idle" /\ stdin # <<>>) \/ worker = "busy"
    PROVE  ready
  BY DEF IInv, Runs, Halted, Phases, Pipes, Gone

LEMMA SayHelloInv == IInv /\ SayHello => IInv'
<1> SUFFICES ASSUME IInv, SayHello PROVE IInv'
  OBVIOUS
<1> DEFINE hello == [to |-> None, kind |-> "hello"]
<1> USE DEF SayHello, Runs, service, backend
<1>1. OneIsHandled' /\ Waits' = Waits
  BY RequestsStay
<1>2. hello \in Lines
  BY DEF Lines
<1>3. stdout' \in Seq(Lines) /\ Append(<<>>, hello) = <<hello>>
  BY <1>2, OneLine DEF IInv, TypeOK
<1>4. TypeOK'
  BY <1>3 DEF IInv, TypeOK
<1>5. ~ready
  BY DEF IInv, Phases
<1>6. Phases'
  BY <1>3, <1>5 DEF IInv, Phases
<1>7. Pipes'
  BY <1>5 DEF IInv, Pipes
<1>8. Halted' /\ Outcomes'
  BY <1>5 DEF IInv, Halted, Outcomes, Gone
<1> QED BY <1>1, <1>4, <1>6, <1>7, <1>8 DEF IInv

LEMMA TakeLineInv == IInv /\ TakeLine => IInv'
<1> SUFFICES ASSUME IInv, TakeLine PROVE IInv'
  OBVIOUS
<1> USE DEF TakeLine, service, backend
<1>1. OneIsHandled' /\ Waits' = Waits
  BY RequestsStay
<1>2. ready
  BY WorksWhenReady
<1>3. PICK r \in Waits : stdin = <<r>> /\ stdout = <<>> /\ doing = None /\ r \notin computed
  BY <1>2 DEF IInv, Pipes
<1>4. r \in Requests /\ Head(stdin) = r /\ Tail(stdin) = <<>> /\ <<>> \in Seq(Requests)
  BY <1>3, OneLine DEF Waits
<1>5. r # None
  BY <1>4, NoneAssumption
<1>6. TypeOK'
  BY <1>4 DEF IInv, TypeOK
<1>7. Phases'
  BY <1>2 DEF IInv, Phases
<1>8. Pipes'
  BY <1>1, <1>3, <1>4, <1>5 DEF IInv, Pipes
<1>9. Halted' /\ Outcomes'
  BY <1>2 DEF IInv, Halted, Outcomes
<1> QED BY <1>1, <1>6, <1>7, <1>8, <1>9 DEF IInv

\* What the worker works on is waited for.
LEMMA WorksOnWaiting ==
    ASSUME IInv, Runs, worker = "busy"
    PROVE  ready /\ doing \in Waits /\ stdin = <<>> /\ stdout = <<>>
<1>1. ready
  BY WorksWhenReady
<1> QED BY <1>1 DEF IInv, Pipes

LEMMA InferInv == IInv /\ Infer => IInv'
<1> SUFFICES ASSUME IInv, Infer PROVE IInv'
  OBVIOUS
<1> USE DEF Infer, service, backend
<1>1. OneIsHandled' /\ Waits' = Waits
  BY RequestsStay
<1>2. ready /\ doing \in Waits /\ stdin = <<>> /\ stdout = <<>>
  BY WorksOnWaiting
<1>3. doing \in Requests /\ pc[doing] = "waiting"
  BY <1>2 DEF Waits
<1>4. TypeOK'
  BY <1>3 DEF IInv, TypeOK
<1>5. Phases'
  BY <1>2 DEF IInv, Phases
<1>6. Pipes'
  BY <1>1, <1>2 DEF IInv, Pipes
<1>7. Halted'
  BY <1>2 DEF Halted
<1>8. Outcomes'
  BY <1>3 DEF IInv, Outcomes, AtBackend
<1> QED BY <1>1, <1>4, <1>5, <1>6, <1>7, <1>8 DEF IInv

LEMMA ReplyInv == IInv /\ Reply => IInv'
<1> SUFFICES ASSUME IInv, Reply PROVE IInv'
  OBVIOUS
<1>1. PICK kind \in Kinds : stdout' = Append(stdout, [to |-> doing, kind |-> kind])
  BY DEF Reply
<1> DEFINE line == [to |-> doing, kind |-> kind]
<1> USE DEF Reply, service, backend
<1>2. OneIsHandled' /\ Waits' = Waits
  BY RequestsStay DEF service
<1>3. ready /\ doing \in Waits /\ stdin = <<>> /\ stdout = <<>>
  BY WorksOnWaiting
<1>4. line \in Lines /\ line.to = doing /\ line.kind = kind
  BY <1>3 DEF Lines, Kinds, Waits
<1>5. Truthful(line) /\ line.to \in Waits
  <2>1. IF kind \in {"refusal", "internal"} THEN doing \notin computed
        ELSE kind # "hello" /\ doing \in computed
    BY DEF Kinds
  <2> QED BY <1>3, <1>4, <2>1 DEF Truthful
<1>6. stdout' = <<line>> /\ stdout' \in Seq(Lines)
  BY <1>1, <1>3, <1>4, OneLine
<1> HIDE DEF line
<1>7. TypeOK'
  BY <1>6 DEF IInv, TypeOK
<1>8. Phases'
  BY <1>3 DEF IInv, Phases
<1>9. Pipes'
  <2>1. \A l : Truthful(l)' <=> Truthful(l)
    BY DEF Truthful
  <2>2. /\ line \in Lines /\ line.to \in Waits' /\ Truthful(line)
        /\ stdin' = <<>> /\ stdout' = <<line>> /\ doing' = None
    BY <1>2, <1>3, <1>4, <1>5, <1>6
  <2>3. \E l \in Lines : /\ l.to \in Waits' /\ Truthful(l)'
                         /\ stdin' = <<>> /\ stdout' = <<l>> /\ doing' = None
    BY <2>1, <2>2
  <2>4. worker' = "idle" /\ doing' = None
    OBVIOUS
  <2> QED BY <2>3, <2>4 DEF Pipes
<1>10. Halted' /\ Outcomes'
  BY <1>3 DEF IInv, Halted, Outcomes
<1> QED BY <1>2, <1>7, <1>8, <1>9, <1>10 DEF IInv

\* A worker ends: by itself, at the end of its input, or killed.
LEMMA DeadInv ==
    ASSUME IInv, worker \in {"loading", "idle", "busy"}, Dead,
           UNCHANGED <<app, service, backend, stdin, stdout, computed>>
    PROVE  IInv'
<1> USE DEF Dead, service, backend
<1>1. OneIsHandled' /\ Waits' = Waits
  BY RequestsStay
<1>2. TypeOK'
  BY DEF IInv, TypeOK
<1>3. Phases'
  BY DEF IInv, Phases
<1>4. Pipes'
  <2>1. worker' # "busy" /\ doing' = None
    OBVIOUS
  <2>2. CASE stdin = <<>> /\ stdout = <<>>
    BY <2>1, <2>2 DEF Pipes
  <2>3. CASE ready /\ \E r \in Waits : stdin = <<r>> /\ stdout = <<>> /\ doing = None /\ r \notin computed
    BY <2>1, <2>3, <1>1 DEF Pipes
  <2>4. CASE ready /\ \E line \in Lines : /\ line.to \in Waits /\ Truthful(line)
                                 /\ stdin = <<>> /\ stdout = <<line>> /\ doing = None
    BY <2>1, <2>4, <1>1 DEF Pipes, Truthful
  <2>5. CASE ~ready
    BY <2>1, <2>5 DEF Pipes
  <2> QED BY <2>2, <2>3, <2>4, <2>5 DEF IInv, Pipes
<1>5. Halted' /\ Outcomes'
  BY DEF IInv, Halted, Outcomes, Gone
<1> QED BY <1>1, <1>2, <1>3, <1>4, <1>5 DEF IInv

----------------------------------------------------------------------------
(* The lifespan.                                                           *)

\* Outside the serving phase nothing of a request is in the pipes of a ready
\* worker.
LEMMA NotServing ==
    ASSUME IInv, app # "serving"
    PROVE  Waits = {} /\ (ready => stdin = <<>> /\ doing = None)
<1>1. Waits = {}
  BY DEF IInv, Phases, Waits
<1> QED BY <1>1 DEF IInv, Pipes

LEMMA SpawnInv == IInv /\ Spawn => IInv'
<1> SUFFICES ASSUME IInv, Spawn PROVE IInv'
  OBVIOUS
<1> USE DEF Spawn, service
<1>1. OneIsHandled' /\ Waits' = Waits
  BY RequestsStay
<1>2. ~ready /\ stdin = <<>> /\ stdout = <<>> /\ computed = {} /\ doing = None
  BY DEF IInv, Phases, Pipes
<1>3. TypeOK' /\ Phases'
  BY <1>2 DEF IInv, TypeOK, Phases
<1>4. Pipes' /\ Halted' /\ Outcomes'
  BY <1>2 DEF IInv, Pipes, Halted, Outcomes
<1> QED BY <1>1, <1>3, <1>4 DEF IInv

LEMMA HelloReadInv == IInv /\ HelloRead => IInv'
<1> SUFFICES ASSUME IInv, HelloRead PROVE IInv'
  OBVIOUS
<1> DEFINE hello == [to |-> None, kind |-> "hello"]
<1> USE DEF HelloRead, service
<1>1. OneIsHandled' /\ Waits' = Waits
  BY RequestsStay
<1>2. stdout = <<hello>> /\ worker # "loading" /\ stdin = <<>> /\ computed = {}
  BY DEF IInv, Phases
<1>3. hello \in Lines
  BY DEF Lines
<1>4. Tail(stdout) = <<>> /\ <<>> \in Seq(Lines)
  BY <1>2, <1>3, OneLine
<1>5. TypeOK' /\ Phases'
  BY <1>2, <1>4 DEF IInv, TypeOK, Phases
<1>6. Waits = {} /\ doing = None
  BY NotServing DEF IInv, Phases, Pipes
<1>7. Pipes'
  BY <1>1, <1>2, <1>4, <1>6 DEF IInv, Pipes
<1>8. Halted' /\ Outcomes'
  BY <1>2 DEF IInv, Halted, Outcomes, Phases
<1> QED BY <1>1, <1>5, <1>7, <1>8 DEF IInv

\* The backend is let go of outside the serving phase: reaped or asked to stop.
LEMMA LetGoInv ==
    ASSUME IInv, app # "serving", app' \in {"startReaping", "unwinding", "stopping", "stopped"},
           ready' = FALSE, owned' = FALSE, stdinOpen' = FALSE, killed' \in BOOLEAN,
           killed' \/ Gone \/ (doing = None /\ stdin = <<>>),
           UNCHANGED <<service, process>>
    PROVE  IInv'
<1> USE DEF service, process
<1>1. OneIsHandled' /\ Waits' = Waits
  BY RequestsStay
<1>2. TypeOK'
  BY DEF IInv, TypeOK
<1>3. Phases' /\ Pipes'
  BY DEF IInv, Phases, Pipes
<1>4. Halted' /\ Outcomes'
  BY DEF IInv, Halted, Outcomes, Phases, Gone
<1> QED BY <1>1, <1>2, <1>3, <1>4 DEF IInv

LEMMA StartFailsInv == IInv /\ StartFails => IInv'
<1> SUFFICES ASSUME IInv, StartFails PROVE IInv'
  OBVIOUS
<1>1. owned /\ killed \in BOOLEAN
  BY DEF IInv, TypeOK, Phases, StartFails
<1> QED BY <1>1, LetGoInv DEF StartFails, Invalidate

LEMMA CloseInv == IInv /\ Close => IInv'
<1> SUFFICES ASSUME IInv, Close PROVE IInv'
  OBVIOUS
<1>1. killed \in BOOLEAN /\ app = "unwinding"
  BY DEF IInv, TypeOK, Close
<1>2. killed \/ Gone \/ (doing = None /\ stdin = <<>>)
  BY <1>1, NotServing DEF IInv, Halted
<1> QED BY <1>1, <1>2, LetGoInv DEF Close, AskToStop

\* The lifespan goes on with the backend as it is.
LEMMA LifespanGoesOn ==
    ASSUME IInv, UNCHANGED <<service, backend, process>>,
           \/ app = "verifying" /\ app' = "unwinding"
           \/ app \in {"startReaping", "snapshots", "unwinding", "stopping"}
                 /\ app' \in {"serving", "unwinding", "stopped"}
                 /\ (ready => app' # "stopped")
           \/ app = "serving" /\ app' = "unwinding"
                 /\ \A r \in Requests : pc[r] \in {"new", "done"}
    PROVE  IInv'
<1> USE DEF service, backend, process
<1>1. OneIsHandled' /\ Waits' = Waits
  BY RequestsStay
<1>2. TypeOK'
  BY DEF IInv, TypeOK
<1>3. Phases'
  BY DEF IInv, Phases
<1>4. Pipes'
  BY <1>1 DEF IInv, Pipes, Truthful
<1>5. Halted' /\ Outcomes'
  BY DEF IInv, Halted, Outcomes, Phases, Gone
<1> QED BY <1>1, <1>2, <1>3, <1>4, <1>5 DEF IInv

\* A worker that was told to stop is killed.
LEMMA KillInv ==
    ASSUME IInv, ~ready, app \notin {"verifying", "handshake"}, killed' = TRUE,
           UNCHANGED <<app, service, ready, owned, stdinOpen, process>>
    PROVE  IInv'
<1> USE DEF service, process
<1>1. OneIsHandled' /\ Waits' = Waits
  BY RequestsStay
<1>2. TypeOK' /\ Phases'
  BY DEF IInv, TypeOK, Phases
<1>3. Pipes' /\ Halted' /\ Outcomes'
  BY DEF IInv, Pipes, Halted, Outcomes
<1> QED BY <1>1, <1>2, <1>3 DEF IInv

LEMMA LifespanInv == IInv /\ (Lifespan \/ Shutdown) => IInv'
<1> SUFFICES ASSUME IInv, Lifespan \/ Shutdown PROVE IInv'
  OBVIOUS
<1>1. CASE VerifyFails \/ StartReaped \/ SnapshotsStart \/ Shutdown
  BY <1>1, LifespanGoesOn DEF VerifyFails, StartReaped, SnapshotsStart, Shutdown
<1>2. CASE Stopped
  <2>1. ~ready
    BY <1>2 DEF Stopped, IInv, Phases
  <2> QED BY <1>2, <2>1, LifespanGoesOn DEF Stopped
<1>3. CASE CloseKills
  <2>1. ~ready
    BY <1>3 DEF CloseKills, IInv, Phases
  <2> QED BY <1>3, <2>1, KillInv DEF CloseKills
<1> QED BY <1>1, <1>2, <1>3, SpawnInv, HelloReadInv, StartFailsInv, CloseInv DEF Lifespan

----------------------------------------------------------------------------
(* The requests.                                                           *)

LEMMA AdmissionInv ==
    ASSUME IInv, NEW r \in Requests, Admission(r) PROVE IInv'
<1>1. /\ code \in [Requests -> {"none", "200", "400", "404", "408", "413", "415", "422",
                                "429", "500", "529", "cancelled"}]
      /\ received \in [Requests -> 0..MaxBytes] /\ MaxBytes \in Nat
      /\ pc \in [Requests -> {"new", "body", "decide", "done"} \cup AtBackend]
  BY BytesAssumption DEF IInv, TypeOK
<1>2. pc[r] \in {"body", "decide"} => app = "serving"
  BY DEF IInv, Phases
<1>3. CASE ReadBody(r)
  <2> USE DEF ReadBody, Outside, backend, process
  <2>1. received' \in [Requests -> 0..MaxBytes]
    BY <1>1, <1>3
  <2>2. OneIsHandled' /\ Waits' = Waits
    BY <1>3 DEF IInv, OneIsHandled, Waits
  <2>3. TypeOK' /\ Phases'
    BY <1>3, <2>1 DEF IInv, TypeOK, Phases
  <2>4. Pipes'
    BY <1>3, <2>2 DEF IInv, Pipes, Truthful
  <2>5. Halted' /\ Outcomes'
    BY <1>3 DEF IInv, Halted, Outcomes, Gone
  <2> QED BY <2>2, <2>3, <2>4, <2>5 DEF IInv
<1>4. CASE Arrive(r) \/ Accept(r)
  <2>1. code' = [code EXCEPT ![r] = code[r]]
    BY <1>1, <1>4 DEF Arrive, Accept
  <2>2. PICK to \in {"body", "decide"} : pc' = [pc EXCEPT ![r] = to]
    BY <1>4 DEF Arrive, Accept, Goes
  <2>3. /\ code[r] \in {"none", "200", "400", "404", "408", "413", "415", "422", "429", "500",
                        "529", "cancelled"}
        /\ pc[r] \in {"new", "body", "decide"} /\ app = "serving" /\ Outside
        /\ received' \in [Requests -> 0..MaxBytes]
    BY <1>1, <1>2, <1>4 DEF Arrive, Accept
  <2>4. to \in {"body", "decide", "done"} /\ to # "done"
    OBVIOUS
  <2> QED BY <2>1, <2>2, <2>3, <2>4, AsideInv
<1>5. CASE RefuseHeaders(r) \/ BodyTooLarge(r) \/ RefuseBody(r) \/ Disconnect(r)
  BY <1>1, <1>2, <1>5, AsideInv
  DEF RefuseHeaders, BodyTooLarge, RefuseBody, Disconnect, Ends, Goes
<1> QED BY <1>3, <1>4, <1>5 DEF Admission

LEMMA RefusesInv ==
    ASSUME IInv, NEW r \in Requests,
           RefuseUnavailable(r) \/ RefuseBusy(r) \/ RefuseCompiled(r)
    PROVE  IInv'
<1>1. app = "serving" /\ received \in [Requests -> 0..MaxBytes]
  BY DEF IInv, TypeOK, Phases, RefuseUnavailable, RefuseBusy, RefuseCompiled
<1> QED BY <1>1, AsideInv DEF RefuseUnavailable, RefuseBusy, RefuseCompiled, Ends, Goes, Outside

LEMMA SendInv ==
    ASSUME IInv, NEW r \in Requests, Send(r) PROVE IInv'
<1> USE DEF Send, Goes, backend
<1>1. /\ pc' \in [Requests -> {"new", "body", "decide", "done"} \cup AtBackend]
      /\ \A q \in Requests : q # r => pc'[q] = pc[q]
      /\ pc'[r] = "waiting"
  BY DEF IInv, TypeOK, AtBackend
<1>2. app = "serving"
  BY DEF IInv, Phases
<1>3. \A q \in Requests : pc[q] \notin AtBackend
  BY DEF IInv, OneIsHandled
<1>4. Waits = {} /\ Waits' = {r} /\ r \notin computed
  BY <1>1, <1>3 DEF IInv, Outcomes, Waits, AtBackend
<1>5. stdin = <<>> /\ stdout = <<>> /\ doing = None
  BY <1>4 DEF IInv, Pipes
<1>6. stdin' = <<r>> /\ stdin' \in Seq(Requests)
  BY <1>5, OneLine
<1>7. TypeOK'
  BY <1>1, <1>6 DEF IInv, TypeOK
<1>8. OneIsHandled'
  BY <1>1, <1>3 DEF OneIsHandled, AtBackend
<1>9. Phases'
  BY <1>2 DEF IInv, Phases
<1>10. Pipes'
  BY <1>4, <1>5, <1>6 DEF IInv, Pipes
<1>11. Halted' /\ Outcomes'
  BY <1>1, <1>3, <1>4 DEF IInv, Halted, Outcomes, AtBackend
<1> QED BY <1>7, <1>8, <1>9, <1>10, <1>11 DEF IInv

\* The answer a waiting request reads is the only line there is, and its own.
LEMMA OwnLine ==
    ASSUME IInv, NEW r \in Requests, pc[r] = "waiting", stdout # <<>>
    PROVE  /\ Head(stdout) \in Lines /\ Head(stdout).to = r /\ Truthful(Head(stdout))
           /\ Tail(stdout) = <<>> /\ Tail(stdout) \in Seq(Lines)
           /\ stdin = <<>> /\ doing = None
<1>1. PICK line \in Lines : /\ line.to = r /\ Truthful(line)
                            /\ stdin = <<>> /\ stdout = <<line>> /\ doing = None
  BY WaitingPipes
<1> QED BY <1>1, OneLine

LEMMA AnsweredInv ==
    ASSUME IInv, NEW r \in Requests, Answered(r) \/ Refused(r) PROVE IInv'
<1>1. /\ Tail(stdout) = <<>> /\ Tail(stdout) \in Seq(Lines)
      /\ stdin = <<>> /\ doing = None /\ Truthful(Head(stdout))
  BY OwnLine DEF Answered, Refused
<1>2. CASE Answered(r)
  BY <1>1, <1>2, LeavesInv DEF Answered, AtBackend, backend
<1>3. CASE Refused(r)
  <2>1. r \notin computed
    BY <1>1, <1>3 DEF Refused, Truthful
  <2> QED BY <1>1, <1>3, <2>1, LeavesInv DEF Refused, AtBackend, backend
<1> QED BY <1>2, <1>3

LEMMA MismatchedInv ==
    ASSUME IInv, NEW r \in Requests, Mismatched(r) PROVE IInv'
<1>1. Tail(stdout) \in Seq(Lines) /\ stdin = <<>> /\ doing = None
  BY OwnLine DEF Mismatched
<1>2. killed \in BOOLEAN
  BY DEF IInv, TypeOK
<1> QED BY <1>1, <1>2, GoesDownInv DEF Mismatched, AskToStop

LEMMA ReapInv ==
    ASSUME IInv, NEW r \in Requests, pc[r] = "waiting", NEW c \in {"408", "500", "cancelled"},
           Reap(r, c)
    PROVE  IInv'
<1>1. owned
  BY WaitingPipes
<1>2. killed' = TRUE /\ stdout' \in Seq(Lines)
  BY <1>1 DEF Reap, Invalidate, process, IInv, TypeOK
<1> QED BY <1>2, GoesDownInv DEF Reap, Invalidate, process

LEMMA ReapedInv ==
    ASSUME IInv, NEW r \in Requests, Reaped(r) \/ ReapCut(r) PROVE IInv'
<1>1. ~ready /\ code[r] \in {"408", "500", "cancelled"} /\ stdout \in Seq(Lines)
  BY DEF IInv, TypeOK, Outcomes, Reaped, ReapCut
<1>2. PICK c \in {"408", "500", "cancelled"} : Leaves(r, c)
  BY <1>1 DEF Reaped, ReapCut
<1> QED BY <1>1, <1>2, LeavesInv DEF Reaped, ReapCut, AtBackend, backend, process

LEMMA HandlingInv ==
    ASSUME IInv, NEW r \in Requests, Handling(r) \/ Cancel(r) \/ ReapCut(r) PROVE IInv'
<1>1. CASE RefuseUnavailable(r) \/ RefuseBusy(r) \/ RefuseCompiled(r)
  BY <1>1, RefusesInv
<1>2. CASE Send(r)
  BY <1>2, SendInv
<1>3. CASE Answered(r) \/ Refused(r)
  BY <1>3, AnsweredInv
<1>4. CASE Mismatched(r)
  BY <1>4, MismatchedInv
<1>5. CASE AnswerUnusable(r) \/ WorkerLost(r) \/ Deadline(r) \/ Cancel(r)
  BY <1>5, ReapInv DEF AnswerUnusable, WorkerLost, Deadline, Cancel
<1>6. CASE Reaped(r) \/ ReapCut(r)
  BY <1>6, ReapedInv
<1>7. CASE KillAfterWait(r)
  <2>1. ~ready /\ app = "serving"
    BY <1>7 DEF KillAfterWait, IInv, Outcomes, Phases
  <2> QED BY <1>7, <2>1, KillInv DEF KillAfterWait
<1> QED BY <1>1, <1>2, <1>3, <1>4, <1>5, <1>6, <1>7 DEF Handling

----------------------------------------------------------------------------
(* The theorems.                                                           *)

LEMMA InitInv == Init => IInv
<1> SUFFICES ASSUME Init PROVE IInv
  OBVIOUS
<1> USE DEF Init
<1>1. TypeOK
  <2>1. 0 \in 0..MaxBytes
    BY BytesAssumption
  <2>2. received \in [Requests -> 0..MaxBytes]
    BY <2>1
  <2>3. stdin \in Seq(Requests) /\ stdout \in Seq(Lines)
    OBVIOUS
  <2> QED BY <2>2, <2>3 DEF TypeOK
<1>2. OneIsHandled
  BY DEF OneIsHandled, AtBackend
<1>3. Phases
  BY DEF Phases
<1>4. Pipes
  BY DEF Pipes
<1>5. Halted /\ Outcomes
  BY DEF Halted, Outcomes, AtBackend
<1> QED BY <1>1, <1>2, <1>3, <1>4, <1>5 DEF IInv

LEMMA NextInv == IInv /\ [Next]_vars => IInv'
<1> SUFFICES ASSUME IInv, [Next]_vars PROVE IInv'
  OBVIOUS
<1>1. CASE UNCHANGED vars
  BY <1>1 DEF vars, service, backend, process, IInv, TypeOK, OneIsHandled, Phases, Pipes,
              Truthful, Waits, Halted, Outcomes, Gone
<1>2. CASE Worker
  BY <1>2, SayHelloInv, TakeLineInv, InferInv, ReplyInv, DeadInv
  DEF Worker, EndOfInput, Killed, Dies, Runs
<1>3. CASE Lifespan \/ Shutdown
  BY <1>3, LifespanInv
<1>4. ASSUME NEW r \in Requests, Admission(r) \/ Handling(r) \/ Cancel(r) \/ ReapCut(r)
      PROVE  IInv'
  BY <1>4, AdmissionInv, HandlingInv
<1> QED BY <1>1, <1>2, <1>3, <1>4 DEF Next

\* Whatever clients, worker and timeouts do, the invariant of the v1 API holds,
\* for any number of requests.
THEOREM DecisionInvariantHolds == Spec => []IInv
  BY InitInv, NextInv, PTL DEF Spec

\* One request is handled at a time, and whatever is in the pipes or in the
\* worker while the backend can be used belongs to the request that waits.
THEOREM OneAnswerEach == Spec => []AnswersAreOwn
<1>1. IInv => NothingIsStale
  <2> SUFFICES ASSUME IInv, ready, NEW r \in InTransit PROVE r # None /\ pc[r] = "waiting"
    BY DEF NothingIsStale
  <2>1. r \in Waits
    BY DEF IInv, Pipes, InTransit
  <2> QED BY <2>1, NoneAssumption DEF Waits
<1>2. IInv => AnswersAreOwn
  BY <1>1 DEF IInv, AnswersAreOwn
<1> QED BY <1>2, DecisionInvariantHolds, PTL

\* When a computed request ends in anything but its answer, inference has been
\* stopped and the backend is not ready (the contract of backend.py).
THEOREM FailuresStopInference == Spec => []FailureStopsInference
<1>1. IInv => FailureStopsInference
  BY DEF IInv, Outcomes, Halted, Phases, FailureStopsInference
<1> QED BY <1>1, DecisionInvariantHolds, PTL

----------------------------------------------------------------------------
(* The refinement of the contract.                                         *)

ContractStep == [Contract!Next]_(Contract!vars)

LEMMA Stutters ==
    ASSUME Standing' = Standing, Ended' = Ended, computed' = computed
    PROVE  ContractStep
  BY DEF ContractStep, Contract!vars

LEMMA GoesDown ==
    ASSUME Standing # "down", Standing' = "down", Ended' = Ended, computed' = computed
    PROVE  ContractStep
  BY DEF ContractStep, Contract!Next, Contract!GoDown

\* What the contract allows a request to end with.
LEMMA EndsAsPromised ==
    ASSUME NEW r \in Requests, NEW c,
           Ended[r] = "none", Ended' = [Ended EXCEPT ![r] = c],
           Standing' = Standing, computed' = computed,
           \/ Standing = "up" /\ r \in computed /\ c = "200"
           \/ r \notin computed /\ c \in Contract!Refusals \cup {"cancelled"}
           \/ Standing # "up" /\ r \notin computed /\ c = "529"
           \/ Standing = "down" /\ c \in Contract!Failures
    PROVE  ContractStep
<1>1. CASE Standing = "up" /\ r \in computed /\ c = "200"
  <2>1. Contract!Answer(r)
    BY <1>1 DEF Contract!Answer, Contract!Ends
  <2> QED BY <2>1 DEF ContractStep, Contract!Next
<1>2. CASE r \notin computed /\ c \in Contract!Refusals
  <2>1. Contract!Refuse(r)
    BY <1>2 DEF Contract!Refuse, Contract!Ends
  <2> QED BY <2>1 DEF ContractStep, Contract!Next
<1>3. CASE r \notin computed /\ c = "cancelled"
  <2>1. Contract!Abandon(r)
    BY <1>3 DEF Contract!Abandon, Contract!Ends
  <2> QED BY <2>1 DEF ContractStep, Contract!Next
<1>4. CASE Standing # "up" /\ r \notin computed /\ c = "529"
  <2>1. Contract!Unavailable(r)
    BY <1>4 DEF Contract!Unavailable, Contract!Ends
  <2> QED BY <2>1 DEF ContractStep, Contract!Next
<1>5. CASE Standing = "down" /\ c \in Contract!Failures
  <2>1. Contract!Fail(r)
    BY <1>5 DEF Contract!Fail, Contract!Ends
  <2> QED BY <2>1 DEF ContractStep, Contract!Next
<1> QED BY <1>1, <1>2, <1>3, <1>4, <1>5

\* A step of a request that does not end it, and one that does.
LEMMA EndedStays ==
    ASSUME IInv, NEW r \in Requests, pc[r] # "done",
           NEW to, to # "done", pc' = [pc EXCEPT ![r] = to],
           NEW c, code' = [code EXCEPT ![r] = c]
    PROVE  Ended' = Ended
  BY DEF IInv, TypeOK, Ended

LEMMA EndedGrows ==
    ASSUME IInv, NEW r \in Requests, pc[r] # "done", NEW c, Ends(r, c)
    PROVE  Ended[r] = "none" /\ Ended' = [Ended EXCEPT ![r] = c]
  BY DEF IInv, TypeOK, Ended, Ends, Goes

LEMMA AdmissionRefines ==
    ASSUME IInv, NEW r \in Requests, Admission(r) PROVE ContractStep
<1>1. Standing' = Standing /\ computed' = computed /\ pc[r] # "done" /\ r \notin computed
  BY DEF Admission, RefuseHeaders, Arrive, ReadBody, BodyTooLarge, RefuseBody, Accept,
         Disconnect, Outside, backend, process, Standing, IInv, Outcomes, AtBackend
<1>2. CASE ReadBody(r)
  BY <1>1, <1>2, Stutters DEF ReadBody, Ended
<1>3. CASE Arrive(r) \/ Accept(r)
  <2>1. Ended' = Ended
    BY <1>3 DEF Arrive, Accept, Goes, Ended, IInv, TypeOK
  <2> QED BY <1>1, <2>1, Stutters
<1>4. CASE RefuseHeaders(r) \/ BodyTooLarge(r) \/ RefuseBody(r) \/ Disconnect(r)
  <2>1. PICK c \in {"400", "404", "413", "415", "422", "cancelled"} : Ends(r, c)
    BY <1>4 DEF RefuseHeaders, BodyTooLarge, RefuseBody, Disconnect
  <2>2. Ended[r] = "none" /\ Ended' = [Ended EXCEPT ![r] = c]
    BY <1>1, <2>1, EndedGrows
  <2>3. c \in Contract!Refusals \cup {"cancelled"}
    BY DEF Contract!Refusals
  <2> QED BY <1>1, <2>2, <2>3, EndsAsPromised
<1> QED BY <1>2, <1>3, <1>4 DEF Admission

\* What a request is told away from the backend, or by it.
LEMMA AnswerRefines ==
    ASSUME IInv, NEW r \in Requests,
           \/ RefuseUnavailable(r) \/ RefuseBusy(r) \/ RefuseCompiled(r)
           \/ Answered(r) \/ Refused(r) \/ Reaped(r) \/ ReapCut(r)
    PROVE  ContractStep
<1>1. Standing' = Standing /\ computed' = computed /\ pc[r] # "done"
  BY DEF RefuseUnavailable, RefuseBusy, RefuseCompiled, Answered, Refused, Reaped, ReapCut,
         Outside, backend, process, Standing
<1>2. CASE RefuseUnavailable(r) \/ RefuseBusy(r) \/ RefuseCompiled(r)
  <2>1. r \notin computed
    BY <1>2 DEF IInv, Outcomes, AtBackend, RefuseUnavailable, RefuseBusy, RefuseCompiled
  <2>2. PICK c \in {"529", "429", "422"} : Ends(r, c) /\ (c = "529" => ~ready)
    BY <1>2 DEF RefuseUnavailable, RefuseBusy, RefuseCompiled
  <2>3. Ended[r] = "none" /\ Ended' = [Ended EXCEPT ![r] = c]
    BY <1>1, <2>2, EndedGrows
  <2>4. c \in Contract!Refusals \/ (Standing # "up" /\ c = "529")
    BY <2>2 DEF Contract!Refusals, Standing
  <2> QED BY <1>1, <2>1, <2>3, <2>4, EndsAsPromised
<1>3. CASE Answered(r)
  <2>1. Truthful(Head(stdout)) /\ ready
    BY <1>3, OwnLine, WaitingPipes DEF Answered
  <2>2. Standing = "up" /\ r \in computed
    BY <1>3, <2>1 DEF Answered, Truthful, Standing
  <2>3. Ends(r, "200")
    BY <1>3 DEF Answered, Leaves
  <2>4. Ended[r] = "none" /\ Ended' = [Ended EXCEPT ![r] = "200"]
    BY <1>1, <2>3, EndedGrows
  <2> QED BY <1>1, <2>2, <2>4, EndsAsPromised
<1>4. CASE Refused(r)
  <2>1. Truthful(Head(stdout))
    BY <1>4, OwnLine DEF Refused
  <2>2. r \notin computed
    BY <1>4, <2>1 DEF Refused, Truthful
  <2>3. PICK c \in {"422", "500"} : Ends(r, c)
    BY <1>4 DEF Refused, Leaves
  <2>4. Ended[r] = "none" /\ Ended' = [Ended EXCEPT ![r] = c]
    BY <1>1, <2>3, EndedGrows
  <2>5. c \in Contract!Refusals
    BY DEF Contract!Refusals
  <2> QED BY <1>1, <2>2, <2>4, <2>5, EndsAsPromised
<1>5. CASE Reaped(r) \/ ReapCut(r)
  <2>1. pc[r] \in {"reaping", "closing"} /\ ~ready /\ code[r] \in {"408", "500", "cancelled"}
    BY <1>5 DEF Reaped, ReapCut, IInv, Outcomes
  <2>2. Standing = "down"
    BY <2>1 DEF IInv, Phases, Standing
  <2>3. PICK c \in {"408", "500", "cancelled"} : Ends(r, c)
    BY <1>5, <2>1 DEF Reaped, ReapCut, Leaves
  <2>4. Ended[r] = "none" /\ Ended' = [Ended EXCEPT ![r] = c]
    BY <1>1, <2>3, EndedGrows
  <2>5. c \in Contract!Failures
    BY DEF Contract!Failures
  <2> QED BY <1>1, <2>2, <2>4, <2>5, EndsAsPromised
<1> QED BY <1>2, <1>3, <1>4, <1>5

\* A request that is sent, or that takes the backend down with it.
LEMMA HandlingRefines ==
    ASSUME IInv, NEW r \in Requests, Handling(r) \/ Cancel(r) \/ ReapCut(r)
    PROVE  ContractStep
<1>1. CASE \/ RefuseUnavailable(r) \/ RefuseBusy(r) \/ RefuseCompiled(r)
           \/ Answered(r) \/ Refused(r) \/ Reaped(r) \/ ReapCut(r)
  BY <1>1, AnswerRefines
<1>2. CASE Send(r)
  <2>1. Ended' = Ended
    BY <1>2 DEF Send, Goes, Ended, IInv, TypeOK
  <2>2. Standing' = Standing /\ computed' = computed
    BY <1>2 DEF Send, backend, Standing
  <2> QED BY <2>1, <2>2, Stutters
<1>3. CASE Mismatched(r)
  <2>1. ready /\ app = "serving"
    BY <1>3, WaitingPipes DEF Mismatched
  <2>2. Standing = "up" /\ Standing' = "down" /\ computed' = computed
    BY <1>3, <2>1 DEF Mismatched, AskToStop, Standing
  <2>3. Ended' = Ended
    BY <1>3, EndedStays DEF Mismatched, Goes
  <2> QED BY <2>2, <2>3, GoesDown
<1>4. CASE AnswerUnusable(r) \/ WorkerLost(r) \/ Deadline(r) \/ Cancel(r)
  <2>1. PICK c : Reap(r, c)
    BY <1>4 DEF AnswerUnusable, WorkerLost, Deadline, Cancel
  <2>2. pc[r] = "waiting" /\ ready /\ app = "serving"
    BY <1>4, WaitingPipes DEF AnswerUnusable, WorkerLost, Deadline, Cancel
  <2>3. Standing = "up" /\ Standing' = "down" /\ computed' = computed
    BY <2>1, <2>2 DEF Reap, Invalidate, process, Standing
  <2>4. Ended' = Ended
    BY <2>1, <2>2, EndedStays DEF Reap, Goes
  <2> QED BY <2>3, <2>4, GoesDown
<1>5. CASE KillAfterWait(r)
  BY <1>5, Stutters DEF KillAfterWait, service, process, Standing, Ended
<1> QED BY <1>1, <1>2, <1>3, <1>4, <1>5 DEF Handling

LEMMA LifespanRefines ==
    ASSUME IInv, Lifespan \/ Shutdown PROVE ContractStep
<1>1. Ended' = Ended /\ computed' = computed
  BY DEF Lifespan, Shutdown, Spawn, VerifyFails, HelloRead, StartFails, StartReaped,
         SnapshotsStart, Close, CloseKills, Stopped, service, process, Ended
<1>2. CASE HelloRead
  <2>1. Standing = "starting" /\ Standing' = "up"
    BY <1>2 DEF HelloRead, IInv, Phases, Standing
  <2>2. Contract!ComeUp
    BY <1>1, <2>1 DEF Contract!ComeUp
  <2> QED BY <2>2 DEF ContractStep, Contract!Next
<1>3. CASE VerifyFails \/ StartFails \/ (Close /\ ready)
  <2>1. Standing # "down" /\ Standing' = "down"
    BY <1>3 DEF VerifyFails, StartFails, Close, Invalidate, AskToStop, backend, IInv, Phases,
                Standing
  <2> QED BY <1>1, <2>1, GoesDown
<1>4. CASE \/ Spawn \/ StartReaped \/ SnapshotsStart \/ Shutdown \/ CloseKills \/ Stopped
           \/ (Close /\ ~ready)
  <2>1. Standing' = Standing
    BY <1>4 DEF Spawn, StartReaped, SnapshotsStart, Shutdown, CloseKills, Stopped, Close,
                AskToStop, backend, Standing
  <2> QED BY <1>1, <2>1, Stutters
<1> QED BY <1>2, <1>3, <1>4 DEF Lifespan

LEMMA WorkerRefines ==
    ASSUME IInv, Worker PROVE ContractStep
<1>1. Ended' = Ended /\ Standing' = Standing
  BY DEF Worker, SayHello, TakeLine, Infer, Reply, EndOfInput, Killed, Dies, service, backend,
         Ended, Standing
<1>2. CASE Infer /\ doing \notin computed
  <2>1. ready /\ doing \in Requests /\ pc[doing] = "waiting"
    BY <1>2, WorksOnWaiting DEF Infer, Waits
  <2>2. ASSUME NEW q \in computed PROVE Ended[q] # "none"
    <3>1. q \in Requests /\ pc[q] \in AtBackend \cup {"done"} /\ q # doing
      BY <1>2 DEF IInv, TypeOK, Outcomes
    <3>2. pc[q] = "done"
      BY <2>1, <3>1, WaitingPipes
    <3> QED BY <3>1, <3>2 DEF Ended, IInv, Outcomes
  <2>3. Ended[doing] = "none"
    BY <2>1 DEF Ended
  <2>4. Contract!Compute(doing)
    BY <1>1, <1>2, <2>2, <2>3 DEF Contract!Compute, Infer
  <2> QED BY <2>1, <2>4 DEF ContractStep, Contract!Next
<1>3. CASE ~(Infer /\ doing \notin computed)
  <2>1. computed' = computed
    BY <1>3 DEF Worker, SayHello, TakeLine, Infer, Reply, EndOfInput, Killed, Dies
  <2> QED BY <1>1, <2>1, Stutters
<1> QED BY <1>2, <1>3

\* The v1 API keeps its contract, for any number of requests: a request ends
\* once, answered, refused without a trace or failed together with the backend,
\* and a backend that went down is never up again.
THEOREM ContractIsKept == Spec => KeepsContract
<1>1. Init => Contract!Init
  BY DEF Init, Contract!Init, Standing, Ended
<1>2. IInv /\ [Next]_vars => [Contract!Next]_(Contract!vars)
  <2> SUFFICES ASSUME IInv, [Next]_vars PROVE ContractStep
    BY DEF ContractStep
  <2>1. CASE UNCHANGED vars
    BY <2>1, Stutters DEF vars, service, backend, process, Standing, Ended
  <2>2. CASE Worker
    BY <2>2, WorkerRefines
  <2>3. CASE Lifespan \/ Shutdown
    BY <2>3, LifespanRefines
  <2>4. ASSUME NEW r \in Requests, Admission(r) \/ Handling(r) \/ Cancel(r) \/ ReapCut(r)
        PROVE  ContractStep
    BY <2>4, AdmissionRefines, HandlingRefines
  <2> QED BY <2>1, <2>2, <2>3, <2>4 DEF Next
<1> QED BY <1>1, <1>2, DecisionInvariantHolds, PTL DEF Spec, KeepsContract, Contract!Spec

=============================================================================
