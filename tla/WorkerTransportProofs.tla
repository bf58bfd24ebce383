----------------------- MODULE WorkerTransportProofs -----------------------
(***************************************************************************)
(* Proofs about WorkerTransport: its inductive invariant, the safety       *)
(* properties that follow, and that it implements CommandChannel.          *)
(***************************************************************************)
EXTENDS TransportInvariant, TLAPS

USE TransportAssumption

\* A step that moves one task, which is the only one in the backend after it.
LEMMA TaskFrame ==
    ASSUME TransportInv, NEW t \in Tasks, NEW r, task' = [task EXCEPT ![t] = r],
           OneAtATime \/ ~At(t, "out")
    PROVE  /\ task'[t] = r
           /\ \A u \in Tasks : u # t => task[u] = Out /\ task'[u] = Out /\ ioLock # u
           /\ OneCaller'
  BY DEF TransportInv, TypeOK, OneCaller, OneAtATime, TaskPlaces, At, Out

\* A step of a process moves no task.
LEMMA ChildFrame ==
    ASSUME TransportInv, UNCHANGED backendVars
    PROVE  /\ OneCaller' /\ TaskPlaces'
           /\ \A t \in Tasks : task'[t] = task[t]
  BY DEF TransportInv, OneCaller, TaskPlaces, InFlight, At, Out, backendVars

\* A start finds no worker: nobody is in the backend and it is not ready.
LEMMA StartCallInv ==
    ASSUME TransportInv, NEW t \in Tasks, StartCall(t) PROVE TransportInv'
<1> USE DEF StartCall, childVars, pipes, work
<1>1. /\ task'[t] = [pc |-> "verifying", child |-> None, command |-> None]
      /\ \A u \in Tasks : u # t => task[u] = Out /\ task'[u] = Out /\ ioLock # u
      /\ OneCaller'
  BY TaskFrame DEF Goes, Leaves, At, Out
<1>2. TypeOK'
  BY <1>1 DEF TransportInv, TypeOK, TaskType, At, Out, Goes, Leaves
<1>3. TaskPlaces'
  <2>1. process = None
    BY DEF TransportInv, InUse, At, OneAtATime
  <2> QED BY <1>1, <2>1 DEF TransportInv, TaskPlaces, InFlight, At, Out, OneAtATime
<1>4. InUse'
  BY <1>1 DEF TransportInv, TypeOK, InUse, TaskPlaces, LetGo, Alive, At, Out, OneAtATime
<1>5. Pipes'
  BY <1>1 DEF TransportInv, TypeOK, TaskPlaces, InUse, InFlight, Pipes, Starting, Quiet,
              Unread, Handled, Answered, At, Out, OneAtATime
<1>6. AppliedForSomebody'
  BY <1>1 DEF TransportInv, TypeOK, TaskPlaces, InUse, InFlight, Pipes, Starting,
              AppliedForSomebody, At, Out, OneAtATime
<1>7. LetGo'
  BY <1>1 DEF TransportInv, TypeOK, TaskPlaces, InUse, Pipes, Quiet, LetGo, Alive, At, Out,
              OneAtATime
<1> QED BY <1>1, <1>2, <1>3, <1>4, <1>5, <1>6, <1>7 DEF TransportInv

\* A fresh process has empty pipes and was never let go of.
LEMMA SpawnInv ==
    ASSUME TransportInv, NEW t \in Tasks, Spawn(t) PROVE TransportInv'
<1> USE DEF Spawn, childVars, pipes, work
<1>1. /\ task'[t] = [pc |-> "hello", child |-> None, command |-> None]
      /\ \A u \in Tasks : u # t => task[u] = Out /\ task'[u] = Out /\ ioLock # u
      /\ OneCaller'
  BY TaskFrame DEF Goes, Leaves, At, Out
<1>2. TypeOK'
  BY <1>1 DEF TransportInv, TypeOK, TaskType, At, Out, Goes, Leaves
<1>3. TaskPlaces'
  BY <1>1 DEF TransportInv, TypeOK, TaskType, TaskPlaces, InFlight, InUse, At, Out, OneAtATime
<1>4. InUse'
  BY <1>1 DEF TransportInv, TypeOK, InUse, TaskPlaces, LetGo, Alive, At, Out, OneAtATime
<1>5. Pipes'
  <2>1. PICK p \in Children : phase[p] = "unborn" /\ phase' = [phase EXCEPT ![p] = "loading"] /\ process' = p
    OBVIOUS
  <2>2. ~ready /\ phase'[p] = "loading"
    BY <2>1 DEF TransportInv, TypeOK, TaskPlaces
  <2>3. stdin[p] = <<>> /\ stdout[p] = <<>> /\ doing[p] = None /\ applied[p] = {}
    BY <2>1 DEF TransportInv, LetGo
  <2> QED BY <1>1, <2>1, <2>2, <2>3 DEF Pipes, Starting, At, Out
<1>6. AppliedForSomebody'
  BY DEF TransportInv, LetGo, AppliedForSomebody
<1>7. LetGo'
  BY <1>1 DEF TransportInv, TypeOK, TaskPlaces, InUse, Pipes, Quiet, LetGo, Alive, At, Out,
              OneAtATime
<1> QED BY <1>1, <1>2, <1>3, <1>4, <1>5, <1>6, <1>7 DEF TransportInv

\* The handshake was the only line, so the worker is idle when it is ready.
LEMMA HelloReadInv ==
    ASSUME TransportInv, NEW t \in Tasks, HelloRead(t) PROVE TransportInv'
<1> USE DEF HelloRead, childVars, pipes, work, Hello, Line
<1>1. /\ task'[t] = Out
      /\ \A u \in Tasks : u # t => task[u] = Out /\ task'[u] = Out /\ ioLock # u
      /\ OneCaller'
  BY TaskFrame DEF Goes, Leaves, At, Out
<1>2. TypeOK'
  BY <1>1 DEF TransportInv, TypeOK, TaskType, At, Out, Goes, Leaves
<1>3. TaskPlaces'
  <2>1. ioLock # t
    BY DEF TransportInv, TaskPlaces, At
  <2> QED BY <1>1, <2>1 DEF TaskPlaces, InFlight, At, Out
<1>4. InUse'
  BY <1>1 DEF TransportInv, TypeOK, InUse, TaskPlaces, LetGo, Alive, At, Out, OneAtATime
<1>5. Pipes'
  <2>1. ~ready /\ Starting(process)
    BY DEF TransportInv, TaskPlaces, Pipes
  <2>2. stdout[process] = <<Hello>> /\ phase[process] # "loading"
    BY <2>1 DEF Starting
  <2>3. stdout'[process] = <<>>
    BY <2>2 DEF TransportInv, TypeOK
  <2>4. Quiet(process)'
    BY <2>1, <2>2, <2>3 DEF Starting, Quiet
  <2> QED BY <1>1, <2>4 DEF Pipes, At, Out
<1>6. AppliedForSomebody'
  BY <1>1 DEF TransportInv, TypeOK, TaskPlaces, InUse, InFlight, Pipes, Starting,
              AppliedForSomebody, At, Out, OneAtATime
<1>7. LetGo'
  BY <1>1 DEF TransportInv, TypeOK, TaskPlaces, InUse, Pipes, Quiet, LetGo, Alive, At, Out,
              OneAtATime
<1> QED BY <1>1, <1>2, <1>3, <1>4, <1>5, <1>6, <1>7 DEF TransportInv

\* A start that fails leaves no worker.
LEMMA StartFailsInv ==
    ASSUME TransportInv, NEW t \in Tasks, StartFails(t) PROVE TransportInv'
<1> USE DEF StartFails, childVars, pipes, work, Invalidate
<1>1. /\ task'[t] = [pc |-> "reaping", child |-> process, command |-> task[t].command]
      /\ \A u \in Tasks : u # t => task[u] = Out /\ task'[u] = Out /\ ioLock # u
      /\ OneCaller'
  BY TaskFrame DEF Goes, Leaves, At, Out
<1>2. TypeOK'
  BY <1>1 DEF TransportInv, TypeOK, TaskType, At, Out, Goes, Leaves
<1>3. TaskPlaces'
  <2>1. ioLock # t /\ task[t].command = None
    BY DEF TransportInv, TaskPlaces, At
  <2> QED BY <1>1, <2>1 DEF TransportInv, TypeOK, TaskPlaces, InFlight, At, Out
<1>4. InUse'
  BY <1>1 DEF TransportInv, TypeOK, InUse, TaskPlaces, LetGo, Alive, At, Out, OneAtATime
<1>5. Pipes'
  BY <1>1 DEF TransportInv, TypeOK, TaskPlaces, InUse, InFlight, Pipes, Starting, Quiet,
              Unread, Handled, Answered, At, Out, OneAtATime
<1>6. AppliedForSomebody'
  BY <1>1 DEF TransportInv, TypeOK, TaskPlaces, InUse, InFlight, Pipes, Starting,
              AppliedForSomebody, At, Out, OneAtATime
<1>7. LetGo'
  BY <1>1 DEF TransportInv, TypeOK, TaskPlaces, InUse, Pipes, Quiet, LetGo, Alive, At, Out,
              OneAtATime
<1> QED BY <1>1, <1>2, <1>3, <1>4, <1>5, <1>6, <1>7 DEF TransportInv

\* The request finds a ready worker that is idle.
LEMMA RequestCallInv ==
    ASSUME TransportInv, NEW t \in Tasks, RequestCall(t) PROVE TransportInv'
<1> USE DEF RequestCall, childVars, pipes, work
<1>0. PICK c \in Commands :
        /\ outcome[c] = "none"
        /\ task' = [task EXCEPT ![t] = [pc |-> "queued", child |-> None, command |-> c]]
  BY DEF Goes
<1>1. /\ task'[t] = [pc |-> "queued", child |-> None, command |-> c]
      /\ \A u \in Tasks : u # t => task[u] = Out /\ task'[u] = Out /\ ioLock # u
      /\ OneCaller'
  BY <1>0, TaskFrame
<1>2. TypeOK'
  BY <1>0 DEF TransportInv, TypeOK, TaskType
<1>3. TaskPlaces'
  BY <1>0, <1>1 DEF TransportInv, TypeOK, TaskType, TaskPlaces, InFlight, InUse, At, Out,
                    OneAtATime
<1>4. InUse'
  BY <1>1 DEF TransportInv, TypeOK, InUse, TaskPlaces, LetGo, Alive, At, Out, OneAtATime
<1>5. Pipes'
  <2>1. Quiet(process)
    BY DEF TransportInv, Pipes, OneAtATime, At
  <2>2. Quiet(process)'
    BY <2>1 DEF Quiet
  <2> QED BY <1>1, <2>2 DEF Pipes, At, Out
<1>6. AppliedForSomebody'
  BY <1>1 DEF TransportInv, TypeOK, TaskPlaces, InUse, InFlight, Pipes, Starting,
              AppliedForSomebody, At, Out, OneAtATime
<1>7. LetGo'
  BY <1>1 DEF TransportInv, TypeOK, TaskPlaces, InUse, Pipes, Quiet, LetGo, Alive, At, Out,
              OneAtATime
<1> QED BY <1>1, <1>2, <1>3, <1>4, <1>5, <1>6, <1>7 DEF TransportInv

\* A request that was not written leaves the worker as it was.
LEMMA UnsentInv ==
    ASSUME TransportInv, NEW t \in Tasks, Unsent(t) PROVE TransportInv'
<1> USE DEF Unsent, childVars, pipes, work, Ends
<1>1. /\ task'[t] = Out
      /\ \A u \in Tasks : u # t => task[u] = Out /\ task'[u] = Out /\ ioLock # u
      /\ OneCaller'
  BY TaskFrame DEF Goes, Leaves, At, Out
<1>2. TypeOK'
  BY <1>1 DEF TransportInv, TypeOK, TaskType, At, Out, Goes, Leaves
<1>3. TaskPlaces'
  BY <1>1 DEF TransportInv, TypeOK, TaskType, TaskPlaces, InFlight, InUse, At, Out, OneAtATime
<1>4. InUse'
  BY <1>1 DEF TransportInv, TypeOK, InUse, TaskPlaces, LetGo, Alive, At, Out, OneAtATime
<1>5. Pipes'
  <2>1. Quiet(process)
    <3>1. ready /\ process # None
      BY DEF TransportInv, TaskPlaces, InUse
    <3>2. \A u \in Tasks : ~At(u, "reading")
      BY <1>1 DEF At, Out
    <3> QED BY <3>1, <3>2 DEF TransportInv, Pipes
  <2> QED BY <1>1, <2>1 DEF TransportInv, TaskPlaces, Pipes, Quiet, At, Out
<1>6. AppliedForSomebody'
  BY <1>1 DEF TransportInv, TypeOK, TaskPlaces, InUse, InFlight, Pipes, Starting,
              AppliedForSomebody, At, Out, OneAtATime
<1>7. LetGo'
  BY <1>1 DEF TransportInv, TypeOK, TaskPlaces, InUse, Pipes, Quiet, LetGo, Alive, At, Out,
              OneAtATime
<1> QED BY <1>1, <1>2, <1>3, <1>4, <1>5, <1>6, <1>7 DEF TransportInv

\* The line goes to the worker the ready check found, and is alone in its pipe.
LEMMA WriteInv ==
    ASSUME TransportInv, NEW t \in Tasks, Write(t) PROVE TransportInv'
<1> USE DEF Write, childVars, pipes, work
<1>1. /\ task'[t] = [pc |-> "reading", child |-> None, command |-> task[t].command]
      /\ \A u \in Tasks : u # t => task[u] = Out /\ task'[u] = Out /\ ioLock # u
      /\ OneCaller'
  BY TaskFrame DEF Goes, Leaves, At, Out
<1>2. TypeOK'
  <2>1. process \in Children /\ task[t].command \in Commands
    BY DEF TransportInv, TypeOK, TaskPlaces, InFlight
  <2>2. Append(stdin[process], task[t].command) \in Seq(Commands)
    BY <2>1 DEF TransportInv, TypeOK
  <2>3. stdin' \in [Children -> Seq(Commands)]
    BY <2>1, <2>2 DEF TransportInv, TypeOK
  <2>4. task' \in [Tasks -> TaskType]
    BY <2>1 DEF TransportInv, TypeOK, TaskType, Goes
  <2> QED BY <2>3, <2>4 DEF TransportInv, TypeOK
<1>3. TaskPlaces'
  BY <1>1 DEF TransportInv, TypeOK, TaskType, TaskPlaces, InFlight, InUse, At, Out, OneAtATime
<1>4. InUse'
  BY <1>1 DEF TransportInv, TypeOK, InUse, TaskPlaces, LetGo, Alive, At, Out, OneAtATime
<1>5. Pipes'
  <2>1. ready /\ InFlight(task[t].command) /\ Quiet(process)
    <3>1. \A u \in Tasks : ~At(u, "reading")
      BY <1>1 DEF At, Out
    <3> QED BY <3>1 DEF TransportInv, TaskPlaces, Pipes
  <2>2. task[t].command \notin applied[process]
    BY <1>1, <2>1 DEF TransportInv, AppliedForSomebody, InFlight, At, Out
  <2>3. stdin'[process] = <<task[t].command>>
    BY <2>1 DEF TransportInv, TypeOK, Quiet
  <2>4. Unread(process, task[t].command)'
    BY <1>1, <2>1, <2>2, <2>3 DEF Quiet, Unread
  <2> QED BY <1>1, <2>1, <2>4 DEF Pipes, At, Out
<1>6. AppliedForSomebody'
  BY <1>1 DEF TransportInv, TypeOK, TaskPlaces, InUse, InFlight, Pipes, Starting,
              AppliedForSomebody, At, Out, OneAtATime
<1>7. LetGo'
  BY <1>1 DEF TransportInv, TypeOK, TaskPlaces, InUse, Pipes, Quiet, LetGo, Alive, At, Out,
              OneAtATime
<1> QED BY <1>1, <1>2, <1>3, <1>4, <1>5, <1>6, <1>7 DEF TransportInv

\* The answer that was read is that of the command, and the worker is idle again.
LEMMA ReadAnswerInv ==
    ASSUME TransportInv, NEW t \in Tasks, ReadAnswer(t) PROVE TransportInv'
<1> USE DEF ReadAnswer, childVars, pipes, work, Ends, Ending, Unlocks
<1>1. /\ task'[t] = Out
      /\ \A u \in Tasks : u # t => task[u] = Out /\ task'[u] = Out /\ ioLock # u
      /\ OneCaller'
  BY TaskFrame DEF Goes, Leaves, At, Out
<1>2. TypeOK'
  <2>1. process \in Children
    BY DEF TransportInv, TypeOK
  <2>2. Tail(stdout[process]) \in Seq(LineType)
    <3>1. stdout[process] \in Seq(LineType) /\ stdout[process] # <<>>
      BY <2>1 DEF TransportInv, TypeOK
    <3> HIDE DEF ReadAnswer
    <3> QED BY <3>1
  <2>3. stdout' \in [Children -> Seq(LineType)]
    BY <2>1, <2>2 DEF TransportInv, TypeOK
  <2>4. task' \in [Tasks -> TaskType] /\ ioLock' \in Tasks \cup {None}
    BY DEF TransportInv, TypeOK, TaskType, Leaves, Out
  <2>5. outcome' \in [Commands -> {"none", "unsent", "answered", "refused", "failed", "lost"}]
    <3>1. Answered(process, task[t].command)
      BY DEF TransportInv, Pipes, At, Unread, Handled
    <3>2. Head(stdout[process]).kind \in Answers \ {"bad"}
      BY <3>1 DEF Answered, Line
    <3> QED BY <3>2 DEF TransportInv, TypeOK, Answers
  <2> QED BY <2>3, <2>4, <2>5 DEF TransportInv, TypeOK
<1>3. TaskPlaces'
  BY <1>1 DEF TransportInv, TypeOK, TaskType, TaskPlaces, InFlight, InUse, At, Out, OneAtATime
<1>4. InUse'
  BY <1>1 DEF TransportInv, TypeOK, InUse, TaskPlaces, LetGo, Alive, At, Out, OneAtATime
<1>5. Pipes'
  <2>1. ready /\ Answered(process, task[t].command)
    BY DEF TransportInv, TaskPlaces, Pipes, At, Unread, Handled
  <2>2. stdout'[process] = <<>>
    BY <2>1 DEF TransportInv, TypeOK, Answered
  <2>3. Quiet(process)'
    BY <2>1, <2>2 DEF Answered, Quiet
  <2> QED BY <1>1, <2>1, <2>3 DEF Pipes, At, Out
<1>6. AppliedForSomebody'
  <2>1. task[t].command \in Commands /\ outcome'[task[t].command] # "none"
    <3>1. Answered(process, task[t].command) /\ InFlight(task[t].command)
      BY DEF TransportInv, TaskPlaces, Pipes, At, Unread, Handled
    <3>2. Head(stdout[process]).kind \in Answers
      BY <3>1 DEF Answered, Line
    <3> QED BY <3>1, <3>2 DEF TransportInv, TypeOK, InFlight, Answers
  <2>2. \A c \in Commands : outcome[c] # "none" => outcome'[c] # "none"
    <3>1. PICK how : outcome' = [outcome EXCEPT ![task[t].command] = how]
      OBVIOUS
    <3>2. \A c \in Commands : c # task[t].command => outcome'[c] = outcome[c]
      BY <3>1 DEF TransportInv, TypeOK
    <3>3. SUFFICES ASSUME NEW c \in Commands, outcome[c] # "none" PROVE outcome'[c] # "none"
      OBVIOUS
    <3>4. CASE c = task[t].command
      BY <2>1, <3>4
    <3>5. CASE c # task[t].command
      BY <3>2, <3>3, <3>5
    <3> QED BY <3>4, <3>5
  <2>3. process' = process /\ applied' = applied
    OBVIOUS
  <2>4. SUFFICES ASSUME process # None, NEW c \in applied[process]
                 PROVE outcome'[c] # "none"
    BY <2>3 DEF AppliedForSomebody
  <2>5. c \in Commands /\ (outcome[c] # "none" \/ c = task[t].command)
    <3>1. c \in Commands
      <4>1. process \in Children /\ applied \in [Children -> SUBSET Commands]
        BY <2>4 DEF TransportInv, TypeOK
      <4> QED BY <2>4, <4>1
    <3>2. outcome[c] # "none" \/ \E u \in Tasks : At(u, "reading") /\ task[u].command = c
      BY <2>4 DEF TransportInv, AppliedForSomebody
    <3>3. \A u \in Tasks : u # t => ~At(u, "reading")
      BY <1>1 DEF At, Out
    <3> QED BY <3>1, <3>2, <3>3
  <2> HIDE DEF ReadAnswer
  <2> QED BY <2>1, <2>2, <2>5
<1>7. LetGo'
  BY <1>1 DEF TransportInv, TypeOK, TaskPlaces, InUse, Pipes, Quiet, LetGo, Alive, At, Out,
              OneAtATime
<1> QED BY <1>1, <1>2, <1>3, <1>4, <1>5, <1>6, <1>7 DEF TransportInv

\* An answer nobody can use costs the worker.
LEMMA AnswerUnusableInv ==
    ASSUME TransportInv, NEW t \in Tasks, AnswerUnusable(t) PROVE TransportInv'
<1> USE DEF AnswerUnusable, childVars, pipes, work, Invalidate, Ends, Unusable, Alive
<1>1. /\ task'[t] = [pc |-> "reaping", child |-> process, command |-> task[t].command]
      /\ \A u \in Tasks : u # t => task[u] = Out /\ task'[u] = Out /\ ioLock # u
      /\ OneCaller'
  BY TaskFrame DEF Goes, Leaves, At, Out
<1>2. TypeOK'
  BY <1>1 DEF TransportInv, TypeOK, TaskType, At, Out, Goes, Leaves
<1>3. TaskPlaces'
  BY <1>1 DEF TransportInv, TypeOK, TaskType, TaskPlaces, InFlight, InUse, At, Out, OneAtATime
<1>4. InUse'
  BY <1>1 DEF TransportInv, TypeOK, InUse, TaskPlaces, LetGo, Alive, At, Out, OneAtATime
<1>5. Pipes'
  BY <1>1 DEF TransportInv, TypeOK, TaskPlaces, InUse, InFlight, Pipes, Starting, Quiet,
              Unread, Handled, Answered, At, Out, OneAtATime
<1>6. AppliedForSomebody'
  BY <1>1 DEF TransportInv, TypeOK, TaskPlaces, InUse, InFlight, Pipes, Starting,
              AppliedForSomebody, At, Out, OneAtATime
<1>7. LetGo'
  BY <1>1 DEF TransportInv, TypeOK, TaskPlaces, InUse, Pipes, Quiet, LetGo, Alive, At, Out,
              OneAtATime
<1> QED BY <1>1, <1>2, <1>3, <1>4, <1>5, <1>6, <1>7 DEF TransportInv

\* So does a deadline, wherever the command then is.
LEMMA DeadlineInv ==
    ASSUME TransportInv, NEW t \in Tasks, Deadline(t) PROVE TransportInv'
<1> USE DEF Deadline, childVars, pipes, work, Invalidate, Ends
<1>1. /\ task'[t] = [pc |-> "reaping", child |-> process, command |-> task[t].command]
      /\ \A u \in Tasks : u # t => task[u] = Out /\ task'[u] = Out /\ ioLock # u
      /\ OneCaller'
  BY TaskFrame DEF Goes, Leaves, At, Out
<1>2. TypeOK'
  BY <1>1 DEF TransportInv, TypeOK, TaskType, At, Out, Goes, Leaves
<1>3. TaskPlaces'
  BY <1>1 DEF TransportInv, TypeOK, TaskType, TaskPlaces, InFlight, InUse, At, Out, OneAtATime
<1>4. InUse'
  BY <1>1 DEF TransportInv, TypeOK, InUse, TaskPlaces, LetGo, Alive, At, Out, OneAtATime
<1>5. Pipes'
  BY <1>1 DEF TransportInv, TypeOK, TaskPlaces, InUse, InFlight, Pipes, Starting, Quiet,
              Unread, Handled, Answered, At, Out, OneAtATime
<1>6. AppliedForSomebody'
  BY <1>1 DEF TransportInv, TypeOK, TaskPlaces, InUse, InFlight, Pipes, Starting,
              AppliedForSomebody, At, Out, OneAtATime
<1>7. LetGo'
  BY <1>1 DEF TransportInv, TypeOK, TaskPlaces, InUse, Pipes, Quiet, LetGo, Alive, At, Out,
              OneAtATime
<1> QED BY <1>1, <1>2, <1>3, <1>4, <1>5, <1>6, <1>7 DEF TransportInv

\* The drain that is stopped is that of the worker that was reaped: no other was started.
LEMMA ReapedInv ==
    ASSUME TransportInv, NEW t \in Tasks, Reaped(t) PROVE TransportInv'
<1> USE DEF Reaped, childVars, pipes, work, Unlocks, Gone, Alive
<1>1. /\ task'[t] = Out
      /\ \A u \in Tasks : u # t => task[u] = Out /\ task'[u] = Out /\ ioLock # u
      /\ OneCaller'
  BY TaskFrame DEF Goes, Leaves, At, Out
<1>2. TypeOK'
  BY <1>1 DEF TransportInv, TypeOK, TaskType, At, Out, Goes, Leaves
<1>3. TaskPlaces'
  BY <1>1 DEF TransportInv, TypeOK, TaskType, TaskPlaces, InFlight, InUse, At, Out, OneAtATime
<1>4. InUse'
  BY <1>1 DEF TransportInv, TypeOK, InUse, TaskPlaces, LetGo, Alive, At, Out, OneAtATime
<1>5. Pipes'
  BY <1>1 DEF TransportInv, TypeOK, TaskPlaces, InUse, InFlight, Pipes, Starting, Quiet,
              Unread, Handled, Answered, At, Out, OneAtATime
<1>6. AppliedForSomebody'
  BY <1>1 DEF TransportInv, TypeOK, TaskPlaces, InUse, InFlight, Pipes, Starting,
              AppliedForSomebody, At, Out, OneAtATime
<1>7. LetGo'
  BY <1>1 DEF TransportInv, TypeOK, TaskPlaces, InUse, Pipes, Quiet, LetGo, Alive, At, Out,
              OneAtATime
<1> QED BY <1>1, <1>2, <1>3, <1>4, <1>5, <1>6, <1>7 DEF TransportInv

\* The worker was killed before the wait that is cancelled.
LEMMA ReapCancelledInv ==
    ASSUME TransportInv, NEW t \in Tasks, ReapCancelled(t) PROVE TransportInv'
<1> USE DEF ReapCancelled, childVars, pipes, work, Unlocks
<1>1. /\ task'[t] = Out
      /\ \A u \in Tasks : u # t => task[u] = Out /\ task'[u] = Out /\ ioLock # u
      /\ OneCaller'
  BY TaskFrame DEF Goes, Leaves, At, Out
<1>2. TypeOK'
  BY <1>1 DEF TransportInv, TypeOK, TaskType, At, Out, Goes, Leaves
<1>3. TaskPlaces'
  BY <1>1 DEF TransportInv, TypeOK, TaskType, TaskPlaces, InFlight, InUse, At, Out, OneAtATime
<1>4. InUse'
  BY <1>1 DEF TransportInv, TypeOK, InUse, TaskPlaces, LetGo, Alive, At, Out, OneAtATime
<1>5. Pipes'
  BY <1>1 DEF TransportInv, TypeOK, TaskPlaces, InUse, InFlight, Pipes, Starting, Quiet,
              Unread, Handled, Answered, At, Out, OneAtATime
<1>6. AppliedForSomebody'
  BY <1>1 DEF TransportInv, TypeOK, TaskPlaces, InUse, InFlight, Pipes, Starting,
              AppliedForSomebody, At, Out, OneAtATime
<1>7. LetGo'
  BY <1>1 DEF TransportInv, TypeOK, TaskPlaces, InUse, Pipes, Quiet, LetGo, Alive, At, Out,
              OneAtATime
<1> QED BY <1>1, <1>2, <1>3, <1>4, <1>5, <1>6, <1>7 DEF TransportInv

\* A worker told to stop is idle, so that it sees the end of its input.
LEMMA CloseCallInv ==
    ASSUME TransportInv, NEW t \in Tasks, CloseCall(t) PROVE TransportInv'
<1> USE DEF CloseCall, childVars, pipes, work
<1>1. /\ task'[t] = [pc |-> "closing", child |-> process, command |-> None]
      /\ \A u \in Tasks : u # t => task[u] = Out /\ task'[u] = Out /\ ioLock # u
      /\ OneCaller'
  BY TaskFrame DEF Goes, Leaves, At, Out
<1>2. TypeOK'
  BY <1>1 DEF TransportInv, TypeOK, TaskType, At, Out, Goes, Leaves
<1>3. TaskPlaces'
  BY <1>1 DEF TransportInv, TypeOK, TaskType, TaskPlaces, InFlight, InUse, At, Out, OneAtATime
<1>4. InUse'
  BY <1>1 DEF TransportInv, TypeOK, InUse, TaskPlaces, LetGo, Alive, At, Out, OneAtATime
<1>5. Pipes'
  BY <1>1 DEF TransportInv, TypeOK, TaskPlaces, InUse, InFlight, Pipes, Starting, Quiet,
              Unread, Handled, Answered, At, Out, OneAtATime
<1>6. AppliedForSomebody'
  BY <1>1 DEF TransportInv, TypeOK, TaskPlaces, InUse, InFlight, Pipes, Starting,
              AppliedForSomebody, At, Out, OneAtATime
<1>7. LetGo'
  BY <1>1 DEF TransportInv, TypeOK, TaskPlaces, InUse, Pipes, Quiet, LetGo, Alive, At, Out,
              OneAtATime
<1> QED BY <1>1, <1>2, <1>3, <1>4, <1>5, <1>6, <1>7 DEF TransportInv

\* As for Reaped.
LEMMA ClosedDownInv ==
    ASSUME TransportInv, NEW t \in Tasks, ClosedDown(t) PROVE TransportInv'
<1> USE DEF ClosedDown, childVars, pipes, work, Gone, Alive
<1>1. /\ task'[t] = Out
      /\ \A u \in Tasks : u # t => task[u] = Out /\ task'[u] = Out /\ ioLock # u
      /\ OneCaller'
  BY TaskFrame DEF Goes, Leaves, At, Out
<1>2. TypeOK'
  BY <1>1 DEF TransportInv, TypeOK, TaskType, At, Out, Goes, Leaves
<1>3. TaskPlaces'
  BY <1>1 DEF TransportInv, TypeOK, TaskType, TaskPlaces, InFlight, InUse, At, Out, OneAtATime
<1>4. InUse'
  BY <1>1 DEF TransportInv, TypeOK, InUse, TaskPlaces, LetGo, Alive, At, Out, OneAtATime
<1>5. Pipes'
  BY <1>1 DEF TransportInv, TypeOK, TaskPlaces, InUse, InFlight, Pipes, Starting, Quiet,
              Unread, Handled, Answered, At, Out, OneAtATime
<1>6. AppliedForSomebody'
  BY <1>1 DEF TransportInv, TypeOK, TaskPlaces, InUse, InFlight, Pipes, Starting,
              AppliedForSomebody, At, Out, OneAtATime
<1>7. LetGo'
  BY <1>1 DEF TransportInv, TypeOK, TaskPlaces, InUse, Pipes, Quiet, LetGo, Alive, At, Out,
              OneAtATime
<1> QED BY <1>1, <1>2, <1>3, <1>4, <1>5, <1>6, <1>7 DEF TransportInv

\* The worker that is killed was already let go of.
LEMMA CloseKillsInv ==
    ASSUME TransportInv, NEW t \in Tasks, CloseKills(t) PROVE TransportInv'
<1> USE DEF CloseKills, childVars, pipes, work, Gone, Alive
<1>1. /\ task'[t] = [pc |-> "reaping", child |-> task[t].child, command |-> None]
      /\ \A u \in Tasks : u # t => task[u] = Out /\ task'[u] = Out /\ ioLock # u
      /\ OneCaller'
  BY TaskFrame DEF Goes, Leaves, At, Out
<1>2. TypeOK'
  BY <1>1 DEF TransportInv, TypeOK, TaskType, At, Out, Goes, Leaves
<1>3. TaskPlaces'
  BY <1>1 DEF TransportInv, TypeOK, TaskType, TaskPlaces, InFlight, InUse, At, Out, OneAtATime
<1>4. InUse'
  BY <1>1 DEF TransportInv, TypeOK, InUse, TaskPlaces, LetGo, Alive, At, Out, OneAtATime
<1>5. Pipes'
  BY <1>1 DEF TransportInv, TypeOK, TaskPlaces, InUse, InFlight, Pipes, Starting, Quiet,
              Unread, Handled, Answered, At, Out, OneAtATime
<1>6. AppliedForSomebody'
  BY <1>1 DEF TransportInv, TypeOK, TaskPlaces, InUse, InFlight, Pipes, Starting,
              AppliedForSomebody, At, Out, OneAtATime
<1>7. LetGo'
  BY <1>1 DEF TransportInv, TypeOK, TaskPlaces, InUse, Pipes, Quiet, LetGo, Alive, At, Out,
              OneAtATime
<1> QED BY <1>1, <1>2, <1>3, <1>4, <1>5, <1>6, <1>7 DEF TransportInv

\* A worker that was told to stop stays told.
LEMMA CloseCancelledInv ==
    ASSUME TransportInv, NEW t \in Tasks, CloseCancelled(t) PROVE TransportInv'
<1> USE DEF CloseCancelled, childVars, pipes, work
<1>1. /\ task'[t] = Out
      /\ \A u \in Tasks : u # t => task[u] = Out /\ task'[u] = Out /\ ioLock # u
      /\ OneCaller'
  BY TaskFrame DEF Goes, Leaves, At, Out
<1>2. TypeOK'
  BY <1>1 DEF TransportInv, TypeOK, TaskType, At, Out, Goes, Leaves
<1>3. TaskPlaces'
  BY <1>1 DEF TransportInv, TypeOK, TaskType, TaskPlaces, InFlight, InUse, At, Out, OneAtATime
<1>4. InUse'
  BY <1>1 DEF TransportInv, TypeOK, InUse, TaskPlaces, LetGo, Alive, At, Out, OneAtATime
<1>5. Pipes'
  BY <1>1 DEF TransportInv, TypeOK, TaskPlaces, InUse, InFlight, Pipes, Starting, Quiet,
              Unread, Handled, Answered, At, Out, OneAtATime
<1>6. AppliedForSomebody'
  BY <1>1 DEF TransportInv, TypeOK, TaskPlaces, InUse, InFlight, Pipes, Starting,
              AppliedForSomebody, At, Out, OneAtATime
<1>7. LetGo'
  BY <1>1 DEF TransportInv, TypeOK, TaskPlaces, InUse, Pipes, Quiet, LetGo, Alive, At, Out,
              OneAtATime
<1> QED BY <1>1, <1>2, <1>3, <1>4, <1>5, <1>6, <1>7 DEF TransportInv

\* Only a worker that is starting says hello, and says it once.
LEMMA SayHelloInv ==
    ASSUME TransportInv, NEW p \in Children, SayHello(p) PROVE TransportInv'
<1> USE DEF SayHello, Runs, pipes, work, backendVars
<1>1. OneCaller' /\ TaskPlaces' /\ \A t \in Tasks : task'[t] = task[t]
  BY ChildFrame
<1>2. TypeOK'
  <2>1. Append(stdout[p], Hello) \in Seq(LineType)
    <3>1. Hello \in LineType
      BY DEF LineType, Hello, Line
    <3>2. stdout[p] \in Seq(LineType)
      BY DEF TransportInv, TypeOK
    <3> QED BY <3>1, <3>2
  <2> QED BY <2>1 DEF TransportInv, TypeOK
<1>4. InUse'
  BY <1>1 DEF TransportInv, TypeOK, InUse, At
<1>5. Pipes'
  <2>1. CASE p = process
    <3>1. ~ready /\ Starting(p)
      BY <2>1 DEF TransportInv, Pipes, Quiet, Unread, Handled, Answered
    <3>2. stdout'[p] = <<Hello>> /\ phase'[p] = "serving"
      BY <3>1 DEF TransportInv, TypeOK, Starting
    <3>3. Starting(process)'
      BY <2>1, <3>1, <3>2 DEF Starting
    <3> QED BY <1>1, <3>1, <3>3 DEF TransportInv, TaskPlaces, Pipes, At
  <2>2. CASE p # process
    BY <1>1, <2>2 DEF TransportInv, TypeOK, Pipes, Starting, Quiet, Unread, Handled, Answered,
                      At
  <2> QED BY <2>1, <2>2
<1>6. AppliedForSomebody'
  BY <1>1 DEF TransportInv, TypeOK, TaskPlaces, InUse, InFlight, Pipes, Quiet, Starting,
              Unread, Handled, Answered, AppliedForSomebody, LetGo, Alive, At
<1>7. LetGo'
  BY <1>1 DEF TransportInv, TypeOK, InUse, Quiet, LetGo, Alive
<1> QED BY <1>1, <1>2, <1>4, <1>5, <1>6, <1>7 DEF TransportInv

\* The line that is taken is the command in progress.
LEMMA TakeLineInv ==
    ASSUME TransportInv, NEW p \in Children, TakeLine(p) PROVE TransportInv'
<1> USE DEF TakeLine, Runs, pipes, work, backendVars
<1>1. OneCaller' /\ TaskPlaces' /\ \A t \in Tasks : task'[t] = task[t]
  BY ChildFrame
<1>2. TypeOK'
  BY <1>1 DEF TransportInv, TypeOK
<1>4. InUse'
  BY <1>1 DEF TransportInv, TypeOK, InUse, At
<1>5. Pipes'
  <2>1. CASE p = process
    <3>1. ready
      BY <2>1 DEF TransportInv, Pipes, Starting
    <3>2. PICK t \in Tasks : At(t, "reading")
      BY <2>1, <3>1 DEF TransportInv, Pipes, Quiet
    <3>3. Unread(p, task[t].command)
      BY <2>1, <3>2 DEF TransportInv, Pipes, Handled, Answered
    <3>4. Handled(p, task[t].command)'
      BY <1>1, <3>3 DEF TransportInv, TypeOK, Unread, Handled
    <3>5. \A u \in Tasks : At(u, "reading") => u = t
      BY <3>2 DEF TransportInv, OneCaller, At
    <3> QED BY <1>1, <2>1, <3>1, <3>2, <3>4, <3>5 DEF Pipes, At
  <2>2. CASE p # process
    BY <1>1, <2>2 DEF TransportInv, TypeOK, Pipes, Starting, Quiet, Unread, Handled, Answered,
                      At
  <2> QED BY <2>1, <2>2
<1>6. AppliedForSomebody'
  BY <1>1 DEF TransportInv, TypeOK, TaskPlaces, InUse, InFlight, Pipes, Quiet, Starting,
              Unread, Handled, Answered, AppliedForSomebody, LetGo, Alive, At
<1>7. LetGo'
  BY <1>1 DEF TransportInv, TypeOK, InUse, Quiet, LetGo, Alive
<1> QED BY <1>1, <1>2, <1>4, <1>5, <1>6, <1>7 DEF TransportInv

\* The answer is to the command in progress, and the effect is of that command.
LEMMA HandleLineInv ==
    ASSUME TransportInv, NEW p \in Children, HandleLine(p) PROVE TransportInv'
<1> USE DEF HandleLine, Runs, pipes, work, backendVars
<1>1. OneCaller' /\ TaskPlaces' /\ \A t \in Tasks : task'[t] = task[t]
  BY ChildFrame
<1>3. PICK kind \in Answers :
        /\ stdout' = [stdout EXCEPT ![p] = Append(@, Line(kind, doing[p]))]
        /\ \E effects \in Effects(kind, doing[p]) :
              applied' = [applied EXCEPT ![p] = @ \cup effects]
  OBVIOUS
<1>8. PICK effects \in Effects(kind, doing[p]) :
        applied' = [applied EXCEPT ![p] = @ \cup effects]
  BY <1>3
<1>9. /\ p = process /\ ready
      /\ \E t \in Tasks : At(t, "reading") /\ Handled(p, task[t].command)
  <2>1. p = process
    BY DEF TransportInv, LetGo, Quiet, Alive
  <2>2. ready
    BY <2>1 DEF TransportInv, Pipes, Starting, TypeOK
  <2>3. PICK t \in Tasks : At(t, "reading")
    BY <2>1, <2>2 DEF TransportInv, Pipes, Quiet, TypeOK
  <2> QED BY <2>1, <2>2, <2>3 DEF TransportInv, Pipes, Unread, Answered, TypeOK
<1>10. PICK t \in Tasks : At(t, "reading") /\ Handled(p, task[t].command)
  BY <1>9
<1>11. doing[p] = task[t].command /\ doing[p] \in Commands /\ outcome[doing[p]] = "none"
  BY <1>10 DEF TransportInv, TaskPlaces, Handled, InFlight
<1>2. TypeOK'
  <2>1. Append(stdout[p], Line(kind, doing[p])) \in Seq(LineType)
    <3>1. Line(kind, doing[p]) \in LineType
      BY <1>11 DEF LineType, Line
    <3>2. stdout[p] \in Seq(LineType)
      BY DEF TransportInv, TypeOK
    <3> QED BY <3>1, <3>2
  <2>2. effects \subseteq Commands
    BY <1>8, <1>11 DEF Effects
  <2> QED BY <1>3, <1>8, <2>1, <2>2 DEF TransportInv, TypeOK
<1>4. InUse'
  BY <1>1 DEF TransportInv, TypeOK, InUse, At
<1>5. Pipes'
  <2>1. stdout'[p] = <<Line(kind, doing[p])>>
    BY <1>3, <1>10 DEF TransportInv, TypeOK, Handled
  <2>2. /\ kind = "result" => doing[p] \in applied'[p]
        /\ kind = "refused" => doing[p] \notin applied'[p]
    BY <1>8, <1>10, <1>11 DEF TransportInv, TypeOK, Handled, Effects
  <2>3. Answered(p, task[t].command)'
    BY <1>1, <1>10, <1>11, <2>1, <2>2 DEF TransportInv, TypeOK, Handled, Answered
  <2>4. \A u \in Tasks : At(u, "reading") => u = t
    BY <1>10 DEF TransportInv, OneCaller, At
  <2> QED BY <1>1, <1>9, <1>10, <2>3, <2>4 DEF Pipes, At
<1>6. AppliedForSomebody'
  <2>1. applied'[p] \subseteq applied[p] \cup {doing[p]}
    BY <1>8 DEF TransportInv, TypeOK, Effects
  <2>2. task'[t].command = doing[p] /\ At(t, "reading")'
    BY <1>1, <1>10, <1>11 DEF At
  <2> QED BY <1>1, <1>9, <2>1, <2>2 DEF TransportInv, AppliedForSomebody, At
<1>7. LetGo'
  BY <1>1 DEF TransportInv, TypeOK, InUse, Quiet, LetGo, Alive
<1> QED BY <1>1, <1>2, <1>4, <1>5, <1>6, <1>7 DEF TransportInv

\* No worker in use sees the end of its input.
LEMMA EndOfInputInv ==
    ASSUME TransportInv, NEW p \in Children, EndOfInput(p) PROVE TransportInv'
<1> USE DEF EndOfInput, Runs, pipes, work, backendVars
<1>1. OneCaller' /\ TaskPlaces' /\ \A t \in Tasks : task'[t] = task[t]
  BY ChildFrame
<1>2. TypeOK'
  BY <1>1 DEF TransportInv, TypeOK
<1>4. InUse'
  BY <1>1 DEF TransportInv, TypeOK, InUse, At
<1>5. Pipes'
  BY <1>1 DEF TransportInv, TypeOK, TaskPlaces, InUse, InFlight, Pipes, Starting, Quiet,
              Unread, Handled, Answered, LetGo, Alive, At
<1>6. AppliedForSomebody'
  BY <1>1 DEF TransportInv, TypeOK, TaskPlaces, InUse, InFlight, Pipes, Quiet, Starting,
              Unread, Handled, Answered, AppliedForSomebody, LetGo, Alive, At
<1>7. LetGo'
  BY <1>1 DEF TransportInv, TypeOK, InUse, Quiet, LetGo, Alive
<1> QED BY <1>1, <1>2, <1>4, <1>5, <1>6, <1>7 DEF TransportInv

\* A worker may die anywhere; its pipes stay as they are.
LEMMA DiesInv ==
    ASSUME TransportInv, NEW p \in Children, Dies(p) PROVE TransportInv'
<1> USE DEF Dies, Runs, pipes, work, backendVars, Alive
<1>1. OneCaller' /\ TaskPlaces' /\ \A t \in Tasks : task'[t] = task[t]
  BY ChildFrame
<1>2. TypeOK'
  BY <1>1 DEF TransportInv, TypeOK
<1>4. InUse'
  BY <1>1 DEF TransportInv, TypeOK, InUse, At
<1>5. Pipes'
  BY <1>1 DEF TransportInv, TypeOK, TaskPlaces, InUse, InFlight, Pipes, Starting, Quiet,
              Unread, Handled, Answered, LetGo, Alive, At
<1>6. AppliedForSomebody'
  BY <1>1 DEF TransportInv, TypeOK, TaskPlaces, InUse, InFlight, Pipes, Quiet, Starting,
              Unread, Handled, Answered, AppliedForSomebody, LetGo, Alive, At
<1>7. LetGo'
  BY <1>1 DEF TransportInv, TypeOK, InUse, Quiet, LetGo, Alive
<1> QED BY <1>1, <1>2, <1>4, <1>5, <1>6, <1>7 DEF TransportInv

\* A task that is out of the backend has a typed place.
LEMMA OutTyped == Out \in TaskType
  BY DEF Out, TaskType

\* The invariant holds at first.
LEMMA InitInv == Init => TransportInv
<1> SUFFICES ASSUME Init PROVE TransportInv
  OBVIOUS
<1>1. TypeOK
  <2>1. task \in [Tasks -> TaskType]
    BY OutTyped DEF Init
  <2>2. ready \in BOOLEAN /\ {process, drain} \subseteq Children \cup {None}
    BY DEF Init
  <2>3. stdin \in [Children -> Seq(Commands)] /\ stdout \in [Children -> Seq(LineType)]
    BY DEF Init
  <2>4. /\ doing \in [Children -> Commands \cup {None}] /\ applied \in [Children -> SUBSET Commands]
        /\ killed \subseteq Children /\ eof \subseteq Children /\ ioLock \in Tasks \cup {None}
    BY DEF Init
  <2>5. /\ outcome \in [Commands -> {"none", "unsent", "answered", "refused", "failed", "lost"}]
        /\ phase \in [Children -> {"unborn", "loading", "serving", "working", "dead"}]
    BY DEF Init
  <2> QED BY <2>1, <2>2, <2>3, <2>4, <2>5 DEF TypeOK
<1> USE DEF Init
<1>2. OneCaller /\ TaskPlaces
  BY DEF OneCaller, TaskPlaces, At, Out
<1>3. InUse /\ Pipes /\ AppliedForSomebody
  BY DEF InUse, Pipes, AppliedForSomebody
<1>4. LetGo
  BY DEF LetGo, Alive
<1> QED BY <1>1, <1>2, <1>3, <1>4 DEF TransportInv

\* And every step keeps it.
LEMMA NextInv == TransportInv /\ [Next]_vars => TransportInv'
<1> SUFFICES ASSUME TransportInv, [Next]_vars PROVE TransportInv'
  OBVIOUS
<1>1. CASE UNCHANGED vars
  BY <1>1 DEF vars, backendVars, childVars, pipes, work, TransportInv, TypeOK, OneCaller,
              TaskPlaces, InFlight, InUse, Pipes, Starting, Quiet, Unread, Handled, Answered,
              AppliedForSomebody, LetGo, Alive, At
<1>2. ASSUME NEW t \in Tasks, TaskNext(t) PROVE TransportInv'
  BY <1>2, StartCallInv, SpawnInv, HelloReadInv, StartFailsInv, RequestCallInv, UnsentInv,
     WriteInv, ReadAnswerInv, AnswerUnusableInv, DeadlineInv, ReapedInv, ReapCancelledInv,
     CloseCallInv, ClosedDownInv, CloseKillsInv, CloseCancelledInv DEF TaskNext, TaskStep
<1>3. ASSUME NEW p \in Children, ChildNext(p) PROVE TransportInv'
  BY <1>3, SayHelloInv, TakeLineInv, HandleLineInv, EndOfInputInv, DiesInv DEF ChildNext
<1> QED BY <1>1, <1>2, <1>3 DEF Next

\* Whatever the tasks and the worker do, the invariant of the transport holds.
THEOREM TransportInvariantHolds == Spec => []TransportInv
  BY InitInv, NextInv, PTL DEF Spec

----------------------------------------------------------------------------
(* The safety properties.                                                  *)

\* Between two calls the pipes of a ready worker are empty, for any number of
\* tasks, workers and commands.
THEOREM NothingIsLeftBehind == Spec => []QuietWhenFree
<1>1. TransportInv => QuietWhenFree
  BY DEF TransportInv, InUse, Pipes, Quiet, QuietWhenFree, OneAtATime, At
<1> QED BY <1>1, TransportInvariantHolds, PTL

\* What the ready check found is still so when the lock is taken.
THEOREM ReadyChecksHold == Spec => []ReadyCheckHolds
<1>1. TransportInv => ReadyCheckHolds
  BY DEF TransportInv, TaskPlaces, InUse, ReadyCheckHolds
<1> QED BY <1>1, TransportInvariantHolds, PTL

\* A worker the backend no longer knows was killed or told to stop.
THEOREM NoWorkerIsOrphaned == Spec => []OneWorker
<1>1. TransportInv => OneWorker
  BY DEF TransportInv, LetGo, OneWorker
<1> QED BY <1>1, TransportInvariantHolds, PTL

\* The stderr of the worker in use is read.
THEOREM WorkerIsDrained == Spec => []StderrDrained
<1>1. TransportInv => StderrDrained
  BY DEF TransportInv, InUse, StderrDrained
<1> QED BY <1>1, TransportInvariantHolds, PTL

\* What the lock protects is as its holder takes it to be: typed, with no answer
\* of an earlier command, a worker that was not replaced, and its stderr read.
THEOREM LockAlwaysProtects == Spec => []LockProtects
<1>1. TransportInv => TypeOK
  BY DEF TransportInv
<1>2. TypeOK /\ QuietWhenFree /\ ReadyCheckHolds /\ StderrDrained => LockProtects
  BY DEF LockProtects
<1> QED
  BY <1>1, <1>2, TransportInvariantHolds, NothingIsLeftBehind, ReadyChecksHold, WorkerIsDrained, PTL

----------------------------------------------------------------------------
(* That WorkerTransport implements CommandChannel, and that a command      *)
(* takes effect only while its caller waits.  Both rest on the inductive   *)
(* invariant above.                                                        *)

ChannelStep == [Channel!Next]_(Channel!channel)

\* A step that concerns neither the channel's state nor its command.
LEMMA Stutters ==
    ASSUME UNCHANGED <<ready, outcome>>, Running' = Running, Held' = Held
    PROVE  ChannelStep
  BY DEF ChannelStep, Channel!channel

\* What runs, before and after a step that moves the one task in the backend.
LEMMA RunningFrame ==
    ASSUME TransportInv, NEW t \in Tasks, NEW r, task' = [task EXCEPT ![t] = r],
           OneAtATime \/ ~At(t, "out")
    PROVE  /\ Running = IF At(t, "reading") THEN {task[t].command} ELSE {}
           /\ Running' = IF r.pc = "reading" THEN {r.command} ELSE {}
<1>1. task'[t] = r
  BY TaskFrame
<1>2. \A u \in Tasks : u # t => task[u] = Out /\ task'[u] = Out
  BY TaskFrame
<1>3. \A u \in Tasks : u # t => task[u].pc = "out" /\ task'[u].pc = "out"
  BY <1>2 DEF Out
<1>4. \A u \in Tasks : u # t => ~At(u, "reading") /\ ~At(u, "reading")'
  BY <1>3 DEF At
<1> QED BY <1>1, <1>4 DEF Running, At

LEMMA GoesFrame ==
    ASSUME TransportInv, NEW t \in Tasks, NEW pc, NEW p, NEW c, Goes(t, pc, p, c),
           OneAtATime \/ ~At(t, "out")
    PROVE  /\ Running = IF At(t, "reading") THEN {task[t].command} ELSE {}
           /\ Running' = IF pc = "reading" THEN {c} ELSE {}
<1> DEFINE r == [pc |-> pc, child |-> p, command |-> c]
<1>1. task' = [task EXCEPT ![t] = r]
  BY DEF Goes
<1>2. r.pc = pc /\ r.command = c
  OBVIOUS
<1> HIDE DEF r
<1> QED BY <1>1, <1>2, RunningFrame

LEMMA LeavesFrame ==
    ASSUME TransportInv, NEW t \in Tasks, Leaves(t), ~At(t, "out")
    PROVE  /\ Running = IF At(t, "reading") THEN {task[t].command} ELSE {}
           /\ Running' = {}
<1>1. task' = [task EXCEPT ![t] = Out]
  BY DEF Leaves
<1>2. Out.pc # "reading"
  BY DEF Out
<1> QED BY <1>1, <1>2, RunningFrame

\* A task in one place is in no other.
LEMMA InOnePlace ==
    ASSUME NEW t \in Tasks, NEW pc, At(t, pc)
    PROVE  \A other : other # pc => ~At(t, other)
  BY DEF At

\* The outcome of one command, as the channel states it.
LEMMA EndsAsChannel ==
    ASSUME TransportInv, NEW c \in Commands, NEW how, Ends(c, how)
    PROVE  Channel!Ends({c}, how)
  BY DEF TransportInv, TypeOK, Ends, Channel!Ends

\* What a worker does to a command, it does to the one that is waited for.
LEMMA WorksForSomebody ==
    ASSUME TransportInv, NEW p \in Children, HandleLine(p)
    PROVE  /\ p = process /\ ready /\ doing[p] \in Commands
           /\ doing[p] \in Running /\ doing[p] \notin applied[p]
           /\ outcome[doing[p]] = "none"
<1> USE DEF HandleLine, Runs
<1>1. p = process
  BY DEF TransportInv, LetGo, Quiet, Alive
<1>2. ready
  BY <1>1 DEF TransportInv, Pipes, Starting, TypeOK
<1>3. PICK t \in Tasks : At(t, "reading")
  BY <1>1, <1>2 DEF TransportInv, Pipes, Quiet, TypeOK
<1>4. Handled(p, task[t].command)
  BY <1>1, <1>2, <1>3 DEF TransportInv, Pipes, Unread, Answered, TypeOK
<1> HIDE DEF HandleLine, Runs
<1>5. InFlight(task[t].command)
  BY <1>3 DEF TransportInv, TaskPlaces
<1>6. task[t].command \in Running
  BY <1>3 DEF Running
<1> QED BY <1>1, <1>2, <1>4, <1>5, <1>6 DEF Handled, InFlight

----------------------------------------------------------------------------
(* Every step of the transport is one of the channel, or a stutter.        *)

\* start(): a worker is up once its handshake was read, not before.
LEMMA StartRefines ==
    ASSUME TransportInv, NEW t \in Tasks,
           StartCall(t) \/ Spawn(t) \/ HelloRead(t) \/ StartFails(t)
    PROVE  ChannelStep
<1>1. CASE StartCall(t)
  <2>1. Held' = Held
    BY <1>1 DEF StartCall, Held, childVars, work
  <2>2. OneAtATime /\ ~At(t, "reading") /\ Goes(t, "verifying", None, None)
    BY <1>1, InOnePlace DEF StartCall, OneAtATime
  <2>3. Running' = Running
    BY <2>2, GoesFrame
  <2> QED BY <1>1, <2>1, <2>3, Stutters DEF StartCall
<1>2. CASE Spawn(t)
  <2>1. Running' = Running
    <3>1. Goes(t, "hello", None, None) /\ At(t, "verifying")
      BY <1>2 DEF Spawn
    <3> QED BY <3>1, GoesFrame, InOnePlace
  <2>2. Held = {} /\ Held' = {}
    BY <1>2 DEF Spawn, Held, TransportInv, TaskPlaces, LetGo, work
  <2> QED BY <1>2, <2>1, <2>2, Stutters DEF Spawn
<1>3. CASE HelloRead(t)
  <2>1. Running' = Running
    <3>1. Leaves(t) /\ At(t, "hello")
      BY <1>3 DEF HelloRead
    <3> QED BY <3>1, LeavesFrame, InOnePlace
  <2>2. Held' = Held
    BY <1>3 DEF HelloRead, Held, work
  <2>3. ~ready
    BY <1>3 DEF HelloRead, TransportInv, TaskPlaces
  <2>4. Channel!Start
    BY <1>3, <2>1, <2>2, <2>3 DEF HelloRead, Channel!Start
  <2> QED BY <2>4 DEF ChannelStep, Channel!Next
<1>4. CASE StartFails(t)
  <2>1. Running' = Running
    <3>1. /\ Goes(t, "reaping", process, task[t].command)
          /\ At(t, "verifying") \/ At(t, "hello")
      BY <1>4 DEF StartFails, Invalidate
    <3>2. ~At(t, "out") /\ ~At(t, "reading")
      BY <3>1, InOnePlace
    <3> QED BY <3>1, <3>2, GoesFrame
  <2>2. ~ready
    BY <1>4 DEF StartFails, TransportInv, TaskPlaces
  <2>3. Held = {} /\ Held' = {}
    BY <1>4, <2>2 DEF StartFails, Invalidate, Held, TransportInv, Pipes, Starting
  <2>4. UNCHANGED <<ready, outcome>>
    BY <1>4, <2>2, Zenon DEF StartFails, Invalidate, TransportInv, TypeOK
  <2> QED BY <2>1, <2>3, <2>4, Stutters
<1> QED BY <1>1, <1>2, <1>3, <1>4

\* _request() up to the write.
LEMMA SendRefines ==
    ASSUME TransportInv, NEW t \in Tasks, RequestCall(t) \/ Unsent(t) \/ Write(t)
    PROVE  ChannelStep
<1>1. CASE RequestCall(t)
  <2>1. Held' = Held
    BY <1>1 DEF RequestCall, Held, childVars, work
  <2>2. PICK d : OneAtATime /\ ~At(t, "reading") /\ Goes(t, "queued", None, d)
    BY <1>1, InOnePlace DEF RequestCall, OneAtATime
  <2>3. Running' = Running
    BY <2>2, GoesFrame
  <2> QED BY <1>1, <2>1, <2>3, Stutters DEF RequestCall
<1> DEFINE c == task[t].command
<1>2. ASSUME At(t, "queued") PROVE
      /\ ready /\ process # None /\ c \in Commands /\ outcome[c] = "none"
      /\ Running = {} /\ c \notin Held
  <2>1. ready /\ process # None /\ c \in Commands /\ outcome[c] = "none"
    BY <1>2 DEF TransportInv, TaskPlaces, InUse, InFlight
  <2>2. \A u \in Tasks : ~At(u, "reading")
    BY <1>2 DEF TransportInv, OneCaller, At
  <2>3. c \notin Held
    BY <2>1, <2>2 DEF TransportInv, AppliedForSomebody, Held
  <2> QED BY <2>1, <2>2, <2>3 DEF Running
<1>3. CASE Unsent(t)
  <2>1. At(t, "queued") /\ Ends(c, "unsent")
    BY <1>3 DEF Unsent
  <2>2. Channel!Ends({c}, "unsent")
    BY <1>2, <2>1, EndsAsChannel
  <2>3. Running' = Running
    <3>1. Leaves(t) /\ At(t, "queued")
      BY <1>3 DEF Unsent
    <3> QED BY <3>1, LeavesFrame, InOnePlace
  <2>4. Held' = Held /\ ready' = ready
    BY <1>3 DEF Unsent, Held, childVars, work
  <2>5. Channel!Decline(c)
    BY <1>2, <2>1, <2>2, <2>3, <2>4 DEF Channel!Decline
  <2> QED BY <1>2, <2>1, <2>5 DEF ChannelStep, Channel!Next
<1>4. CASE Write(t)
  <2>1. At(t, "queued")
    BY <1>4 DEF Write
  <2>2. Running' = {c}
    <3>1. Goes(t, "reading", None, c) /\ At(t, "queued")
      BY <1>4 DEF Write
    <3> QED BY <3>1, GoesFrame, InOnePlace
  <2>3. Held' = Held /\ ready' = ready /\ outcome' = outcome
    BY <1>4 DEF Write, Held, work
  <2>4. Channel!Send(c)
    BY <1>2, <2>1, <2>2, <2>3 DEF Channel!Send
  <2> QED BY <1>2, <2>1, <2>4 DEF ChannelStep, Channel!Next
<1> QED BY <1>1, <1>3, <1>4

\* _request() from the write: an answer, or the loss of the worker.
LEMMA AnswerRefines ==
    ASSUME TransportInv, NEW t \in Tasks,
           ReadAnswer(t) \/ AnswerUnusable(t) \/ Deadline(t)
    PROVE  ChannelStep
<1> DEFINE c == task[t].command
<1>1. /\ At(t, "reading") /\ ready /\ process # None
      /\ c \in Commands /\ outcome[c] = "none"
  BY DEF ReadAnswer, AnswerUnusable, Deadline, TransportInv, TaskPlaces, InUse, InFlight
<1>2. CASE ReadAnswer(t)
  <2> DEFINE kind == Head(stdout[process]).kind
  <2>1. Answered(process, c)
    BY <1>1, <1>2 DEF ReadAnswer, TransportInv, Pipes, Unread, Handled
  <2>2. /\ kind \in Answers
        /\ kind = "result" => c \in applied[process]
        /\ kind = "refused" => c \notin applied[process]
    BY <2>1 DEF Answered, Line
  <2>3. kind # "bad" /\ Ends(c, Ending(kind))
    BY <1>2 DEF ReadAnswer
  <2>4. Running = {c} /\ Running' = {}
    <3>1. Leaves(t) /\ At(t, "reading")
      BY <1>2 DEF ReadAnswer
    <3> QED BY <3>1, LeavesFrame, InOnePlace
  <2>5. Held' = Held /\ Held = applied[process] /\ ready' = ready
    BY <1>1, <1>2 DEF ReadAnswer, Held, work
  <2> HIDE DEF kind
  <2>6. Channel!Ends({c}, Ending(kind))
    BY <1>1, <2>3, EndsAsChannel
  <2>7. CASE kind = "result"
    BY <2>2, <2>4, <2>5, <2>6, <2>7, <1>1 DEF Ending, Channel!Answer, ChannelStep, Channel!Next
  <2>8. CASE kind = "refused"
    BY <2>2, <2>4, <2>5, <2>6, <2>8, <1>1 DEF Ending, Channel!Refuse, ChannelStep, Channel!Next
  <2>9. CASE kind = "failed"
    BY <2>2, <2>4, <2>5, <2>6, <2>9, <1>1 DEF Ending, Channel!Fail, ChannelStep, Channel!Next
  <2> QED BY <2>2, <2>3, <2>7, <2>8, <2>9 DEF Answers
<1>3. CASE AnswerUnusable(t) \/ Deadline(t)
  <2>1. Ends(c, "lost") /\ Invalidate(t)
    BY <1>3 DEF AnswerUnusable, Deadline
  <2>2. Running = {c} /\ Running' = {}
    <3>1. Goes(t, "reaping", process, task[t].command)
      BY <2>1 DEF Invalidate
    <3> QED BY <1>1, <3>1, GoesFrame, InOnePlace
  <2>3. ready' = FALSE /\ Held' = {}
    BY <2>1 DEF Invalidate, Held
  <2>4. Channel!Ends({c}, "lost")
    BY <1>1, <2>1, EndsAsChannel
  <2>5. Channel!Lose
    BY <1>1, <2>2, <2>3, <2>4 DEF Channel!Lose
  <2> QED BY <2>5 DEF ChannelStep, Channel!Next
<1> QED BY <1>2, <1>3

\* close() loses a worker that is up; the rest of it, and reaping, concern a
\* worker already lost.
LEMMA CloseRefines ==
    ASSUME TransportInv, NEW t \in Tasks,
           \/ CloseCall(t) \/ ClosedDown(t) \/ CloseKills(t) \/ CloseCancelled(t)
           \/ Reaped(t) \/ ReapCancelled(t)
    PROVE  ChannelStep
<1>1. CASE CloseCall(t)
  <2>1. Running = {} /\ Running' = {}
    <3>1. OneAtATime /\ ~At(t, "reading") /\ Goes(t, "closing", process, None)
      BY <1>1, InOnePlace DEF CloseCall, OneAtATime
    <3> QED BY <3>1, GoesFrame
  <2>2. ready' = FALSE /\ Held' = {} /\ outcome' = outcome
    BY <1>1 DEF CloseCall, Held
  <2>3. CASE ready
    <3>1. Channel!Ends({}, "lost")
      BY <2>2 DEF Channel!Ends, TransportInv, TypeOK
    <3>2. Channel!Lose
      BY <2>1, <2>2, <2>3, <3>1 DEF Channel!Lose
    <3> QED BY <3>2 DEF ChannelStep, Channel!Next
  <2>4. CASE ~ready
    <3>1. process = None
      BY <1>1, <2>4 DEF CloseCall, TransportInv, InUse, OneAtATime, At
    <3>2. Held = {}
      BY <3>1 DEF Held
    <3>3. ready' = ready
      BY <2>2, <2>4, Zenon DEF TransportInv, TypeOK
    <3> QED BY <2>1, <2>2, <3>2, <3>3, Stutters
  <2> QED BY <2>3, <2>4
<1>2. CASE ~CloseCall(t)
  <2>1. UNCHANGED <<ready, process, outcome, applied>>
    BY <1>2 DEF ClosedDown, CloseKills, CloseCancelled, Reaped, ReapCancelled, childVars, work
  <2>2. Held' = Held
    BY <2>1 DEF Held
  <2>3. Leaves(t) \/ Goes(t, "reaping", task[t].child, None)
    BY <1>2 DEF ClosedDown, CloseKills, CloseCancelled, Reaped, ReapCancelled
  <2>4. ~At(t, "out") /\ ~At(t, "reading")
    BY <1>2 DEF ClosedDown, CloseKills, CloseCancelled, Reaped, ReapCancelled, At
  <2>5. Running' = Running
    BY <2>3, <2>4, LeavesFrame, GoesFrame
  <2> QED BY <2>1, <2>2, <2>5, Stutters
<1> QED BY <1>1, <1>2

\* The worker: only the handling of a line changes what it holds.
LEMMA ChildRefines ==
    ASSUME TransportInv, NEW p \in Children, ChildNext(p)
    PROVE  ChannelStep
<1>1. UNCHANGED <<ready, process, outcome>> /\ Running' = Running
  BY DEF ChildNext, SayHello, TakeLine, HandleLine, EndOfInput, Dies, backendVars, Running, At
<1>2. CASE HandleLine(p)
  <2>1. PICK effects \in {{}, {doing[p]}} : applied' = [applied EXCEPT ![p] = @ \cup effects]
    BY <1>2 DEF HandleLine, Effects
  <2>2. /\ p = process /\ ready /\ doing[p] \in Running /\ doing[p] \in Commands
    BY <1>2, WorksForSomebody
  <2>3. process \in Children /\ process # None /\ applied \in [Children -> SUBSET Commands]
    BY <2>2 DEF TransportInv, TypeOK
  <2>4. Held' = Held \cup effects
    BY <1>1, <2>1, <2>2, <2>3 DEF Held
  <2>5. CASE effects = {}
    BY <1>1, <2>4, <2>5, Stutters
  <2>6. CASE effects = {doing[p]}
    <3>1. Channel!Apply(doing[p])
      BY <1>1, <2>2, <2>4, <2>6 DEF Channel!Apply
    <3> QED BY <2>2, <3>1 DEF ChannelStep, Channel!Next
  <2> QED BY <2>1, <2>5, <2>6
<1>3. CASE ~HandleLine(p)
  <2>1. applied' = applied
    BY <1>3 DEF ChildNext, SayHello, TakeLine, EndOfInput, Dies, work
  <2> QED BY <1>1, <2>1, Stutters DEF Held
<1> QED BY <1>2, <1>3

\* The transport implements the channel: whatever its tasks and workers do, an
\* answered command was applied in the worker that is up, a refused one was not,
\* and a lost one took the worker with it.
THEOREM TransportImplementsChannel == Spec => ImplementsChannel
<1>1. Init => Channel!Init
  BY DEF Init, Channel!Init, Running, Held, At, Out
<1>2. TransportInv /\ [Next]_vars => [Channel!Next]_(Channel!channel)
  <2> SUFFICES ASSUME TransportInv, [Next]_vars PROVE ChannelStep
    BY DEF ChannelStep
  <2>1. CASE UNCHANGED vars
    <3>1. Running' = Running /\ Held' = Held
      BY <2>1 DEF vars, backendVars, childVars, work, Running, Held, At
    <3> QED BY <2>1, <3>1, Stutters DEF vars, backendVars
  <2>2. ASSUME NEW t \in Tasks, TaskNext(t) PROVE ChannelStep
    BY <2>2, StartRefines, SendRefines, AnswerRefines, CloseRefines DEF TaskNext, TaskStep
  <2>3. ASSUME NEW p \in Children, ChildNext(p) PROVE ChannelStep
    BY <2>3, ChildRefines
  <2> QED BY <2>1, <2>2, <2>3 DEF Next
<1> QED BY <1>1, <1>2, TransportInvariantHolds, PTL DEF Spec, ImplementsChannel, Channel!Spec

\* A command takes effect only while its caller waits for it.
THEOREM EffectsAreAwaited == Spec => NoLateEffect
<1> DEFINE Timely == \A p \in Children : \A c \in applied'[p] \ applied[p] : outcome[c] = "none"
<1>1. TransportInv /\ [Next]_vars => [Timely]_vars
  <2> SUFFICES ASSUME TransportInv, Next PROVE Timely
    OBVIOUS
  <2>1. ASSUME NEW p \in Children, HandleLine(p) PROVE Timely
    <3>1. PICK effects \in {{}, {doing[p]}} : applied' = [applied EXCEPT ![p] = @ \cup effects]
      BY <2>1 DEF HandleLine, Effects
    <3>2. outcome[doing[p]] = "none"
      BY <2>1, WorksForSomebody
    <3>3. applied \in [Children -> SUBSET Commands]
      BY DEF TransportInv, TypeOK
    <3> QED BY <3>1, <3>2, <3>3
  <2>2. ASSUME NEW t \in Tasks, TaskNext(t) PROVE applied' = applied
    BY <2>2 DEF TaskNext, TaskStep, StartCall, Spawn, HelloRead, StartFails, RequestCall, Unsent,
                Write, ReadAnswer, AnswerUnusable, Deadline, Invalidate, Reaped, ReapCancelled,
                CloseCall, ClosedDown, CloseKills, CloseCancelled, childVars, work
  <2>3. ASSUME NEW p \in Children, ChildNext(p), ~HandleLine(p) PROVE applied' = applied
    BY <2>3 DEF ChildNext, SayHello, TakeLine, EndOfInput, Dies, work
  <2> QED BY <2>1, <2>2, <2>3 DEF Next
<1> QED BY <1>1, TransportInvariantHolds, PTL DEF Spec, NoLateEffect
=============================================================================
