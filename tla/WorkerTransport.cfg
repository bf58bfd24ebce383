SPECIFICATION Spec
CONSTANTS
    t1 = t1
    t2 = t2
    p1 = p1
    p2 = p2
    c1 = c1
    c2 = c2
    None = None
    Tasks <- MCTasks
    Children <- MCChildren
    Commands <- MCCommands
INVARIANTS
    LockProtects OneWorker
PROPERTIES
    NoLateEffect ImplementsChannel CallsEnd ForgottenWorkersEnd
