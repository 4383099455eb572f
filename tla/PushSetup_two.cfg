\* Two programs set up the pushes of one thing, three tasks in all.
SPECIFICATION Spec
CONSTANTS
    t1 = t1
    t2 = t2
    Thread <- TwoThreads
    Op <- OnTopic
    Job <- Jobs
    Status <- Meaningful
    Warmup = 2
    MaxTasks = 3
    MaxFaults = 2
INVARIANTS
    AnswersAreOfTheCall
    OnlyStragglersUndo
    WaitingAsToldSuffices
PROPERTIES
    RetriesSucceed
\* The programs stop when they have done their tasks.
CHECK_DEADLOCK FALSE
