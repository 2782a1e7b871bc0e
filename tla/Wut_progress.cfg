\* Cooperative clients: liveness.
SPECIFICATION FairSpec
CONSTANTS
    MaxThreads = 3
    InitialCapacity = 2
    Statuses = {257}
    CancelTargets = {"ready"}
PROPERTIES
    ReadyThreadRuns
    JoinOfEndedReturns
