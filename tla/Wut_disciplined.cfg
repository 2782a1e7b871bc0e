\* Clients cancel only threads that are in the ready queue; the library against
\* its abstract specification.
SPECIFICATION Spec
CONSTANTS
    MaxThreads = 4
    InitialCapacity = 2
    Statuses = {257}
    CancelTargets = {"ready"}
INVARIANTS
    QueueIsTheReadyThreads
    JoinersAndTargetsAgree
    WokenJoinerFindsStatus
    OnlyDeadlockCrashes
    LinksNeverCorrupt
PROPERTIES
    JoinedSlotsAreKept
    ImplementsUserThreads
VIEW
    LinkedView
