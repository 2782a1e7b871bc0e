\* Clients cancel any thread they can name.
SPECIFICATION Spec
CONSTANTS
    MaxThreads = 4
    InitialCapacity = 2
    Statuses = {257}
    CancelTargets = {"ready", "blocked", "exited"}
INVARIANTS
    SlotsHoldTheirThread
    CreationFindsSlot
VIEW
    RunningView
