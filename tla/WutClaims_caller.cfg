SPECIFICATION Spec
CONSTANTS
    MaxThreads = 3
    InitialCapacity = 2
    Statuses = {257}
    CancelTargets = {"ready", "blocked", "exited"}
INVARIANTS
    CallerKeepsRunning
