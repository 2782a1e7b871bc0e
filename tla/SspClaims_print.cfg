\* A client that prints before it waits.
SPECIFICATION Spec
CONSTANTS
    Pid = {1, 2}
    Statuses = {0, 1}
    InitialSize = 1
    MaxEntries = 2
    Fds = {0, 1, 2, 3}
    Streams <- SomeStreams
    PidsReturn = FALSE
    Clients <- PrintEarly
INVARIANTS
    WaitFindsEveryStatus
\* The program ends when a fork fails.
CHECK_DEADLOCK FALSE
