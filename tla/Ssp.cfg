\* A table that starts with one entry and doubles twice, and three processes.
SPECIFICATION FairSpec
CONSTANTS
    Pid = {1, 2, 3}
    Statuses = {0, 255}
    InitialSize = 1
    MaxEntries = 3
    Fds = {0, 1, 2, 3}
    Streams <- SomeStreams
    PidsReturn = FALSE
    Clients <- NoHabits
INVARIANTS
    EntriesAreDistinct
    StatusesAreTrue
    OnlyForkFails
    StreamsAreAsAsked
PROPERTIES
    EntriesAreKept
    CallsReturn
\* The program ends when a fork fails.
CHECK_DEADLOCK FALSE
