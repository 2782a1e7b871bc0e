\* Three pids, the last one of five digits, which exit and start again.
SPECIFICATION FairSpec
CONSTANTS
    Pid = {1, 2, 3}
    Name = {n1, n2}
    Other = {self}
    Wide = {3}
    Batch = 2
INVARIANTS
    DescriptorsAreClosed
    LinesAreProcesses
    LastingAreListed
PROPERTIES
    PassEnds
\* The program returns, and processes exit.
CHECK_DEADLOCK FALSE
