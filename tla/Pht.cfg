\* A table of 4-bit unsigned ints and two buckets.
SPECIFICATION FairSpec
CONSTANTS
    k1 = k1
    k2 = k2
    k3 = k3
    k4 = k4
    b1 = b1
    b2 = b2
    Key = {k1, k2, k3, k4}
    Bucket = {b1, b2}
    Hash <- Hashes
    UintMax = 15
    MaxDigits = 2
    Arguments <- CommandLines
INVARIANTS
    ArgumentsAreRead
    WritersExclude
    OneEntryPerKey
    HeapIsTheTable
    NothingMissing
PROPERTIES
    ImplementsPuts
    TesterEnds
\* A thread that updates an entry keeps the lock, and the others wait for ever.
CHECK_DEADLOCK FALSE
