\* Copy-on-write forks, and spaces discarded and their pages used again.
SPECIFICATION Spec
CONSTANTS
    MaxPages = 9
    Index = {0, 1}
    Values = {0, 1}
    InitialPaths <- OnlyOnePage
    InitialPerms <- ReadWrite
    MaxCount = 4
    Clients <- CowAndDiscard
INVARIANTS
    WritablePagesArePrivate
    CountsCoverSharers
    FreePagesAreZero
    UsedPagesIsExact
