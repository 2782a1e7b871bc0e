\* Up to three spaces, of one kind of fork, over one or two pages.
SPECIFICATION Spec
CONSTANTS
    MaxPages = 14
    Index = {0, 1}
    Values = {0, 1}
    InitialPaths <- OneOrTwoPages
    InitialPerms <- AnyPerms
    MaxCount = 4
    Clients <- OneKindOfFork
INVARIANTS
    TypeOK
    CountsCoverSharers
    TablesArePrivate
    ForksHaveRoom
    CopiesDoNotLeak
PROPERTIES
    ImplementsAddressSpaces
