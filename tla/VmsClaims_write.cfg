\* A copying fork of a space with copy-on-write marks, then a write.
SPECIFICATION Spec
CONSTANTS
    MaxPages = 18
    Index = {0, 1}
    Values = {0, 1}
    InitialPaths <- OnlyOnePage
    InitialPerms <- ReadWrite
    MaxCount = 4
    Clients <- BothForks
PROPERTIES
    ForkedSpacesCanBeWritten
