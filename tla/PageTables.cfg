\* Four pages of two possible contents, and an entry that starts zero or cluttered.
SPECIFICATION TablesSpec
CONSTANTS
    MaxPages = 4
    Contents = {0, 1}
    ZeroPage = 0
    PageAddress <- FourAddresses
    Clutter <- TwoWords
INVARIANTS
    EntryIsItsRecord
PROPERTIES
    OtherBitsStay
