SPECIFICATION FairSpec
CONSTANTS
    Count = 3
    Sets = {0, 1}
    Payloads = {1, 2}
    Lengths = {2, 4, 5, 10}
    LengthMod = 8
    ChunkMax = 2
    MaxSetups = 6
    MaxResets = 1
INVARIANTS TypeOK InBounds EepromPrefix
PROPERTIES NextByteOfOneRecord CopyNotReplaced FullReportExact CopyEnds
