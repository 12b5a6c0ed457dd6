CONSTANTS
    WordBits = 2
    MaxBits = 6
    RegionBits = 9
    MaxOrder = 3
    ListWordBits = 4
    ListBits = 9
    MaxText = 4
    Base = 4
    UnsignedMax = 15
    Digits = 2
    DigitBits = 2
    LineMax = 4
    Unit = 1
    UriBase = 3
    DumpRow = 4
    DumpGroups = {2, 4}
    MaxDump = 18
SPECIFICATION DataSpec
INVARIANTS SetsAreKept QuestionsAreAnswered RegionsAreKept TextsAreRead FilesAreRead
PROPERTY UnusedAreKept
