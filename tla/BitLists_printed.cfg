CONSTANTS
    WordBits = 4
    MaxBits = 9
    MaxText = 2
    Base = 4
    UnsignedMax = 15
    Digits = 2
    DigitBits = 2
SPECIFICATION Spec
INVARIANT PrintedListsAreRead
