SPECIFICATION PassSpec
CONSTANTS
    Chars <- MCChars
    Strings <- MCStringSet
    Needles <- MCNeedles
    Modulus = 256
INVARIANTS
    ViewsInside
    SplitLaw
    CompareLaw
    TrimLaw
    NumberLaw
PROPERTY
    PassEnds
CHECK_DEADLOCK FALSE
