SPECIFICATION Spec
CONSTANTS
    WordMod = 16
    HeaderSize = 3
    MaxFile = 7
    HostMemory = 14
INVARIANTS
    TypeOK
    Layout
    AcceptsWhatFits
CHECK_DEADLOCK FALSE
