SPECIFICATION Spec
CONSTANTS
    WordMod = 16
    HeaderSize = 3
    MaxFile = 7
    HostMemory = 14
INVARIANT
    WindowAboveProgram
CHECK_DEADLOCK FALSE
