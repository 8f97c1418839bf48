SPECIFICATION CtxSpec
CONSTANTS
    WordMod = 4
    ByteMod = 2
    LowMod = 2
    WordSize = 1
    RamSize = 3
    StackSize = 1
    MaxThreads = 3
    EntryPoints <- MCEntryPoints
    Writes <- MCWrites
INVARIANTS
    CtxTypeOK
    Capacity
PROPERTY
    Isolation
CHECK_DEADLOCK FALSE
