SPECIFICATION CtxSpec
CONSTANTS
    WordMod = 4
    ByteMod = 2
    LowMod = 2
    WordSize = 1
    RamSize = 3
    StackSize = 1
    MaxThreads = 2
    EntryPoints <- MCEntryPoints
    Writes <- MCUserWrites
PROPERTY
    StoresAllRegisters
CHECK_DEADLOCK FALSE
