SPECIFICATION Spec
CONSTANTS
    WordMod = 32
    ByteMod = 2
    LowMod = 16
    WordSize = 1
    RamSize = 14
    StackSize = 1
    MaxThreads = 2
    TH_SWITCH = 2
    Programs <- MCPrograms
    Memories <- MCMemories
    WildOps <- MCWildOps
    Alu <- MCAlu
INVARIANTS
    TypeOK
    HaltsWhenAllExited
PROPERTIES
    Isolation
    EveryThreadRuns
