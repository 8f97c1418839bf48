SPECIFICATION Spec
CONSTANTS
    WordMod = 32
    ByteMod = 2
    LowMod = 16
    WordSize = 1
    RamSize = 14
    StackSize = 1
    MaxThreads = 3
    TH_SWITCH = 1
    Programs <- MCPrograms
    Memories <- MCMemories
    WildOps = {}
    Alu <- MCAlu
INVARIANTS
    RunnerIsLive
    HaltsWhenAllExited
    PcOnInstruction
    JumpsReach
PROPERTIES
    Isolation
    NoThreadSkipped
    EveryThreadRuns
    LastExitHalts
