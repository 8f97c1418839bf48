SPECIFICATION ToolSpec
CONSTANTS
    WordMod = 128
    ByteMod = 2
    LowMod = 64
    WordSize = 1
    RamSize = 10
    StackSize = 2
    HeaderSize = 3
    MaxFile = 30
    HostMemory = 10
    Texts <- ThreeLines
    Tokens <- MCTokens
    NumberOf <- MCNumberOf
    HexTokens <- MCHexTokens
    FullTokens = {"f64"}
    LongTokens = {"f65"}
    Junk = {0, 127}
    Labels <- MCLabels
    Addrs <- MCAddrs
    Buckets = {0, 1}
    hash_label <- MCHash
INVARIANT
    CommentsEndCode
CHECK_DEADLOCK FALSE
