SPECIFICATION TableSpec
CONSTANTS
    a = a
    b = b
    c = c
    d = d
    Labels = {a, b, c, d}
    Addrs = {0, 1, 2}
    Buckets = {0, 1}
    hash_label <- MCHash
INVARIANT
    Chains
PROPERTY
    IsDictionary
CHECK_DEADLOCK FALSE
