---------------------------- MODULE MCToolchain ----------------------------
(* Values for TLC: all texts of three lines, chosen from an alphabet in    *)
(* which labels collide, are missing or stand in the middle of a line,     *)
(* arguments are missing, too many or of a wrong kind, and comments hide   *)
(* code.                                                                   *)
EXTENDS Toolchain, TLC

N == INSTANCE Numbers WITH Modulus <- WordMod

Line == [
    entry     |-> <<"ENTRY", ":">>,
    entryThis |-> <<"ENTRY", ":", " ", "scall", " ", "1">>,
    label     |-> <<" ", "L", ":">>,
    colon     |-> <<":">>,
    inside    |-> <<"load", " ", "ra", " ", "L", ":", "rb">>,
    jump      |-> <<"jmpi", " ", "L">>,
    jumpBack  |-> <<"jmp_thi", " ", "ENTRY", " ", "#", "L", ":">>,
    jumpDec   |-> <<"jrei", " ", "4">>,
    jumpHex   |-> <<"jeqi", " ", "0x2">>,
    add       |-> <<"addi", " ", "ra", " ", " ", "rh", " ", "1">>,
    store     |-> <<"savea", " ", "0x2", " ", "ra">>,
    missing   |-> <<"xor", " ", "ra", " ", "rb">>,
    tooMany   |-> <<"scall", " ", "1", " ", "4">>,
    kind      |-> <<"not", " ", "ra", " ", "1">>,
    exit      |-> <<"scall", " ", "1", " ">>,
    comment   |-> <<"scall", " ", "4", " ", "#", " ", "L", ":", "jmpi">>,
    behind    |-> <<"scall", " ", "4", "#">>,
    unknown   |-> <<"L">>,
    full      |-> <<"f64", ":">>,
    long      |-> <<"f65", ":">>,
    hidden    |-> <<"#", "f65">>,
    blank     |-> <<" ">>,
    empty     |-> <<>> ]

ThreeLines == { Line[a] \o <<"\n">> \o Line[b] \o <<"\n">> \o Line[c] :
                    a \in DOMAIN Line, b \in DOMAIN Line, c \in DOMAIN Line }

MCTokens == { "ENTRY", "L", "f64", "f65", "1", "4", "0x2", "ra", "rb", "rh", "scall",
              "load", "jmpi", "jmp_thi", "jrei", "jeqi", "addi", "savea", "xor", "not" }
Spelled == ("1" :> <<"1">>) @@ ("4" :> <<"4">>) @@ ("0x2" :> <<"0", "x", "2">>)
MCNumberOf == [w \in DOMAIN Spelled |-> N!buffer_to_uint64(Spelled[w])]
MCHexTokens == { w \in DOMAIN Spelled : N!is_hexnb(Spelled[w]) }
MCLabels == MCTokens \cup {""}
MCHash == [l \in MCLabels |-> IF l \in {"L", "ENTRY"} THEN 0 ELSE 1]
MCAddrs == Nat
=============================================================================
