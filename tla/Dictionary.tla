----------------------------- MODULE Dictionary -----------------------------
(***************************************************************************)
(* What a table of labels promises: a label is given an address once, and  *)
(* looking it up gives that address ever after.                            *)
(***************************************************************************)
CONSTANTS Labels, Addrs

VARIABLES
    dict,   \* label -> its address, for the labels defined so far
    found   \* the address the last lookup gave

vars == <<dict, found>>

Init == dict \in [{} -> Addrs] /\ found \in Addrs

Define == \E l \in Labels \ DOMAIN dict, a \in Addrs :
              /\ dict' = [k \in DOMAIN dict \cup {l} |-> IF k = l THEN a ELSE dict[k]]
              /\ UNCHANGED found

Lookup == \E l \in DOMAIN dict : found' = dict[l] /\ UNCHANGED dict

Next == Define \/ Lookup

Spec == Init /\ [][Next]_vars
=============================================================================
