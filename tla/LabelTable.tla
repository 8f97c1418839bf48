----------------------------- MODULE LabelTable -----------------------------
(***************************************************************************)
(* The assembler's table of labels (src/src/utils/hash_map.h): an array of *)
(* entries, each the head of a chain of entries whose labels have the same *)
(* hash.  The array's own entry is filled first and no entry is ever       *)
(* removed, so a chain is a sequence, empty while its head is unused.      *)
(***************************************************************************)
EXTENDS Integers, Sequences

CONSTANTS
    Labels,      \* the names of labels
    Addrs,       \* addresses
    Buckets,     \* indices of the array
    hash_label   \* label -> index; any function, collisions included

ASSUME TableAssumption == hash_label \in [Labels -> Buckets] /\ 0 \in Addrs

VARIABLES
    hash_map,  \* index -> chain
    found,     \* the address of the last label looked up
    status     \* "running"; or how CCB_ERROR ended the process: "failed" for
               \* what it was given, "aborted" for what the host refused it

table == <<hash_map, found, status>>

Entry == [label : Labels, addr : Addrs]

TableInit == /\ hash_map = [b \in Buckets |-> <<>>]
             /\ found = 0
             /\ status = "running"

-----------------------------------------------------------------------------
Chain(l) == hash_map[hash_label[l]]

(* Where a chain holds the label. *)
Places(chain, l) == { i \in DOMAIN chain : chain[i].label = l }

(* find_hash_label walks the chain and stops at the first place. *)
IsFirst(chain, l, i) == /\ i \in Places(chain, l)
                        /\ \A j \in Places(chain, l) : i <= j

(* Fault: only the head of the chain is compared with the label. *)
DuplicateOfHead(chain, l) == 1 \in Places(chain, l)

(* table_add_label compares all entries of the chain with the label. *)
Duplicate(chain, l) == Places(chain, l) # {}

(* Fault: the address goes to the head of the chain. *)
AddressedHead(chain, l, a) ==
    [i \in DOMAIN chain |-> IF i = 1 THEN [chain[i] EXCEPT !.addr = a] ELSE chain[i]]

(* table_add_adrr: the entry found for the label gets the address. *)
Addressed(chain, l, a) ==
    [i \in DOMAIN chain |->
        IF IsFirst(chain, l, i) THEN [chain[i] EXCEPT !.addr = a] ELSE chain[i]]

(* table_add_label, then table_add_adrr, as the assembler calls them at a  *)
(* colon.                                                                  *)
AddLabel(l, a) ==
    /\ status = "running" /\ ~Duplicate(Chain(l), l)
    /\ hash_map' = [hash_map EXCEPT ![hash_label[l]] =
                      Addressed(Append(@, [label |-> l, addr |-> 0]), l, a)]
    /\ UNCHANGED <<found, status>>

(* "duplicate label", or no memory for an entry behind the head. *)
AddFails(l) ==
    /\ status = "running" /\ Chain(l) # <<>>
    /\ status' = IF Duplicate(Chain(l), l) THEN "failed" ELSE "aborted"
    /\ UNCHANGED <<hash_map, found>>

(* render_pgm looks the label of a jump up; one that is missing ends the   *)
(* process.                                                                *)
Lookup(l) ==
    /\ status = "running"
    /\ \/ /\ \E i \in DOMAIN Chain(l) :
                IsFirst(Chain(l), l, i) /\ found' = Chain(l)[i].addr
          /\ UNCHANGED status
       \/ Places(Chain(l), l) = {} /\ status' = "failed" /\ UNCHANGED found
    /\ UNCHANGED hash_map

TableNext == \E l \in Labels :
                 (\E a \in Addrs : AddLabel(l, a)) \/ AddFails(l) \/ Lookup(l)

TableSpec == TableInit /\ [][TableNext]_table

-----------------------------------------------------------------------------
(* Every label lies in the chain of its hash, and in one place only.       *)
Chains ==
    /\ hash_map \in [Buckets -> Seq(Entry)]
    /\ found \in Addrs
    /\ \A b \in Buckets : \A i \in DOMAIN hash_map[b] :
          /\ hash_label[hash_map[b][i].label] = b
          /\ \A j \in DOMAIN hash_map[b] :
                hash_map[b][i].label = hash_map[b][j].label => i = j

Defined == { l \in Labels : Places(Chain(l), l) # {} }
AddrOf(l) == Chain(l)[CHOOSE i \in DOMAIN Chain(l) : IsFirst(Chain(l), l, i)].addr

Dict == INSTANCE Dictionary WITH dict <- [l \in Defined |-> AddrOf(l)]

(* The table is a dictionary: whatever collides, a label keeps the address *)
(* it was given, and that is the one a lookup finds.                       *)
IsDictionary == Dict!Spec
=============================================================================
