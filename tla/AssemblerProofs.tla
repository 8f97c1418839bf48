-------------------------- MODULE AssemblerProofs --------------------------
(***************************************************************************)
(* Proofs about the assembler, for any texts, tokens and numbers, and      *)
(* about its table of labels, for any labels, hash and addresses.          *)
(***************************************************************************)
EXTENDS Assembler, TLAPS

-----------------------------------------------------------------------------
(* The table of labels. *)


(* Adding a label that a chain does not hold puts it, with its address, at *)
(* the end, and changes nothing else.                                      *)
LEMMA AddedChain ==
    ASSUME NEW chain \in Seq(Entry), NEW l \in Labels, NEW a \in Addrs,
           0 \in Addrs, ~Duplicate(chain, l)
    PROVE  LET new == Addressed(Append(chain, [label |-> l, addr |-> 0]), l, a)
           IN  /\ new \in Seq(Entry)
               /\ DOMAIN new = 1 .. Len(chain) + 1
               /\ \A i \in 1 .. Len(chain) : new[i] = chain[i] /\ new[i].label # l
               /\ new[Len(chain) + 1] = [label |-> l, addr |-> a]
<1> DEFINE longer == Append(chain, [label |-> l, addr |-> 0])
           new == Addressed(longer, l, a)
           last == Len(chain) + 1
<1>1. /\ longer \in Seq(Entry) /\ Len(longer) = last
      /\ DOMAIN longer = 1 .. last /\ DOMAIN chain = 1 .. Len(chain)
      /\ Len(chain) \in Nat
      /\ longer[last] = [label |-> l, addr |-> 0]
      /\ \A i \in 1 .. Len(chain) : longer[i] = chain[i]
  BY DEF Entry
<1>2. \A i \in 1 .. Len(chain) : chain[i].label # l
  BY <1>1 DEF Duplicate, Places
<1>3. Places(longer, l) = {last}
  BY <1>1, <1>2 DEF Places
<1>4. \A i \in 1 .. last : IsFirst(longer, l, i) <=> i = last
  BY <1>1, <1>3 DEF IsFirst
<1>5. new = [i \in 1 .. last |->
               IF i = last THEN [longer[i] EXCEPT !.addr = a] ELSE longer[i]]
  BY <1>1, <1>4 DEF Addressed
<1>6. new[last] = [label |-> l, addr |-> a]
  BY <1>1, <1>5
<1>7. \A i \in 1 .. Len(chain) : new[i] = chain[i]
  BY <1>1, <1>5
<1>8. \A i \in 1 .. last : new[i] \in Entry
  <2>1. \A i \in 1 .. Len(chain) : chain[i] \in Entry
    BY <1>1
  <2> QED BY <1>1, <1>6, <1>7, <2>1 DEF Entry
<1>9. new \in Seq(Entry) /\ DOMAIN new = 1 .. last
  BY <1>1, <1>5, <1>8
<1> QED BY <1>2, <1>6, <1>7, <1>9

LEMMA RangeEnd == \A n \in Nat : \A j \in 1 .. n + 1 : j \in 1 .. n \/ j = n + 1
  OBVIOUS

(* The address found for a label that a chain holds in one place only.     *)
LEMMA OnePlace ==
    ASSUME NEW chain \in Seq(Entry), NEW k \in Labels, NEW i \in DOMAIN chain,
           chain[i].label = k,
           \A j \in DOMAIN chain : chain[j].label = k => j = i
    PROVE  /\ \A j \in DOMAIN chain : IsFirst(chain, k, j) <=> j = i
           /\ (CHOOSE j \in DOMAIN chain : IsFirst(chain, k, j)) = i
<1>1. DOMAIN chain = 1 .. Len(chain) /\ Len(chain) \in Nat
  OBVIOUS
<1>2. \A j \in DOMAIN chain : IsFirst(chain, k, j) <=> j = i
  BY <1>1 DEF IsFirst, Places
<1> QED BY <1>2

(* What AddLabel does to the chains. *)
LEMMA AddLabelStep ==
    ASSUME Chains, NEW l \in Labels, NEW a \in Addrs, AddLabel(l, a)
    PROVE  LET h == hash_label[l]
               old == hash_map[h]
               new == hash_map'[h]
           IN  /\ h \in Buckets /\ hash_map' \in [Buckets -> Seq(Entry)]
               /\ old \in Seq(Entry) /\ Len(old) \in Nat
               /\ DOMAIN old = 1 .. Len(old)
               /\ \A b \in Buckets \ {h} : hash_map'[b] = hash_map[b]
               /\ DOMAIN new = 1 .. Len(old) + 1
               /\ \A i \in 1 .. Len(old) : new[i] = old[i] /\ new[i].label # l
               /\ new[Len(old) + 1] = [label |-> l, addr |-> a]
<1> DEFINE h == hash_label[l]
           old == hash_map[h]
           new == Addressed(Append(old, [label |-> l, addr |-> 0]), l, a)
<1>1. h \in Buckets /\ 0 \in Addrs
  BY TableAssumption
<1>2. old \in Seq(Entry)
  BY <1>1 DEF Chains
<1>3. hash_map' = [hash_map EXCEPT ![h] = new]
  BY DEF AddLabel
<1>4. ~Duplicate(old, l)
  BY DEF AddLabel, Chain
<1>5. /\ new \in Seq(Entry) /\ DOMAIN new = 1 .. Len(old) + 1
      /\ \A i \in 1 .. Len(old) : new[i] = old[i] /\ new[i].label # l
      /\ new[Len(old) + 1] = [label |-> l, addr |-> a]
  BY <1>1, <1>2, <1>4, AddedChain
<1> HIDE DEF new
<1>6. hash_map'[h] = new /\ \A b \in Buckets \ {h} : hash_map'[b] = hash_map[b]
  BY <1>1, <1>3 DEF Chains
<1>7. hash_map' \in [Buckets -> Seq(Entry)]
  BY <1>1, <1>3, <1>5 DEF Chains
<1>8. Len(old) \in Nat /\ DOMAIN old = 1 .. Len(old)
  BY <1>2
<1> HIDE DEF old
<1> QED BY <1>1, <1>2, <1>5, <1>6, <1>7, <1>8 DEF old

LEMMA ChainsInit == TableInit => Chains
BY TableAssumption DEF TableInit, Chains

LEMMA ChainsNext == Chains /\ [TableNext]_table => Chains'
<1> SUFFICES ASSUME Chains, [TableNext]_table PROVE Chains'
  OBVIOUS
<1>1. ASSUME NEW l \in Labels, NEW a \in Addrs, AddLabel(l, a) PROVE Chains'
  <2> DEFINE h == hash_label[l]
             old == hash_map[h]
             new == hash_map'[h]
  <2>1. /\ h \in Buckets /\ hash_map' \in [Buckets -> Seq(Entry)]
        /\ old \in Seq(Entry) /\ Len(old) \in Nat
        /\ DOMAIN old = 1 .. Len(old)
        /\ \A b \in Buckets \ {h} : hash_map'[b] = hash_map[b]
        /\ DOMAIN new = 1 .. Len(old) + 1
        /\ \A i \in 1 .. Len(old) : new[i] = old[i] /\ new[i].label # l
        /\ new[Len(old) + 1] = [label |-> l, addr |-> a]
    BY <1>1, AddLabelStep
  <2>2. found' \in Addrs
    BY <1>1 DEF AddLabel, Chains
  <2>3. ASSUME NEW b \in Buckets, NEW i \in DOMAIN hash_map'[b]
        PROVE  /\ hash_label[hash_map'[b][i].label] = b
               /\ \A j \in DOMAIN hash_map'[b] :
                     hash_map'[b][i].label = hash_map'[b][j].label => i = j
    <3>1. CASE b # h
      BY <2>1, <2>3, <3>1 DEF Chains
    <3>2. CASE b = h
      <4>0. \A m \in DOMAIN old :
                /\ hash_label[old[m].label] = h
                /\ \A n \in DOMAIN old : old[m].label = old[n].label => m = n
        BY TableAssumption DEF Chains
      <4>1. /\ \A m \in 1 .. Len(old) : hash_label[old[m].label] = h
            /\ \A m, n \in 1 .. Len(old) : old[m].label = old[n].label => m = n
        BY <2>1, <4>0
      <4>2. i \in 1 .. Len(old) \/ i = Len(old) + 1
        BY <2>1, <2>3, <3>2
      <4>3. new[Len(old) + 1].label = l
        BY <2>1
      <4>4. \A j \in DOMAIN new : j \in 1 .. Len(old) \/ j = Len(old) + 1
        BY <2>1
      <4>5. hash_label[new[i].label] = h
        BY <2>1, <4>1, <4>2, <4>3
      <4>6. \A j \in DOMAIN new : new[i].label = new[j].label => i = j
        BY <2>1, <4>1, <4>2, <4>3, <4>4
      <4> QED BY <3>2, <4>5, <4>6
    <3> QED BY <3>1, <3>2
  <2> QED BY <2>1, <2>2, <2>3 DEF Chains
<1>2. ASSUME NEW l \in Labels, AddFails(l) PROVE Chains'
  BY <1>2 DEF AddFails, Chains
<1>3. ASSUME NEW l \in Labels, Lookup(l) PROVE Chains'
  <2>1. hash_map' = hash_map
    BY <1>3 DEF Lookup
  <2>2. Chain(l) \in Seq(Entry)
    BY TableAssumption DEF Chain, Chains
  <2>3. found' \in Addrs
    <3>1. \A i \in DOMAIN Chain(l) : Chain(l)[i].addr \in Addrs
      <4>1. \A c \in Seq(Entry) : \A i \in DOMAIN c : c[i] \in Entry
        OBVIOUS
      <4>2. \A e \in Entry : e.addr \in Addrs
        BY DEF Entry
      <4> QED BY <2>2, <4>1, <4>2
    <3>2. found' = found \/ \E i \in DOMAIN Chain(l) : found' = Chain(l)[i].addr
      BY <1>3 DEF Lookup
    <3>3. found \in Addrs
      BY DEF Chains
    <3> QED BY <3>1, <3>2, <3>3
  <2> QED BY <2>1, <2>3 DEF Chains
<1>4. CASE UNCHANGED table
  BY <1>4 DEF table, Chains
<1> QED BY <1>1, <1>2, <1>3, <1>4 DEF TableNext

(* Every label lies in the chain of its hash and nowhere twice, for any    *)
(* number of labels and collisions: what table_add_label compares suffices.*)
THEOREM ChainsKept == TableSpec => []Chains
BY ChainsInit, ChainsNext, PTL DEF TableSpec

-----------------------------------------------------------------------------
LEMMA DictInit == TableInit => Dict!Init
<1> SUFFICES ASSUME TableInit PROVE Dict!Init
  OBVIOUS
<1>1. \A l \in Labels : Places(Chain(l), l) = {}
  BY TableAssumption DEF TableInit, Chain, Places
<1>2. Defined = {}
  BY <1>1 DEF Defined
<1> QED BY <1>2, TableAssumption DEF TableInit, Dict!Init

LEMMA DictNext == Chains /\ [TableNext]_table => [Dict!Next]_(Dict!vars)
<1> SUFFICES ASSUME Chains, [TableNext]_table PROVE [Dict!Next]_(Dict!vars)
  OBVIOUS
<1> DEFINE dict == [l \in Defined |-> AddrOf(l)]
<1>0. ASSUME hash_map' = hash_map PROVE dict' = dict
  <2>1. Defined' = Defined
    BY <1>0 DEF Defined, Chain
  <2>2. \A k : AddrOf(k)' = AddrOf(k)
    BY <1>0 DEF AddrOf, Chain
  <2> QED BY <2>1, <2>2
<1>1. ASSUME NEW l \in Labels, NEW a \in Addrs, AddLabel(l, a) PROVE Dict!Define
  <2> DEFINE h == hash_label[l]
             old == hash_map[h]
             new == hash_map'[h]
             last == Len(old) + 1
  <2>1. /\ h \in Buckets /\ hash_map' \in [Buckets -> Seq(Entry)]
        /\ old \in Seq(Entry) /\ Len(old) \in Nat
        /\ DOMAIN old = 1 .. Len(old)
        /\ \A b \in Buckets \ {h} : hash_map'[b] = hash_map[b]
        /\ DOMAIN new = 1 .. Len(old) + 1
        /\ \A i \in 1 .. Len(old) : new[i] = old[i] /\ new[i].label # l
        /\ new[Len(old) + 1] = [label |-> l, addr |-> a]
    BY <1>1, AddLabelStep
  <2>2. l \notin Defined
    BY <1>1 DEF AddLabel, Duplicate, Defined
  <2>3. l \in Defined' /\ AddrOf(l)' = a
    <3>1. new \in Seq(Entry) /\ last \in DOMAIN new /\ new[last].label = l
          /\ \A j \in DOMAIN new : new[j].label = l => j = last
      BY <2>1
    <3>2. (CHOOSE j \in DOMAIN new : IsFirst(new, l, j)) = last
      BY <3>1, OnePlace
    <3>3. last \in Places(new, l)
      BY <3>1 DEF Places
    <3>4. Chain(l)' = new
      BY DEF Chain
    <3>5. AddrOf(l)' = new[last].addr
      BY <3>2, <3>4 DEF AddrOf
    <3>6. new[last].addr = a
      BY <2>1
    <3> HIDE DEF new, last
    <3> QED BY <3>3, <3>4, <3>5, <3>6 DEF Defined
  <2>4. ASSUME NEW k \in Labels, k # l
        PROVE  /\ k \in Defined' <=> k \in Defined
               /\ k \in Defined => AddrOf(k)' = AddrOf(k)
    <3>1. CASE hash_label[k] # h
      <4>1. hash_map'[hash_label[k]] = hash_map[hash_label[k]]
        BY <2>1, <3>1, TableAssumption
      <4> QED BY <4>1 DEF Defined, AddrOf, Chain
    <3>2. CASE hash_label[k] = h
      <4>1. Chain(k) = old /\ Chain(k)' = new
        BY <3>2 DEF Chain
      <4>2. Places(new, k) = Places(old, k)
        <5>1. \A i \in DOMAIN old : i \in DOMAIN new /\ new[i] = old[i]
          BY <2>1
        <5>2. \A i \in DOMAIN new : i \in DOMAIN old \/ new[i].label = l
          BY <2>1
        <5> QED BY <2>4, <5>1, <5>2 DEF Places
      <4>3. ASSUME k \in Defined PROVE AddrOf(k)' = AddrOf(k)
        <5>1. PICK i \in DOMAIN old : old[i].label = k
          BY <4>1, <4>3 DEF Defined, Places
        <5>2. \A j \in DOMAIN old : old[j].label = k => j = i
          BY <2>1, <5>1 DEF Chains
        <5>3. (CHOOSE j \in DOMAIN old : IsFirst(old, k, j)) = i
          <6>1. old \in Seq(Entry)
            BY <2>1
          <6> HIDE DEF old
          <6> QED BY <6>1, <5>1, <5>2, OnePlace
        <5>4. /\ new \in Seq(Entry) /\ i \in DOMAIN new /\ new[i] = old[i]
              /\ \A j \in DOMAIN new : new[j].label = k => j = i
          <6>1. \A j \in DOMAIN new : j \in DOMAIN old \/ j = last
            BY <2>1, RangeEnd
          <6>2. new[last].label = l
            BY <2>1
          <6>3. \A j \in DOMAIN old : j \in DOMAIN new /\ new[j] = old[j]
            BY <2>1
          <6>4. new \in Seq(Entry)
            BY <2>1
          <6> HIDE DEF old, new, last
          <6> QED BY <2>4, <5>1, <5>2, <6>1, <6>2, <6>3, <6>4
        <5>5. (CHOOSE j \in DOMAIN new : IsFirst(new, k, j)) = i
          BY <5>1, <5>4, OnePlace
        <5> QED BY <4>1, <5>3, <5>4, <5>5 DEF AddrOf
      <4> QED BY <4>1, <4>2, <4>3 DEF Defined
    <3> QED BY <3>1, <3>2
  <2>5. Defined' = Defined \cup {l}
    BY <2>3, <2>4 DEF Defined
  <2>6. dict' = [k \in DOMAIN dict \cup {l} |-> IF k = l THEN a ELSE dict[k]]
    <3>1. \A k \in Defined : k \in Labels /\ k # l
      BY <2>2 DEF Defined
    <3> QED BY <2>3, <2>4, <2>5, <3>1
  <2> QED BY <1>1, <2>2, <2>6 DEF Dict!Define, AddLabel
<1>2. ASSUME NEW l \in Labels, AddFails(l) PROVE UNCHANGED Dict!vars
  BY <1>0, <1>2 DEF AddFails, Dict!vars
<1>3. ASSUME NEW l \in Labels, Lookup(l) PROVE [Dict!Next]_(Dict!vars)
  <2>1. dict' = dict
    BY <1>0, <1>3 DEF Lookup
  <2>2. CASE UNCHANGED found
    BY <2>1, <2>2 DEF Dict!vars
  <2>3. CASE \E i \in DOMAIN Chain(l) :
                IsFirst(Chain(l), l, i) /\ found' = Chain(l)[i].addr
    <3>1. PICK i \in DOMAIN Chain(l) :
                IsFirst(Chain(l), l, i) /\ found' = Chain(l)[i].addr
      BY <2>3
    <3>2. Chain(l) \in Seq(Entry) /\ hash_label[l] \in Buckets
      BY TableAssumption DEF Chain, Chains
    <3>3. Chain(l)[i].label = l /\ l \in Defined
      BY <3>1 DEF IsFirst, Places, Defined
    <3>4. \A j \in DOMAIN Chain(l) : Chain(l)[j].label = l => j = i
      BY <3>2, <3>3 DEF Chain, Chains
    <3>5. AddrOf(l) = Chain(l)[i].addr
      BY <3>2, <3>3, <3>4, OnePlace DEF AddrOf
    <3>6. l \in DOMAIN dict /\ found' = dict[l]
      BY <3>1, <3>3, <3>5
    <3> QED BY <2>1, <3>6 DEF Dict!Next, Dict!Lookup
  <2> QED BY <1>3, <2>2, <2>3 DEF Lookup
<1>4. CASE UNCHANGED table
  BY <1>0, <1>4 DEF table, Dict!vars
<1> QED BY <1>1, <1>2, <1>3, <1>4 DEF TableNext, Dict!Next

(* The table implements a dictionary, whatever the hash function: a label  *)
(* keeps its address, and a lookup finds it.                               *)
THEOREM TableIsDictionary == TableSpec => IsDictionary
<1>1. TableInit => Dict!Init
  BY DictInit
<1>2. Chains /\ [TableNext]_table => [Dict!Next]_(Dict!vars)
  BY DictNext
<1> QED BY <1>1, <1>2, ChainsKept, PTL DEF TableSpec, IsDictionary, Dict!Spec

-----------------------------------------------------------------------------
(* The assembler's pass over a text. *)

Sizes == {"inst_128", "inst_192", "inst_256", "inst_jmp"}
Operations == [name : Mnemonics, size : Sizes,
               args : UNION { [D -> Int] : D \in SUBSET Nat }, flag : Labels]
Files == [at : Nat, bytes : Nat,
          op : [code : Codes, imm : BOOLEAN, size : OpSizes, args : [0 .. 2 -> Int]]]

-----------------------------------------------------------------------------
(* The tables. *)

LEMMA TableEntry ==
  ASSUME NEW names, NEW n \in Of(names)
  PROVE  /\ FromTable(names, n).code \in DOMAIN names
         /\ FromTable(names, n).imm \in BOOLEAN
<1> DEFINE c == CHOOSE d \in DOMAIN names : n \in {d, names[d]}
<1>1. \E d \in DOMAIN names : n \in {d, names[d]}
  BY DEF Of
<1>2. c \in DOMAIN names
  BY <1>1
<1> HIDE DEF c
<1>3. FromTable(names, n) = [code |-> c, imm |-> n = names[c]]
  BY DEF FromTable, c
<1> QED  BY <1>2, <1>3

(* Each mnemonic belongs to one of the tables, which fixes its code, its   *)
(* size and its arguments.                                                 *)
LEMMA Families ==
  ASSUME NEW n \in Mnemonics
  PROVE  \/ n = "scall"
         \/ n \in Of(MemoryNames)
         \/ n \in Of(AluNames)
         \/ n \in Of(CompareNames)
         \/ n \in Of(JumpNames)
  BY DEF Mnemonics

LEMMA FamiliesApart ==
  /\ Of(MemoryNames) = {"load", "loadi", "loada", "save", "savei", "savea", "saveai"}
  /\ Of(AluNames) = {"add", "addi", "min", "mini", "mult", "multi", "div", "divi",
                     "and", "andi", "or", "ori", "xor", "xori"}
  /\ Of(CompareNames) = {"not", "noti", "eq", "eqi", "neq", "neqi", "gt", "gti",
                         "gte", "gtei", "lt", "lti", "lte", "ltei"}
  /\ Of(JumpNames) = {"jre", "jrei", "jeq", "jeqi", "jne", "jnei", "jmp", "jmpi",
                      "jmp_th", "jmp_thi"}
  BY DEF Of, MemoryNames, AluNames, CompareNames, JumpNames

(* The code, the size and the arguments of each family.                    *)
LEMMA FamilyTable ==
  ASSUME NEW n \in Mnemonics
  PROVE  /\ InstructionOf(n).imm \in BOOLEAN
         /\ \/ /\ InstructionOf(n).code \in OneArgCodes
               /\ SizeOf(n) = "inst_128" /\ Len(ArgsOf(n)) = 1
            \/ /\ InstructionOf(n).code \in TwoArgCodes
               /\ SizeOf(n) = "inst_192" /\ Len(ArgsOf(n)) = 2
            \/ /\ InstructionOf(n).code \in AluCodes
               /\ SizeOf(n) = "inst_256" /\ Len(ArgsOf(n)) = 3
         /\ \A k \in 1 .. Len(ArgsOf(n)) :
               /\ ArgsOf(n)[k] \in {"register", "number", "target"}
               /\ ArgsOf(n)[k] = "target" => SizeOf(n) = "inst_128"
<1>1. CASE n = "scall"
  <2>1. n \notin Of(JumpNames) /\ n \notin Of(MemoryNames) /\ n \notin Of(AluNames)
        /\ n \notin Of(CompareNames)
    BY <1>1, FamiliesApart
  <2>2. InstructionOf(n) = [code |-> n, imm |-> TRUE] /\ SizeOf(n) = "inst_128"
        /\ ArgsOf(n) = <<"number">>
    BY <1>1, <2>1 DEF InstructionOf, SizeOf, ArgsOf
  <2>3. InstructionOf(n).code = "scall" /\ InstructionOf(n).imm = TRUE
    BY <1>1, <2>2
  <2>4. Len(ArgsOf(n)) = 1 /\ \A k \in 1 .. 1 : ArgsOf(n)[k] \in {"register", "number", "target"}
    BY <2>2
  <2>5. "scall" \in OneArgCodes
    BY DEF OneArgCodes
  <2> QED  BY <2>2, <2>3, <2>4, <2>5
<1>2. CASE n \in Of(MemoryNames)
  <2>1. n # "scall" /\ n \notin Of(JumpNames) /\ n \notin Of(AluNames)
        /\ n \notin Of(CompareNames)
    BY <1>2, FamiliesApart
  <2>2. InstructionOf(n) = FromTable(MemoryNames, n) /\ SizeOf(n) = "inst_192"
        /\ ArgsOf(n) = MemoryArgs(n)
    BY <1>2, <2>1 DEF InstructionOf, SizeOf, ArgsOf
  <2>3. InstructionOf(n).code \in TwoArgCodes /\ InstructionOf(n).imm \in BOOLEAN
    BY <1>2, <2>2, TableEntry DEF MemoryNames, TwoArgCodes
  <2>4. Len(ArgsOf(n)) = 2 /\ \A k \in 1 .. 2 : ArgsOf(n)[k] \in {"register", "number"}
    BY <2>2 DEF MemoryArgs, LastArg
  <2> QED  BY <2>2, <2>3, <2>4
<1>3. CASE n \in Of(AluNames)
  <2>1. n # "scall" /\ n \notin Of(JumpNames) /\ n \notin Of(MemoryNames)
        /\ n \notin Of(CompareNames)
    BY <1>3, FamiliesApart
  <2>2. InstructionOf(n) = FromTable(AluNames, n) /\ SizeOf(n) = "inst_256"
        /\ ArgsOf(n) = AluArgs(n)
    BY <1>3, <2>1 DEF InstructionOf, SizeOf, ArgsOf
  <2>3. InstructionOf(n).code \in AluCodes /\ InstructionOf(n).imm \in BOOLEAN
    BY <1>3, <2>2, TableEntry DEF AluNames, AluCodes
  <2>4. Len(ArgsOf(n)) = 3 /\ \A k \in 1 .. 3 : ArgsOf(n)[k] \in {"register", "number"}
    BY <2>2 DEF AluArgs, LastArg
  <2> QED  BY <2>2, <2>3, <2>4
<1>4. CASE n \in Of(CompareNames)
  <2>1. n # "scall" /\ n \notin Of(JumpNames) /\ n \notin Of(MemoryNames)
        /\ n \notin Of(AluNames)
    BY <1>4, FamiliesApart
  <2>2. InstructionOf(n) = FromTable(CompareNames, n) /\ SizeOf(n) = "inst_192"
        /\ ArgsOf(n) = CompareArgs(n)
    BY <1>4, <2>1 DEF InstructionOf, SizeOf, ArgsOf
  <2>3. InstructionOf(n).code \in TwoArgCodes /\ InstructionOf(n).imm \in BOOLEAN
    BY <1>4, <2>2, TableEntry DEF CompareNames, CompareCodes, TwoArgCodes
  <2>4. Len(ArgsOf(n)) = 2 /\ \A k \in 1 .. 2 : ArgsOf(n)[k] \in {"register", "number"}
    BY <2>2 DEF CompareArgs, LastArg
  <2> QED  BY <2>2, <2>3, <2>4
<1>5. CASE n \in Of(JumpNames)
  <2>1. n # "scall" /\ n \notin Of(MemoryNames) /\ n \notin Of(AluNames)
        /\ n \notin Of(CompareNames)
    BY <1>5, FamiliesApart
  <2>2. InstructionOf(n) = FromTable(JumpNames, n) /\ SizeOf(n) = "inst_128"
        /\ ArgsOf(n) = JumpArgs(n)
    BY <1>5, <2>1 DEF InstructionOf, SizeOf, ArgsOf
  <2>3. InstructionOf(n).code \in OneArgCodes /\ InstructionOf(n).imm \in BOOLEAN
    BY <1>5, <2>2, TableEntry DEF JumpNames, JumpCodes, OneArgCodes
  <2>4. Len(ArgsOf(n)) = 1 /\ \A k \in 1 .. 1 : ArgsOf(n)[k] \in {"register", "number", "target"}
    BY <2>2 DEF JumpArgs
  <2> QED  BY <2>2, <2>3, <2>4
<1> QED  BY <1>1, <1>2, <1>3, <1>4, <1>5, Families

LEMMA BytesOfSizes ==
  /\ RawOp("inst_128") = [op_size |-> "inst_128", args |-> 1, bytes |-> 2 * WordSize]
  /\ RawOp("inst_jmp") = [op_size |-> "inst_128", args |-> 1, bytes |-> 2 * WordSize]
  /\ RawOp("inst_192") = [op_size |-> "inst_192", args |-> 2, bytes |-> 3 * WordSize]
  /\ RawOp("inst_256") = [op_size |-> "inst_256", args |-> 3, bytes |-> 4 * WordSize]
  /\ CountedBytes("inst_128") = 2 * WordSize /\ CountedBytes("inst_192") = 3 * WordSize
  /\ CountedBytes("inst_256") = 4 * WordSize
<1>1. RawOp("inst_128") = [op_size |-> "inst_128", args |-> 1, bytes |-> 2 * WordSize]
  BY DEF RawOp
<1>2. RawOp("inst_jmp") = [op_size |-> "inst_128", args |-> 1, bytes |-> 2 * WordSize]
  BY DEF RawOp
<1>3. RawOp("inst_192") = [op_size |-> "inst_192", args |-> 2, bytes |-> 3 * WordSize]
  BY DEF RawOp
<1>4. RawOp("inst_256") = [op_size |-> "inst_256", args |-> 3, bytes |-> 4 * WordSize]
  BY DEF RawOp
<1>5. CountedBytes("inst_128") = 2 * WordSize
  BY DEF CountedBytes
<1>6. CountedBytes("inst_192") = 3 * WordSize
  BY DEF CountedBytes
<1>7. CountedBytes("inst_256") = 4 * WordSize
  BY DEF CountedBytes
<1> QED  BY <1>1, <1>2, <1>3, <1>4, <1>5, <1>6, <1>7

(* A size that an operation can have: the one it was made with, or, when   *)
(* its argument may be a label, that of a jump to one.                     *)
SizedRight(o) ==
    /\ o.name \in Mnemonics
    /\ \/ o.size = SizeOf(o.name)
       \/ o.size = "inst_jmp" /\ \E k \in 1 .. Len(ArgsOf(o.name)) : ArgsOf(o.name)[k] = "target"

(* The two tables of sizes and the op_size in the file agree, also for a   *)
(* jump to a label: an instruction occupies the bytes that were counted for*)
(* its mnemonic, the machine advances by as many, and decodes as many      *)
(* arguments as its opcode uses and its mnemonic takes.                    *)
THEOREM SizesAgree ==
  \A o, args : SizedRight(o) =>
      /\ RawOp(o.size).bytes = CountedBytes(SizeOf(o.name))
      /\ OpLen(Encoded(o, args)) = CountedBytes(SizeOf(o.name))
      /\ NArgs(Encoded(o, args)) = Arity(Encoded(o, args).code)
      /\ NArgs(Encoded(o, args)) = Len(ArgsOf(o.name))
<1> SUFFICES ASSUME NEW o, NEW args, SizedRight(o)
             PROVE  /\ RawOp(o.size).bytes = CountedBytes(SizeOf(o.name))
                    /\ OpLen(Encoded(o, args)) = CountedBytes(SizeOf(o.name))
                    /\ NArgs(Encoded(o, args)) = Arity(Encoded(o, args).code)
                    /\ NArgs(Encoded(o, args)) = Len(ArgsOf(o.name))
  OBVIOUS
<1> DEFINE n == o.name
           op == Encoded(o, args)
<1>1. n \in Mnemonics
  BY DEF SizedRight
<1>2. op.code = InstructionOf(n).code /\ op.size = RawOp(o.size).op_size
  BY DEF Encoded
<1> HIDE DEF op
<1>3. o.size = SizeOf(n) \/ (o.size = "inst_jmp" /\ SizeOf(n) = "inst_128")
  BY <1>1, FamilyTable DEF SizedRight
<1> HIDE DEF n
<1>4. \/ /\ op.code \in OneArgCodes /\ Len(ArgsOf(n)) = 1 /\ SizeOf(n) = "inst_128"
         /\ RawOp(o.size) = [op_size |-> "inst_128", args |-> 1, bytes |-> 2 * WordSize]
      \/ /\ op.code \in TwoArgCodes /\ Len(ArgsOf(n)) = 2 /\ SizeOf(n) = "inst_192"
         /\ RawOp(o.size) = [op_size |-> "inst_192", args |-> 2, bytes |-> 3 * WordSize]
      \/ /\ op.code \in AluCodes /\ Len(ArgsOf(n)) = 3 /\ SizeOf(n) = "inst_256"
         /\ RawOp(o.size) = [op_size |-> "inst_256", args |-> 3, bytes |-> 4 * WordSize]
  BY <1>1, <1>2, <1>3, FamilyTable, BytesOfSizes
<1>5. \/ /\ Arity(op.code) = 1 /\ NArgs(op) = 1 /\ Len(ArgsOf(n)) = 1
         /\ RawOp(o.size).bytes = 2 * WordSize /\ CountedBytes(SizeOf(n)) = 2 * WordSize
      \/ /\ Arity(op.code) = 2 /\ NArgs(op) = 2 /\ Len(ArgsOf(n)) = 2
         /\ RawOp(o.size).bytes = 3 * WordSize /\ CountedBytes(SizeOf(n)) = 3 * WordSize
      \/ /\ Arity(op.code) = 3 /\ NArgs(op) = 3 /\ Len(ArgsOf(n)) = 3
         /\ RawOp(o.size).bytes = 4 * WordSize /\ CountedBytes(SizeOf(n)) = 4 * WordSize
  <2>1. TwoArgCodes \cap OneArgCodes = {} /\ AluCodes \cap (OneArgCodes \cup TwoArgCodes) = {}
    BY DEF OneArgCodes, TwoArgCodes, AluCodes, JumpCodes, CompareCodes
  <2>2. CASE op.code \in OneArgCodes /\ op.size = "inst_128"
    <3>1. Arity(op.code) = 1 /\ NArgs(op) = 1
      BY <2>2 DEF Arity, NArgs
    <3> QED  BY <1>2, <1>4, <2>1, <2>2, <3>1, BytesOfSizes
  <2>3. CASE op.code \in TwoArgCodes /\ op.size = "inst_192"
    <3>1. Arity(op.code) = 2 /\ NArgs(op) = 2
      BY <2>1, <2>3 DEF Arity, NArgs
    <3> QED  BY <1>2, <1>4, <2>1, <2>3, <3>1, BytesOfSizes
  <2>4. CASE op.code \in AluCodes /\ op.size = "inst_256"
    <3>1. Arity(op.code) = 3 /\ NArgs(op) = 3
      BY <2>1, <2>4 DEF Arity, NArgs
    <3> QED  BY <1>2, <1>4, <2>1, <2>4, <3>1, BytesOfSizes
  <2> QED  BY <1>2, <1>4, <2>2, <2>3, <2>4
<1>6. OpLen(op) = CountedBytes(SizeOf(n))
  BY <1>5, WidthsAssumption DEF OpLen
<1> QED  BY <1>5, <1>6 DEF n, op

-----------------------------------------------------------------------------
(* The inductive invariant. *)

LineTyped == /\ current \in Nat /\ buffer \in Labels
             /\ in_instruction \in BOOLEAN /\ nb_args \in Nat
             /\ in_instruction => Len(program) # 0

(* Where operation i begins, or the program ends. *)
StartOf(i) == IF i <= Len(starts) THEN starts[i] ELSE instruction_addr

(* Operations are counted one behind the other. *)
Counted ==
    /\ program \in Seq(Operations) /\ starts \in Seq(Nat) /\ instruction_addr \in Nat
    /\ Len(starts) = Len(program)
    /\ StartOf(1) = 0
    /\ \A i \in 1 .. Len(program) :
          /\ StartOf(i + 1) = StartOf(i) + RawOp(program[i].size).bytes
          /\ RawOp(program[i].size).bytes = CountedBytes(SizeOf(program[i].name))

(* And they are written so; the program is complete when that begins.      *)
Filed ==
    /\ written \in Seq(Files) /\ offset \in Nat
    /\ Len(written) <= Len(program)
    /\ offset = StartOf(Len(written) + 1)
    /\ \A i \in 1 .. Len(written) : written[i].at = StartOf(i)
    /\ phase \in {"header", "scan", "entry", "render", "done"}
    /\ phase \in {"header", "scan", "entry"} => Len(written) = 0
    /\ phase = "done" => Len(written) = Len(program)

Inv == LineTyped /\ Counted /\ Filed /\ Chains /\ LabelsOnInstructions

-----------------------------------------------------------------------------
(* Parsing. *)

LEMMA SizesTyped ==
  /\ \A n \in Mnemonics : /\ SizeOf(n) \in Sizes
                          /\ RawOp(SizeOf(n)).bytes = CountedBytes(SizeOf(n))
  /\ \A size \in Sizes : RawOp(size).bytes \in Nat
<1>1. \A n \in Mnemonics : /\ SizeOf(n) \in Sizes
                           /\ RawOp(SizeOf(n)).bytes = CountedBytes(SizeOf(n))
  BY FamilyTable, BytesOfSizes DEF Sizes
<1>2. \A size \in Sizes : RawOp(size).bytes \in Nat
  BY BytesOfSizes, WidthsAssumption DEF Sizes
<1> QED  BY <1>1, <1>2

(* Where as many bytes are written as were counted, all arguments are.     *)
LEMMA RoomForArgs ==
  ASSUME NEW n \in Mnemonics, NEW size \in Sizes,
         RawOp(size).bytes = CountedBytes(SizeOf(n))
  PROVE  RawOp(size).args = Len(ArgsOf(n))
<1>1. \/ size \in {"inst_128", "inst_jmp"} /\ RawOp(size).args = 1 /\ RawOp(size).bytes = 2 * WordSize
      \/ size = "inst_192" /\ RawOp(size).args = 2 /\ RawOp(size).bytes = 3 * WordSize
      \/ size = "inst_256" /\ RawOp(size).args = 3 /\ RawOp(size).bytes = 4 * WordSize
  BY BytesOfSizes DEF Sizes
<1>2. \/ Len(ArgsOf(n)) = 1 /\ CountedBytes(SizeOf(n)) = 2 * WordSize
      \/ Len(ArgsOf(n)) = 2 /\ CountedBytes(SizeOf(n)) = 3 * WordSize
      \/ Len(ArgsOf(n)) = 3 /\ CountedBytes(SizeOf(n)) = 4 * WordSize
  BY FamilyTable, BytesOfSizes
<1>3. WordSize \in Nat /\ WordSize # 0
  BY WidthsAssumption
<1>4. 2 * WordSize # 3 * WordSize /\ 3 * WordSize # 4 * WordSize /\ 2 * WordSize # 4 * WordSize
  BY <1>3
<1> QED  BY <1>1, <1>2, <1>4

LEMMA NewOperationTyped ==
  ASSUME NEW w \in Mnemonics
  PROVE  NewOperation(w) \in Operations /\ NewOperation(w).size = SizeOf(w)
<1>1. [k \in {} |-> 0] \in [{} -> Int] /\ {} \in SUBSET Nat
  OBVIOUS
<1>2. [k \in {} |-> 0] \in UNION { [D -> Int] : D \in SUBSET Nat }
  BY <1>1
<1>3. End \in Labels
  BY TextAssumption
<1> QED  BY <1>2, <1>3, SizesTyped DEF NewOperation, Operations

(* Whatever an argument is, an accepted one stands for a number.           *)
LEMMA ValueTyped ==
  ASSUME NEW o \in Operations, NEW k \in Nat, NEW w \in Labels,
         Accepts(o, k, w), ~IsLabel(o, k, w)
  PROVE  ValueOf(w) \in Int
<1>1. k + 1 \in 1 .. Len(ArgsOf(o.name)) /\ o.name \in Mnemonics
  <2>1. o.name \in Mnemonics
    BY DEF Operations
  <2>2. Len(ArgsOf(o.name)) \in Nat /\ k < Len(ArgsOf(o.name))
    BY <2>1, FamilyTable DEF Accepts
  <2> QED  BY <2>1, <2>2
<1>2. ArgsOf(o.name)[k + 1] \in {"register", "number", "target"}
  <2>1. \A j \in 1 .. Len(ArgsOf(o.name)) : ArgsOf(o.name)[j] \in {"register", "number", "target"}
    BY <1>1, FamilyTable
  <2> QED  BY <1>1, <2>1
<1>3. w \in RegisterNames \/ w \in DOMAIN NumberOf
  BY <1>2, TextAssumption DEF Accepts, IsLabel
<1>4. ASSUME w \in RegisterNames PROVE RegisterOf[w] \in Int
  BY <1>4 DEF RegisterNames, RegisterOf
<1>5. ASSUME w \in DOMAIN NumberOf PROVE NumberOf[w] \in Int
  <2>1. NumberOf[w] \in Word
    BY <1>5, TextAssumption
  <2>2. WordMod \in Int
    BY WidthsAssumption
  <2> QED  BY <2>1, <2>2 DEF Word
<1> QED  BY <1>3, <1>4, <1>5 DEF ValueOf

(* An argument leaves the bytes of its operation as they are: a jump to a  *)
(* label keeps the size it was counted with.                               *)
LEMMA WithArgTyped ==
  ASSUME NEW o \in Operations, NEW k \in Nat, NEW w \in Labels, Accepts(o, k, w),
         RawOp(o.size).bytes = CountedBytes(SizeOf(o.name))
  PROVE  LET new == WithArg(o, k, w)
         IN  /\ new \in Operations /\ new.name = o.name
             /\ RawOp(new.size).bytes = RawOp(o.size).bytes
<1>1. /\ o.name \in Mnemonics /\ o.size \in Sizes /\ o.flag \in Labels
      /\ o.args \in UNION { [D -> Int] : D \in SUBSET Nat }
      /\ o = [name |-> o.name, size |-> o.size, args |-> o.args, flag |-> o.flag]
  BY DEF Operations
<1>2. CASE IsLabel(o, k, w)
  <2>1. SizeOf(o.name) = "inst_128"
    <3>1. k + 1 \in 1 .. Len(ArgsOf(o.name))
      <4>1. Len(ArgsOf(o.name)) \in Nat /\ k < Len(ArgsOf(o.name))
        BY <1>1, FamilyTable DEF Accepts
      <4> QED  BY <4>1
    <3> QED  BY <1>1, <1>2, <3>1, FamilyTable DEF IsLabel
  <2>2. WithArg(o, k, w) = [name |-> o.name, size |-> "inst_jmp", args |-> o.args, flag |-> w]
    BY <1>1, <1>2 DEF WithArg
  <2>3. "inst_jmp" \in Sizes
    BY DEF Sizes
  <2> QED  BY <1>1, <2>1, <2>2, <2>3, BytesOfSizes DEF Operations
<1>3. CASE ~IsLabel(o, k, w)
  <2> DEFINE args == [j \in DOMAIN o.args \cup {k} |-> IF j = k THEN ValueOf(w) ELSE o.args[j]]
  <2>1. WithArg(o, k, w) = [name |-> o.name, size |-> o.size, args |-> args, flag |-> o.flag]
    BY <1>1, <1>3 DEF WithArg
  <2>2. PICK D \in SUBSET Nat : o.args \in [D -> Int]
    BY <1>1
  <2>3. args \in [D \cup {k} -> Int] /\ D \cup {k} \in SUBSET Nat
    BY <1>3, <2>2, ValueTyped
  <2>4. args \in UNION { [E -> Int] : E \in SUBSET Nat }
    BY <2>3
  <2> HIDE DEF args
  <2> QED  BY <1>1, <2>1, <2>4 DEF Operations
<1> QED  BY <1>2, <1>3

(* A new operation begins where the program ended. *)
LEMMA ParseInstructionStep ==
  ASSUME Counted, ParseInstruction
  PROVE  /\ Counted' /\ Len(program') = Len(program) + 1
         /\ Boundaries \subseteq Boundaries'
         /\ StartOf(1)' = StartOf(1)
<1> DEFINE n == Len(program)
           o == NewOperation(buffer)
<1>1. /\ o \in Operations /\ o.size = SizeOf(buffer) /\ o.name = buffer
      /\ RawOp(o.size).bytes \in Nat
      /\ RawOp(o.size).bytes = CountedBytes(SizeOf(buffer))
  BY NewOperationTyped, SizesTyped DEF ParseInstruction, NewOperation
<1>2. /\ program \in Seq(Operations) /\ starts \in Seq(Nat) /\ instruction_addr \in Nat
      /\ n \in Nat /\ Len(starts) = n
  BY DEF Counted
<1> HIDE DEF o
<1>3. /\ program' = Append(program, o)
      /\ starts' = Append(starts, instruction_addr)
      /\ instruction_addr' = instruction_addr + RawOp(o.size).bytes
  BY <1>1 DEF ParseInstruction, o
<1>4. /\ program' \in Seq(Operations) /\ Len(program') = n + 1
      /\ \A i \in 1 .. n : program'[i] = program[i]
      /\ program'[n + 1] = o
  BY <1>1, <1>2, <1>3
<1>5. /\ starts' \in Seq(Nat) /\ Len(starts') = n + 1
      /\ \A i \in 1 .. n : starts'[i] = starts[i]
      /\ starts'[n + 1] = instruction_addr
  BY <1>2, <1>3
<1>6. /\ \A i \in 1 .. n + 1 : StartOf(i)' = StartOf(i)
      /\ \A i : i = n + 2 => StartOf(i)' = instruction_addr + RawOp(o.size).bytes
      /\ StartOf(n + 1) = instruction_addr
  BY <1>1, <1>2, <1>3, <1>5 DEF StartOf
<1>7. instruction_addr' \in Nat
  BY <1>1, <1>2, <1>3
<1>8. ASSUME NEW i \in 1 .. Len(program')
      PROVE  /\ StartOf(i + 1)' = StartOf(i)' + RawOp(program'[i].size).bytes
             /\ RawOp(program'[i].size).bytes = CountedBytes(SizeOf(program'[i].name))
  <2>1. CASE i \in 1 .. n
    <3>1. i + 1 \in 1 .. n + 1 /\ i \in 1 .. n + 1
      BY <1>2, <2>1
    <3>2. /\ StartOf(i + 1) = StartOf(i) + RawOp(program[i].size).bytes
          /\ RawOp(program[i].size).bytes = CountedBytes(SizeOf(program[i].name))
      BY <2>1 DEF Counted
    <3> QED  BY <1>4, <1>6, <2>1, <3>1, <3>2
  <2>2. CASE i = n + 1
    <3>1. i + 1 = n + 2 /\ i \in 1 .. n + 1
      BY <1>2, <2>2
    <3>2. StartOf(i + 1)' = instruction_addr + RawOp(o.size).bytes
      BY <1>6, <3>1
    <3>3. StartOf(i)' = instruction_addr
      BY <1>6, <2>2, <3>1
    <3> QED  BY <1>1, <1>4, <2>2, <3>2, <3>3
  <2> QED  BY <1>2, <1>4, <2>1, <2>2
<1>9. StartOf(1)' = StartOf(1)
  BY <1>2, <1>6
<1>10. Counted'
  <2>1. StartOf(1)' = 0 /\ Len(starts') = Len(program')
    BY <1>4, <1>5, <1>9 DEF Counted
  <2> HIDE DEF n
  <2> QED  BY <1>4, <1>5, <1>7, <1>8, <2>1 DEF Counted
<1>11. Boundaries \subseteq Boundaries'
  <2>1. DOMAIN starts = 1 .. n /\ DOMAIN starts' = 1 .. n + 1
    BY <1>2, <1>5
  <2> QED  BY <1>2, <1>5, <2>1 DEF Boundaries
<1> QED  BY <1>4, <1>9, <1>10, <1>11

(* An argument changes neither the number of operations nor an address.    *)
LEMMA ParseArgStep ==
  ASSUME Counted, LineTyped, ParseArg
  PROVE  /\ Counted' /\ Len(program') = Len(program)
         /\ Boundaries' = Boundaries
         /\ StartOf(1)' = StartOf(1)
<1> DEFINE n == Len(program)
           new == WithArg(program[n], nb_args, buffer)
<1>1. /\ program \in Seq(Operations) /\ n \in Nat /\ n # 0
      /\ nb_args \in Nat /\ buffer \in Labels
  BY DEF Counted, LineTyped, ParseArg
<1>2. n \in 1 .. n /\ program[n] \in Operations
  BY <1>1
<1>3. RawOp(program[n].size).bytes = CountedBytes(SizeOf(program[n].name))
  BY <1>2 DEF Counted
<1>4. /\ new \in Operations /\ new.name = program[n].name
      /\ RawOp(new.size).bytes = RawOp(program[n].size).bytes
  BY <1>1, <1>2, <1>3, WithArgTyped DEF ParseArg, Operation
<1>5. /\ program' = [program EXCEPT ![n] = new]
      /\ starts' = starts /\ instruction_addr' = instruction_addr
  BY DEF ParseArg
<1> HIDE DEF new
<1>6. /\ program' \in Seq(Operations) /\ Len(program') = n
      /\ \A i \in 1 .. n : program'[i] = IF i = n THEN new ELSE program[i]
  BY <1>1, <1>2, <1>4, <1>5
<1>7. \A i : StartOf(i)' = StartOf(i)
  BY <1>5 DEF StartOf
<1>8. ASSUME NEW i \in 1 .. Len(program')
      PROVE  /\ StartOf(i + 1)' = StartOf(i)' + RawOp(program'[i].size).bytes
             /\ RawOp(program'[i].size).bytes = CountedBytes(SizeOf(program'[i].name))
  <2>1. i \in 1 .. n
    BY <1>6
  <2>2. /\ RawOp(program'[i].size).bytes = RawOp(program[i].size).bytes
        /\ program'[i].name = program[i].name
    BY <1>4, <1>6, <2>1
  <2>3. /\ StartOf(i + 1) = StartOf(i) + RawOp(program[i].size).bytes
        /\ RawOp(program[i].size).bytes = CountedBytes(SizeOf(program[i].name))
    BY <2>1 DEF Counted
  <2> QED  BY <1>7, <2>2, <2>3
<1>9. Counted'
  <2>1. /\ starts' \in Seq(Nat) /\ instruction_addr' \in Nat
        /\ Len(starts') = Len(program') /\ StartOf(1)' = 0
    BY <1>5, <1>6, <1>7 DEF Counted
  <2> QED  BY <1>6, <1>8, <2>1 DEF Counted
<1>10. Boundaries' = Boundaries
  BY <1>5 DEF Boundaries
<1> QED  BY <1>6, <1>7, <1>9, <1>10

(* So a token handed over at a separator keeps the count.                  *)
LEMMA HandOverStep ==
  ASSUME Inv, HandOver
  PROVE  /\ Counted' /\ Len(program') \in Nat /\ Len(program) <= Len(program')
         /\ buffer # End => Len(program') # 0
         /\ Boundaries \subseteq Boundaries'
         /\ StartOf(1)' = StartOf(1)
<1>0. Counted /\ LineTyped /\ Len(program) \in Nat
  BY DEF Inv, Counted
<1>1. CASE UNCHANGED programVars /\ buffer = End
  BY <1>0, <1>1 DEF programVars, Counted, StartOf, Boundaries
<1>2. CASE ParseInstruction
  BY <1>0, <1>2, ParseInstructionStep
<1>3. CASE ParseArg
  BY <1>0, <1>3, ParseArgStep DEF LineTyped, ParseArg
<1> QED  BY <1>1, <1>2, <1>3 DEF HandOver

-----------------------------------------------------------------------------
(* Steps that leave the program and the table as they are. *)
LEMMA SameProgram ==
  ASSUME Inv, UNCHANGED <<programVars, hash_map, found, entry_point>>
  PROVE  /\ Counted' /\ Chains' /\ LabelsOnInstructions'
         /\ program' = program /\ Len(program') = Len(program)
         /\ \A i : StartOf(i)' = StartOf(i)
  BY DEF Inv, programVars, Counted, Chains, LabelsOnInstructions, Boundaries, StartOf

(* Nothing is in the file before it is opened. *)
LEMMA NothingFiled ==
  ASSUME Inv, phase = "scan", phase' \in {"scan", "entry"}, UNCHANGED fileVars,
         Len(program') \in Nat, StartOf(1)' = StartOf(1)
  PROVE  Filed'
<1>1. /\ written' = written /\ offset' = offset /\ Len(written) = 0
      /\ written \in Seq(Files) /\ offset \in Nat /\ offset = StartOf(1)
  BY DEF Inv, Filed, fileVars
<1>2. /\ offset' = StartOf(Len(written) + 1)' /\ Len(written') = 0
      /\ 1 .. Len(written') = {}
  BY <1>1
<1> QED  BY <1>1, <1>2 DEF Filed

LEMMA HandedOver ==
  ASSUME Inv, HandOver, phase = "scan", phase' \in {"scan", "entry"},
         UNCHANGED <<fileVars, entryVars, table>>
  PROVE  Counted' /\ Filed' /\ Chains' /\ LabelsOnInstructions'
<1>1. Counted' /\ Filed'
  BY HandOverStep, NothingFiled
<1>2. Chains'
  BY DEF Inv, Chains, table
<1>3. LabelsOnInstructions'
  <2>1. /\ hash_map' = hash_map /\ entry_point' = entry_point
        /\ Boundaries \subseteq Boundaries'
    BY HandOverStep DEF table, entryVars
  <2>2. /\ \A b \in Buckets : \A i \in DOMAIN hash_map[b] : hash_map[b][i].addr \in Boundaries
        /\ entry_point \in Boundaries
    BY DEF Inv, LabelsOnInstructions
  <2> QED  BY <2>1, <2>2 DEF LabelsOnInstructions
<1> QED  BY <1>1, <1>2, <1>3

LEMMA CommentStep == ASSUME Inv, Comment PROVE Inv'
<1>1. /\ phase = "scan" /\ phase' = phase /\ buffer' = End
      /\ in_instruction' = FALSE /\ nb_args' = 0
      /\ UNCHANGED <<programVars, entryVars, fileVars, table>>
  BY DEF Comment, Reads
<1>2. Counted' /\ Chains' /\ LabelsOnInstructions' /\ StartOf(1)' = StartOf(1)
      /\ Len(program') \in Nat
  BY <1>1, SameProgram DEF entryVars, table, Inv, Counted
<1>3. Filed'
  BY <1>1, <1>2, NothingFiled
<1>4. current' \in Nat
  BY DEF Comment, Skips, Inv, LineTyped
<1> QED  BY <1>1, <1>2, <1>3, <1>4, TextAssumption DEF Inv, LineTyped

LEMMA SeparatorStep == ASSUME Inv, Separator PROVE Inv'
<1>1. /\ HandOver /\ phase = "scan" /\ phase' \in {"scan", "entry"} /\ buffer' = End
      /\ UNCHANGED <<entryVars, fileVars, table>>
  BY DEF Separator, Reads
<1>2. Counted' /\ Filed' /\ Chains' /\ LabelsOnInstructions'
  BY <1>1, HandedOver
<1>3. LineTyped'
  <2>1. current' \in Nat /\ buffer' \in Labels
    BY <1>1, TextAssumption DEF Separator, Inv, LineTyped
  <2>2. CASE buffer = End
    <3>1. in_instruction' = in_instruction /\ nb_args' = nb_args /\ program' = program
      BY <2>2, TextAssumption
         DEF Separator, lineVars, HandOver, programVars, ParseInstruction, ParseArg
    <3> QED  BY <2>1, <3>1 DEF Inv, LineTyped
  <2>3. CASE buffer # End
    <3>1. in_instruction' = TRUE /\ nb_args' \in Nat /\ Len(program') # 0
      BY <1>1, <2>3, HandOverStep DEF Separator, Inv, LineTyped
    <3> QED  BY <2>1, <3>1 DEF LineTyped
  <2> QED  BY <2>2, <2>3
<1> QED  BY <1>2, <1>3 DEF Inv

LEMMA LineEndStep == ASSUME Inv, LineEnd PROVE Inv'
<1>1. /\ HandOver /\ phase = "scan" /\ phase' = "scan"
      /\ UNCHANGED <<entryVars, fileVars, table>>
  BY DEF LineEnd, Reads
<1>2. Counted' /\ Filed' /\ Chains' /\ LabelsOnInstructions'
  BY <1>1, HandedOver
<1>3. LineTyped'
  <2>1. /\ in_instruction' = FALSE /\ nb_args' = 0 /\ buffer' = End /\ current' = current + 1
    BY DEF LineEnd
  <2>2. current' \in Nat
    BY <2>1 DEF Inv, LineTyped
  <2> QED  BY <2>1, <2>2, TextAssumption DEF LineTyped
<1> QED  BY <1>2, <1>3 DEF Inv

(* A label is given the address behind the last operation. *)
LEMMA LabelStep == ASSUME Inv, Label PROVE Inv'
<1>1. /\ AddLabel(buffer, instruction_addr) /\ phase = "scan" /\ phase' = "scan"
      /\ buffer' = End /\ current' = current + 1
      /\ UNCHANGED <<lineVars, programVars, fileVars>>
      /\ entry_point' \in {entry_point, instruction_addr}
  BY DEF Label, Reads, LabelAddr
<1>2. /\ buffer \in Labels /\ instruction_addr \in Addrs /\ Chains
  BY TextAssumption DEF Inv, LineTyped, Counted
<1>3. Chains'
  BY <1>1, <1>2, ChainsNext DEF TableNext
<1>4. /\ Counted' /\ StartOf(1)' = StartOf(1) /\ Len(program') \in Nat
      /\ program' = program /\ Boundaries' = Boundaries
  <2>1. program' = program /\ starts' = starts /\ instruction_addr' = instruction_addr
    BY <1>1 DEF programVars
  <2>2. \A i : StartOf(i)' = StartOf(i)
    BY <2>1 DEF StartOf
  <2>3. Counted' /\ Len(program') \in Nat
    BY <2>1, <2>2 DEF Inv, Counted
  <2>4. Boundaries' = Boundaries
    BY <2>1 DEF Boundaries
  <2> QED  BY <2>1, <2>2, <2>3, <2>4
<1>5. Filed'
  BY <1>1, <1>4, NothingFiled
<1>6. LineTyped'
  BY <1>1, <1>4, TextAssumption DEF Inv, LineTyped, lineVars
<1>7. LabelsOnInstructions'
  <2> DEFINE h == hash_label[buffer]
             old == hash_map[h]
             new == hash_map'[h]
  <2>1. /\ old \in Seq(Entry) /\ Len(old) \in Nat /\ DOMAIN old = 1 .. Len(old)
        /\ h \in Buckets
        /\ \A b \in Buckets \ {h} : hash_map'[b] = hash_map[b]
        /\ DOMAIN new = 1 .. Len(old) + 1
        /\ \A i \in 1 .. Len(old) : new[i] = old[i]
        /\ new[Len(old) + 1] = [label |-> buffer, addr |-> instruction_addr]
    BY <1>1, <1>2, AddLabelStep
  <2>2. /\ \A b \in Buckets : \A i \in DOMAIN hash_map[b] : hash_map[b][i].addr \in Boundaries
        /\ entry_point \in Boundaries /\ instruction_addr \in Boundaries
    BY DEF Inv, LabelsOnInstructions, Boundaries
  <2> HIDE DEF h, old, new
  <2>3. ASSUME NEW b \in Buckets, NEW i \in DOMAIN hash_map'[b]
        PROVE  hash_map'[b][i].addr \in Boundaries
    <3>1. CASE b # h
      BY <2>1, <2>2, <3>1
    <3>2. CASE b = h
      <4>1. i \in 1 .. Len(old) + 1 /\ hash_map'[b] = new /\ hash_map[b] = old
        BY <2>1, <3>2 DEF new, old
      <4>2. CASE i \in 1 .. Len(old)
        BY <2>1, <2>2, <4>1, <4>2
      <4>3. CASE i = Len(old) + 1
        BY <2>1, <2>2, <4>1, <4>3
      <4> QED  BY <2>1, <4>1, <4>2, <4>3
    <3> QED  BY <3>1, <3>2
  <2> QED  BY <1>1, <1>4, <2>2, <2>3 DEF LabelsOnInstructions
<1> QED  BY <1>3, <1>4, <1>5, <1>6, <1>7 DEF Inv

LEMMA TokenStep == ASSUME Inv, Token PROVE Inv'
<1>1. /\ phase = "scan" /\ phase' = phase /\ current' = current + 1 /\ buffer' \in Tokens
      /\ UNCHANGED <<lineVars, programVars, entryVars, fileVars, table>>
  BY DEF Token, Reads
<1>2. Counted' /\ Chains' /\ LabelsOnInstructions' /\ StartOf(1)' = StartOf(1)
      /\ program' = program /\ Len(program') \in Nat
  BY <1>1, SameProgram DEF entryVars, table, Inv, Counted
<1>3. Filed'
  BY <1>1, <1>2, NothingFiled
<1>4. LineTyped'
  BY <1>1, <1>2, TextAssumption DEF Inv, LineTyped, lineVars
<1> QED  BY <1>2, <1>3, <1>4 DEF Inv

(* Everything stays, but for what the process is at. *)
LEMMA SameState ==
  ASSUME Inv, UNCHANGED <<scanVars, fileVars, hash_map, found>>,
         phase' = phase \/ Filed'
  PROVE  Inv'
<1>1. UNCHANGED <<current, buffer, in_instruction, nb_args, programVars, entry_point,
                  written, offset>>
  BY DEF scanVars, lineVars, entryVars, fileVars
<1>2. Counted' /\ Chains' /\ LabelsOnInstructions' /\ program' = program
      /\ \A i : StartOf(i)' = StartOf(i)
  BY <1>1, SameProgram
<1>3. LineTyped'
  BY <1>1, <1>2 DEF Inv, LineTyped
<1>4. ASSUME phase' = phase PROVE Filed'
  BY <1>1, <1>2, <1>4 DEF Inv, Filed
<1> QED  BY <1>2, <1>3, <1>4 DEF Inv

(* A step from one phase to the next one. *)
LEMMA PhaseStep ==
  ASSUME Inv, UNCHANGED <<scanVars, fileVars, table>>,
         \/ phase = "header" /\ phase' = "scan"
         \/ phase = "entry" /\ phase' = "render"
         \/ phase = "render" /\ phase' = "done" /\ Len(written) = Len(program)
  PROVE  Inv'
<1>1. UNCHANGED <<programVars, written, offset, entry_point, hash_map, found>>
  BY DEF scanVars, entryVars, fileVars, table
<1>2. program' = program /\ \A i : StartOf(i)' = StartOf(i)
  BY <1>1, SameProgram
<1>3. Filed'
  BY <1>1, <1>2 DEF Inv, Filed
<1> QED  BY <1>1, <1>3, SameState

-----------------------------------------------------------------------------
(* Rendering. *)

LEMMA EncodedTyped ==
  ASSUME NEW o \in Operations, NEW args, \A k \in 0 .. 2 : args[k] \in Int
  PROVE  Encoded(o, args) \in [code : Codes, imm : BOOLEAN, size : OpSizes,
                               args : [0 .. 2 -> Int]]
<1> DEFINE n == o.name
           new == [k \in 0 .. 2 |-> IF k < RawOp(o.size).args THEN args[k] ELSE 0]
<1>1. n \in Mnemonics /\ o.size \in Sizes
  BY DEF Operations
<1>2. InstructionOf(n).code \in Codes /\ InstructionOf(n).imm \in BOOLEAN
  BY <1>1, FamilyTable DEF Codes
<1>3. new \in [0 .. 2 -> Int]
  OBVIOUS
<1>4. Encoded(o, args) = [code |-> InstructionOf(n).code, imm |-> InstructionOf(n).imm,
                          size |-> RawOp(o.size).op_size, args |-> new]
  BY DEF Encoded
<1> HIDE DEF n, new
<1>5. RawOp(o.size).op_size \in OpSizes
  BY <1>1, BytesOfSizes DEF Sizes, OpSizes
<1> QED  BY <1>2, <1>3, <1>4, <1>5

LEMMA WriteStep ==
  ASSUME Inv, phase = "render", Len(written) < Len(program), NEW args,
         \A k \in 0 .. 2 : args[k] \in Int,
         Write(program[Len(written) + 1], args), Chains', hash_map' = hash_map
  PROVE  Inv'
<1> DEFINE n == Len(written)
           o == program[n + 1]
           w == [at |-> offset, bytes |-> RawOp(o.size).bytes, op |-> Encoded(o, args)]
<1>1. /\ program \in Seq(Operations) /\ Len(program) \in Nat
      /\ written \in Seq(Files) /\ n \in Nat /\ n < Len(program)
      /\ offset \in Nat /\ offset = StartOf(n + 1)
      /\ \A i \in 1 .. n : written[i].at = StartOf(i)
  BY DEF Inv, Counted, Filed
<1>2. n + 1 \in 1 .. Len(program) /\ o \in Operations
  BY <1>1
<1>3. /\ StartOf(n + 1 + 1) = StartOf(n + 1) + RawOp(o.size).bytes
      /\ RawOp(o.size).bytes \in Nat
  BY <1>2, SizesTyped DEF Inv, Counted, Operations
<1>4. w \in Files
  <2>1. Encoded(o, args) \in [code : Codes, imm : BOOLEAN, size : OpSizes,
                               args : [0 .. 2 -> Int]]
    BY <1>2, EncodedTyped
  <2> QED  BY <1>1, <1>3, <2>1 DEF Files
<1>5. /\ written' = Append(written, w) /\ offset' = offset + RawOp(o.size).bytes
      /\ phase' = "render"
      /\ UNCHANGED <<current, buffer, in_instruction, nb_args, program, starts,
                     instruction_addr, entry_point>>
  BY DEF Write, scanVars, lineVars, programVars, entryVars
<1>6. w.at = StartOf(n + 1)
  BY <1>1
<1> HIDE DEF o, w
<1>7. /\ written' \in Seq(Files) /\ Len(written') = n + 1
      /\ \A i \in 1 .. n : written'[i] = written[i]
      /\ written'[n + 1] = w
  BY <1>1, <1>4, <1>5
<1>8. \A i : StartOf(i)' = StartOf(i)
  BY <1>5 DEF StartOf
<1>9. Filed'
  <2>1. offset' \in Nat /\ offset' = StartOf(n + 1 + 1)
    BY <1>1, <1>3, <1>5
  <2>2. ASSUME NEW i \in 1 .. n + 1 PROVE written'[i].at = StartOf(i)
    <3>1. i \in 1 .. n \/ i = n + 1
      BY <1>1
    <3>2. CASE i \in 1 .. n
      BY <1>1, <1>7, <3>2
    <3>3. CASE i = n + 1
      <4> HIDE DEF n
      <4> QED  BY <1>6, <1>7, <3>3
    <3> QED  BY <3>1, <3>2, <3>3
  <2>3. Len(written') <= Len(program') /\ Len(written') + 1 = n + 1 + 1
    BY <1>1, <1>5, <1>7
  <2> HIDE DEF n
  <2> QED  BY <1>5, <1>7, <1>8, <2>1, <2>2, <2>3 DEF Filed
<1>10. Counted' /\ LabelsOnInstructions' /\ LineTyped'
  BY <1>5 DEF Inv, Counted, StartOf, LabelsOnInstructions, Boundaries, LineTyped
<1> QED  BY <1>9, <1>10 DEF Inv

LEMMA RenderPlainStep == ASSUME Inv, RenderPlain PROVE Inv'
<1>1. PICK o \in {program[i] : i \in DOMAIN program}, junk \in [0 .. 2 -> Junk] :
        /\ Rendering(o)
        /\ Write(o, [k \in 0 .. 2 |-> IF k \in DOMAIN o.args THEN o.args[k] ELSE junk[k]])
        /\ UNCHANGED table
  BY DEF RenderPlain
<1>2. /\ phase = "render" /\ Len(written) < Len(program) /\ o = program[Len(written) + 1]
      /\ hash_map' = hash_map /\ Chains'
  BY <1>1 DEF Rendering, table, Inv, Chains
<1>3. o \in Operations
  <2>1. program \in Seq(Operations) /\ Len(written) \in Nat
    BY DEF Inv, Counted, Filed
  <2>2. Len(written) + 1 \in 1 .. Len(program)
    BY <1>2, <2>1
  <2> QED  BY <1>2, <2>1, <2>2
<1>4. PICK D \in SUBSET Nat : o.args \in [D -> Int]
  BY <1>3 DEF Operations
<1>5. \A k \in 0 .. 2 : junk[k] \in Int
  <2>1. Junk \subseteq Word /\ WordMod \in Int
    BY TextAssumption, WidthsAssumption
  <2>2. \A k \in 0 .. 2 : junk[k] \in Junk
    BY <1>1
  <2>3. \A x \in Word : x \in Int
    BY <2>1 DEF Word
  <2> QED  BY <2>1, <2>2, <2>3
<1> DEFINE args == [k \in 0 .. 2 |-> IF k \in DOMAIN o.args THEN o.args[k] ELSE junk[k]]
<1>6. \A k \in 0 .. 2 : args[k] \in Int
  BY <1>4, <1>5
<1>7. Write(program[Len(written) + 1], args)
  BY <1>1, <1>2
<1> HIDE DEF args
<1> QED  BY <1>2, <1>6, <1>7, WriteStep

LEMMA RenderJumpStep == ASSUME Inv, RenderJump PROVE Inv'
<1>1. PICK o \in {program[i] : i \in DOMAIN program} :
        /\ Rendering(o) /\ Lookup(o.flag)
        /\ \/ Write(o, [k \in 0 .. 2 |-> found'])
           \/ UNCHANGED <<text, phase, scanVars, fileVars>>
  BY DEF RenderJump
<1>2. /\ phase = "render" /\ Len(written) < Len(program) /\ o = program[Len(written) + 1]
      /\ hash_map' = hash_map
  BY <1>1 DEF Rendering, Lookup
<1>3. o.flag \in Labels
  <2>1. program \in Seq(Operations) /\ Len(written) \in Nat
    BY DEF Inv, Counted, Filed
  <2>2. Len(written) + 1 \in 1 .. Len(program)
    BY <1>2, <2>1
  <2>3. o \in Operations
    BY <1>2, <2>1, <2>2
  <2> QED  BY <2>3 DEF Operations
<1>4. Chains'
  BY <1>1, <1>3, ChainsNext DEF TableNext, Inv
<1>5. found' \in Int
  BY <1>4, TextAssumption DEF Chains
<1>6. CASE Write(o, [k \in 0 .. 2 |-> found'])
  <2> DEFINE args == [k \in 0 .. 2 |-> found']
  <2>1. \A k \in 0 .. 2 : args[k] \in Int
    BY <1>5
  <2>2. Write(program[Len(written) + 1], args)
    BY <1>2, <1>6
  <2> HIDE DEF args
  <2> QED  BY <1>2, <1>4, <2>1, <2>2, WriteStep
<1>7. CASE UNCHANGED <<text, phase, scanVars, fileVars>>
  <2>1. UNCHANGED <<phase, current, buffer, in_instruction, nb_args, program, starts,
                    instruction_addr, entry_point, written, offset>>
    BY <1>7 DEF scanVars, lineVars, programVars, entryVars, fileVars
  <2>2. \A i : StartOf(i)' = StartOf(i)
    BY <2>1 DEF StartOf
  <2>3. LineTyped' /\ Counted'
    BY <2>1, <2>2 DEF Inv, LineTyped, Counted
  <2>4. Filed'
    BY <2>1, <2>2 DEF Inv, Filed
  <2>5. Boundaries' = Boundaries
    BY <2>1 DEF Boundaries
  <2>6. LabelsOnInstructions'
    BY <1>2, <2>1, <2>5 DEF Inv, LabelsOnInstructions
  <2> QED
    BY <1>4, <2>3, <2>4, <2>6 DEF Inv
<1> QED  BY <1>1, <1>6, <1>7

-----------------------------------------------------------------------------
LEMMA InitInv == Init => Inv
<1> SUFFICES ASSUME Init PROVE Inv
  OBVIOUS
<1>1. /\ program = <<>> /\ starts = <<>> /\ written = <<>> /\ instruction_addr = 0
      /\ offset = 0 /\ phase = "header" /\ entry_point = 0 /\ current = 1 /\ buffer = End
      /\ in_instruction = FALSE /\ nb_args = 0 /\ TableInit
  BY DEF Init
<1>2. Counted
  BY <1>1 DEF Counted, StartOf
<1>3. Filed
  BY <1>1 DEF Filed, StartOf
<1>4. LineTyped
  BY <1>1, TextAssumption DEF LineTyped
<1>5. Chains
  BY <1>1, ChainsInit
<1>6. LabelsOnInstructions
  BY <1>1 DEF LabelsOnInstructions, Boundaries, TableInit
<1> QED  BY <1>2, <1>3, <1>4, <1>5, <1>6 DEF Inv

LEMMA NextInv == Inv /\ [Next]_vars => Inv'
<1> SUFFICES ASSUME Inv, [Next]_vars PROVE Inv'
  OBVIOUS
<1>1. ASSUME NEW how, Ends(how) PROVE Inv'
  BY <1>1, SameState DEF Ends
<1>2. CASE Comment
  BY <1>2, CommentStep
<1>3. CASE Separator
  BY <1>3, SeparatorStep
<1>4. CASE LineEnd
  BY <1>4, LineEndStep
<1>5. CASE Label
  BY <1>5, LabelStep
<1>6. CASE LabelRefused
  BY <1>6, SameState DEF LabelRefused, AddFails
<1>7. CASE Token
  BY <1>7, TokenStep
<1>8. CASE ReadHeader
  BY <1>8, PhaseStep DEF ReadHeader
<1>9. CASE CheckEntry
  BY <1>1, <1>9, PhaseStep DEF CheckEntry
<1>10. CASE RenderPlain
  BY <1>10, RenderPlainStep
<1>11. CASE RenderJump
  BY <1>11, RenderJumpStep
<1>12. CASE Finish
  BY <1>12, PhaseStep DEF Finish
<1>13. CASE TokenRefused \/ TokenTooLong \/ BadHeader \/ HostFails
  BY <1>1, <1>13 DEF TokenRefused, TokenTooLong, BadHeader, HostFails
<1>14. CASE UNCHANGED vars
  BY <1>14, SameState DEF vars, table
<1> QED
  BY <1>2, <1>3, <1>4, <1>5, <1>6, <1>7, <1>8, <1>9, <1>10, <1>11, <1>12, <1>13, <1>14
  DEF Next, Scan

LEMMA Invariant == Spec => []Inv
  BY InitInv, NextInv, PTL DEF Spec

(* Every label, and the entry point, is the address of an operation or of  *)
(* the end of the program.                                                 *)
THEOREM LabelAddresses == Spec => []LabelsOnInstructions
<1>1. Inv => LabelsOnInstructions
  BY DEF Inv
<1> QED  BY <1>1, Invariant, PTL

(* The pass that writes puts every operation where the pass that parsed    *)
(* counted it, so labels mean the same in both.                            *)
THEOREM PassesAgree == Spec => []WrittenWhereCounted
<1>1. Inv => WrittenWhereCounted
  <2> SUFFICES ASSUME Inv PROVE WrittenWhereCounted
    OBVIOUS
  <2>1. /\ Len(written) \in Nat /\ DOMAIN written = 1 .. Len(written)
        /\ Len(starts) \in Nat /\ Len(program) \in Nat
        /\ Len(written) <= Len(starts) /\ Len(starts) = Len(program)
    BY DEF Inv, Counted, Filed
  <2>2. ASSUME NEW i \in DOMAIN written PROVE written[i].at = starts[i]
    BY <2>1, <2>2 DEF Inv, Filed, StartOf
  <2>3. ASSUME phase = "done" PROVE offset = instruction_addr
    BY <2>1, <2>3 DEF Inv, Filed, StartOf
  <2> QED  BY <2>2, <2>3 DEF WrittenWhereCounted
<1> QED  BY <1>1, Invariant, PTL
=============================================================================
