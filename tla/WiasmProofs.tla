---------------------------- MODULE WiasmProofs ----------------------------
(***************************************************************************)
(* Proofs that the assembler's pass implements the reading of the text.    *)
(***************************************************************************)
EXTENDS Wiasm, AssemblerProofs, FiniteSetTheorems

-----------------------------------------------------------------------------
(* Positions in order. *)

(* How many of a set of positions come up to i. *)
Rank(S, i) == Cardinality({ j \in S : j <= i })

LEMMA RankTyped ==
  ASSUME NEW S, IsFiniteSet(S), NEW i
  PROVE  Rank(S, i) \in 0 .. Cardinality(S)
<1> DEFINE T == { j \in S : j <= i }
<1>1. T \in SUBSET S
  OBVIOUS
<1>2. IsFiniteSet(T) /\ Cardinality(T) <= Cardinality(S)
  BY <1>1, FS_Subset
<1>3. Cardinality(T) \in Nat /\ Cardinality(S) \in Nat
  BY <1>2, FS_CardinalityType
<1> QED  BY <1>2, <1>3 DEF Rank

(* A later position has a higher rank. *)
LEMMA RankGrows ==
  ASSUME NEW S \in SUBSET Nat, IsFiniteSet(S), NEW i \in S, NEW j \in S, i < j
  PROVE  Rank(S, i) < Rank(S, j)
<1> DEFINE T == { k \in S : k <= i }
           U == { k \in S : k <= j }
<1>0. i \in Nat /\ j \in Nat /\ \A k \in S : k \in Nat
  OBVIOUS
<1>1. T \in SUBSET U /\ U \in SUBSET S /\ j \in U /\ j \notin T
  <2>1. \A k \in S : k <= i => k <= j
    BY <1>0
  <2>2. j <= j /\ ~ (j <= i)
    BY <1>0
  <2> QED  BY <2>1, <2>2
<1>2. IsFiniteSet(U)
  BY <1>1, FS_Subset
<1>3. IsFiniteSet(T) /\ Cardinality(T) <= Cardinality(U) /\ Cardinality(U) # Cardinality(T)
  <2>1. T # U
    BY <1>1
  <2> HIDE DEF T, U
  <2> QED  BY <1>1, <1>2, <2>1, FS_Subset
<1>4. Cardinality(T) \in Nat /\ Cardinality(U) \in Nat
  BY <1>2, <1>3, FS_CardinalityType
<1> HIDE DEF T, U
<1>5. Cardinality(T) < Cardinality(U)
  BY <1>3, <1>4
<1> QED  BY <1>5 DEF Rank, T, U

(* Every rank up to the last is taken. *)
LEMMA RankTaken ==
  ASSUME NEW S \in SUBSET Nat, IsFiniteSet(S), NEW n \in 1 .. Cardinality(S)
  PROVE  \E i \in S : Rank(S, i) = n
<1> DEFINE rank == [i \in S |-> Rank(S, i)]
           N == 1 .. Cardinality(S)
<1>1. Cardinality(S) \in Nat
  BY FS_CardinalityType
<1>2. ASSUME NEW i \in S PROVE rank[i] \in N
  <2>1. Rank(S, i) \in 0 .. Cardinality(S)
    BY RankTyped
  <2>2. { j \in S : j <= i } # {} /\ { j \in S : j <= i } \in SUBSET S
    BY <1>2
  <2>3. IsFiniteSet({ j \in S : j <= i })
    BY <2>2, FS_Subset
  <2>4. Cardinality({ j \in S : j <= i }) # 0
    BY <2>2, <2>3, FS_EmptySet
  <2> QED  BY <1>1, <2>1, <2>4 DEF Rank
<1>3. ASSUME NEW i \in S, NEW j \in S, rank[i] = rank[j] PROVE i = j
  <2>1. i \in Nat /\ j \in Nat /\ Rank(S, i) = Rank(S, j)
    BY <1>3
  <2>2. Rank(S, i) \in Int /\ Rank(S, j) \in Int
    BY <1>1, RankTyped
  <2>3. ~ (i < j) /\ ~ (j < i)
    BY <2>1, <2>2, RankGrows
  <2> QED  BY <2>1, <2>3
<1>4. rank \in Injection(S, N)
  <2>1. rank \in [S -> N]
    BY <1>2
  <2> HIDE DEF rank
  <2> QED  BY <1>3, <2>1 DEF Injection, IsInjective
<1>5. IsFiniteSet(N) /\ Cardinality(N) = Cardinality(S)
  <2>1. 1 \in Int /\ Cardinality(S) \in Int
    BY <1>1
  <2>2. IsFiniteSet(N) /\ Cardinality(N) = IF 1 > Cardinality(S) THEN 0 ELSE Cardinality(S) - 1 + 1
    BY <2>1, FS_Interval
  <2> HIDE DEF N
  <2> QED  BY <1>1, <2>2
<1>6. rank \in Surjection(S, N)
  <2> HIDE DEF rank, N
  <2> QED  BY <1>4, <1>5, FS_Injection
<1>7. \E i \in S : rank[i] = n
  <2> HIDE DEF rank
  <2> QED  BY <1>6 DEF Surjection, N
<1> QED  BY <1>7

(* The positions of a set, one after the other, and all of them.           *)
Increasing(s) == \A k, m \in DOMAIN s : k < m => s[k] < s[m]

LEMMA InOrderIs ==
  ASSUME NEW S \in SUBSET Nat, IsFiniteSet(S)
  PROVE  /\ InOrder(S) \in Seq(Nat)
         /\ \A k \in 1 .. Len(InOrder(S)) : InOrder(S)[k] \in S
         /\ \A i \in S : \E k \in 1 .. Len(InOrder(S)) : InOrder(S)[k] = i
         /\ Increasing(InOrder(S))
<1> DEFINE n == Cardinality(S)
           s == InOrder(S)
<1>1. n \in Nat
  BY FS_CardinalityType
<1>2. ASSUME NEW k \in 1 .. n PROVE s[k] \in S /\ Rank(S, s[k]) = k
  <2>1. s[k] = CHOOSE i \in S : Rank(S, i) = k
    BY DEF InOrder, Rank
  <2> HIDE DEF s
  <2> QED  BY <2>1, RankTaken
<1>3. DOMAIN s = 1 .. n
  BY DEF InOrder
<1>4. s \in [1 .. n -> Nat]
  <2> DEFINE at(k) == CHOOSE i \in S : Cardinality({ j \in S : j <= i }) = k
  <2>1. s = [k \in 1 .. n |-> at(k)]
    BY DEF InOrder
  <2> HIDE DEF s, at
  <2>2. \A k \in 1 .. n : at(k) \in Nat
    BY <1>2, <2>1
  <2> QED  BY <2>1, <2>2
<1> HIDE DEF s
<1>5. s \in Seq(Nat) /\ Len(s) = n
  BY <1>1, <1>4
<1>6. ASSUME NEW i \in S PROVE \E k \in 1 .. n : s[k] = i
  <2>1. Rank(S, i) \in 0 .. n /\ i \in Nat
    BY RankTyped
  <2>2. Rank(S, i) # 0
    <3>1. { j \in S : j <= i } # {} /\ { j \in S : j <= i } \in SUBSET S
      BY <2>1
    <3>2. IsFiniteSet({ j \in S : j <= i })
      BY <3>1, FS_Subset
    <3> QED  BY <3>1, <3>2, FS_EmptySet DEF Rank
  <2>3. Rank(S, i) \in 1 .. n
    BY <1>1, <2>1, <2>2
  <2>4. s[Rank(S, i)] \in S /\ Rank(S, s[Rank(S, i)]) = Rank(S, i)
    BY <1>2, <2>3
  <2> DEFINE j == s[Rank(S, i)]
  <2>5. j \in S /\ j \in Nat /\ Rank(S, j) = Rank(S, i) /\ Rank(S, i) \in Int
    <3>1. Rank(S, i) \in Int
      BY <1>1, <2>1
    <3> QED  BY <2>4, <3>1
  <2> HIDE DEF j
  <2>6. ~ (i < j)
    BY <2>5, RankGrows
  <2>7. ~ (j < i)
    BY <2>5, RankGrows
  <2>8. j = i
    BY <2>1, <2>5, <2>6, <2>7
  <2> QED  BY <2>3, <2>8 DEF j
<1>7. ASSUME NEW k \in 1 .. n, NEW m \in 1 .. n, k < m PROVE s[k] < s[m]
  <2>1. s[k] \in S /\ s[m] \in S /\ Rank(S, s[k]) = k /\ Rank(S, s[m]) = m
    BY <1>2
  <2>3. k \in Int /\ m \in Int /\ ~ (m < k) /\ k # m
    BY <1>1, <1>7
  <2>2. s[k] # s[m] /\ s[k] \in Nat /\ s[m] \in Nat
    BY <2>1, <2>3
  <2>4. ~ (s[m] < s[k])
    BY <2>1, <2>3, RankGrows
  <2> QED  BY <2>2, <2>4
<1>8. Increasing(s)
  BY <1>3, <1>7 DEF Increasing
<1> QED  BY <1>2, <1>5, <1>6, <1>8 DEF s

-----------------------------------------------------------------------------
(* The reading, part by part. *)

Colons == { i \in CodeAt : text[i] = Colon }
Words == { i \in CodeAt : text[i] \in Tokens /\ i + 1 \notin Colons }
Heads == { i \in Words : ~\E j \in Words : j < i /\ SameLine(j, i) }
Behind(i) == { j \in Words : j > i /\ SameLine(i, j) }
HeadOrder == InOrder(Heads)
ArgOrder(i) == InOrder(Behind(i))
BeforeOf(i) == Cardinality({ k \in DOMAIN HeadOrder : HeadOrder[k] < i })

LEMMA ReadingIs ==
  /\ Reading.ops = [k \in DOMAIN HeadOrder |-> [name |-> text[HeadOrder[k]],
                                                args |-> TextAt(ArgOrder(HeadOrder[k]))]]
  /\ Reading.labels = [i \in Colons |-> [name |-> LabelOf(i), before |-> BeforeOf(i)]]
  /\ Reading.tokens = { text[i] : i \in CodeAt }
<1> DEFINE ops == [k \in DOMAIN HeadOrder |-> [name |-> text[HeadOrder[k]],
                                               args |-> TextAt(ArgOrder(HeadOrder[k]))]]
           labels == [i \in Colons |-> [name |-> LabelOf(i), before |-> BeforeOf(i)]]
           tokens == { text[i] : i \in CodeAt }
<1>1. Reading = [ops |-> ops, labels |-> labels, tokens |-> tokens]
  BY Zenon DEF Reading, Colons, Words, Heads, Behind, HeadOrder, ArgOrder, BeforeOf
<1> HIDE DEF ops, labels, tokens
<1>2. Reading.ops = ops /\ Reading.labels = labels /\ Reading.tokens = tokens
  BY <1>1
<1> QED  BY <1>2 DEF ops, labels, tokens

(* The characters of a text. *)
LEMMA TextTyped ==
  ASSUME text \in Texts
  PROVE  /\ Len(text) \in Nat /\ DOMAIN text = 1 .. Len(text)
         /\ \A i \in 1 .. Len(text) : text[i] \in Tokens \cup Separators
         /\ \A i \in 1 .. Len(text) - 1 : text[i] \notin Tokens \/ text[i + 1] \notin Tokens
<1>1. text \in Seq(Tokens \cup Separators)
  BY TextAssumption
<1>2. \A i \in 1 .. Len(text) - 1 : text[i] \notin Tokens \/ text[i + 1] \notin Tokens
  BY TextAssumption
<1> QED  BY <1>1, <1>2

LEMMA Positions ==
  ASSUME text \in Texts
  PROVE  /\ CodeAt \subseteq 1 .. Len(text) /\ Colons \subseteq CodeAt /\ Words \subseteq CodeAt
         /\ Heads \subseteq Words /\ \A i : Behind(i) \subseteq Words
         /\ \A S : S \subseteq Words => S \in SUBSET Nat /\ IsFiniteSet(S)
<1>1. Len(text) \in Nat /\ DOMAIN text = 1 .. Len(text)
  BY TextTyped
<1>2. CodeAt \subseteq 1 .. Len(text) /\ Colons \subseteq CodeAt /\ Words \subseteq CodeAt
  BY <1>1 DEF CodeAt, Colons, Words
<1>3. Heads \subseteq Words /\ \A i : Behind(i) \subseteq Words
  BY DEF Heads, Behind
<1>4. ASSUME NEW S, S \subseteq Words PROVE S \in SUBSET Nat /\ IsFiniteSet(S)
  <2>1. S \in SUBSET (1 .. Len(text))
    BY <1>2, <1>4
  <2>2. IsFiniteSet(1 .. Len(text))
    BY <1>1, FS_Interval
  <2>3. IsFiniteSet(S)
    BY <2>1, <2>2, FS_Subset
  <2> QED  BY <2>1, <2>3
<1> QED  BY <1>2, <1>3, <1>4

(* Sets of words in order. *)
LEMMA WordsInOrder ==
  ASSUME text \in Texts, NEW S, S \subseteq Words
  PROVE  /\ InOrder(S) \in Seq(Nat) /\ Len(InOrder(S)) \in Nat
         /\ DOMAIN InOrder(S) = 1 .. Len(InOrder(S))
         /\ \A k \in 1 .. Len(InOrder(S)) : InOrder(S)[k] \in S /\ InOrder(S)[k] \in Nat
         /\ \A i \in S : \E k \in 1 .. Len(InOrder(S)) : InOrder(S)[k] = i
         /\ \A k, m \in 1 .. Len(InOrder(S)) : k < m => InOrder(S)[k] < InOrder(S)[m]
<1>1. S \in SUBSET Nat /\ IsFiniteSet(S)
  BY Positions
<1> DEFINE s == InOrder(S)
<1>2. /\ s \in Seq(Nat) /\ Increasing(s)
      /\ \A k \in 1 .. Len(s) : s[k] \in S
      /\ \A i \in S : \E k \in 1 .. Len(s) : s[k] = i
  BY <1>1, InOrderIs
<1> HIDE DEF s
<1>3. Len(s) \in Nat /\ DOMAIN s = 1 .. Len(s) /\ \A k \in 1 .. Len(s) : s[k] \in Nat
  BY <1>2
<1>4. \A k, m \in 1 .. Len(s) : k < m => s[k] < s[m]
  BY <1>2, <1>3 DEF Increasing
<1> QED  BY <1>2, <1>3, <1>4 DEF s

(* Lines. *)
LEMMA SameLineParts ==
  ASSUME NEW i \in Int, NEW j \in Int, NEW k \in Int, i <= j, j <= k
  PROVE  /\ SameLine(i, k) <=> SameLine(i, j) /\ SameLine(j, k)
         /\ i <= j - 1 => (SameLine(i, k) <=> SameLine(i, j - 1) /\ SameLine(j, k))
         /\ SameLine(k, k) <=> text[k] # Newline
<1>1. \A m \in i .. k : m \in i .. j \/ m \in j .. k
  OBVIOUS
<1>2. \A m \in i .. k : m \in i .. j - 1 \/ m \in j .. k
  OBVIOUS
<1>3. /\ \A m \in i .. j : m \in i .. k
      /\ \A m \in i .. j - 1 : m \in i .. k
      /\ \A m \in j .. k : m \in i .. k
      /\ k .. k = {k}
  OBVIOUS
<1> QED  BY <1>1, <1>2, <1>3 DEF SameLine

-----------------------------------------------------------------------------
(* The first n elements of s are those before e. *)
Prefix(s, n, e) == n \in 0 .. Len(s) /\ \A k \in 1 .. Len(s) : k <= n <=> s[k] < e

LEMMA PrefixMoves ==
  ASSUME NEW s \in Seq(Nat), NEW n, NEW e \in Int, NEW f \in Int, e <= f,
         Prefix(s, n, e), \A k \in 1 .. Len(s) : ~ (e <= s[k] /\ s[k] < f)
  PROVE  Prefix(s, n, f)
<1>1. \A k \in 1 .. Len(s) : s[k] \in Nat
  OBVIOUS
<1>2. \A k \in 1 .. Len(s) : s[k] < e <=> s[k] < f
  BY <1>1
<1> QED  BY <1>2 DEF Prefix

(* The element at e is the next one. *)
LEMMA PrefixTakes ==
  ASSUME NEW s \in Seq(Nat), NEW n, NEW e \in Nat, NEW f \in Int, e < f,
         \A k, m \in 1 .. Len(s) : k < m => s[k] < s[m],
         Prefix(s, n, e), \A k \in 1 .. Len(s) : e <= s[k] /\ s[k] < f => s[k] = e,
         \E k \in 1 .. Len(s) : s[k] = e
  PROVE  Prefix(s, n + 1, f) /\ n + 1 \in 1 .. Len(s) /\ s[n + 1] = e
<1>1. PICK k \in 1 .. Len(s) : s[k] = e
  OBVIOUS
<1>2. n \in 0 .. Len(s) /\ Len(s) \in Nat /\ \A m \in 1 .. Len(s) : s[m] \in Nat
  BY DEF Prefix
<1>3. ~ (k <= n)
  BY <1>1, <1>2 DEF Prefix
<1>4. n + 1 \in 1 .. Len(s)
  BY <1>2, <1>3
<1>5. ~ (s[n + 1] < e)
  <2>1. ~ (n + 1 <= n)
    BY <1>2
  <2> QED  BY <1>4, <2>1 DEF Prefix
<1>6. n + 1 = k
  <2>1. n + 1 < k => s[n + 1] < s[k]
    BY <1>4
  <2> QED  BY <1>1, <1>2, <1>3, <1>5, <2>1
<1>7. ASSUME NEW m \in 1 .. Len(s) PROVE m <= n + 1 <=> s[m] < f
  <2>1. CASE m <= n
    <3>1. s[m] < e
      BY <2>1 DEF Prefix
    <3> QED  BY <1>2, <2>1, <3>1
  <2>2. CASE m = n + 1
    BY <1>1, <1>6, <2>2, <1>2
  <2>3. CASE n + 1 < m
    <3>1. e < s[m]
      BY <1>1, <1>4, <1>6, <2>3
    <3>2. s[m] # e /\ e <= s[m]
      BY <1>2, <3>1
    <3>3. ~ (s[m] < f)
      BY <3>2
    <3> QED  BY <1>2, <2>3, <3>3
  <2> QED  BY <1>2, <2>1, <2>2, <2>3
<1> QED  BY <1>1, <1>2, <1>4, <1>6, <1>7 DEF Prefix

-----------------------------------------------------------------------------
(* The invariant: at every moment the pass agrees with the reading of what *)
(* it has come to.                                                         *)

(* The first position whose word has not been handed over.                 *)
Reached == IF buffer = End THEN current ELSE current - 1
Live == current \in DOMAIN text \/ buffer # End

(* No comment is open, and the buffer holds the token before current.      *)
Place ==
    /\ text \in Texts /\ current \in 1 .. Len(text) + 1
    /\ Live => ~\E h \in 1 .. current - 1 : text[h] = Hash /\ SameLine(h, current - 1)
    /\ buffer # End => /\ current - 1 \in CodeAt
                       /\ text[current - 1] = buffer /\ buffer \in Tokens
    /\ phase = "scan" /\ buffer = End /\ current - 1 \in CodeAt => text[current - 1] \notin Tokens
    /\ \A i \in CodeAt : i < current => text[i] \notin FullTokens \cup LongTokens

(* The line has begun with the last operation, or with no word yet.        *)
Line ==
    /\ in_instruction => Len(program) # 0
    /\ Live /\ in_instruction => SameLine(HeadOrder[Len(program)], current - 1)
    /\ Live /\ ~in_instruction => ~\E j \in Words : j < Reached /\ SameLine(j, current - 1)

ArgWord(i, n) == text[ArgOrder(i)[n]]

(* The operation at i has taken its first c arguments. *)
Given(o, i, c) ==
    /\ o.name = text[i]
    /\ \A n \in 1 .. c :
          /\ Accepts(o, n - 1, ArgWord(i, n))
          /\ IsLabel(o, n - 1, ArgWord(i, n)) =>
                o.size = "inst_jmp" /\ o.flag = ArgWord(i, n)
          /\ ~IsLabel(o, n - 1, ArgWord(i, n)) =>
                n - 1 \in DOMAIN o.args /\ o.args[n - 1] = ValueOf(ArgWord(i, n))
    /\ o.size = "inst_jmp" => c = 1 /\ IsLabel(o, 0, ArgWord(i, 1))

OperationsRead ==
    /\ Prefix(HeadOrder, Len(program), Reached)
    /\ \A k \in 1 .. Len(program) :
          \E c : /\ Prefix(ArgOrder(HeadOrder[k]), c, Reached)
                 /\ Given(program[k], HeadOrder[k], c)
    /\ in_instruction => Prefix(ArgOrder(HeadOrder[Len(program)]), nb_args, Reached)

(* The table holds the labels up to here, each at the operation behind it. *)
Holds(l, a) == \E n \in DOMAIN Chain(l) : Chain(l)[n] = [label |-> l, addr |-> a]
Known == { i \in Colons : i < current }
Stands(i, a) == a = StartOf(BeforeOf(i) + 1)

LabelsRead ==
    /\ \A l \in Labels : \A a :
          Holds(l, a) <=> \E i \in Known : LabelOf(i) = l /\ Stands(i, a)
    /\ \A i \in Known : BeforeOf(i) \in 0 .. Len(program)
    /\ \A i, j \in Known : LabelOf(i) = LabelOf(j) => i = j
    /\ found_entry <=> \E i \in Known : LabelOf(i) = "ENTRY"
    /\ found_entry => \E i \in Known : LabelOf(i) = "ENTRY" /\ Stands(i, entry_point)

(* What is written of the operation o at i. *)
Put(w, o, i) ==
    /\ w.bytes = RawOp(o.size).bytes
    /\ w.op.code = InstructionOf(o.name).code /\ w.op.imm = InstructionOf(o.name).imm
    /\ \A n \in 1 .. Len(ArgOrder(i)) :
          IF IsLabel(o, n - 1, ArgWord(i, n)) THEN Holds(ArgWord(i, n), w.op.args[n - 1])
          ELSE w.op.args[n - 1] = ValueOf(ArgWord(i, n))

OperationsPut == \A k \in 1 .. Len(written) : Put(written[k], program[k], HeadOrder[k])

Phases ==
    /\ phase = "header" => current = 1
    /\ phase \in {"entry", "render", "done"} => current = Len(text) + 1 /\ buffer = End
    /\ phase \in {"render", "done"} => found_entry

Refusals == status = "failed" /\ phase # "header" => ~Sound(Reading)

ReadSoFar == /\ Place /\ Line /\ OperationsRead /\ LabelsRead /\ OperationsPut
             /\ Phases /\ Refusals

ReadInv == CommentsApart => ReadSoFar

-----------------------------------------------------------------------------
(* What only depends on the text. *)
LEMMA SameText ==
  ASSUME text' = text
  PROVE  /\ CommentsApart' = CommentsApart /\ Reading' = Reading /\ Sound(Reading)' = Sound(Reading)
         /\ CodeAt' = CodeAt /\ Colons' = Colons /\ Words' = Words /\ Heads' = Heads
         /\ HeadOrder' = HeadOrder
         /\ \A i : /\ Behind(i)' = Behind(i) /\ ArgOrder(i)' = ArgOrder(i)
                   /\ BeforeOf(i)' = BeforeOf(i) /\ LabelOf(i)' = LabelOf(i)
         /\ \A i, j : SameLine(i, j)' = SameLine(i, j) /\ ArgWord(i, j)' = ArgWord(i, j)
         /\ \A o, i, c : Given(o, i, c)' = Given(o, i, c)
<1>1. /\ \A i, j : SameLine(i, j)' = SameLine(i, j)
      /\ \A i : LabelOf(i)' = LabelOf(i)
  BY DEF SameLine, LabelOf
<1>2. CodeAt' = CodeAt
  BY <1>1 DEF CodeAt
<1>3. Colons' = Colons
  BY <1>2 DEF Colons
<1>4. Words' = Words
  BY <1>2, <1>3 DEF Words
<1>5. Heads' = Heads /\ \A i : Behind(i)' = Behind(i)
  BY <1>1, <1>4 DEF Heads, Behind
<1>6. HeadOrder' = HeadOrder /\ \A i : ArgOrder(i)' = ArgOrder(i)
  BY <1>5 DEF HeadOrder, ArgOrder
<1>7. \A i : BeforeOf(i)' = BeforeOf(i)
  BY <1>6 DEF BeforeOf
<1>8. \A i, j : ArgWord(i, j)' = ArgWord(i, j)
  BY <1>6 DEF ArgWord
<1>9. \A o, i, c : Given(o, i, c)' = Given(o, i, c)
  BY <1>8 DEF Given
<1>10. CommentsApart' = CommentsApart
  BY <1>2 DEF CommentsApart
<1>12. Reading' = Reading
  <2> DEFINE parts == [ops |-> [k \in DOMAIN HeadOrder |->
                                  [name |-> text[HeadOrder[k]],
                                   args |-> TextAt(ArgOrder(HeadOrder[k]))]],
                       labels |-> [i \in Colons |-> [name |-> LabelOf(i), before |-> BeforeOf(i)]],
                       tokens |-> { text[i] : i \in CodeAt }]
  <2>1. Reading = parts
    BY Zenon DEF Reading, Colons, Words, Heads, Behind, HeadOrder, ArgOrder, BeforeOf
  <2>2. Reading' = parts'
    BY Zenon DEF Reading, Colons, Words, Heads, Behind, HeadOrder, ArgOrder, BeforeOf
  <2>3. \A s : TextAt(s)' = TextAt(s)
    BY DEF TextAt
  <2>4. parts' = parts
    BY <1>1, <1>2, <1>3, <1>6, <1>7, <2>3
  <2> HIDE DEF parts
  <2> QED  BY <2>1, <2>2, <2>4
<1>11. Sound(Reading)' = Sound(Reading)
  BY <1>12 DEF Sound
<1> QED  BY <1>1, <1>2, <1>3, <1>4, <1>5, <1>6, <1>7, <1>8, <1>9, <1>10, <1>11, <1>12

-----------------------------------------------------------------------------
(* Reading words. *)

(* A word is no separator. *)
LEMMA WordsAreTokens ==
  ASSUME NEW i \in Words
  PROVE  /\ i \in CodeAt /\ i + 1 \notin Colons
         /\ text[i] \in Tokens /\ text[i] \notin {Blank, Newline, Colon, Hash, End}
  BY TextAssumption DEF Words, Separators

(* No comment begins here, so this is code. *)
LEMMA CodeGoesOn ==
  ASSUME Place, current \in DOMAIN text, text[current] # Hash
  PROVE  /\ current \in CodeAt
         /\ ~\E h \in 1 .. current : text[h] = Hash /\ SameLine(h, current)
<1>1. current \in 1 .. Len(text) /\ Len(text) \in Nat
  BY TextTyped DEF Place
<1>2. ASSUME NEW h \in 1 .. current, text[h] = Hash, SameLine(h, current) PROVE FALSE
  <2>1. h \in 1 .. current - 1 /\ h <= current - 1 /\ h <= current /\ current <= current
        /\ h \in Int /\ current \in Int
    BY <1>1, <1>2
  <2>2. SameLine(h, current - 1)
    BY <1>2, <2>1, SameLineParts
  <2> QED  BY <1>2, <2>1, <2>2 DEF Place, Live
<1> QED  BY <1>1, <1>2 DEF CodeAt

(* The token in the buffer is a word unless a colon follows. *)
LEMMA TokenIsWord ==
  ASSUME Place, buffer # End
  PROVE  /\ Reached = current - 1 /\ current - 1 \in Nat
         /\ Live /\ text[current - 1] = buffer /\ current - 1 \in CodeAt /\ buffer \in Tokens
         /\ current - 1 \in Words <=> current \notin Colons
<1>1. current \in Nat /\ current - 1 \in CodeAt /\ text[current - 1] = buffer /\ buffer \in Tokens
  BY TextTyped DEF Place
<1>2. current - 1 \in Nat /\ current - 1 + 1 = current
  BY <1>1, TextTyped, Positions DEF Place
<1> QED  BY <1>1, <1>2 DEF Reached, Live, Words

LEMMA PrefixOnce ==
  ASSUME NEW s \in Seq(Nat), NEW e, NEW c, NEW d, Prefix(s, c, e), Prefix(s, d, e)
  PROVE  c = d
<1>1. c \in 0 .. Len(s) /\ d \in 0 .. Len(s) /\ Len(s) \in Nat
  BY DEF Prefix
<1>2. \A k \in 1 .. Len(s) : k <= c <=> k <= d
  BY DEF Prefix
<1>3. c # 0 => c <= d
  <2>1. c # 0 => c \in 1 .. Len(s) /\ c <= c
    BY <1>1
  <2> QED  BY <1>2, <2>1
<1>4. d # 0 => d <= c
  <2>1. d # 0 => d \in 1 .. Len(s) /\ d <= d
    BY <1>1
  <2> QED  BY <1>2, <2>1
<1> QED  BY <1>1, <1>3, <1>4

(* What a target comes with. *)
LEMMA TargetAlone ==
  ASSUME NEW n \in Mnemonics, NEW k \in Nat, k < Len(ArgsOf(n)), ArgsOf(n)[k + 1] = "target"
  PROVE  k = 0 /\ Len(ArgsOf(n)) = 1
<1>1. Len(ArgsOf(n)) \in Nat /\ k + 1 \in 1 .. Len(ArgsOf(n))
  <2>1. Len(ArgsOf(n)) \in Nat
    BY FamilyTable
  <2> QED  BY <2>1
<1>2. SizeOf(n) = "inst_128"
  BY <1>1, FamilyTable
<1>3. Len(ArgsOf(n)) = 1
  BY <1>2, FamilyTable
<1> QED  BY <1>1, <1>3

(* An operation takes one more argument. *)
LEMMA GivenMore ==
  ASSUME NEW o \in Operations, NEW i, NEW c \in Nat, NEW w \in Labels,
         Given(o, i, c), Accepts(o, c, w), ArgWord(i, c + 1) = w
  PROVE  Given(WithArg(o, c, w), i, c + 1)
<1> DEFINE new == WithArg(o, c, w)
<1>1. /\ o.name \in Mnemonics /\ o = [name |-> o.name, size |-> o.size, args |-> o.args,
                                      flag |-> o.flag]
  BY DEF Operations
<1>2. c < Len(ArgsOf(o.name)) /\ Len(ArgsOf(o.name)) \in Nat
  BY <1>1, FamilyTable DEF Accepts
<1>3. CASE IsLabel(o, c, w)
  <2>1. c = 0
    BY <1>1, <1>2, <1>3, TargetAlone DEF IsLabel
  <2>2. new = [name |-> o.name, size |-> "inst_jmp", args |-> o.args, flag |-> w]
    BY <1>1, <1>3 DEF WithArg
  <2> HIDE DEF new
  <2>3. new.name = o.name /\ new.size = "inst_jmp" /\ new.flag = w
    BY <2>2
  <2>4. Accepts(new, 0, w) /\ IsLabel(new, 0, w)
    BY <1>3, <2>1, <2>3 DEF Accepts, IsLabel
  <2>5. 1 .. c + 1 = {1} /\ c + 1 = 1 /\ 1 - 1 = 0
    BY <2>1
  <2>6. new.name = text[i]
    BY <2>3 DEF Given
  <2>7. Given(new, i, 1)
    BY <2>3, <2>4, <2>5, <2>6 DEF Given
  <2> QED  BY <2>5, <2>7 DEF new
<1>4. CASE ~IsLabel(o, c, w)
  <2> DEFINE args == [j \in DOMAIN o.args \cup {c} |-> IF j = c THEN ValueOf(w) ELSE o.args[j]]
  <2>1. new = [name |-> o.name, size |-> o.size, args |-> args, flag |-> o.flag]
    BY <1>1, <1>4 DEF WithArg
  <2>2. o.size # "inst_jmp"
    <3>1. ASSUME o.size = "inst_jmp" PROVE FALSE
      <4>1. c = 1 /\ IsLabel(o, 0, ArgWord(i, 1))
        BY <3>1 DEF Given
      <4>2. ArgsOf(o.name)[0 + 1] = "target" /\ 0 \in Nat /\ 0 < Len(ArgsOf(o.name))
        BY <1>2, <4>1 DEF IsLabel
      <4>3. Len(ArgsOf(o.name)) = 1
        BY <1>1, <4>2, TargetAlone
      <4> QED  BY <1>2, <4>1, <4>3
    <3> QED  BY <3>1
  <2>3. /\ \A j \in DOMAIN o.args : j # c => j \in DOMAIN args /\ args[j] = o.args[j]
        /\ c \in DOMAIN args /\ args[c] = ValueOf(w)
    OBVIOUS
  <2> HIDE DEF args, new
  <2>4. new.name = o.name /\ new.size = o.size /\ new.args = args
    BY <2>1
  <2>5. \A k, v : /\ Accepts(new, k, v) <=> Accepts(o, k, v)
                  /\ IsLabel(new, k, v) <=> IsLabel(o, k, v)
    BY <2>4 DEF Accepts, IsLabel
  <2>6. ASSUME NEW n \in 1 .. c + 1
        PROVE  /\ Accepts(new, n - 1, ArgWord(i, n))
               /\ ~IsLabel(new, n - 1, ArgWord(i, n))
               /\ n - 1 \in DOMAIN new.args /\ new.args[n - 1] = ValueOf(ArgWord(i, n))
    <3>1. CASE n = c + 1
      <4>1. n - 1 = c
        BY <3>1
      <4> QED  BY <1>4, <2>3, <2>4, <2>5, <3>1, <4>1
    <3>2. CASE n # c + 1
      <4>1. n \in 1 .. c /\ n - 1 # c
        BY <3>2
      <4> QED  BY <2>2, <2>3, <2>4, <2>5, <4>1 DEF Given
    <3> QED  BY <3>1, <3>2
  <2>7. new.name = text[i]
    BY <2>4 DEF Given
  <2>8. Given(new, i, c + 1)
    BY <2>2, <2>4, <2>6, <2>7 DEF Given
  <2> QED  BY <2>8 DEF new
<1> QED  BY <1>3, <1>4

(* The operations in the order of the text, and how far the pass has come. *)
LEMMA HeadsInOrder ==
  ASSUME Place, OperationsRead, Counted
  PROVE  /\ HeadOrder \in Seq(Nat) /\ Len(program) \in 0 .. Len(HeadOrder)
         /\ Len(HeadOrder) \in Nat /\ Reached \in Int
         /\ \A k \in 1 .. Len(HeadOrder) : HeadOrder[k] \in Heads /\ HeadOrder[k] \in Words
         /\ \A k \in 1 .. Len(program) : k \in 1 .. Len(HeadOrder) /\ HeadOrder[k] < Reached
         /\ \A i \in Heads : \E k \in 1 .. Len(HeadOrder) : HeadOrder[k] = i
         /\ \A k, m \in 1 .. Len(HeadOrder) : k < m => HeadOrder[k] < HeadOrder[m]
         /\ Words \subseteq Nat /\ \A h \in Words : Behind(h) \subseteq Words
         /\ \A h \in Words : ArgOrder(h) \in Seq(Nat) /\ Len(ArgOrder(h)) \in Nat
                             /\ \A k \in 1 .. Len(ArgOrder(h)) : ArgOrder(h)[k] \in Behind(h)
         /\ \A h \in Words : \A i \in Behind(h) :
               \E k \in 1 .. Len(ArgOrder(h)) : ArgOrder(h)[k] = i
         /\ \A h \in Words : \A k, m \in 1 .. Len(ArgOrder(h)) :
               k < m => ArgOrder(h)[k] < ArgOrder(h)[m]
<1>1. text \in Texts /\ current \in Int
  BY TextTyped DEF Place
<1>2. Heads \subseteq Words /\ \A h : Behind(h) \subseteq Words
  BY <1>1, Positions
<1>3. Words \subseteq Nat
  BY <1>1, Positions
<1>4. /\ HeadOrder \in Seq(Nat) /\ Len(HeadOrder) \in Nat
      /\ \A k \in 1 .. Len(HeadOrder) : HeadOrder[k] \in Heads
      /\ \A i \in Heads : \E k \in 1 .. Len(HeadOrder) : HeadOrder[k] = i
      /\ \A k, m \in 1 .. Len(HeadOrder) : k < m => HeadOrder[k] < HeadOrder[m]
  BY <1>1, <1>2, WordsInOrder DEF HeadOrder
<1>5. ASSUME NEW h \in Words
      PROVE  /\ ArgOrder(h) \in Seq(Nat) /\ Len(ArgOrder(h)) \in Nat
             /\ \A k \in 1 .. Len(ArgOrder(h)) : ArgOrder(h)[k] \in Behind(h)
             /\ \A i \in Behind(h) : \E k \in 1 .. Len(ArgOrder(h)) : ArgOrder(h)[k] = i
             /\ \A k, m \in 1 .. Len(ArgOrder(h)) : k < m => ArgOrder(h)[k] < ArgOrder(h)[m]
  BY <1>1, <1>2, WordsInOrder DEF ArgOrder
<1>6. Len(program) \in 0 .. Len(HeadOrder)
  BY DEF OperationsRead, Prefix
<1>7. ASSUME NEW k \in 1 .. Len(program)
      PROVE  k \in 1 .. Len(HeadOrder) /\ HeadOrder[k] < Reached
  <2>1. k \in 1 .. Len(HeadOrder) /\ k <= Len(program)
    BY <1>4, <1>6
  <2> QED  BY <2>1 DEF OperationsRead, Prefix
<1>8. Reached \in Int
  BY <1>1 DEF Reached
<1> QED  BY <1>2, <1>3, <1>4, <1>5, <1>6, <1>7, <1>8

(* No word lies between e and f but the one at e: words that are none of   *)
(* S stay outside.                                                         *)
LEMMA OthersMove ==
  ASSUME Place, OperationsRead, Counted, NEW h \in Words, NEW c, NEW f \in Int, Reached <= f,
         Prefix(ArgOrder(h), c, Reached),
         \A j \in Behind(h) : ~ (Reached <= j /\ j < f)
  PROVE  Prefix(ArgOrder(h), c, f)
<1>1. /\ ArgOrder(h) \in Seq(Nat) /\ Reached \in Int
      /\ \A k \in 1 .. Len(ArgOrder(h)) : ArgOrder(h)[k] \in Behind(h)
  BY HeadsInOrder
<1>2. \A k \in 1 .. Len(ArgOrder(h)) : ~ (Reached <= ArgOrder(h)[k] /\ ArgOrder(h)[k] < f)
  BY <1>1
<1> QED  BY <1>1, <1>2, PrefixMoves

(* Where no word is come to, nothing is read. *)
LEMMA NothingRead ==
  ASSUME Place, OperationsRead, Counted, NEW f \in Int, Reached <= f,
         \A j \in Words : ~ (Reached <= j /\ j < f)
  PROVE  /\ Prefix(HeadOrder, Len(program), f)
         /\ \A k \in 1 .. Len(program) :
               \E c : /\ Prefix(ArgOrder(HeadOrder[k]), c, f)
                      /\ Given(program[k], HeadOrder[k], c)
         /\ in_instruction /\ Len(program) # 0 =>
               Prefix(ArgOrder(HeadOrder[Len(program)]), nb_args, f)
<1>1. Prefix(HeadOrder, Len(program), f)
  <2>1. \A k \in 1 .. Len(HeadOrder) : ~ (Reached <= HeadOrder[k] /\ HeadOrder[k] < f)
    BY HeadsInOrder
  <2>2. HeadOrder \in Seq(Nat) /\ Reached \in Int
    BY HeadsInOrder
  <2>3. Prefix(HeadOrder, Len(program), Reached)
    BY DEF OperationsRead
  <2> QED  BY <2>1, <2>2, <2>3, PrefixMoves
<1>2. ASSUME NEW h \in Words, NEW c, Prefix(ArgOrder(h), c, Reached)
      PROVE  Prefix(ArgOrder(h), c, f)
  <2>1. \A j \in Behind(h) : ~ (Reached <= j /\ j < f)
    BY HeadsInOrder
  <2> QED  BY <1>2, <2>1, OthersMove
<1>3. \A k \in 1 .. Len(program) : HeadOrder[k] \in Words
  BY HeadsInOrder
<1>4. in_instruction /\ Len(program) # 0 =>
         Prefix(ArgOrder(HeadOrder[Len(program)]), nb_args, f)
  <2>1. Len(program) # 0 => Len(program) \in 1 .. Len(program)
    BY DEF Counted
  <2> QED  BY <1>2, <1>3, <2>1 DEF OperationsRead
<1> QED  BY <1>1, <1>2, <1>3, <1>4 DEF OperationsRead

(* A word that begins a line is read as its operation. *)
LEMMA InstructionRead ==
  ASSUME Place, Line, OperationsRead, Counted, buffer # End, current - 1 \in Words,
         ParseInstruction, NEW f \in Int, current - 1 < f,
         \A j \in Words : current - 1 <= j /\ j < f => j = current - 1
  PROVE  /\ Len(program') = Len(program) + 1
         /\ Prefix(HeadOrder, Len(program) + 1, f)
         /\ HeadOrder[Len(program) + 1] = current - 1
         /\ \A k \in 1 .. Len(program) + 1 :
               \E c : /\ Prefix(ArgOrder(HeadOrder[k]), c, f)
                      /\ Given(program'[k], HeadOrder[k], c)
         /\ Prefix(ArgOrder(current - 1), 0, f)
<1> DEFINE n == Len(program)
           x == current - 1
<1>1. Reached = x /\ x \in Nat /\ x < f /\ x <= f /\ n \in Nat
  BY TokenIsWord DEF Counted
<1>2. ~\E j \in Words : j < x /\ SameLine(j, x)
  BY TokenIsWord DEF Line, ParseInstruction
<1>3. x \in Heads
  BY <1>2 DEF Heads
<1>4. \A j \in Words : x <= j /\ j < f => j = x
  OBVIOUS
<1>5. x \in Words
  OBVIOUS
<1> HIDE DEF x
<1>6. Prefix(HeadOrder, n + 1, f) /\ HeadOrder[n + 1] = x /\ n + 1 \in 1 .. Len(HeadOrder)
  <2>1. Prefix(HeadOrder, n, x)
    BY <1>1 DEF OperationsRead
  <2>2. /\ HeadOrder \in Seq(Nat)
        /\ \A k, m \in 1 .. Len(HeadOrder) : k < m => HeadOrder[k] < HeadOrder[m]
        /\ \E k \in 1 .. Len(HeadOrder) : HeadOrder[k] = x
        /\ \A k \in 1 .. Len(HeadOrder) : x <= HeadOrder[k] /\ HeadOrder[k] < f => HeadOrder[k] = x
    BY <1>3, <1>4, HeadsInOrder
  <2> QED  BY <1>1, <2>1, <2>2, PrefixTakes
<1>7. /\ program' = Append(program, NewOperation(buffer)) /\ buffer \in Mnemonics
      /\ program \in Seq(Operations)
  BY DEF ParseInstruction, Counted
<1>8. /\ Len(program') = n + 1 /\ program'[n + 1] = NewOperation(buffer)
      /\ \A k \in 1 .. n : program'[k] = program[k]
  BY <1>7
<1>9. ASSUME NEW k \in 1 .. n
      PROVE  \E c : /\ Prefix(ArgOrder(HeadOrder[k]), c, f)
                    /\ Given(program'[k], HeadOrder[k], c)
  <2> DEFINE h == HeadOrder[k]
  <2>1. h \in Words /\ h < x
    BY <1>1, HeadsInOrder
  <2>2. PICK c : Prefix(ArgOrder(h), c, Reached) /\ Given(program[k], h, c)
    BY DEF OperationsRead
  <2> HIDE DEF h
  <2>3. \A j \in Behind(h) : ~ (Reached <= j /\ j < f)
    <3>1. x \notin Behind(h)
      BY <1>2, <2>1 DEF Behind
    <3> QED  BY <1>1, <1>4, <2>1, <3>1, HeadsInOrder
  <2>4. Prefix(ArgOrder(h), c, f)
    BY <1>1, <2>1, <2>2, <2>3, OthersMove
  <2> QED  BY <1>8, <2>2, <2>4 DEF h
<1>10. Prefix(ArgOrder(x), 0, f)
  <2>1. Len(ArgOrder(x)) \in Nat /\ \A k \in 1 .. Len(ArgOrder(x)) : ArgOrder(x)[k] \in Behind(x)
    BY <1>5, HeadsInOrder
  <2>2. \A j \in Behind(x) : ~ (j < f)
    <3>1. \A j \in Behind(x) : j \in Words /\ j \in Nat /\ j > x
      BY <1>5, HeadsInOrder DEF Behind
    <3>2. \A j \in Behind(x) : x <= j /\ j # x
      BY <1>1, <3>1
    <3> QED  BY <1>4, <3>1, <3>2
  <2> QED  BY <2>1, <2>2 DEF Prefix
<1>11. Given(NewOperation(buffer), x, 0)
  <2>1. NewOperation(buffer).name = buffer /\ NewOperation(buffer).size = SizeOf(buffer)
    BY DEF NewOperation
  <2>2. SizeOf(buffer) # "inst_jmp"
    BY <1>7, FamilyTable
  <2>3. buffer = text[x]
    BY TokenIsWord DEF x
  <2>4. 1 .. 0 = {}
    OBVIOUS
  <2> QED  BY <2>1, <2>2, <2>3, <2>4 DEF Given
<1>12. ASSUME NEW k \in 1 .. n + 1
       PROVE  \E c : /\ Prefix(ArgOrder(HeadOrder[k]), c, f)
                     /\ Given(program'[k], HeadOrder[k], c)
  <2>1. CASE k \in 1 .. n
    BY <1>9, <2>1
  <2>2. CASE k \notin 1 .. n
    <3>1. k = n + 1
      BY <1>1, <2>2
    <3> QED  BY <1>6, <1>8, <1>10, <1>11, <3>1
  <2> QED  BY <2>1, <2>2
<1> QED  BY <1>6, <1>8, <1>10, <1>12 DEF x

(* Another word of the line is read as the next argument of its operation. *)
LEMMA ArgumentRead ==
  ASSUME Place, Line, OperationsRead, Counted, buffer # End, current - 1 \in Words,
         ParseArg, nb_args \in Nat, buffer \in Labels, NEW f \in Int, current - 1 < f,
         \A j \in Words : current - 1 <= j /\ j < f => j = current - 1
  PROVE  /\ Len(program') = Len(program) /\ Len(program) # 0
         /\ Prefix(HeadOrder, Len(program), f)
         /\ SameLine(HeadOrder[Len(program)], current - 1)
         /\ \A k \in 1 .. Len(program) :
               \E c : /\ Prefix(ArgOrder(HeadOrder[k]), c, f)
                      /\ Given(program'[k], HeadOrder[k], c)
         /\ Prefix(ArgOrder(HeadOrder[Len(program)]), nb_args + 1, f)
<1> DEFINE n == Len(program)
           x == current - 1
           h == HeadOrder[n]
<1>1. Reached = x /\ x \in Nat /\ x < f /\ x <= f /\ n \in Nat /\ n # 0 /\ n \in 1 .. n
  BY TokenIsWord DEF Counted, Line, ParseArg
<1>2. SameLine(h, x) /\ h \in Words /\ h \in Heads /\ h < x /\ h \in Nat
  BY <1>1, TokenIsWord, HeadsInOrder DEF Line, ParseArg
<1>3. (\A j \in Words : x <= j /\ j < f => j = x) /\ x \in Words /\ text[x] = buffer
  BY TokenIsWord
<1> HIDE DEF x, h
<1>4. x \in Behind(h) /\ x \notin Heads
  BY <1>1, <1>2, <1>3 DEF Behind, Heads
<1>5. Prefix(HeadOrder, n, f)
  <2>1. Prefix(HeadOrder, n, x) /\ HeadOrder \in Seq(Nat)
    BY <1>1, HeadsInOrder DEF OperationsRead
  <2>2. \A k \in 1 .. Len(HeadOrder) : ~ (x <= HeadOrder[k] /\ HeadOrder[k] < f)
    BY <1>3, <1>4, HeadsInOrder
  <2> QED  BY <1>1, <2>1, <2>2, PrefixMoves
<1>6. Prefix(ArgOrder(h), nb_args, x)
  BY <1>1 DEF OperationsRead, ParseArg, h
<1>7. /\ Prefix(ArgOrder(h), nb_args + 1, f)
      /\ nb_args + 1 \in 1 .. Len(ArgOrder(h)) /\ ArgOrder(h)[nb_args + 1] = x
  <2>1. /\ ArgOrder(h) \in Seq(Nat)
        /\ \A k, m \in 1 .. Len(ArgOrder(h)) : k < m => ArgOrder(h)[k] < ArgOrder(h)[m]
        /\ \E k \in 1 .. Len(ArgOrder(h)) : ArgOrder(h)[k] = x
        /\ \A k \in 1 .. Len(ArgOrder(h)) : ArgOrder(h)[k] \in Words
    BY <1>2, <1>4, HeadsInOrder
  <2>2. \A k \in 1 .. Len(ArgOrder(h)) :
           x <= ArgOrder(h)[k] /\ ArgOrder(h)[k] < f => ArgOrder(h)[k] = x
    BY <1>3, <2>1
  <2> QED  BY <1>1, <1>6, <2>1, <2>2, PrefixTakes
<1>8. /\ program' = [program EXCEPT ![n] = WithArg(@, nb_args, buffer)]
      /\ program \in Seq(Operations) /\ Accepts(program[n], nb_args, buffer)
  BY DEF ParseArg, Counted, Operation
<1>9. /\ Len(program') = n /\ program'[n] = WithArg(program[n], nb_args, buffer)
      /\ program[n] \in Operations
      /\ \A k \in 1 .. n : k # n => program'[k] = program[k]
  BY <1>1, <1>8
<1>10. Given(program'[n], h, nb_args + 1)
  <2>1. PICK c : Prefix(ArgOrder(h), c, x) /\ Given(program[n], h, c)
    BY <1>1 DEF OperationsRead, h
  <2>2. c = nb_args
    BY <1>2, <1>6, <2>1, PrefixOnce, HeadsInOrder
  <2>3. ArgWord(h, nb_args + 1) = buffer
    BY <1>3, <1>7 DEF ArgWord
  <2> QED  BY <1>8, <1>9, <2>1, <2>2, <2>3, GivenMore
<1>11. ASSUME NEW k \in 1 .. n, k # n
       PROVE  \E c : /\ Prefix(ArgOrder(HeadOrder[k]), c, f)
                     /\ Given(program'[k], HeadOrder[k], c)
  <2> DEFINE g == HeadOrder[k]
  <2>1. g \in Words /\ g < h /\ g \in Nat
    <3>1. k < n /\ k \in 1 .. Len(HeadOrder) /\ n \in 1 .. Len(HeadOrder)
      BY <1>1, <1>11, HeadsInOrder
    <3> QED  BY <3>1, HeadsInOrder DEF h
  <2>2. PICK c : Prefix(ArgOrder(g), c, Reached) /\ Given(program[k], g, c)
    BY DEF OperationsRead
  <2> HIDE DEF g
  <2>3. \A j \in Behind(g) : ~ (Reached <= j /\ j < f)
    <3>1. ASSUME SameLine(g, x) PROVE FALSE
      <4>1. g \in Int /\ h \in Int /\ x \in Int /\ g <= h /\ h <= x
        BY <1>1, <1>2, <2>1
      <4>2. SameLine(g, h)
        BY <3>1, <4>1, SameLineParts
      <4> QED  BY <1>2, <2>1, <4>2 DEF Heads
    <3>2. x \notin Behind(g)
      BY <3>1 DEF Behind
    <3> QED  BY <1>1, <1>3, <2>1, <3>2, HeadsInOrder
  <2>4. Prefix(ArgOrder(g), c, f)
    BY <1>1, <2>1, <2>2, <2>3, OthersMove
  <2> QED  BY <1>9, <1>11, <2>2, <2>4 DEF g
<1>12. \A k \in 1 .. n : \E c : /\ Prefix(ArgOrder(HeadOrder[k]), c, f)
                                /\ Given(program'[k], HeadOrder[k], c)
  BY <1>7, <1>10, <1>11 DEF h
<1> QED  BY <1>1, <1>2, <1>5, <1>7, <1>9, <1>12 DEF x, h

-----------------------------------------------------------------------------
(* The table of labels. *)

LEMMA HoldsAdded ==
  ASSUME Chains, NEW l \in Labels, NEW a \in Addrs, AddLabel(l, a)
  PROVE  /\ \A k \in Labels : \A b : Holds(k, b)' <=> Holds(k, b) \/ (k = l /\ b = a)
         /\ ~\E b : Holds(l, b)
<1> DEFINE g == hash_label[l]
           old == hash_map[g]
           new == hash_map'[g]
<1>1. /\ g \in Buckets
      /\ old \in Seq(Entry) /\ Len(old) \in Nat
      /\ DOMAIN old = 1 .. Len(old)
      /\ \A b \in Buckets \ {g} : hash_map'[b] = hash_map[b]
      /\ DOMAIN new = 1 .. Len(old) + 1
      /\ \A i \in 1 .. Len(old) : new[i] = old[i] /\ new[i].label # l
      /\ new[Len(old) + 1] = [label |-> l, addr |-> a]
  BY AddLabelStep
<1>2. Chain(l) = old /\ Chain(l)' = new
  BY DEF Chain
<1>3. \A b : ~ Holds(l, b)
  <2>1. \A i \in DOMAIN old : old[i].label # l
    BY <1>1
  <2> HIDE DEF old, new
  <2> QED  BY <1>2, <2>1 DEF Holds
<1>4. ASSUME NEW k \in Labels, NEW b
      PROVE  Holds(k, b)' <=> Holds(k, b) \/ (k = l /\ b = a)
  <2>1. CASE hash_label[k] = g
    <3>1. Chain(k) = old /\ Chain(k)' = new
      BY <2>1 DEF Chain
    <3>2. \A i \in DOMAIN new : i \in DOMAIN old \/ i = Len(old) + 1
      BY <1>1
    <3>3. Len(old) + 1 \in DOMAIN new /\ \A i \in DOMAIN old : i \in DOMAIN new /\ new[i] = old[i]
      BY <1>1
    <3>4. new[Len(old) + 1] = [label |-> l, addr |-> a]
      BY <1>1
    <3>5. [label |-> k, addr |-> b] = [label |-> l, addr |-> a] <=> k = l /\ b = a
      <4>1. /\ [label |-> k, addr |-> b].label = k /\ [label |-> k, addr |-> b].addr = b
            /\ [label |-> l, addr |-> a].label = l /\ [label |-> l, addr |-> a].addr = a
        OBVIOUS
      <4> QED  BY <4>1
    <3> HIDE DEF old, new
    <3> QED  BY <3>1, <3>2, <3>3, <3>4, <3>5 DEF Holds
  <2>2. CASE hash_label[k] # g
    <3>1. Chain(k)' = Chain(k)
      BY <1>1, <2>2, TableAssumption DEF Chain
    <3> QED  BY <2>2, <3>1 DEF Holds
  <2> QED  BY <2>1, <2>2
<1> QED  BY <1>3, <1>4

LEMMA HoldsKept ==
  ASSUME hash_map' = hash_map
  PROVE  \A l, a : Holds(l, a)' = Holds(l, a)
  BY DEF Holds, Chain

LEMMA DuplicateHeld ==
  ASSUME Chains, NEW l \in Labels
  PROVE  /\ Duplicate(Chain(l), l) <=> \E a : Holds(l, a)
         /\ \A i \in DOMAIN Chain(l) : IsFirst(Chain(l), l, i) => Holds(l, Chain(l)[i].addr)
<1>1. Chain(l) \in Seq(Entry)
  BY TableAssumption DEF Chains, Chain
<1>2. \A i \in DOMAIN Chain(l) :
         Chain(l)[i].label = l => Chain(l)[i] = [label |-> l, addr |-> Chain(l)[i].addr]
  <2>1. \A i \in DOMAIN Chain(l) : Chain(l)[i] \in Entry
    BY <1>1
  <2> QED  BY <2>1 DEF Entry
<1>3. ASSUME NEW i \in DOMAIN Chain(l), NEW a, Chain(l)[i] = [label |-> l, addr |-> a]
      PROVE  Chain(l)[i].label = l
  BY <1>3
<1> QED  BY <1>2, <1>3 DEF Duplicate, Places, Holds, IsFirst

(* What a lookup tells. *)
LEMMA LookupTells ==
  ASSUME Chains, NEW l \in Labels, Lookup(l)
  PROVE  /\ hash_map' = hash_map
         /\ status' = "running" => Holds(l, found')
         /\ status' = "failed" => ~\E a : Holds(l, a)
<1>1. status = "running" /\ hash_map' = hash_map
  BY DEF Lookup
<1>2. CASE \E i \in DOMAIN Chain(l) :
              IsFirst(Chain(l), l, i) /\ found' = Chain(l)[i].addr /\ status' = status
  BY <1>1, <1>2, DuplicateHeld
<1>3. CASE Places(Chain(l), l) = {} /\ status' = "failed"
  BY <1>1, <1>3, DuplicateHeld DEF Duplicate
<1> QED  BY <1>1, <1>2, <1>3 DEF Lookup

(* Operations already counted begin where they began. *)
LEMMA StartsStay ==
  ASSUME Counted, HandOver
  PROVE  /\ \A i \in 1 .. Len(program) + 1 : StartOf(i)' = StartOf(i)
         /\ Len(program') \in Nat /\ Len(program) <= Len(program')
<1>1. /\ program \in Seq(Operations) /\ starts \in Seq(Nat) /\ instruction_addr \in Nat
      /\ Len(program) \in Nat /\ Len(starts) = Len(program)
  BY DEF Counted
<1>2. CASE ParseInstruction
  <2>1. starts' = Append(starts, instruction_addr) /\ program' = Append(program, NewOperation(buffer))
    BY <1>2 DEF ParseInstruction
  <2>2. /\ Len(starts') = Len(starts) + 1 /\ starts'[Len(starts) + 1] = instruction_addr
        /\ \A i \in 1 .. Len(starts) : starts'[i] = starts[i]
        /\ Len(program') = Len(program) + 1
    BY <1>1, <2>1
  <2> QED  BY <1>1, <2>2 DEF StartOf
<1>3. CASE ParseArg
  <2>1. starts' = starts /\ instruction_addr' = instruction_addr
    BY <1>3 DEF ParseArg
  <2>2. Len(program') = Len(program)
    BY <1>1, <1>3 DEF ParseArg
  <2>3. \A i : StartOf(i)' = StartOf(i)
    BY <2>1 DEF StartOf
  <2> QED  BY <1>1, <2>2, <2>3
<1>4. CASE UNCHANGED programVars
  <2>1. starts' = starts /\ instruction_addr' = instruction_addr /\ program' = program
    BY <1>4 DEF programVars
  <2>2. \A i : StartOf(i)' = StartOf(i)
    BY <2>1 DEF StartOf
  <2> QED  BY <1>1, <2>1, <2>2
<1> QED  BY <1>2, <1>3, <1>4 DEF HandOver

(* Labels stay what they are while no colon is passed. *)
LEMMA LabelsStay ==
  ASSUME LabelsRead, text' = text, hash_map' = hash_map, UNCHANGED entryVars,
         \A i \in Colons : i < current' <=> i < current,
         Len(program) \in Nat, Len(program') \in Nat, Len(program) <= Len(program'),
         \A i \in 1 .. Len(program) + 1 : StartOf(i)' = StartOf(i)
  PROVE  LabelsRead'
<1>1. Known' = Known
  BY SameText DEF Known
<1>2. ASSUME NEW i \in Known
      PROVE  /\ BeforeOf(i)' = BeforeOf(i) /\ BeforeOf(i) \in 0 .. Len(program)
             /\ BeforeOf(i) \in 0 .. Len(program')
             /\ \A a : Stands(i, a)' <=> Stands(i, a)
  <2>1. BeforeOf(i)' = BeforeOf(i) /\ BeforeOf(i) \in 0 .. Len(program)
    BY SameText DEF LabelsRead
  <2>2. BeforeOf(i) + 1 \in 1 .. Len(program) + 1 /\ BeforeOf(i) \in 0 .. Len(program')
    BY <2>1
  <2>3. \A b : b = BeforeOf(i) + 1 => StartOf(b)' = StartOf(b)
    BY <2>2
  <2>4. \A a : Stands(i, a)' <=> Stands(i, a)
    BY <2>1, <2>3 DEF Stands
  <2> QED  BY <2>1, <2>2, <2>4
<1>3. \A l, a : Holds(l, a)' = Holds(l, a)
  BY HoldsKept
<1>4. /\ \A i : LabelOf(i)' = LabelOf(i)
      /\ found_entry' = found_entry /\ entry_point' = entry_point
  BY SameText DEF entryVars
<1>5. \A l \in Labels : \A a :
         Holds(l, a)' <=> \E i \in Known' : LabelOf(i)' = l /\ Stands(i, a)'
  BY <1>1, <1>2, <1>3, <1>4 DEF LabelsRead
<1>6. /\ \A i \in Known' : BeforeOf(i)' \in 0 .. Len(program')
      /\ \A i, j \in Known' : LabelOf(i)' = LabelOf(j)' => i = j
      /\ found_entry' <=> \E i \in Known' : LabelOf(i)' = "ENTRY"
  BY <1>1, <1>2, <1>4 DEF LabelsRead
<1>7. found_entry' => \E i \in Known' : LabelOf(i)' = "ENTRY" /\ Stands(i, entry_point)'
  BY <1>1, <1>2, <1>4 DEF LabelsRead
<1> QED  BY <1>5, <1>6, <1>7 DEF LabelsRead

-----------------------------------------------------------------------------
(* One lexeme further. *)

LEMMA PlaceMoves ==
  ASSUME Place, text' = text, current \in DOMAIN text, text[current] # Hash,
         current' = current + 1, text[current] \notin FullTokens \cup LongTokens,
         \/ buffer' = End /\ text[current] \notin Tokens
         \/ buffer' = text[current] /\ buffer' \in Tokens
  PROVE  Place'
<1>1. /\ current \in 1 .. Len(text) /\ Len(text) \in Nat /\ current' \in 1 .. Len(text) + 1
      /\ current' - 1 = current /\ text \in Texts
  BY TextTyped DEF Place
<1>2. /\ current \in CodeAt
      /\ ~\E h \in 1 .. current : text[h] = Hash /\ SameLine(h, current)
  BY CodeGoesOn
<1>3. CodeAt' = CodeAt /\ \A i, j : SameLine(i, j)' = SameLine(i, j)
  BY SameText
<1>4. \A i \in CodeAt : i < current' => text[i] \notin FullTokens \cup LongTokens
  <2>1. \A i \in CodeAt : i < current' => i < current \/ i = current
    BY <1>1, Positions
  <2> QED  BY <2>1 DEF Place
<1>5. ~\E h \in 1 .. current' - 1 : text[h] = Hash /\ SameLine(h, current' - 1)
  BY <1>1, <1>2
<1>6. buffer' # End => /\ current' - 1 \in CodeAt
                       /\ text[current' - 1] = buffer' /\ buffer' \in Tokens
  BY <1>1, <1>2
<1>7. buffer' = End => text[current' - 1] \notin Tokens
  BY <1>1, TextAssumption
<1> QED  BY <1>1, <1>3, <1>4, <1>5, <1>6, <1>7 DEF Place

LEMMA OperationsMove ==
  ASSUME text' = text, Prefix(HeadOrder, Len(program'), Reached'),
         \A k \in 1 .. Len(program') :
            \E c : /\ Prefix(ArgOrder(HeadOrder[k]), c, Reached')
                   /\ Given(program'[k], HeadOrder[k], c),
         in_instruction' => Prefix(ArgOrder(HeadOrder[Len(program')]), nb_args', Reached')
  PROVE  OperationsRead'
<1>1. HeadOrder' = HeadOrder /\ \A i : ArgOrder(i)' = ArgOrder(i)
  BY SameText
<1>2. \A o, i, c : Given(o, i, c)' = Given(o, i, c)
  BY SameText
<1>3. ASSUME NEW k \in 1 .. Len(program')
      PROVE  \E c : /\ Prefix(ArgOrder(HeadOrder[k])', c, Reached')
                    /\ (Given(program[k], HeadOrder[k], c))'
  <2>1. PICK c : Prefix(ArgOrder(HeadOrder[k]), c, Reached') /\ Given(program'[k], HeadOrder[k], c)
    OBVIOUS
  <2>2. \A h : h = HeadOrder[k] => ArgOrder(h)' = ArgOrder(h)
    BY <1>1
  <2>3. ArgOrder(HeadOrder[k])' = ArgOrder(HeadOrder[k])
    BY <1>1, <2>2
  <2>4. (Given(program[k], HeadOrder[k], c))'
    BY <1>1, <1>2, <2>1
  <2> QED  BY <2>1, <2>3, <2>4
<1>4. in_instruction' => Prefix(ArgOrder(HeadOrder[Len(program)])', nb_args', Reached')
  BY <1>1
<1>5. Prefix(HeadOrder', Len(program'), Reached')
  BY <1>1
<1> QED  BY <1>3, <1>4, <1>5 DEF OperationsRead

LEMMA LineMoves ==
  ASSUME Place, Line, OperationsRead, Counted, text' = text, current \in DOMAIN text,
         text[current] # Newline, current' = current + 1,
         in_instruction' = in_instruction, program' = program,
         \A j \in Words : j < Reached' => j < Reached
  PROVE  Line'
<1>1. /\ current \in 1 .. Len(text) /\ Len(text) \in Nat /\ current' - 1 = current
      /\ current \in Int /\ current <= current /\ Reached <= current
  BY TextTyped DEF Place, Reached
<1>2. ASSUME NEW j \in Words, j < Reached PROVE SameLine(j, current) <=> SameLine(j, current - 1)
  <2>1. j \in Int /\ j <= current - 1 /\ j <= current
    <3>1. j \in Nat /\ Reached \in Int
      BY HeadsInOrder
    <3> QED  BY <1>1, <1>2, <3>1
  <2> QED  BY <1>1, <2>1, SameLineParts
<1>3. Words' = Words /\ HeadOrder' = HeadOrder /\ \A i, j : SameLine(i, j)' = SameLine(i, j)
  BY SameText
<1>4. in_instruction' => SameLine(HeadOrder[Len(program)], current)
  <2>1. in_instruction => Len(program) \in 1 .. Len(program)
    BY DEF Line, Counted
  <2>2. in_instruction => HeadOrder[Len(program)] \in Words /\ HeadOrder[Len(program)] < Reached
    BY <2>1, HeadsInOrder
  <2> QED  BY <1>2, <2>2 DEF Line, Live
<1>5. ~in_instruction' => ~\E j \in Words : j < Reached' /\ SameLine(j, current)
  BY <1>2 DEF Line, Live
<1>6. in_instruction' => (SameLine(HeadOrder[Len(program)], current - 1))'
  BY <1>1, <1>3, <1>4 DEF SameLine
<1>7. ~in_instruction' => ~\E j \in Words' : j < Reached' /\ (SameLine(j, current - 1))'
  BY <1>1, <1>3, <1>5 DEF SameLine
<1> QED  BY <1>3, <1>6, <1>7 DEF Line

(* What a lexeme is. *)
LEMMA LexemeIs ==
  ASSUME text \in Texts, current \in 1 .. Len(text) + 1
  PROVE  /\ Lexeme # End => current \in DOMAIN text /\ Lexeme = text[current]
         /\ Lexeme = End => current = Len(text) + 1 /\ current \notin DOMAIN text
<1>1. /\ DOMAIN text = 1 .. Len(text) /\ Len(text) \in Nat
      /\ \A i \in 1 .. Len(text) : text[i] \in Tokens \cup Separators
  BY TextTyped
<1>2. End \notin Tokens \cup Separators
  BY TextAssumption DEF Separators, End, Blank, Newline, Colon, Hash
<1> QED  BY <1>1, <1>2 DEF Lexeme

(* While lexemes are read nothing is rendered and nothing refused. *)
LEMMA ScanOnly ==
  ASSUME Inv, phase = "scan", status' = "running", written' = written,
         phase' \in {"scan", "entry"},
         phase' = "entry" => current' = Len(text') + 1 /\ buffer' = End
  PROVE  OperationsPut' /\ Phases' /\ Refusals'
<1>1. Len(written) = 0
  BY DEF Inv, Filed
<1>2. OperationsPut'
  BY <1>1 DEF OperationsPut
<1>3. Phases'
  BY DEF Phases
<1>4. Refusals'
  BY DEF Refusals
<1> QED  BY <1>2, <1>3, <1>4

(* A token goes into the empty buffer.                                     *)
LEMMA TokenRead == ASSUME Inv, ReadSoFar, Token PROVE ReadSoFar'
<1>1. /\ Place /\ Line /\ OperationsRead /\ LabelsRead /\ Counted
  BY DEF Inv, ReadSoFar
<1>2. /\ status = "running" /\ phase = "scan" /\ Lexeme \in Tokens \ (FullTokens \cup LongTokens)
      /\ buffer' = Lexeme /\ current' = current + 1 /\ text' = text
      /\ UNCHANGED <<phase, lineVars, programVars, entryVars, fileVars, table>>
  BY DEF Token, Reads
<1>3. /\ in_instruction' = in_instruction /\ nb_args' = nb_args /\ program' = program
      /\ starts' = starts /\ instruction_addr' = instruction_addr
      /\ written' = written /\ hash_map' = hash_map /\ status' = status /\ phase' = phase
  BY <1>2 DEF lineVars, programVars, fileVars, table
<1>4. /\ current \in DOMAIN text /\ text[current] = Lexeme /\ current \in 1 .. Len(text)
      /\ text \in Texts /\ Len(text) \in Nat
      /\ text[current] # Hash /\ text[current] # Newline /\ text[current] # Colon
      /\ Lexeme \in Tokens /\ Lexeme # End
  <2>1. Lexeme # End /\ Lexeme \in Tokens
    BY <1>2, TextAssumption
  <2>2. current \in DOMAIN text /\ text[current] = Lexeme
    BY <1>1, <2>1, LexemeIs DEF Place
  <2> QED  BY <1>1, <2>1, <2>2, TextTyped, TextAssumption DEF Place, Separators
<1>5. buffer = End
  <2>1. ASSUME buffer # End PROVE FALSE
    <3>1. text[current - 1] \in Tokens /\ current - 1 \in CodeAt
      BY <1>1, <2>1 DEF Place
    <3>2. current - 1 \in 1 .. Len(text) - 1 /\ current - 1 + 1 = current
      BY <1>4, <3>1, Positions
    <3> QED  BY <1>4, <3>1, <3>2, TextTyped
  <2> QED  BY <2>1
<1>6. Reached' = Reached /\ Reached = current
  BY <1>2, <1>4, <1>5 DEF Reached
<1>7. Place'
  BY <1>1, <1>2, <1>4, PlaceMoves
<1>8. Line'
  BY <1>1, <1>2, <1>3, <1>4, <1>6, LineMoves
<1>9. OperationsRead'
  BY <1>1, <1>2, <1>3, <1>6, OperationsMove DEF OperationsRead
<1>10. LabelsRead'
  <2>1. \A i \in Colons : i < current' <=> i < current
    <3>1. Colons \subseteq Nat /\ current \notin Colons
      BY <1>4, Positions DEF Colons
    <3> QED  BY <1>2, <1>4, <3>1
  <2>2. \A i : StartOf(i)' = StartOf(i)
    BY <1>3 DEF StartOf
  <2>3. Len(program) \in Nat /\ Len(program') \in Nat /\ Len(program) <= Len(program')
    BY <1>1, <1>3 DEF Counted
  <2> QED  BY <1>1, <1>2, <1>3, <2>1, <2>2, <2>3, LabelsStay
<1>11. OperationsPut' /\ Phases' /\ Refusals'
  BY <1>2, <1>3, ScanOnly
<1> QED  BY <1>7, <1>8, <1>9, <1>10, <1>11 DEF ReadSoFar

(* Handing a token over at a separator reads it. *)
LEMMA HandedRead ==
  ASSUME Inv, ReadSoFar, HandOver, text' = text, Lexeme # Colon, Lexeme \notin Tokens,
         buffer' = End, current' \in {current, current + 1}, UNCHANGED <<entryVars, table>>,
         in_instruction' => \/ buffer = End /\ in_instruction /\ nb_args' = nb_args
                            \/ buffer # End /\ nb_args' = IF in_instruction THEN nb_args + 1 ELSE 0
  PROVE  /\ OperationsRead' /\ LabelsRead'
         /\ buffer = End => program' = program
         /\ buffer # End => SameLine(HeadOrder[Len(program')], current - 1)
<1>1. /\ Place /\ Line /\ OperationsRead /\ LabelsRead /\ Counted /\ LineTyped
      /\ Len(program) \in Nat /\ nb_args \in Nat /\ buffer \in Labels
  BY DEF Inv, ReadSoFar, LineTyped, Counted
<1>2. /\ text \in Texts /\ current \in 1 .. Len(text) + 1 /\ Len(text) \in Nat
      /\ DOMAIN text = 1 .. Len(text)
      /\ Words \subseteq Nat /\ Colons \subseteq Nat /\ Words \subseteq DOMAIN text
      /\ Colons \subseteq DOMAIN text
  BY <1>1, TextTyped, Positions DEF Place
<1>3. current \notin Colons /\ current \notin Words
  BY <1>2, WordsAreTokens DEF Lexeme, Colons
<1>4. Reached' = current' /\ current' \in Nat /\ current <= current' /\ current - 1 < current'
  BY <1>2 DEF Reached
<1>5. \A j \in Words : ~ (current <= j /\ j < current')
  <2>1. \A j \in Words : current <= j /\ j < current' => j = current
    BY <1>2
  <2> QED  BY <1>3, <2>1
<1>6. LabelsRead'
  <2>1. \A i \in Colons : i < current' <=> i < current
    <3>1. \A i \in Colons : i # current
      BY <1>3
    <3> QED  BY <1>2, <3>1
  <2>2. hash_map' = hash_map /\ UNCHANGED entryVars
    BY DEF table
  <2> QED  BY <1>1, <2>1, <2>2, StartsStay, LabelsStay
<1>7. CASE buffer = End
  <2>1. program' = program
    BY <1>7, TextAssumption DEF HandOver, programVars, ParseInstruction, ParseArg,
       Accepts
  <2>2. Reached = current
    BY <1>7 DEF Reached
  <2>3. /\ Prefix(HeadOrder, Len(program), current')
        /\ \A k \in 1 .. Len(program) :
              \E c : /\ Prefix(ArgOrder(HeadOrder[k]), c, current')
                     /\ Given(program[k], HeadOrder[k], c)
        /\ in_instruction /\ Len(program) # 0 =>
              Prefix(ArgOrder(HeadOrder[Len(program)]), nb_args, current')
    BY <1>1, <1>4, <1>5, <2>2, NothingRead
  <2>4. in_instruction' => /\ in_instruction /\ Len(program) # 0 /\ nb_args' = nb_args
    BY <1>1, <1>7 DEF Line
  <2>5. OperationsRead'
    BY <1>4, <2>1, <2>3, <2>4, OperationsMove
  <2> QED  BY <1>6, <1>7, <2>1, <2>5
<1>8. CASE buffer # End
  <2>1. current - 1 \in Words /\ Reached = current - 1
    BY <1>1, <1>3, <1>8, TokenIsWord
  <2>2. \A j \in Words : current - 1 <= j /\ j < current' => j = current - 1
    <3>1. \A j \in Words : current - 1 <= j => j = current - 1 \/ current <= j
      BY <1>2
    <3> QED  BY <1>5, <3>1
  <2>3. CASE ParseInstruction
    <3>1. /\ Len(program') = Len(program) + 1
          /\ Prefix(HeadOrder, Len(program) + 1, current')
          /\ HeadOrder[Len(program) + 1] = current - 1
          /\ \A k \in 1 .. Len(program) + 1 :
                \E c : /\ Prefix(ArgOrder(HeadOrder[k]), c, current')
                       /\ Given(program'[k], HeadOrder[k], c)
          /\ Prefix(ArgOrder(current - 1), 0, current')
      BY <1>1, <1>4, <1>8, <2>1, <2>2, <2>3, InstructionRead
    <3>2. in_instruction' => nb_args' = 0
      BY <1>8, <2>3 DEF ParseInstruction
    <3>3. OperationsRead'
      BY <1>4, <3>1, <3>2, OperationsMove
    <3>4. SameLine(current - 1, current - 1)
      <4>1. text[current - 1] # Newline
        BY <2>1, WordsAreTokens
      <4>2. current - 1 \in Int
        BY <1>2
      <4> QED  BY <4>1, <4>2, SameLineParts
    <3> QED  BY <1>6, <1>8, <3>1, <3>3, <3>4
  <2>4. CASE ParseArg
    <3>1. /\ Len(program') = Len(program) /\ Len(program) # 0
          /\ Prefix(HeadOrder, Len(program), current')
          /\ SameLine(HeadOrder[Len(program)], current - 1)
          /\ \A k \in 1 .. Len(program) :
                \E c : /\ Prefix(ArgOrder(HeadOrder[k]), c, current')
                       /\ Given(program'[k], HeadOrder[k], c)
          /\ Prefix(ArgOrder(HeadOrder[Len(program)]), nb_args + 1, current')
      BY <1>1, <1>4, <1>8, <2>1, <2>2, <2>4, ArgumentRead
    <3>2. in_instruction' => nb_args' = nb_args + 1
      BY <1>8, <2>4 DEF ParseArg
    <3>3. OperationsRead'
      BY <1>4, <3>1, <3>2, OperationsMove
    <3> QED  BY <1>6, <1>8, <3>1, <3>3
  <2> QED  BY <1>8, <2>3, <2>4 DEF HandOver
<1> QED  BY <1>7, <1>8, <1>6

(* The separators are told apart, and are no tokens. *)
LEMMA SeparatorsApart ==
  /\ {Blank, Newline, Colon, Hash, End} \cap Tokens = {}
  /\ Blank \notin {Newline, Colon, Hash, End} /\ Newline \notin {Colon, Hash, End}
  /\ Colon \notin {Hash, End} /\ Hash # End
  /\ {Blank, Newline, Colon, Hash, End} \cap (FullTokens \cup LongTokens) = {}
<1>1. {Blank, Newline, Colon, Hash, End} \cap Tokens = {}
  BY TextAssumption DEF Separators
<1>2. FullTokens \cup LongTokens \subseteq Tokens
  BY TextAssumption
<1>3. /\ Blank \notin {Newline, Colon, Hash, End} /\ Newline \notin {Colon, Hash, End}
      /\ Colon \notin {Hash, End} /\ Hash # End
  BY DEF Blank, Newline, Colon, Hash, End
<1> QED  BY <1>1, <1>2, <1>3

(* A line goes on behind the word that was handed over. *)
LEMMA LineJoins ==
  ASSUME text' = text, text \in Texts, current \in Int, text[current] # Newline,
         current' = current + 1, in_instruction', Len(program') # 0, OperationsRead',
         Len(program') \in Nat, SameLine(HeadOrder[Len(program')], current - 1)
  PROVE  Line'
<1> DEFINE i == HeadOrder[Len(program')]
<1>1. HeadOrder' = HeadOrder /\ current' - 1 = current
  BY SameText
<1>2. i \in Int
  <2>1. HeadOrder \in Seq(Nat) /\ Len(HeadOrder) \in Nat
    BY Positions, WordsInOrder DEF HeadOrder
  <2>2. Len(program') \in 0 .. Len(HeadOrder)
    BY <1>1 DEF OperationsRead, Prefix
  <2>3. Len(program') \in 1 .. Len(HeadOrder)
    BY <2>1, <2>2
  <2> QED  BY <2>1, <2>3
<1> HIDE DEF i
<1>3. \A k \in i .. current : k \in i .. current - 1 \/ k = current
  BY <1>2
<1>4. \A k \in i .. current : text[k] # Newline
  BY <1>3 DEF SameLine, i
<1>5. (SameLine(HeadOrder[Len(program)], current - 1))'
  BY <1>1, <1>4 DEF SameLine, i
<1> QED  BY <1>5 DEF Line

LEMMA SeparatorRead == ASSUME Inv, ReadSoFar, Separator PROVE ReadSoFar'
<1>1. /\ Place /\ Line /\ OperationsRead /\ Counted /\ text \in Texts
      /\ current \in 1 .. Len(text) + 1 /\ Len(text) \in Nat /\ DOMAIN text = 1 .. Len(text)
  BY TextTyped DEF Inv, ReadSoFar, Place
<1>2. /\ status = "running" /\ phase = "scan" /\ Lexeme \in {Blank, End} /\ HandOver
      /\ buffer' = End /\ text' = text /\ UNCHANGED <<entryVars, fileVars, table>>
  BY DEF Separator, Reads
<1>3. /\ Lexeme = End => phase' = "entry" /\ current' = current
      /\ Lexeme # End => phase' = "scan" /\ current' = current + 1
      /\ buffer = End => in_instruction' = in_instruction /\ nb_args' = nb_args
      /\ buffer # End => /\ in_instruction' = TRUE
                         /\ nb_args' = IF in_instruction THEN nb_args + 1 ELSE 0
  BY <1>2 DEF Separator, lineVars
<1>4. written' = written /\ status' = status
  BY <1>2 DEF fileVars, table
<1>5. /\ OperationsRead' /\ LabelsRead'
      /\ buffer = End => program' = program
      /\ buffer # End => SameLine(HeadOrder[Len(program')], current - 1)
  <2>1. Lexeme # Colon /\ Lexeme \notin Tokens
    BY <1>2, SeparatorsApart
  <2>2. current' \in {current, current + 1}
    BY <1>3
  <2> QED  BY <1>2, <1>3, <2>1, <2>2, HandedRead
<1>6. Len(program') \in Nat /\ (buffer # End => Len(program') # 0)
  BY <1>2, HandOverStep
<1>7. CASE Lexeme = End
  <2>1. current = Len(text) + 1 /\ current \notin DOMAIN text
    BY <1>1, <1>7, LexemeIs
  <2>2. ~ Live' /\ text' \in Texts /\ current' \in 1 .. Len(text') + 1 /\ phase' # "scan"
    BY <1>1, <1>2, <1>3, <1>7, <2>1 DEF Live
  <2>3. Place'
    BY <1>1, <1>2, <1>3, <1>7, <2>2, SameText DEF Place
  <2>4. Line'
    BY <1>1, <1>3, <1>5, <1>6, <2>2 DEF Line
  <2>5. OperationsPut' /\ Phases' /\ Refusals'
    BY <1>2, <1>3, <1>4, <1>7, <2>1, ScanOnly
  <2> QED  BY <1>5, <2>3, <2>4, <2>5 DEF ReadSoFar
<1>8. CASE Lexeme # End
  <2>1. /\ current \in DOMAIN text /\ Lexeme = text[current] /\ text[current] = Blank
        /\ text[current] # Hash /\ text[current] # Newline /\ text[current] \notin Tokens
        /\ text[current] \notin FullTokens \cup LongTokens
    BY <1>1, <1>2, <1>8, LexemeIs, SeparatorsApart
  <2>2. Place'
    BY <1>1, <1>2, <1>3, <1>8, <2>1, PlaceMoves
  <2>3. CASE buffer = End
    <3>1. \A j \in Words : j < Reached' => j < Reached
      <4>1. Reached' = current + 1 /\ Reached = current
        BY <1>2, <1>3, <1>8, <2>3 DEF Reached
      <4>2. current \notin Words /\ Words \subseteq Nat
        BY <1>1, <2>1, WordsAreTokens, Positions
      <4>3. \A j \in Words : j # current
        BY <4>2
      <4> QED  BY <1>1, <4>1, <4>2, <4>3
    <3>2. Line'
      BY <1>1, <1>2, <1>3, <1>5, <1>8, <2>1, <2>3, <3>1, LineMoves
    <3> QED  BY <3>2, <1>2, <1>3, <1>4, <1>5, <1>8, <2>2, ScanOnly DEF ReadSoFar
  <2>4. CASE buffer # End
    <3>1. Line'
      BY <1>1, <1>2, <1>3, <1>5, <1>6, <1>8, <2>1, <2>4, LineJoins
    <3> QED  BY <3>1, <1>2, <1>3, <1>4, <1>5, <1>8, <2>2, ScanOnly DEF ReadSoFar
  <2> QED  BY <2>3, <2>4
<1> QED  BY <1>7, <1>8

(* At the end of a line no operation is open. *)
LEMMA LineEndRead == ASSUME Inv, ReadSoFar, LineEnd PROVE ReadSoFar'
<1>1. /\ Place /\ Line /\ OperationsRead /\ Counted /\ text \in Texts
      /\ current \in 1 .. Len(text) + 1 /\ Len(text) \in Nat /\ DOMAIN text = 1 .. Len(text)
  BY TextTyped DEF Inv, ReadSoFar, Place
<1>2. /\ status = "running" /\ phase = "scan" /\ Lexeme = Newline /\ HandOver
      /\ buffer' = End /\ text' = text /\ UNCHANGED <<entryVars, fileVars, table>>
      /\ phase' = phase /\ current' = current + 1 /\ in_instruction' = FALSE /\ nb_args' = 0
  BY DEF LineEnd, Reads
<1>3. written' = written /\ status' = status
  BY <1>2 DEF fileVars, table
<1>4. /\ current \in DOMAIN text /\ text[current] = Newline /\ current' - 1 = current
      /\ text[current] # Hash /\ text[current] \notin Tokens /\ Lexeme # Colon
      /\ Lexeme \notin Tokens /\ text[current] \notin FullTokens \cup LongTokens
  <2>1. current \in DOMAIN text /\ text[current] = Newline
    BY <1>1, <1>2, LexemeIs, SeparatorsApart
  <2> QED  BY <1>1, <1>2, <2>1, SeparatorsApart
<1>5. OperationsRead' /\ LabelsRead'
  <2>1. current' \in {current, current + 1}
    BY <1>2
  <2> QED  BY <1>2, <1>4, <2>1, HandedRead
<1>6. Place'
  BY <1>1, <1>2, <1>4, PlaceMoves
<1>7. Line'
  <2>1. \A j \in Words : j < Reached' => ~ SameLine(j, current)
    <3>1. Reached' = current + 1
      BY <1>2 DEF Reached
    <3>2. \A j \in Words : j \in Int
      BY <1>1, Positions
    <3>3. \A j \in Words : j < current + 1 => current \in j .. current
      BY <1>1, <3>2
    <3> QED  BY <1>4, <3>1, <3>3 DEF SameLine
  <2>2. Words' = Words
    BY <1>2, SameText
  <2>3. ~\E j \in Words' : j < Reached' /\ (SameLine(j, current - 1))'
    BY <1>2, <1>4, <2>1, <2>2 DEF SameLine
  <2> QED  BY <1>2, <2>3 DEF Line
<1>8. OperationsPut' /\ Phases' /\ Refusals'
  BY <1>2, <1>3, ScanOnly
<1> QED  BY <1>5, <1>6, <1>7, <1>8 DEF ReadSoFar

LEMMA LessIsBelow == \A i, j \in Int : i < j => i <= j - 1
  OBVIOUS

(* A comment holds no code, and nothing precedes it that is not read. *)
LEMMA CommentRead == ASSUME Inv, CommentsApart, ReadSoFar, Comment PROVE ReadSoFar'
<1>1. /\ Place /\ Line /\ OperationsRead /\ LabelsRead /\ Counted /\ text \in Texts
      /\ current \in 1 .. Len(text) + 1 /\ Len(text) \in Nat /\ DOMAIN text = 1 .. Len(text)
      /\ Len(program) \in Nat
  BY TextTyped DEF Inv, ReadSoFar, Place, Counted
<1>2. /\ status = "running" /\ phase = "scan" /\ Lexeme = Hash
      /\ buffer' = End /\ text' = text /\ phase' = phase /\ in_instruction' = FALSE
      /\ UNCHANGED <<programVars, entryVars, fileVars, table>>
  BY DEF Comment, Reads
<1>3. /\ written' = written /\ status' = status /\ hash_map' = hash_map /\ program' = program
      /\ starts' = starts /\ instruction_addr' = instruction_addr
  BY <1>2 DEF programVars, fileVars, table
<1>4. current \in DOMAIN text /\ text[current] = Hash
  BY <1>1, <1>2, LexemeIs, SeparatorsApart
<1>5. PICK q \in current .. Len(text) + 1 : Skips(q)
  BY DEF Comment
<1>6. /\ q \in current + 1 .. Len(text) + 1
      /\ q \in DOMAIN text => text[q] = Newline /\ current' = q + 1
      /\ q \notin DOMAIN text => current' = q /\ q = Len(text) + 1
      /\ \A r \in current .. q - 1 : text[r] # Newline
  <2>1. /\ current' = IF q = Len(text) + 1 THEN q ELSE q + 1
        /\ q \in DOMAIN text => text[q] = Newline
        /\ \A r \in current .. q - 1 : text[r] # Newline
    BY <1>5 DEF Skips
  <2>2. q # current
    BY <1>4, <2>1, SeparatorsApart
  <2> QED  BY <1>1, <1>5, <2>1, <2>2
<1>7. buffer = End /\ Reached = current
  <2>1. ASSUME buffer # End PROVE FALSE
    <3>1. current - 1 \in CodeAt /\ text[current - 1] \in Tokens
      BY <1>1, <2>1 DEF Place
    <3>2. current \in DOMAIN text \ {1}
      BY <1>1, <1>4, <3>1, Positions
    <3> QED  BY <1>4, <3>1, <3>2 DEF CommentsApart
  <2> QED  BY <2>1 DEF Reached
<1>8. \A i \in CodeAt : current <= i /\ i < current' => i = q /\ text[i] = Newline
  <2> SUFFICES ASSUME NEW i \in CodeAt, current <= i, i < current'
               PROVE  i = q /\ text[i] = Newline
    OBVIOUS
  <2>1. i \in 1 .. Len(text)
    BY <1>1, Positions
  <2>2. ASSUME i # q PROVE FALSE
    <3>1. i < q
      BY <1>1, <1>6, <2>1, <2>2
    <3>2. \A r \in current .. i : r \in current .. q - 1
      BY <1>1, <1>6, <2>1, <3>1
    <3>3. SameLine(current, i)
      BY <1>6, <3>2 DEF SameLine
    <3>4. current \in 1 .. i
      BY <1>1, <2>1
    <3> QED  BY <1>4, <3>3, <3>4 DEF CodeAt
  <2> QED  BY <1>1, <1>6, <2>1, <2>2
<1>9. current' \in 1 .. Len(text) + 1 /\ current' \in Int /\ current <= current'
      /\ q \in Int /\ current \in Int
  BY <1>1, <1>6
<1>10. /\ CodeAt \subseteq Int /\ Words \subseteq CodeAt /\ Colons \subseteq CodeAt
       /\ Words \subseteq Int
  BY <1>1, Positions
<1>11. \A j \in Words : ~ (current <= j /\ j < current')
  BY <1>8, <1>10, WordsAreTokens
<1>12. current' \in DOMAIN text => /\ current' - 1 = q /\ q \in DOMAIN text
                                   /\ \A h : h \in Int /\ h <= q => ~SameLine(h, q)
  <2>1. current' \in DOMAIN text => current' - 1 = q /\ q \in DOMAIN text /\ text[q] = Newline
    BY <1>1, <1>6
  <2>2. \A h : h \in Int /\ h <= q => q \in h .. q
    BY <1>9
  <2> QED  BY <2>1, <2>2 DEF SameLine
<1>13. Place'
  <2>1. CodeAt' = CodeAt
    BY <1>2, SameText
  <2>2. Live' => ~\E h \in 1 .. current' - 1 :
                      text'[h] = Hash /\ (SameLine(h, current - 1))'
    <3>1. Live' => current' \in DOMAIN text
      BY <1>2 DEF Live
    <3>2. Live' => ~\E h \in 1 .. current' - 1 : SameLine(h, current' - 1)
      <4>1. \A h \in 1 .. q : h \in Int /\ h <= q
        BY <1>9
      <4> QED  BY <1>12, <3>1, <4>1, Zenon
    <3> QED  BY <1>2, <3>2 DEF SameLine
  <2>3. current' - 1 \in CodeAt => text[current' - 1] \notin Tokens
    <3>1. current <= current' - 1 /\ current' - 1 < current'
      <4>1. current + 1 <= q /\ (current' = q + 1 \/ current' = q)
        BY <1>6
      <4>2. q - 1 \in Int /\ q + 1 - 1 = q /\ current <= q /\ current <= q - 1
            /\ q < q + 1 /\ q - 1 < q
        BY <1>9, <4>1
      <4> QED  BY <4>1, <4>2
    <3> QED  BY <1>8, <3>1, SeparatorsApart
  <2>4. \A i \in CodeAt : i < current' => text[i] \notin FullTokens \cup LongTokens
    <3>1. \A i \in CodeAt : i < current' => i < current \/ text[i] = Newline
      BY <1>8, <1>9, <1>10
    <3> QED  BY <1>1, <3>1, SeparatorsApart DEF Place
  <2> QED  BY <1>1, <1>2, <1>9, <2>1, <2>2, <2>3, <2>4 DEF Place
<1>14. Line'
  <2>1. Words' = Words /\ Reached' = current'
    BY <1>2, SameText DEF Reached
  <2>2. Live' => current' \in DOMAIN text
    BY <1>2 DEF Live
  <2>3. Live' => ~\E j \in Words : j < current' /\ SameLine(j, current' - 1)
    <3>1. \A j \in Words : j < current' => j \in Int /\ j <= current' - 1
      <4>1. \A j \in Int : j < current' => j <= current' - 1
        BY <1>9, LessIsBelow
      <4> QED  BY <1>10, <4>1
    <3> QED  BY <1>12, <2>2, <3>1, Zenon
  <2>4. Live' => ~\E j \in Words' : j < Reached' /\ (SameLine(j, current - 1))'
    BY <1>2, <2>1, <2>3 DEF SameLine
  <2> QED  BY <1>2, <2>4 DEF Line
<1>15. OperationsRead'
  <2>1. Reached' = current'
    BY <1>2 DEF Reached
  <2>2. /\ Prefix(HeadOrder, Len(program), current')
        /\ \A k \in 1 .. Len(program) :
              \E c : /\ Prefix(ArgOrder(HeadOrder[k]), c, current')
                     /\ Given(program[k], HeadOrder[k], c)
    BY <1>1, <1>7, <1>9, <1>11, NothingRead
  <2> QED  BY <1>2, <1>3, <2>1, <2>2, OperationsMove
<1>16. LabelsRead'
  <2>1. \A i \in Colons : i < current' <=> i < current
    <3>1. \A i \in Colons : text[i] # Newline
      BY SeparatorsApart DEF Colons
    <3> QED  BY <1>8, <1>9, <1>10, <3>1
  <2>2. \A i : StartOf(i)' = StartOf(i)
    BY <1>3 DEF StartOf
  <2> QED  BY <1>1, <1>2, <1>3, <2>1, <2>2, LabelsStay
<1>17. OperationsPut' /\ Phases' /\ Refusals'
  BY <1>2, <1>3, ScanOnly
<1> QED  BY <1>13, <1>14, <1>15, <1>16, <1>17 DEF ReadSoFar

(* The token before a colon is the label's name. *)
LEMMA LabelNamed ==
  ASSUME Place, phase = "scan", current \in DOMAIN text
  PROVE  LabelOf(current) = buffer
<1>1. current \in 1 .. Len(text) /\ Len(text) \in Nat
  BY TextTyped DEF Place
<1>2. CASE buffer # End
  <2>1. text[current - 1] = buffer /\ buffer \in Tokens /\ current - 1 \in CodeAt
    BY <1>2 DEF Place
  <2>2. current > 1
    BY <1>1, <2>1, Positions DEF Place
  <2> QED  BY <2>1, <2>2 DEF LabelOf
<1>3. CASE buffer = End
  <2>1. ASSUME current > 1, text[current - 1] \in Tokens PROVE FALSE
    <3>1. current - 1 \in 1 .. Len(text) /\ DOMAIN text = 1 .. Len(text)
      BY <1>1, <2>1, TextTyped DEF Place
    <3>2. ASSUME NEW h \in 1 .. current - 1, text[h] = Hash, SameLine(h, current - 1)
          PROVE  FALSE
      BY <3>2 DEF Place, Live
    <3>3. current - 1 \in CodeAt
      BY <3>1, <3>2 DEF CodeAt
    <3> QED  BY <1>3, <2>1, <3>3 DEF Place
  <2> QED  BY <1>3, <2>1 DEF LabelOf
<1> QED  BY <1>2, <1>3

(* A colon makes the token before it a label, of the next operation.       *)
LEMMA LabelRead == ASSUME Inv, ReadSoFar, Label PROVE ReadSoFar'
<1>1. /\ Place /\ Line /\ OperationsRead /\ LabelsRead /\ Counted /\ Chains /\ text \in Texts
      /\ current \in 1 .. Len(text) + 1 /\ Len(text) \in Nat /\ DOMAIN text = 1 .. Len(text)
      /\ Len(program) \in Nat /\ buffer \in Labels /\ Len(starts) = Len(program)
      /\ instruction_addr \in Addrs
  BY TextTyped, TextAssumption DEF Inv, ReadSoFar, Place, Counted, LineTyped
<1>2. /\ status = "running" /\ phase = "scan" /\ Lexeme = Colon
      /\ AddLabel(buffer, instruction_addr)
      /\ entry_point' = IF buffer = "ENTRY" THEN instruction_addr ELSE entry_point
      /\ found_entry' = (found_entry \/ buffer = "ENTRY")
      /\ buffer' = End /\ text' = text /\ phase' = phase /\ current' = current + 1
      /\ UNCHANGED <<lineVars, programVars, fileVars>>
  BY DEF Label, Reads, LabelAddr
<1>3. /\ written' = written /\ status' = status /\ program' = program
      /\ starts' = starts /\ instruction_addr' = instruction_addr
      /\ in_instruction' = in_instruction /\ nb_args' = nb_args
  BY <1>2 DEF programVars, fileVars, lineVars, AddLabel
<1>4. /\ current \in DOMAIN text /\ text[current] = Colon
      /\ text[current] \notin {Hash, Newline} \cup Tokens \cup FullTokens \cup LongTokens
  BY <1>1, <1>2, LexemeIs, SeparatorsApart
<1>5. current \in CodeAt /\ current \in Colons
  BY <1>1, <1>4, CodeGoesOn DEF Colons
<1>6. \A j \in Words : ~ (Reached <= j /\ j < current')
  <2>1. current \notin Words /\ (buffer # End => current - 1 \notin Words)
    BY <1>1, <1>4, <1>5, TokenIsWord, WordsAreTokens
  <2>2. \A j \in Words : j \in Int
    BY <1>1, Positions
  <2>3. \A j \in Words : Reached <= j /\ j < current' =>
           j = current \/ (buffer # End /\ j = current - 1)
    BY <1>1, <1>2, <2>2 DEF Reached
  <2> QED  BY <2>1, <2>3
<1>7. Reached' = current' /\ current' \in Int /\ Reached <= current'
  BY <1>1, <1>2 DEF Reached
<1>8. Place'
  BY <1>1, <1>2, <1>4, PlaceMoves
<1>9. Line'
  <2>1. \A j \in Words : j < Reached' => j < Reached
    <3>1. \A j \in Words : j \in Int
      BY <1>1, Positions
    <3>2. Reached \in Int
      BY <1>1 DEF Reached
    <3> QED  BY <1>6, <1>7, <3>1, <3>2
  <2> QED  BY <1>1, <1>2, <1>3, <1>4, <2>1, LineMoves
<1>10. OperationsRead'
  <2>1. /\ Prefix(HeadOrder, Len(program), current')
        /\ \A k \in 1 .. Len(program) :
              \E c : /\ Prefix(ArgOrder(HeadOrder[k]), c, current')
                     /\ Given(program[k], HeadOrder[k], c)
        /\ in_instruction /\ Len(program) # 0 =>
              Prefix(ArgOrder(HeadOrder[Len(program)]), nb_args, current')
    BY <1>1, <1>6, <1>7, NothingRead
  <2>2. in_instruction => Len(program) # 0
    BY <1>1 DEF Line
  <2> QED  BY <1>2, <1>3, <1>7, <2>1, <2>2, OperationsMove
<1>11. LabelOf(current) = buffer
  BY <1>1, <1>2, <1>4, LabelNamed
<1>12. BeforeOf(current) = Len(program)
  <2> DEFINE n == Len(program)
  <2>1. /\ n \in 0 .. Len(HeadOrder) /\ DOMAIN HeadOrder = 1 .. Len(HeadOrder)
        /\ Len(HeadOrder) \in Nat
    BY <1>1, HeadsInOrder
  <2>2. \A k \in 1 .. Len(HeadOrder) : k <= n <=> HeadOrder[k] < current
    <3>1. \A k \in 1 .. Len(HeadOrder) : HeadOrder[k] \in Int /\ HeadOrder[k] \in Words
      BY <1>1, HeadsInOrder
    <3>2. \A k \in 1 .. Len(HeadOrder) : HeadOrder[k] < current <=> HeadOrder[k] < Reached
      <4>1. \A j \in Words : j \in Int => (j < current <=> j < Reached)
        BY <1>1, <1>2, <1>6 DEF Reached
      <4> QED  BY <3>1, <4>1
    <3> QED  BY <1>1, <3>2 DEF OperationsRead, Prefix
  <2> HIDE DEF n
  <2>3. { k \in DOMAIN HeadOrder : HeadOrder[k] < current } = 1 .. n
    BY <2>1, <2>2
  <2>4. Cardinality(1 .. n) = n
    BY <2>1, FS_Interval
  <2> QED  BY <2>3, <2>4 DEF BeforeOf, n
<1>13. \A a : Stands(current, a) <=> a = instruction_addr
  <2>1. ~ (Len(program) + 1 <= Len(starts))
    BY <1>1
  <2> QED  BY <1>12, <2>1 DEF Stands, StartOf
<1>14. /\ \A i : LabelOf(i)' = LabelOf(i) /\ BeforeOf(i)' = BeforeOf(i)
       /\ \A i : \A a : Stands(i, a)' <=> Stands(i, a)
       /\ Known' = Known \cup {current} /\ current \notin Known
  <2>1. /\ Colons' = Colons
        /\ \A i : LabelOf(i)' = LabelOf(i) /\ BeforeOf(i)' = BeforeOf(i)
    BY <1>2, SameText
  <2>2. \A i : StartOf(i)' = StartOf(i)
    BY <1>3 DEF StartOf
  <2>3. \A i : \A a : Stands(i, a)' <=> Stands(i, a)
    <3>1. \A b, j : j = b + 1 => StartOf(j)' = StartOf(j)
      BY <2>2
    <3> QED  BY <2>1, <3>1 DEF Stands
  <2>4. Colons \subseteq Int
    BY <1>1, Positions
  <2>5. \A i \in Colons : i < current + 1 <=> i < current \/ i = current
    BY <1>1, <2>4
  <2>6. Known' = Known \cup {current} /\ current \notin Known
    <3>1. Known' = { i \in Colons : i < current + 1 }
      BY <1>2, <2>1 DEF Known
    <3>2. ~ (current < current)
      BY <1>1
    <3> QED  BY <1>5, <2>5, <3>1, <3>2 DEF Known
  <2> QED  BY <2>1, <2>3, <2>6
<1>15. /\ \A k \in Labels : \A b :
             Holds(k, b)' <=> Holds(k, b) \/ (k = buffer /\ b = instruction_addr)
       /\ ~\E b : Holds(buffer, b)
  BY <1>1, <1>2, HoldsAdded
<1>16. LabelsRead'
  <2>1. \A l \in Labels : \A a :
           Holds(l, a)' <=> \E i \in Known' : LabelOf(i)' = l /\ Stands(i, a)'
    <3> SUFFICES ASSUME NEW l \in Labels, NEW a
                 PROVE  Holds(l, a)' <=> \E i \in Known' : LabelOf(i)' = l /\ Stands(i, a)'
      OBVIOUS
    <3>1. Holds(l, a) <=> \E i \in Known : LabelOf(i) = l /\ Stands(i, a)
      BY <1>1 DEF LabelsRead
    <3> QED  BY <1>11, <1>13, <1>14, <1>15, <3>1
  <2>2. \A i \in Known' : BeforeOf(i)' \in 0 .. Len(program')
    <3>1. BeforeOf(current) \in 0 .. Len(program)
      BY <1>1, <1>12
    <3> QED  BY <1>1, <1>3, <1>14, <3>1 DEF LabelsRead
  <2>3. \A i, j \in Known' : LabelOf(i)' = LabelOf(j)' => i = j
    <3>1. \A i \in Known : LabelOf(i) # buffer
      <4>1. \A i \in Known : \E a : Stands(i, a)
        BY DEF Stands
      <4> QED  BY <1>1, <1>15, <4>1 DEF LabelsRead
    <3> QED  BY <1>1, <1>11, <1>14, <3>1 DEF LabelsRead
  <2>4. found_entry' <=> \E i \in Known' : LabelOf(i)' = "ENTRY"
    BY <1>1, <1>2, <1>11, <1>14 DEF LabelsRead
  <2>5. found_entry' => \E i \in Known' : LabelOf(i)' = "ENTRY" /\ Stands(i, entry_point)'
    <3>1. \A i : Stands(i, entry_point)' <=> Stands(i, entry_point')
      <4>1. \A i, a : a = entry_point' => (Stands(i, entry_point)' <=> Stands(i, a)')
        BY DEF Stands
      <4> QED  BY <1>14, <4>1
    <3>2. CASE buffer = "ENTRY"
      <4>1. Stands(current, entry_point')
        BY <1>2, <1>13, <3>2
      <4> QED  BY <1>11, <1>14, <3>1, <3>2, <4>1
    <3>3. CASE buffer # "ENTRY"
      <4>1. (found_entry' <=> found_entry) /\ entry_point' = entry_point
        BY <1>2, <3>3
      <4> QED  BY <1>1, <1>14, <3>1, <4>1 DEF LabelsRead
    <3> QED  BY <3>2, <3>3
  <2> QED  BY <2>1, <2>2, <2>3, <2>4, <2>5 DEF LabelsRead
<1>17. OperationsPut' /\ Phases' /\ Refusals'
  BY <1>1, <1>2, <1>3, ScanOnly DEF AddLabel
<1> QED  BY <1>8, <1>9, <1>10, <1>16, <1>17 DEF ReadSoFar

-----------------------------------------------------------------------------
(* What the other steps keep. *)

LEMMA PutKept ==
  ASSUME text' = text, hash_map' = hash_map
  PROVE  \A w, o, i : Put(w, o, i)' <=> Put(w, o, i)
<1>1. /\ \A i : ArgOrder(i)' = ArgOrder(i)
      /\ \A i, n : ArgWord(i, n)' = ArgWord(i, n)
  BY SameText
<1>2. \A l, a : Holds(l, a)' = Holds(l, a)
  BY HoldsKept
<1>3. \A i, n, l, a : l = ArgWord(i, n) => (Holds(l, a)' <=> Holds(ArgWord(i, n), a))
  BY <1>2
<1> QED  BY <1>1, <1>2, <1>3 DEF Put, Holds, Chain

LEMMA ScanKept ==
  ASSUME Inv, ReadSoFar, UNCHANGED <<text, scanVars, hash_map>>,
         phase' = "scan" => phase = "scan" \/ current = 1
  PROVE  Place' /\ Line' /\ OperationsRead' /\ LabelsRead'
<1>1. /\ text' = text /\ current' = current /\ buffer' = buffer
      /\ in_instruction' = in_instruction /\ nb_args' = nb_args /\ program' = program
      /\ starts' = starts /\ instruction_addr' = instruction_addr
      /\ hash_map' = hash_map /\ UNCHANGED entryVars
  BY DEF scanVars, lineVars, programVars
<1>2. Place /\ Line /\ OperationsRead /\ LabelsRead /\ Counted
  BY DEF Inv, ReadSoFar
<1>3. CodeAt' = CodeAt /\ Words' = Words /\ HeadOrder' = HeadOrder
  BY <1>1, SameText
<1>4. Reached' = Reached /\ Live' = Live
  BY <1>1 DEF Reached, Live
<1>5. Place'
  <2>1. current = 1 => current - 1 \notin CodeAt
    <3>1. 1 - 1 \notin CodeAt
      BY <1>2, Positions, TextTyped DEF Place
    <3> QED  BY <3>1
  <2> QED  BY <1>1, <1>2, <1>3, <1>4, <2>1 DEF Place, SameLine
<1>6. Line'
  BY <1>1, <1>2, <1>3, <1>4 DEF Line, SameLine
<1>7. OperationsRead'
  BY <1>1, <1>2, <1>4, OperationsMove DEF OperationsRead
<1>8. LabelsRead'
  <2>1. \A i : StartOf(i)' = StartOf(i)
    BY <1>1 DEF StartOf
  <2>2. Len(program) \in Nat /\ Len(program') \in Nat /\ Len(program) <= Len(program')
    BY <1>1, <1>2 DEF Counted
  <2> QED  BY <1>1, <1>2, <2>1, <2>2, LabelsStay
<1> QED  BY <1>5, <1>6, <1>7, <1>8

LEMMA SameRead ==
  ASSUME Inv, ReadSoFar, UNCHANGED <<text, scanVars, fileVars, hash_map>>,
         phase' = "scan" => phase = "scan" \/ current = 1
  PROVE  Place' /\ Line' /\ OperationsRead' /\ LabelsRead' /\ OperationsPut'
<1>1. Place' /\ Line' /\ OperationsRead' /\ LabelsRead'
  BY ScanKept
<1>2. OperationsPut'
  <2>1. /\ text' = text /\ program' = program /\ written' = written /\ hash_map' = hash_map
    BY DEF scanVars, fileVars, programVars
  <2>2. (\A w, o, i : Put(w, o, i)' <=> Put(w, o, i)) /\ HeadOrder' = HeadOrder
    BY <2>1, PutKept, SameText
  <2>3. \A k \in 1 .. Len(written') : (Put(written[k], program[k], HeadOrder[k]))'
    BY <2>1, <2>2 DEF ReadSoFar, OperationsPut
  <2> QED  BY <2>3 DEF OperationsPut
<1> QED  BY <1>1, <1>2

(* A process that ended with an error message read a text with a fault.    *)
LEMMA EndsRead ==
  ASSUME Inv, ReadSoFar, NEW how, Ends(how),
         how = "failed" => phase = "header" \/ ~Sound(Reading)
  PROVE  ReadSoFar'
<1>1. /\ status' = how /\ text' = text /\ phase' = phase
      /\ UNCHANGED <<text, scanVars, fileVars, hash_map>>
  BY DEF Ends
<1>2. Place' /\ Line' /\ OperationsRead' /\ LabelsRead' /\ OperationsPut'
  BY <1>1, SameRead
<1>3. Refusals'
  BY <1>1, SameText DEF Refusals
<1>4. Phases'
  BY <1>1 DEF ReadSoFar, Phases, scanVars, entryVars
<1> QED  BY <1>2, <1>3, <1>4 DEF ReadSoFar

LEMMA HeaderRead == ASSUME Inv, ReadSoFar, ReadHeader PROVE ReadSoFar'
<1>1. /\ status = "running" /\ phase = "header" /\ phase' = "scan" /\ status' = status
      /\ UNCHANGED <<text, scanVars, fileVars, hash_map>>
  BY DEF ReadHeader, table
<1>2. current = 1
  BY <1>1 DEF ReadSoFar, Phases
<1>3. Place' /\ Line' /\ OperationsRead' /\ LabelsRead' /\ OperationsPut'
  BY <1>1, <1>2, SameRead
<1>4. Phases' /\ Refusals'
  BY <1>1 DEF Phases, Refusals
<1> QED  BY <1>3, <1>4 DEF ReadSoFar

LEMMA FinishRead == ASSUME Inv, ReadSoFar, Finish PROVE ReadSoFar'
<1>1. /\ status = "running" /\ phase = "render" /\ phase' = "done" /\ status' = status
      /\ text' = text /\ UNCHANGED <<text, scanVars, fileVars, hash_map>>
  BY DEF Finish, table
<1>2. Place' /\ Line' /\ OperationsRead' /\ LabelsRead' /\ OperationsPut'
  BY <1>1, SameRead
<1>3. Phases' /\ Refusals'
  BY <1>1 DEF ReadSoFar, Phases, Refusals, scanVars, entryVars
<1> QED  BY <1>2, <1>3 DEF ReadSoFar

-----------------------------------------------------------------------------
(* Faults. *)

LEMMA ReadingParts ==
  ASSUME text \in Texts
  PROVE  /\ DOMAIN Reading.ops = 1 .. Len(HeadOrder) /\ Len(Reading.ops) = Len(HeadOrder)
         /\ Len(HeadOrder) \in Nat
         /\ \A k \in 1 .. Len(HeadOrder) :
               /\ Reading.ops[k].name = text[HeadOrder[k]]
               /\ DOMAIN Reading.ops[k].args = 1 .. Len(ArgOrder(HeadOrder[k]))
               /\ Len(Reading.ops[k].args) = Len(ArgOrder(HeadOrder[k]))
               /\ Len(ArgOrder(HeadOrder[k])) \in Nat
               /\ \A n \in 1 .. Len(ArgOrder(HeadOrder[k])) :
                     Reading.ops[k].args[n] = ArgWord(HeadOrder[k], n)
         /\ DOMAIN Reading.labels = Colons
         /\ \A i \in Colons : /\ Reading.labels[i].name = LabelOf(i)
                              /\ Reading.labels[i].before = BeforeOf(i)
         /\ Names(Reading) = { LabelOf(i) : i \in Colons }
         /\ Reading.tokens = { text[i] : i \in CodeAt }
<1>1. /\ HeadOrder \in Seq(Nat) /\ Len(HeadOrder) \in Nat
      /\ DOMAIN HeadOrder = 1 .. Len(HeadOrder)
      /\ \A h : /\ DOMAIN ArgOrder(h) = 1 .. Len(ArgOrder(h)) /\ Len(ArgOrder(h)) \in Nat
  BY Positions, WordsInOrder DEF HeadOrder, ArgOrder
<1>2. /\ Reading.ops = [k \in 1 .. Len(HeadOrder) |->
                          [name |-> text[HeadOrder[k]], args |-> TextAt(ArgOrder(HeadOrder[k]))]]
      /\ Reading.labels = [i \in Colons |-> [name |-> LabelOf(i), before |-> BeforeOf(i)]]
      /\ Reading.tokens = { text[i] : i \in CodeAt }
  BY <1>1, ReadingIs
<1>3. DOMAIN Reading.ops = 1 .. Len(HeadOrder) /\ Len(Reading.ops) = Len(HeadOrder)
  BY <1>1, <1>2
<1>4. ASSUME NEW k \in 1 .. Len(HeadOrder)
      PROVE  /\ Reading.ops[k].name = text[HeadOrder[k]]
             /\ DOMAIN Reading.ops[k].args = 1 .. Len(ArgOrder(HeadOrder[k]))
             /\ Len(Reading.ops[k].args) = Len(ArgOrder(HeadOrder[k]))
             /\ Len(ArgOrder(HeadOrder[k])) \in Nat
             /\ \A n \in 1 .. Len(ArgOrder(HeadOrder[k])) :
                   Reading.ops[k].args[n] = ArgWord(HeadOrder[k], n)
  <2> DEFINE h == HeadOrder[k]
             args == [n \in 1 .. Len(ArgOrder(h)) |-> ArgWord(h, n)]
  <2>1. Reading.ops[k].name = text[h] /\ Reading.ops[k].args = TextAt(ArgOrder(h))
    BY <1>2
  <2>2. TextAt(ArgOrder(h)) = args
    BY <1>1 DEF TextAt, ArgWord
  <2>3. Len(ArgOrder(h)) \in Nat
    BY <1>1
  <2>4. DOMAIN args = 1 .. Len(ArgOrder(h)) /\ Len(args) = Len(ArgOrder(h))
        /\ \A n \in 1 .. Len(ArgOrder(h)) : args[n] = ArgWord(h, n)
    BY <2>3
  <2> HIDE DEF args
  <2> QED  BY <2>1, <2>2, <2>3, <2>4
<1>5. /\ DOMAIN Reading.labels = Colons
      /\ \A i \in Colons : /\ Reading.labels[i].name = LabelOf(i)
                           /\ Reading.labels[i].before = BeforeOf(i)
  BY <1>2
<1>6. Names(Reading) = { LabelOf(i) : i \in Colons }
  BY <1>5 DEF Names
<1> QED  BY <1>1, <1>2, <1>3, <1>4, <1>5, <1>6

(* A token that is refused is a fault of the text. *)
LEMMA TokenRefusedRead == ASSUME Inv, ReadSoFar, TokenRefused PROVE ReadSoFar'
<1>1. /\ Place /\ Line /\ OperationsRead /\ Counted /\ text \in Texts /\ nb_args \in Nat
      /\ current \in 1 .. Len(text) + 1 /\ Len(program) \in Nat /\ in_instruction \in BOOLEAN
  BY DEF Inv, ReadSoFar, Place, Counted, LineTyped
<1>2. Refused /\ Ends("failed") /\ Lexeme \in {Blank, End, Newline} /\ buffer # End
  BY DEF TokenRefused, Reads, Refused
<1>3. current \notin Colons
  <2>1. Lexeme # Colon
    BY <1>2, SeparatorsApart
  <2> QED  BY <1>1, <2>1, Positions, TextTyped DEF Colons, Lexeme
<1> DEFINE x == current - 1
           n == Len(program)
<1>4. x \in Words /\ x \in Nat /\ Reached = x /\ text[x] = buffer /\ Live
  BY <1>1, <1>2, <1>3, TokenIsWord
<1>5. ASSUME Sound(Reading) PROVE FALSE
  <2>1. CASE ~in_instruction /\ buffer \notin Mnemonics
    <3>1. x \in Heads
      BY <1>1, <1>4, <2>1 DEF Line, Heads
    <3> HIDE DEF x
    <3>2. PICK k \in 1 .. Len(HeadOrder) : HeadOrder[k] = x
      BY <1>1, <3>1, HeadsInOrder
    <3>3. Reading.ops[k].name = buffer /\ k \in DOMAIN Reading.ops
      BY <1>1, <1>4, <3>2, ReadingParts
    <3> QED  BY <1>5, <2>1, <3>3 DEF Sound, SoundOperation
  <2>2. CASE in_instruction /\ ~Accepts(Operation, nb_args, buffer)
    <3> DEFINE h == HeadOrder[n]
    <3>1. n \in 1 .. n /\ n \in 1 .. Len(HeadOrder) /\ h \in Words /\ h < x /\ h \in Nat
      BY <1>1, <1>4, <2>2, HeadsInOrder DEF Line
    <3>2. SameLine(h, x)
      BY <1>1, <1>4, <2>2 DEF Line
    <3>3. Prefix(ArgOrder(h), nb_args, x)
      BY <1>1, <1>4, <2>2 DEF OperationsRead
    <3>4. program[n].name = text[h]
      BY <3>1, <1>1 DEF OperationsRead, Given
    <3> HIDE DEF x
    <3>5. x \in Behind(h)
      BY <1>4, <3>1, <3>2 DEF Behind
    <3>6. nb_args + 1 \in 1 .. Len(ArgOrder(h)) /\ ArgOrder(h)[nb_args + 1] = x
      <4>1. /\ ArgOrder(h) \in Seq(Nat)
            /\ \A k, m \in 1 .. Len(ArgOrder(h)) : k < m => ArgOrder(h)[k] < ArgOrder(h)[m]
            /\ \E k \in 1 .. Len(ArgOrder(h)) : ArgOrder(h)[k] = x
        BY <1>1, <3>1, <3>5, HeadsInOrder
      <4>2. \A k \in 1 .. Len(ArgOrder(h)) :
               x <= ArgOrder(h)[k] /\ ArgOrder(h)[k] < x + 1 => ArgOrder(h)[k] = x
        <5>1. \A k \in 1 .. Len(ArgOrder(h)) : ArgOrder(h)[k] \in Nat
          BY <4>1
        <5> QED  BY <1>4, <5>1
      <4>3. x + 1 \in Int /\ x < x + 1
        BY <1>4
      <4> QED  BY <1>4, <3>3, <4>1, <4>2, <4>3, PrefixTakes
    <3> DEFINE o == Reading.ops[n]
    <3>7. /\ n \in DOMAIN Reading.ops /\ o.name = text[h]
          /\ Len(o.args) = Len(ArgOrder(h)) /\ DOMAIN o.args = 1 .. Len(ArgOrder(h))
          /\ Len(ArgOrder(h)) \in Nat /\ o.args[nb_args + 1] = buffer
      BY <1>1, <1>4, <3>1, <3>6, ReadingParts DEF ArgWord
    <3> HIDE DEF o, h
    <3>8. SoundOperation(Reading, o)
      BY <1>5, <3>7 DEF Sound, o
    <3>9. /\ o.name \in Mnemonics /\ Len(o.args) <= Len(ArgsOf(o.name))
          /\ ArgsOf(o.name)[nb_args + 1] = "register" => buffer \in RegisterNames
          /\ ArgsOf(o.name)[nb_args + 1] = "number" => buffer \in DOMAIN NumberOf
      BY <3>6, <3>7, <3>8 DEF SoundOperation
    <3>10. nb_args < Len(ArgsOf(o.name))
      <4>1. Len(ArgsOf(o.name)) \in Nat /\ nb_args + 1 <= Len(o.args) /\ Len(o.args) \in Nat
        BY <3>6, <3>7, <3>9, FamilyTable
      <4> QED  BY <1>1, <3>9, <4>1
    <3>11. Accepts(Operation, nb_args, buffer)
      BY <3>4, <3>7, <3>9, <3>10 DEF Accepts, Operation
    <3> QED  BY <2>2, <3>11
  <2> QED  BY <1>2, <2>1, <2>2 DEF Refused
<1> QED  BY <1>2, <1>5, EndsRead

LEMMA LabelRefusedRead == ASSUME Inv, ReadSoFar, LabelRefused PROVE ReadSoFar'
<1>1. /\ Place /\ LabelsRead /\ Chains /\ buffer \in Labels /\ text \in Texts
      /\ current \in 1 .. Len(text) + 1
  BY DEF Inv, ReadSoFar, LineTyped, Place
<1>2. /\ phase = "scan" /\ Lexeme = Colon /\ AddFails(buffer)
      /\ UNCHANGED <<text, phase, scanVars, fileVars>>
  BY DEF LabelRefused, Reads
<1>3. Ends(status')
  BY <1>2 DEF Ends, AddFails
<1>4. current \in DOMAIN text /\ text[current] = Colon /\ text[current] # Hash
  BY <1>1, <1>2, LexemeIs, SeparatorsApart
<1>5. LabelOf(current) = buffer /\ current \in Colons
  BY <1>1, <1>2, <1>4, LabelNamed, CodeGoesOn DEF Colons
<1>6. ASSUME status' = "failed", Sound(Reading) PROVE FALSE
  <2>1. Duplicate(Chain(buffer), buffer)
    BY <1>2, <1>6 DEF AddFails
  <2>2. PICK a : Holds(buffer, a)
    BY <1>1, <2>1, DuplicateHeld
  <2>3. PICK i \in Known : LabelOf(i) = buffer
    BY <1>1, <2>2 DEF LabelsRead
  <2>4. i \in Colons /\ i # current
    BY <1>1, <2>3 DEF Known
  <2> QED  BY <1>1, <1>5, <1>6, <2>3, <2>4, ReadingParts DEF Sound
<1> QED  BY <1>3, <1>6, EndsRead

LEMMA TokenTooLongRead == ASSUME Inv, ReadSoFar, TokenTooLong PROVE ReadSoFar'
<1>1. CASE Ends("undefined")
  BY <1>1, EndsRead
<1>2. CASE Reads(LongTokens) /\ Ends("failed")
  <2>1. Place /\ text \in Texts /\ current \in 1 .. Len(text) + 1 /\ Lexeme \in LongTokens
    BY <1>2 DEF ReadSoFar, Place, Reads
  <2>2. Lexeme \in Tokens /\ Lexeme # End
    BY <2>1, SeparatorsApart, TextAssumption
  <2>3. current \in DOMAIN text /\ text[current] = Lexeme /\ text[current] # Hash
    BY <2>1, <2>2, LexemeIs, SeparatorsApart
  <2>4. current \in CodeAt
    BY <2>1, <2>3, CodeGoesOn
  <2>5. Lexeme \in Reading.tokens
    BY <2>1, <2>3, <2>4, ReadingParts
  <2>6. ~Sound(Reading)
    BY <2>1, <2>5 DEF Sound
  <2> QED  BY <1>2, <2>6, EndsRead
<1> QED  BY <1>1, <1>2 DEF TokenTooLong

(* Without an entry point the program is not rendered. *)
LEMMA CheckEntryRead == ASSUME Inv, ReadSoFar, CheckEntry PROVE ReadSoFar'
<1>1. /\ Place /\ LabelsRead /\ Phases /\ text \in Texts /\ phase = "entry"
      /\ status = "running" /\ Len(text) \in Nat /\ current = Len(text) + 1
  BY TextTyped DEF ReadSoFar, Place, CheckEntry, Phases
<1>2. CASE ~found_entry /\ Ends("failed")
  <2>1. Known = Colons
    BY <1>1, Positions DEF Known
  <2>2. "ENTRY" \notin Names(Reading)
    BY <1>1, <1>2, <2>1, ReadingParts DEF LabelsRead
  <2>3. ~Sound(Reading)
    BY <2>2 DEF Sound
  <2> QED  BY <1>2, <2>3, EndsRead
<1>3. CASE found_entry /\ phase' = "render" /\ UNCHANGED <<text, scanVars, fileVars, table>>
  <2>1. status' = status /\ text' = text /\ hash_map' = hash_map
    BY <1>3 DEF table
  <2>2. Place' /\ Line' /\ OperationsRead' /\ LabelsRead' /\ OperationsPut'
    BY <1>3, <2>1, SameRead
  <2>3. Phases' /\ Refusals'
    BY <1>1, <1>3, <2>1 DEF Phases, Refusals, scanVars, entryVars
  <2> QED  BY <2>2, <2>3 DEF ReadSoFar
<1> QED  BY <1>2, <1>3 DEF CheckEntry

-----------------------------------------------------------------------------
(* Rendering. *)

LEMMA WrittenPut ==
  ASSUME Inv, OperationsPut, text' = text, hash_map' = hash_map, program' = program, NEW w,
         written' = Append(written, w),
         Put(w, program[Len(written) + 1], HeadOrder[Len(written) + 1])
  PROVE  OperationsPut'
<1> DEFINE n == Len(written)
<1>1. written \in Seq(Files) /\ n \in Nat
  BY DEF Inv, Filed
<1>2. /\ Len(written') = n + 1 /\ written'[n + 1] = w
      /\ \A k \in 1 .. n : written'[k] = written[k]
  BY <1>1
<1>3. \A v, o, i : Put(v, o, i)' <=> Put(v, o, i)
  BY PutKept
<1>4. HeadOrder' = HeadOrder
  BY SameText
<1>5. ASSUME NEW k \in 1 .. n + 1 PROVE Put(written'[k], program[k], HeadOrder[k])
  <2>1. CASE k \in 1 .. n
    BY <1>2, <2>1 DEF OperationsPut
  <2>2. CASE k \notin 1 .. n
    <3>1. k = n + 1
      BY <1>1, <2>2
    <3> QED  BY <1>2, <3>1
  <2> QED  BY <2>1, <2>2
<1>6. \A k \in 1 .. Len(written') : (Put(written[k], program[k], HeadOrder[k]))'
  BY <1>2, <1>3, <1>4, <1>5
<1> QED  BY <1>6 DEF OperationsPut

(* Behind the text, the operations have taken all their arguments. *)
LEMMA AllGiven ==
  ASSUME Inv, ReadSoFar, phase \in {"render", "done"}, NEW n \in 1 .. Len(program)
  PROVE  LET h == HeadOrder[n]
             o == program[n]
         IN  /\ o \in Operations /\ o.name \in Mnemonics /\ h \in Words
             /\ Len(ArgOrder(h)) \in Nat /\ Given(o, h, Len(ArgOrder(h)))
<1> DEFINE h == HeadOrder[n]
           o == program[n]
<1>1. program \in Seq(Operations)
  BY DEF Inv, Counted
<1>2. o \in Operations /\ o.name \in Mnemonics
  <2>1. \A k \in 1 .. Len(program) : program[k] \in Operations
    BY <1>1
  <2>2. o \in Operations
    BY <2>1
  <2> QED  BY <2>2 DEF Operations
<1>3. /\ Place /\ OperationsRead /\ Counted /\ text \in Texts /\ Len(text) \in Nat
      /\ Reached = Len(text) + 1
  BY TextTyped DEF Inv, ReadSoFar, Place, Phases, Reached
<1>4. h \in Words
  BY <1>3, HeadsInOrder
<1>5. /\ ArgOrder(h) \in Seq(Nat) /\ Len(ArgOrder(h)) \in Nat
      /\ \A k \in 1 .. Len(ArgOrder(h)) : ArgOrder(h)[k] < Len(text) + 1
  <2>1. /\ ArgOrder(h) \in Seq(Nat) /\ Len(ArgOrder(h)) \in Nat
        /\ \A k \in 1 .. Len(ArgOrder(h)) : ArgOrder(h)[k] \in Words
    BY <1>3, <1>4, HeadsInOrder
  <2>2. \A j \in Words : j \in 1 .. Len(text)
    BY <1>3, Positions
  <2>3. \A j \in Words : j < Len(text) + 1
    BY <1>3, <2>2
  <2> QED  BY <2>1, <2>3
<1>6. PICK c : Prefix(ArgOrder(h), c, Reached) /\ Given(o, h, c)
  BY <1>3 DEF OperationsRead
<1> HIDE DEF h, o
<1>7. c = Len(ArgOrder(h))
  <2> DEFINE m == Len(ArgOrder(h))
  <2>1. c \in 0 .. m /\ \A k \in 1 .. m : k <= c <=> ArgOrder(h)[k] < Len(text) + 1
    BY <1>3, <1>6 DEF Prefix
  <2>2. \A k \in 1 .. m : k <= c
    BY <1>5, <2>1
  <2>3. m \in Nat
    BY <1>5
  <2> HIDE DEF m
  <2>4. m # 0 => m <= c
    BY <2>2, <2>3
  <2> QED  BY <2>1, <2>3, <2>4 DEF m
<1> QED  BY <1>2, <1>4, <1>5, <1>6, <1>7 DEF h, o

LEMMA RenderingNext ==
  ASSUME Inv, ReadSoFar, NEW o, Rendering(o)
  PROVE  /\ phase \in {"render", "done"} /\ Len(written) + 1 \in 1 .. Len(program)
         /\ o = program[Len(written) + 1]
         /\ RawOp(o.size).bytes = CountedBytes(SizeOf(o.name))
<1>1. /\ phase \in {"render", "done"} /\ Len(written) + 1 \in 1 .. Len(program)
      /\ o = program[Len(written) + 1]
  BY DEF Rendering, Inv, Filed, Counted
<1> QED  BY <1>1 DEF Inv, Counted

LEMMA BelowThree == \A m \in Nat, k \in 1 .. 3 : m < k => m \in 0 .. 2
  OBVIOUS

(* What is encoded of an operation. *)
LEMMA EncodedPut ==
  ASSUME NEW o \in Operations, NEW args, NEW i,
         RawOp(o.size).bytes = CountedBytes(SizeOf(o.name)),
         \A n \in 1 .. Len(ArgOrder(i)) :
            /\ Accepts(o, n - 1, ArgWord(i, n))
            /\ IF IsLabel(o, n - 1, ArgWord(i, n)) THEN Holds(ArgWord(i, n), args[n - 1])
               ELSE args[n - 1] = ValueOf(ArgWord(i, n))
  PROVE  Put([at |-> offset, bytes |-> RawOp(o.size).bytes, op |-> Encoded(o, args)], o, i)
<1> DEFINE enc == [k \in 0 .. 2 |-> IF k < RawOp(o.size).args THEN args[k] ELSE 0]
           op == [code |-> InstructionOf(o.name).code, imm |-> InstructionOf(o.name).imm,
                  size |-> RawOp(o.size).op_size, args |-> enc]
           w == [at |-> offset, bytes |-> RawOp(o.size).bytes, op |-> op]
<1>1. Encoded(o, args) = op
  BY DEF Encoded
<1>2. ASSUME NEW n \in 1 .. Len(ArgOrder(i)) PROVE enc[n - 1] = args[n - 1]
  <2>1. n \in Nat /\ n - 1 \in Nat
    BY <1>2
  <2>2. n - 1 < Len(ArgsOf(o.name))
    BY DEF Accepts
  <2>3. /\ Len(ArgsOf(o.name)) \in 1 .. 3
        /\ RawOp(o.size).args = Len(ArgsOf(o.name))
    <3>1. o.name \in Mnemonics /\ o.size \in Sizes
      BY DEF Operations
    <3> QED  BY <3>1, FamilyTable, RoomForArgs
  <2>4. n - 1 \in 0 .. 2
    BY <2>1, <2>2, <2>3, BelowThree
  <2> QED  BY <2>2, <2>3, <2>4
<1>3. /\ w.bytes = RawOp(o.size).bytes /\ w.op.code = InstructionOf(o.name).code
      /\ w.op.imm = InstructionOf(o.name).imm /\ w.op.args = enc
  OBVIOUS
<1> HIDE DEF enc, op, w
<1>4. Put(w, o, i)
  BY <1>2, <1>3 DEF Put
<1> QED  BY <1>1, <1>4 DEF w

LEMMA RenderPlainRead == ASSUME Inv, ReadSoFar, RenderPlain PROVE ReadSoFar'
<1>1. PICK o \in {program[i] : i \in DOMAIN program}, junk \in [0 .. 2 -> Junk] :
        /\ Rendering(o) /\ o.size # "inst_jmp"
        /\ Write(o, [k \in 0 .. 2 |-> IF k \in DOMAIN o.args THEN o.args[k] ELSE junk[k]])
        /\ UNCHANGED table
  BY DEF RenderPlain
<1> DEFINE args == [k \in 0 .. 2 |-> IF k \in DOMAIN o.args THEN o.args[k] ELSE junk[k]]
           h == HeadOrder[Len(written) + 1]
           w == [at |-> offset, bytes |-> RawOp(o.size).bytes, op |-> Encoded(o, args)]
<1>2. /\ o \in Operations /\ o.name \in Mnemonics /\ Len(ArgOrder(h)) \in Nat
      /\ Given(o, h, Len(ArgOrder(h)))
  BY <1>1, RenderingNext, AllGiven
<1>3. ASSUME NEW n \in 1 .. Len(ArgOrder(h))
      PROVE  /\ Accepts(o, n - 1, ArgWord(h, n)) /\ ~IsLabel(o, n - 1, ArgWord(h, n))
             /\ args[n - 1] = ValueOf(ArgWord(h, n))
  <2>1. /\ Accepts(o, n - 1, ArgWord(h, n)) /\ ~IsLabel(o, n - 1, ArgWord(h, n))
        /\ n - 1 \in DOMAIN o.args /\ o.args[n - 1] = ValueOf(ArgWord(h, n))
    BY <1>1, <1>2 DEF Given
  <2>2. n - 1 \in 0 .. 2
    <3>1. n - 1 < Len(ArgsOf(o.name)) /\ Len(ArgsOf(o.name)) \in 1 .. 3
      BY <1>2, <2>1, FamilyTable DEF Accepts
    <3>2. n - 1 \in Nat
      BY <1>3
    <3> QED  BY <3>1, <3>2, BelowThree
  <2> QED  BY <2>1, <2>2
<1>4. Put(w, o, h)
  <2>1. RawOp(o.size).bytes = CountedBytes(SizeOf(o.name))
    BY <1>1, RenderingNext
  <2> HIDE DEF args, h
  <2> QED  BY <1>2, <1>3, <2>1, EncodedPut
<1>5. /\ written' = Append(written, w) /\ text' = text /\ phase' = phase
      /\ hash_map' = hash_map /\ status' = status /\ status = "running"
      /\ UNCHANGED scanVars /\ o = program[Len(written) + 1] /\ phase = "render"
  BY <1>1 DEF Write, table, Rendering
<1>6. program' = program
  BY <1>5 DEF scanVars, programVars
<1>7. OperationsPut'
  BY <1>4, <1>5, <1>6, WrittenPut DEF ReadSoFar
<1>8. Place' /\ Line' /\ OperationsRead' /\ LabelsRead'
  BY <1>5, ScanKept
<1>9. Phases' /\ Refusals'
  BY <1>5 DEF ReadSoFar, Phases, Refusals, scanVars, entryVars
<1> QED  BY <1>7, <1>8, <1>9 DEF ReadSoFar

(* A jump's label stands in the table, or nowhere in the text.             *)
LEMMA RenderJumpRead == ASSUME Inv, ReadSoFar, RenderJump PROVE ReadSoFar'
<1>1. PICK o \in {program[i] : i \in DOMAIN program} :
        /\ Rendering(o) /\ o.size = "inst_jmp" /\ Lookup(o.flag)
        /\ \/ status' = "running" /\ Write(o, [k \in 0 .. 2 |-> found'])
           \/ status' = "failed" /\ UNCHANGED <<text, phase, scanVars, fileVars>>
  BY DEF RenderJump
<1> DEFINE args == [k \in 0 .. 2 |-> found']
           n == Len(written) + 1
           h == HeadOrder[n]
           w == [at |-> offset, bytes |-> RawOp(o.size).bytes, op |-> Encoded(o, args)]
<1>2. /\ o \in Operations /\ o.name \in Mnemonics /\ Len(ArgOrder(h)) \in Nat
      /\ Given(o, h, Len(ArgOrder(h))) /\ n \in 1 .. Len(program)
  BY <1>1, RenderingNext, AllGiven
<1>3. /\ Len(ArgOrder(h)) = 1 /\ IsLabel(o, 0, ArgWord(h, 1))
      /\ Accepts(o, 0, ArgWord(h, 1)) /\ o.flag = ArgWord(h, 1)
  <2>1. Len(ArgOrder(h)) = 1 /\ IsLabel(o, 0, ArgWord(h, 1))
    BY <1>1, <1>2 DEF Given
  <2>2. 1 \in 1 .. Len(ArgOrder(h)) /\ 1 - 1 = 0
    BY <2>1
  <2> QED  BY <1>2, <2>1, <2>2 DEF Given
<1>4. /\ Chains /\ o.flag \in Labels /\ text \in Texts /\ phase = "render"
      /\ Place /\ LabelsRead /\ OperationsRead /\ Counted /\ OperationsPut
      /\ current = Len(text) + 1 /\ o = program[n] /\ status = "running"
  BY <1>1, <1>2 DEF Inv, ReadSoFar, Place, Operations, Rendering, Phases
<1>5. hash_map' = hash_map
  BY <1>1, <1>4, LookupTells
<1>6. CASE status' = "running" /\ Write(o, args)
  <2>1. Holds(o.flag, found')
    BY <1>1, <1>4, <1>6, LookupTells
  <2>2. ASSUME NEW m \in 1 .. Len(ArgOrder(h))
        PROVE  /\ Accepts(o, m - 1, ArgWord(h, m)) /\ IsLabel(o, m - 1, ArgWord(h, m))
               /\ Holds(ArgWord(h, m), args[m - 1])
    <3>1. m = 1 /\ m - 1 = 0 /\ args[0] = found'
      BY <1>3
    <3> HIDE DEF args, h
    <3> QED  BY <1>3, <2>1, <3>1
  <2>3. Put(w, o, h)
    <3>1. RawOp(o.size).bytes = CountedBytes(SizeOf(o.name))
      BY <1>1, RenderingNext
    <3> HIDE DEF args, h
    <3> QED  BY <1>2, <2>2, <3>1, EncodedPut
  <2>4. written' = Append(written, w) /\ text' = text /\ phase' = phase /\ UNCHANGED scanVars
    BY <1>6 DEF Write
  <2>5. program' = program
    BY <2>4 DEF scanVars, programVars
  <2>6. OperationsPut'
    BY <1>4, <1>5, <2>3, <2>4, <2>5, WrittenPut
  <2>7. Place' /\ Line' /\ OperationsRead' /\ LabelsRead'
    BY <1>5, <2>4, ScanKept
  <2>8. Phases' /\ Refusals'
    BY <1>6, <2>4 DEF ReadSoFar, Phases, Refusals, scanVars, entryVars
  <2> QED  BY <2>6, <2>7, <2>8 DEF ReadSoFar
<1>7. CASE status' = "failed" /\ UNCHANGED <<text, phase, scanVars, fileVars>>
  <2>1. \A a : ~Holds(o.flag, a)
    BY <1>1, <1>4, <1>7, LookupTells
  <2>2. ASSUME Sound(Reading) PROVE FALSE
    <3>1. n \in 1 .. Len(HeadOrder)
      BY <1>2, <1>4, HeadsInOrder
    <3>2. /\ n \in DOMAIN Reading.ops /\ Reading.ops[n].name = text[h]
          /\ DOMAIN Reading.ops[n].args = 1 .. 1 /\ Reading.ops[n].args[1] = o.flag
      BY <1>3, <1>4, <3>1, ReadingParts
    <3>3. o.name = text[h] /\ ArgsOf(o.name)[1] = "target" /\ o.flag \notin HexTokens
      BY <1>2, <1>3 DEF Given, IsLabel
    <3>4. SoundOperation(Reading, Reading.ops[n])
      BY <2>2, <3>2 DEF Sound
    <3>5. o.flag \in Names(Reading)
      <4> DEFINE q == Reading.ops[n]
      <4>1. 1 \in DOMAIN q.args /\ q.args[1] = o.flag /\ ArgsOf(q.name)[1] = "target"
        BY <3>2, <3>3
      <4>2. SoundOperation(Reading, q)
        BY <3>4
      <4> HIDE DEF q
      <4>3. q.args[1] \in HexTokens \cup Names(Reading)
        BY <4>1, <4>2 DEF SoundOperation
      <4> QED  BY <3>3, <4>1, <4>3
    <3>6. PICK i \in Colons : LabelOf(i) = o.flag
      BY <1>4, <3>5, ReadingParts
    <3>7. i \in Known
      BY <1>4, <3>6, Positions, TextTyped DEF Known
    <3>8. Stands(i, StartOf(BeforeOf(i) + 1))
      BY DEF Stands
    <3> QED  BY <1>4, <2>1, <3>6, <3>7, <3>8 DEF LabelsRead
  <2>3. Place' /\ Line' /\ OperationsRead' /\ LabelsRead' /\ OperationsPut'
    BY <1>5, <1>7, SameRead
  <2>4. Phases' /\ Refusals'
    <3>1. text' = text
      BY <1>7
    <3>2. ~ Sound(Reading)'
      BY <2>2, <3>1, SameText
    <3> QED  BY <1>7, <3>2 DEF ReadSoFar, Phases, Refusals, scanVars, entryVars
  <2> QED  BY <2>3, <2>4 DEF ReadSoFar
<1> QED  BY <1>1, <1>6, <1>7

-----------------------------------------------------------------------------
(* The invariant of the pass. *)

LEMMA InitRead == Init => ReadInv
<1> SUFFICES ASSUME Init PROVE ReadSoFar
  BY DEF ReadInv
<1>1. /\ text \in Texts /\ phase = "header" /\ current = 1 /\ buffer = End
      /\ in_instruction = FALSE /\ program = <<>> /\ found_entry = FALSE /\ written = <<>>
      /\ hash_map = [b \in Buckets |-> <<>>] /\ status = "running"
      /\ Len(program) = 0 /\ Len(written) = 0
  BY DEF Init, TableInit
<1>2. /\ Len(text) \in Nat /\ CodeAt \subseteq 1 .. Len(text) /\ Colons \subseteq CodeAt
      /\ Words \subseteq CodeAt /\ Heads \subseteq Words
  BY <1>1, TextTyped, Positions
<1>3. \A i \in CodeAt : ~ (i < 1)
  BY <1>2
<1>4. Place
  <2>1. 1 .. 1 - 1 = {} /\ 1 \in 1 .. Len(text) + 1
    BY <1>2
  <2> QED  BY <1>1, <1>3, <2>1 DEF Place
<1>5. Reached = 1
  BY <1>1 DEF Reached
<1>6. Line
  BY <1>1, <1>2, <1>3, <1>5 DEF Line
<1>7. OperationsRead
  <2>1. /\ Len(HeadOrder) \in Nat
        /\ \A k \in 1 .. Len(HeadOrder) : HeadOrder[k] \in Heads
    BY <1>1, <1>2, WordsInOrder DEF HeadOrder
  <2>2. \A k \in 1 .. Len(HeadOrder) : ~ (k <= 0) /\ ~ (HeadOrder[k] < 1)
    <3>1. \A k \in 1 .. Len(HeadOrder) : HeadOrder[k] \in CodeAt
      BY <1>2, <2>1
    <3>2. \A k \in 1 .. Len(HeadOrder) : ~ (k <= 0)
      OBVIOUS
    <3> QED  BY <1>3, <3>1, <3>2
  <2>3. Prefix(HeadOrder, 0, 1)
    BY <2>1, <2>2 DEF Prefix
  <2> QED  BY <1>1, <1>5, <2>3 DEF OperationsRead
<1>8. LabelsRead
  <2>1. Known = {}
    BY <1>1, <1>2, <1>3 DEF Known
  <2>2. \A l \in Labels : \A a : ~Holds(l, a)
    <3>1. \A l \in Labels : Chain(l) = <<>>
      BY <1>1, TableAssumption DEF Chain
    <3> QED  BY <3>1 DEF Holds
  <2> QED  BY <1>1, <2>1, <2>2 DEF LabelsRead
<1>9. OperationsPut /\ Phases /\ Refusals
  BY <1>1 DEF OperationsPut, Phases, Refusals
<1> QED  BY <1>4, <1>6, <1>7, <1>8, <1>9 DEF ReadSoFar

LEMMA TextStays == [Next]_vars => text' = text
<1>1. Scan => text' = text
  BY DEF Scan, Comment, Separator, LineEnd, TokenRefused, Label, LabelRefused, Token,
         TokenTooLong, Ends
<1>2. RenderPlain \/ RenderJump => text' = text
  BY DEF RenderPlain, RenderJump, Write
<1> QED  BY <1>1, <1>2 DEF Next, vars, ReadHeader, BadHeader, CheckEntry, Finish, HostFails,
         Ends

LEMMA NextRead == Inv /\ ReadInv /\ [Next]_vars => ReadInv'
<1> SUFFICES ASSUME Inv, ReadInv, [Next]_vars, CommentsApart' PROVE ReadSoFar'
  BY DEF ReadInv
<1>1. CommentsApart /\ ReadSoFar
  BY TextStays, SameText DEF ReadInv
<1>2. CASE Comment
  BY <1>1, <1>2, CommentRead
<1>3. CASE Separator
  BY <1>1, <1>3, SeparatorRead
<1>4. CASE LineEnd
  BY <1>1, <1>4, LineEndRead
<1>5. CASE TokenRefused
  BY <1>1, <1>5, TokenRefusedRead
<1>6. CASE Label
  BY <1>1, <1>6, LabelRead
<1>7. CASE LabelRefused
  BY <1>1, <1>7, LabelRefusedRead
<1>8. CASE Token
  BY <1>1, <1>8, TokenRead
<1>9. CASE TokenTooLong
  BY <1>1, <1>9, TokenTooLongRead
<1>10. CASE ReadHeader
  BY <1>1, <1>10, HeaderRead
<1>11. CASE BadHeader
  BY <1>1, <1>11, EndsRead DEF BadHeader
<1>12. CASE CheckEntry
  BY <1>1, <1>12, CheckEntryRead
<1>13. CASE RenderPlain
  BY <1>1, <1>13, RenderPlainRead
<1>14. CASE RenderJump
  BY <1>1, <1>14, RenderJumpRead
<1>15. CASE Finish
  BY <1>1, <1>15, FinishRead
<1>16. CASE HostFails
  BY <1>1, <1>16, EndsRead DEF HostFails
<1>17. CASE UNCHANGED vars
  <2>1. /\ text' = text /\ phase' = phase /\ status' = status
        /\ UNCHANGED <<text, scanVars, fileVars, hash_map>>
    BY <1>17 DEF vars, table
  <2>2. Place' /\ Line' /\ OperationsRead' /\ LabelsRead' /\ OperationsPut'
    BY <1>1, <2>1, SameRead
  <2>3. Refusals'
    BY <1>1, <2>1, SameText DEF ReadSoFar, Refusals
  <2>4. Phases'
    BY <1>1, <2>1 DEF ReadSoFar, Phases, scanVars, entryVars
  <2> QED  BY <2>2, <2>3, <2>4 DEF ReadSoFar
<1> QED  BY <1>2, <1>3, <1>4, <1>5, <1>6, <1>7, <1>8, <1>9, <1>10, <1>11, <1>12, <1>13, <1>14,
            <1>15, <1>16, <1>17 DEF Next, Scan

LEMMA ReadAlways == Spec => []ReadInv
<1>1. Inv /\ ReadInv /\ [Next]_vars => ReadInv'
  BY NextRead
<1> QED  BY InitRead, <1>1, Invariant, PTL DEF Spec

-----------------------------------------------------------------------------
(* What the invariant says of the end. *)

(* The bytes the pass counts for an operation. *)
LEMMA FootprintIs == \A n \in Mnemonics : Footprint(n) = CountedBytes(SizeOf(n))
<1> SUFFICES ASSUME NEW n \in Mnemonics PROVE Footprint(n) = CountedBytes(SizeOf(n))
  OBVIOUS
<1>1. \/ Len(ArgsOf(n)) = 1 /\ CountedBytes(SizeOf(n)) = 2 * WordSize
      \/ Len(ArgsOf(n)) = 2 /\ CountedBytes(SizeOf(n)) = 3 * WordSize
      \/ Len(ArgsOf(n)) = 3 /\ CountedBytes(SizeOf(n)) = 4 * WordSize
  BY FamilyTable, BytesOfSizes
<1>2. WordSize \in Nat
  BY WidthsAssumption
<1>3. ASSUME NEW k \in 1 .. 3, Len(ArgsOf(n)) = k PROVE Footprint(n) = (k + 1) * WordSize
  BY <1>3 DEF Footprint
<1>4. 1 + 1 = 2 /\ 2 + 1 = 3 /\ 3 + 1 = 4 /\ 1 \in 1 .. 3 /\ 2 \in 1 .. 3 /\ 3 \in 1 .. 3
  OBVIOUS
<1> QED  BY <1>1, <1>3, <1>4

(* The operations of a text take the bytes the pass counts.                *)
LEMMA SizeIs ==
  ASSUME NEW r, NEW n \in Nat, NEW f,
         f[0] = 0, \A k \in 1 .. n : f[k] = f[k - 1] + Footprint(r.ops[k].name)
  PROVE  Size(r, n) = f[n]
<1> DEFINE step(g) == [k \in 0 .. n |-> IF k = 0 THEN 0
                                        ELSE g[k - 1] + Footprint(r.ops[k].name)]
           size == CHOOSE g : g = step(g)
           count == [k \in 0 .. n |-> f[k]]
<1>1. Size(r, n) = size[n]
  BY DEF Size
<1>2. count = step(count)
  <2>1. \A k \in 0 .. n : k = 0 \/ (k \in 1 .. n /\ k - 1 \in 0 .. n)
    OBVIOUS
  <2>2. \A k \in 0 .. n : f[k] = IF k = 0 THEN 0
                                 ELSE count[k - 1] + Footprint(r.ops[k].name)
    BY <2>1
  <2> QED  BY <2>2
<1>3. size = step(size)
  <2> HIDE DEF step, count
  <2> QED  BY <1>2
<1>4. /\ size[0] = 0
      /\ \A k \in 1 .. n : size[k] = size[k - 1] + Footprint(r.ops[k].name)
  <2> HIDE DEF size
  <2>1. 0 \in 0 .. n /\ \A k \in 1 .. n : k \in 0 .. n /\ k # 0
    OBVIOUS
  <2> QED  BY <1>3, <2>1
<1> HIDE DEF size
<1> DEFINE S == { k \in 0 .. n : size[k] # f[k] }
<1>5. ASSUME S # {} PROVE FALSE
  <2> DEFINE s == InOrder(S)
  <2>1. S \in SUBSET Nat /\ IsFiniteSet(S)
    <3>1. S \in SUBSET (0 .. n) /\ 0 .. n \subseteq Nat
      OBVIOUS
    <3>2. IsFiniteSet(0 .. n)
      BY FS_Interval
    <3> HIDE DEF S
    <3> QED  BY <3>1, <3>2, FS_Subset
  <2>2. PICK m \in S : \A k \in S : m <= k
    <3>1. /\ s \in Seq(Nat) /\ \A k \in 1 .. Len(s) : s[k] \in S
          /\ \A i \in S : \E k \in 1 .. Len(s) : s[k] = i
          /\ Increasing(s)
      BY <2>1, InOrderIs
    <3> HIDE DEF S, s
    <3>2. 1 \in 1 .. Len(s) /\ DOMAIN s = 1 .. Len(s) /\ \A k \in 1 .. Len(s) : s[k] \in Nat
      BY <1>5, <3>1
    <3>3. \A k \in 1 .. Len(s) : s[1] <= s[k]
      <4>1. \A k \in 1 .. Len(s) : k = 1 \/ 1 < k
        BY <3>1
      <4>2. \A k \in 1 .. Len(s) : 1 < k => s[1] < s[k]
        BY <3>1, <3>2 DEF Increasing
      <4>3. \A i, j \in Nat : i < j \/ i = j => i <= j
        OBVIOUS
      <4> QED  BY <3>2, <4>1, <4>2, <4>3
    <3> QED  BY <3>1, <3>2, <3>3
  <2>3. m \in 0 .. n /\ size[m] # f[m]
    OBVIOUS
  <2>4. m \in 1 .. n /\ m - 1 \in 0 .. n /\ ~ (m <= m - 1)
    BY <1>4, <2>3
  <2>5. size[m - 1] = f[m - 1]
    BY <2>2, <2>4
  <2> QED  BY <1>4, <2>3, <2>4, <2>5
<1> QED  BY <1>1, <1>5

(* Behind the text, all its operations and labels are known, and an        *)
(* address counted is the size of the operations before it.                *)
LEMMA AllRead ==
  ASSUME Inv, ReadSoFar, phase \in {"render", "done"}
  PROVE  /\ text \in Texts /\ Len(program) = Len(HeadOrder) /\ Len(program) \in Nat
         /\ Known = Colons
         /\ \A n \in 0 .. Len(program) : Size(Reading, n) = StartOf(n + 1)
         /\ \A n \in 1 .. Len(program) : program[n].name = text[HeadOrder[n]]
<1>1. /\ Place /\ OperationsRead /\ Counted /\ text \in Texts /\ Len(text) \in Nat
      /\ current = Len(text) + 1 /\ Reached = Len(text) + 1 /\ Len(program) \in Nat
  BY TextTyped DEF Inv, ReadSoFar, Place, Phases, Reached, Counted
<1>2. Known = Colons
  BY <1>1, Positions DEF Known
<1>3. Len(program) = Len(HeadOrder)
  <2> DEFINE m == Len(HeadOrder)
             n == Len(program)
  <2>1. /\ n \in 0 .. m /\ m \in Nat
        /\ \A k \in 1 .. m : k <= n <=> HeadOrder[k] < Len(text) + 1
    BY <1>1, HeadsInOrder DEF OperationsRead, Prefix
  <2>2. \A k \in 1 .. m : HeadOrder[k] < Len(text) + 1
    <3>1. \A j \in Words : j \in 1 .. Len(text)
      BY <1>1, Positions
    <3>2. \A j \in Words : j < Len(text) + 1
      BY <1>1, <3>1
    <3> QED  BY <1>1, <3>2, HeadsInOrder
  <2> HIDE DEF m, n
  <2>3. m # 0 => m \in 1 .. m
    BY <2>1
  <2>4. m # 0 => m <= n
    BY <2>1, <2>2, <2>3
  <2> QED  BY <2>1, <2>4 DEF m, n
<1>4. ASSUME NEW n \in 1 .. Len(program) PROVE program[n].name = text[HeadOrder[n]]
  BY <1>4, AllGiven DEF Given
<1>5. ASSUME NEW n \in 0 .. Len(program) PROVE Size(Reading, n) = StartOf(n + 1)
  <2> DEFINE f == [k \in 0 .. Len(program) |-> StartOf(k + 1)]
  <2>1. f[0] = 0
    BY <1>1 DEF Counted
  <2>2. ASSUME NEW k \in 1 .. n PROVE f[k] = f[k - 1] + Footprint(Reading.ops[k].name)
    <3>1. k \in 1 .. Len(program) /\ k - 1 \in 0 .. Len(program) /\ k - 1 + 1 = k
          /\ k \in 0 .. Len(program)
      BY <1>1, <1>5, <2>2
    <3>2. StartOf(k + 1) = StartOf(k) + Footprint(program[k].name)
      <4>1. program[k].name \in Mnemonics
        <5>1. program \in Seq(Operations)
          BY <1>1 DEF Counted
        <5>2. program[k] \in Operations
          BY <3>1, <5>1
        <5> QED  BY <5>2 DEF Operations
      <4> QED  BY <1>1, <3>1, <4>1, FootprintIs DEF Counted
    <3>3. Reading.ops[k].name = program[k].name
      BY <1>1, <1>3, <1>4, <3>1, ReadingParts
    <3>4. f[k] = StartOf(k + 1) /\ f[k - 1] = StartOf(k)
      BY <3>1
    <3> HIDE DEF f
    <3> QED  BY <3>2, <3>3, <3>4
  <2>3. f[n] = StartOf(n + 1) /\ n \in Nat
    BY <1>1
  <2> HIDE DEF f
  <2> QED  BY <2>1, <2>2, <2>3, SizeIs
<1> QED  BY <1>1, <1>2, <1>3, <1>4, <1>5

(* The address a label has in the table is the one it stands for.          *)
LEMMA AddressIs ==
  ASSUME Inv, ReadSoFar, phase \in {"render", "done"}, NEW i \in Colons, NEW a, Stands(i, a)
  PROVE  a = AddressOf(Reading, LabelOf(i))
<1>1. /\ text \in Texts /\ Known = Colons
      /\ \A n \in 0 .. Len(program) : Size(Reading, n) = StartOf(n + 1)
  BY AllRead
<1>2. /\ BeforeOf(i) \in 0 .. Len(program)
      /\ \A j \in Colons : LabelOf(i) = LabelOf(j) => i = j
  BY <1>1 DEF ReadSoFar, LabelsRead
<1>3. a = Size(Reading, BeforeOf(i))
  BY <1>1, <1>2 DEF Stands
<1>4. /\ DOMAIN Reading.labels = Colons
      /\ \A j \in Colons : Reading.labels[j].name = LabelOf(j)
      /\ Reading.labels[i].before = BeforeOf(i)
  BY <1>1, ReadingParts
<1>5. (CHOOSE j \in DOMAIN Reading.labels : Reading.labels[j].name = LabelOf(i)) = i
  <2>1. \A j \in DOMAIN Reading.labels : Reading.labels[j].name = LabelOf(i) => j = i
    BY <1>2, <1>4
  <2>2. i \in DOMAIN Reading.labels /\ Reading.labels[i].name = LabelOf(i)
    BY <1>4
  <2> QED  BY <2>1, <2>2
<1> QED  BY <1>3, <1>4, <1>5 DEF AddressOf

LEMMA HeldAddress ==
  ASSUME Inv, ReadSoFar, phase \in {"render", "done"}, NEW l \in Labels, NEW a, Holds(l, a)
  PROVE  a = AddressOf(Reading, l) /\ l \in Names(Reading)
<1>1. Known = Colons /\ text \in Texts
  BY AllRead
<1>2. PICK i \in Colons : LabelOf(i) = l /\ Stands(i, a)
  BY <1>1 DEF ReadSoFar, LabelsRead
<1> QED  BY <1>1, <1>2, AddressIs, ReadingParts

(* The words given to the operations of the text. *)
LEMMA ArgumentsRead ==
  ASSUME Inv, ReadSoFar, phase \in {"render", "done"}, NEW k \in 1 .. Len(program)
  PROVE  LET o == Reading.ops[k]
             h == HeadOrder[k]
         IN  /\ k \in DOMAIN Reading.ops /\ o.name = program[k].name /\ o.name \in Mnemonics
             /\ DOMAIN o.args = 1 .. Len(ArgOrder(h)) /\ Len(o.args) = Len(ArgOrder(h))
             /\ Len(o.args) \in Nat /\ Given(program[k], h, Len(o.args))
             /\ \A n \in 1 .. Len(ArgOrder(h)) :
                   /\ o.args[n] = ArgWord(h, n) /\ o.args[n] \in Labels
                   /\ IsTarget(o, n) <=> IsLabel(program[k], n - 1, ArgWord(h, n))
<1> DEFINE o == Reading.ops[k]
           h == HeadOrder[k]
<1>1. /\ text \in Texts /\ Len(program) = Len(HeadOrder) /\ Len(program) \in Nat
      /\ program[k].name = text[h]
  BY AllRead
<1>2. k \in 1 .. Len(HeadOrder)
  BY <1>1
<1>3. /\ k \in DOMAIN Reading.ops /\ o.name = text[h]
      /\ DOMAIN o.args = 1 .. Len(ArgOrder(h)) /\ Len(o.args) = Len(ArgOrder(h))
      /\ Len(o.args) \in Nat
      /\ \A n \in 1 .. Len(ArgOrder(h)) : o.args[n] = ArgWord(h, n)
  BY <1>1, <1>2, ReadingParts
<1>4. program[k].name \in Mnemonics /\ h \in Words /\ Given(program[k], h, Len(ArgOrder(h)))
  BY AllGiven
<1>5. \A n \in 1 .. Len(ArgOrder(h)) : ArgWord(h, n) \in Labels
  <2>1. \A n \in 1 .. Len(ArgOrder(h)) : ArgOrder(h)[n] \in Words
    BY <1>1, Positions, WordsInOrder DEF ArgOrder
  <2> QED  BY <2>1, WordsAreTokens, TextAssumption DEF ArgWord
<1> HIDE DEF o, h
<1>6. ASSUME NEW n \in 1 .. Len(ArgOrder(h))
      PROVE  IsTarget(o, n) <=> IsLabel(program[k], n - 1, ArgWord(h, n))
  <2>1. n - 1 + 1 = n
    BY <1>6
  <2> QED  BY <1>1, <1>3, <2>1 DEF IsTarget, IsLabel
<1> QED  BY <1>1, <1>3, <1>4, <1>5, <1>6 DEF o, h

LEMMA ReadMeaning ==
  ASSUME Inv, ReadSoFar, LeavesFile
  PROVE  LET r == Reading
         IN  /\ entry_point = AddressOf(r, "ENTRY")
             /\ Len(written) <= Len(r.ops)
             /\ \A k \in DOMAIN written : Renders(r, k, written[k])
             /\ phase = "done" => Len(written) = Len(r.ops)
<1>1. phase \in {"render", "done"}
  BY DEF LeavesFile
<1>2. /\ text \in Texts /\ Len(program) = Len(HeadOrder) /\ Len(program) \in Nat
      /\ Known = Colons
      /\ \A n \in 0 .. Len(program) : Size(Reading, n) = StartOf(n + 1)
  BY <1>1, AllRead
<1>3. /\ Len(written) \in Nat /\ DOMAIN written = 1 .. Len(written)
      /\ Len(written) <= Len(program)
      /\ phase = "done" => Len(written) = Len(program)
      /\ \A k \in 1 .. Len(written) : written[k].at = StartOf(k)
  BY DEF Inv, Filed
<1>4. Len(Reading.ops) = Len(program)
  BY <1>2, ReadingParts
<1>5. entry_point = AddressOf(Reading, "ENTRY")
  <2>1. PICK i \in Known : LabelOf(i) = "ENTRY" /\ Stands(i, entry_point)
    BY <1>1 DEF ReadSoFar, Phases, LabelsRead
  <2> QED  BY <1>1, <1>2, <2>1, AddressIs
<1>6. ASSUME NEW k \in DOMAIN written PROVE Renders(Reading, k, written[k])
  <2> DEFINE o == Reading.ops[k]
             w == written[k]
             h == HeadOrder[k]
  <2>1. k \in 1 .. Len(written) /\ k \in 1 .. Len(program)
        /\ k - 1 \in 0 .. Len(program) /\ k - 1 + 1 = k
    BY <1>2, <1>3
  <2>2. /\ o.name = program[k].name /\ DOMAIN o.args = 1 .. Len(ArgOrder(h))
        /\ \A n \in 1 .. Len(ArgOrder(h)) :
              /\ o.args[n] = ArgWord(h, n) /\ o.args[n] \in Labels
              /\ IsTarget(o, n) <=> IsLabel(program[k], n - 1, ArgWord(h, n))
    BY <1>1, <2>1, ArgumentsRead
  <2>3. Put(w, program[k], h)
    BY <2>1 DEF ReadSoFar, OperationsPut
  <2>4. w.at = Size(Reading, k - 1)
    BY <1>2, <1>3, <2>1
  <2>5. w.bytes = Footprint(o.name)
    <3>1. /\ RawOp(program[k].size).bytes = CountedBytes(SizeOf(program[k].name))
          /\ program[k].name \in Mnemonics
      <4>1. program \in Seq(Operations)
        BY DEF Inv, Counted
      <4>2. program[k] \in Operations
        BY <2>1, <4>1
      <4> QED  BY <2>1, <4>2 DEF Inv, Counted, Operations
    <3> QED  BY <2>2, <2>3, <3>1, FootprintIs DEF Put
  <2>6. w.op.code = InstructionOf(o.name).code /\ w.op.imm = InstructionOf(o.name).imm
    BY <2>2, <2>3 DEF Put
  <2>7. ASSUME NEW n \in DOMAIN o.args
        PROVE  w.op.args[n - 1] = IF IsTarget(o, n) THEN AddressOf(Reading, o.args[n])
                                  ELSE ValueOf(o.args[n])
    <3>1. /\ n \in 1 .. Len(ArgOrder(h)) /\ o.args[n] = ArgWord(h, n)
          /\ ArgWord(h, n) \in Labels
          /\ IsTarget(o, n) <=> IsLabel(program[k], n - 1, ArgWord(h, n))
      BY <2>2
    <3>2. CASE IsTarget(o, n)
      <4>1. Holds(ArgWord(h, n), w.op.args[n - 1])
        BY <2>3, <3>1, <3>2 DEF Put
      <4>2. w.op.args[n - 1] = AddressOf(Reading, ArgWord(h, n))
        BY <1>1, <3>1, <4>1, HeldAddress
      <4> QED  BY <3>1, <3>2, <4>2
    <3>3. CASE ~IsTarget(o, n)
      <4>1. w.op.args[n - 1] = ValueOf(ArgWord(h, n))
        BY <2>3, <3>1, <3>3 DEF Put
      <4> QED  BY <3>1, <3>3, <4>1
    <3> QED  BY <3>2, <3>3
  <2> QED  BY <2>4, <2>5, <2>6, <2>7 DEF Renders
<1> QED  BY <1>3, <1>4, <1>5, <1>6

LEMMA DoneIsSound ==
  ASSUME Inv, ReadSoFar, phase = "done"
  PROVE  Sound(Reading)
<1>1. /\ text \in Texts /\ Len(program) = Len(HeadOrder) /\ Len(program) \in Nat
      /\ Known = Colons
  BY AllRead
<1>2. Reading.tokens \cap (FullTokens \cup LongTokens) = {}
  <2>1. current = Len(text) + 1 /\ Len(text) \in Nat
    BY <1>1, TextTyped DEF ReadSoFar, Phases
  <2>2. \A i \in CodeAt : i < current
    BY <1>1, <2>1, Positions
  <2>3. \A i \in CodeAt : text[i] \notin FullTokens \cup LongTokens
    BY <2>2 DEF ReadSoFar, Place
  <2> QED  BY <1>1, <2>3, ReadingParts
<1>3. ASSUME NEW k \in DOMAIN Reading.ops PROVE SoundOperation(Reading, Reading.ops[k])
  <2> DEFINE o == Reading.ops[k]
             h == HeadOrder[k]
             p == program[k]
             c == Len(o.args)
  <2>1. k \in 1 .. Len(program)
    BY <1>1, <1>3, ReadingParts
  <2>2. /\ o.name = p.name /\ o.name \in Mnemonics
        /\ DOMAIN o.args = 1 .. c /\ Len(ArgOrder(h)) = c
        /\ c \in Nat /\ Given(p, h, c)
        /\ \A n \in 1 .. c :
              /\ o.args[n] = ArgWord(h, n) /\ o.args[n] \in Labels
              /\ IsTarget(o, n) <=> IsLabel(p, n - 1, ArgWord(h, n))
    BY <2>1, ArgumentsRead
  <2>3. k \in 1 .. Len(written)
    BY <2>1 DEF Inv, Filed
  <2>4. Put(written[k], p, h)
    BY <2>3 DEF ReadSoFar, OperationsPut
  <2> HIDE DEF o, h, p, c
  <2>5. Len(ArgsOf(o.name)) \in Nat
    BY <2>2, FamilyTable
  <2>6. ASSUME NEW n \in 1 .. c
        PROVE  /\ n - 1 < Len(ArgsOf(o.name)) /\ n - 1 \in Nat /\ n - 1 + 1 = n
               /\ Accepts(p, n - 1, o.args[n])
               /\ IsTarget(o, n) => o.args[n] \in Names(Reading)
    <3>1. n - 1 \in Nat /\ n - 1 + 1 = n
      BY <2>6
    <3>2. Accepts(p, n - 1, ArgWord(h, n)) /\ o.args[n] = ArgWord(h, n)
      BY <2>2 DEF Given
    <3>3. n - 1 < Len(ArgsOf(o.name))
      BY <2>2, <3>2 DEF Accepts
    <3>4. ASSUME IsTarget(o, n) PROVE o.args[n] \in Names(Reading)
      <4>1. Holds(ArgWord(h, n), written[k].op.args[n - 1]) /\ ArgWord(h, n) \in Labels
        BY <2>2, <2>4, <3>4 DEF Put
      <4> QED  BY <3>2, <4>1, HeldAddress
    <3> QED  BY <3>1, <3>2, <3>3, <3>4
  <2>7. c <= Len(ArgsOf(o.name))
    <3>1. c # 0 => c \in 1 .. c
      BY <2>2
    <3>2. c # 0 => c - 1 < Len(ArgsOf(o.name))
      BY <2>6, <3>1
    <3> QED  BY <2>2, <2>5, <3>2
  <2>8. ASSUME NEW n \in 1 .. c
        PROVE  CASE ArgsOf(o.name)[n] = "register" -> o.args[n] \in RegisterNames
                 [] ArgsOf(o.name)[n] = "number"   -> o.args[n] \in DOMAIN NumberOf
                 [] ArgsOf(o.name)[n] = "target"   -> o.args[n] \in HexTokens \cup Names(Reading)
    <3>1. ArgsOf(o.name)[n] \in {"register", "number", "target"}
      <4>1. n \in 1 .. Len(ArgsOf(o.name))
        BY <2>2, <2>5, <2>7
      <4> QED  BY <2>2, <4>1, FamilyTable
    <3>2. /\ ArgsOf(o.name)[n] = "register" => o.args[n] \in RegisterNames
          /\ ArgsOf(o.name)[n] = "number" => o.args[n] \in DOMAIN NumberOf
      BY <2>2, <2>6 DEF Accepts
    <3>3. ArgsOf(o.name)[n] = "target" => o.args[n] \in HexTokens \cup Names(Reading)
      BY <2>6 DEF IsTarget
    <3> QED  BY <3>1, <3>2, <3>3
  <2>9. SoundOperation(Reading, o)
    <3>1. Len(o.args) <= Len(ArgsOf(o.name))
      BY <2>7 DEF c
    <3> QED  BY <2>2, <2>8, <3>1, Zenon DEF SoundOperation
  <2> QED  BY <2>9 DEF o
<1>4. \A i, j \in DOMAIN Reading.labels :
         Reading.labels[i].name = Reading.labels[j].name => i = j
  BY <1>1, ReadingParts DEF ReadSoFar, LabelsRead
<1>5. "ENTRY" \in Names(Reading)
  BY <1>1, ReadingParts DEF ReadSoFar, LabelsRead, Phases
<1> QED  BY <1>2, <1>3, <1>4, <1>5 DEF Sound

(* A file the assembler leaves, whether or not it was finished, holds what *)
(* the text means: every operation in its place, with its arguments, and   *)
(* every label the address of the operation behind it, wherever it stands. *)
THEOREM MeaningKept == Spec => []AssemblesText
<1>1. Inv /\ ReadInv => AssemblesText
  BY ReadMeaning DEF ReadInv, AssemblesText
<1> QED  BY <1>1, Invariant, ReadAlways, PTL

(* Texts without faults are assembled, and no others: what is refused has  *)
(* a fault, and what has a fault is refused.                               *)
THEOREM FaultsRefused == Spec => []AcceptsExactlySound
<1>1. Inv /\ ReadInv => AcceptsExactlySound
  BY DoneIsSound DEF ReadInv, ReadSoFar, Refusals, AcceptsExactlySound
<1> QED  BY <1>1, Invariant, ReadAlways, PTL
=============================================================================
