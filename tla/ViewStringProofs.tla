-------------------------- MODULE ViewStringProofs --------------------------
(***************************************************************************)
(* Proofs about views of strings, for any characters, texts and needles,   *)
(* and about numbers, for any width of a word.  None of the values that    *)
(* MCStrings has for TLC is used: it is there for NumberLaw.               *)
(***************************************************************************)
EXTENDS MCStrings, TLAPS, SequenceTheorems, WellFoundedInduction

View == [ptr : Int, len : Nat]

(* What the laws need of a view: that it lies in the text.                 *)
Good(v) == v \in View /\ Inside(v)

-----------------------------------------------------------------------------
(* What a view shows. *)

LEMMA NullGood == Null \in View /\ Inside(Null)
  BY DEF Null, View, Inside

LEMMA ShownTyped ==
  ASSUME text \in Seq(Chars), NEW v, Good(v)
  PROVE  /\ Shown(v) \in Seq(Chars) /\ Len(Shown(v)) = v.len
         /\ \A i \in 1 .. v.len : Shown(v)[i] = text[v.ptr + i]
<1>1. /\ v.ptr \in Int /\ v.len \in Nat
      /\ v.len = 0 \/ (0 <= v.ptr /\ v.ptr + v.len <= Len(text))
  BY DEF Good, View, Inside
<1>2. Len(text) \in Nat
  OBVIOUS
<1>3. ASSUME NEW i \in 1 .. v.len
      PROVE  At(v, i - 1) = text[v.ptr + i] /\ text[v.ptr + i] \in Chars
  <2>1. v.ptr + i \in 1 .. Len(text) /\ v.ptr + (i - 1) + 1 = v.ptr + i
    BY <1>1, <1>2
  <2> QED  BY <2>1 DEF At
<1>4. Shown(v) \in [1 .. v.len -> Chars]
  BY <1>3 DEF Shown
<1>5. Shown(v) \in Seq(Chars) /\ Len(Shown(v)) = v.len
  BY <1>1, <1>4
<1> QED  BY <1>3, <1>5 DEF Shown

-----------------------------------------------------------------------------
(* Sequences. *)

LEMMA Joined ==
  ASSUME NEW S, NEW s \in Seq(S), NEW t \in Seq(S), NEW u \in Seq(S),
         Len(u) = Len(s) + Len(t),
         \A i \in 1 .. Len(s) : u[i] = s[i],
         \A i \in 1 .. Len(t) : u[Len(s) + i] = t[i]
  PROVE  s \o t = u
<1>1. /\ s \o t \in Seq(S) /\ Len(s \o t) = Len(u)
      /\ \A i \in 1 .. Len(s) + Len(t) :
            (s \o t)[i] = IF i <= Len(s) THEN s[i] ELSE t[i - Len(s)]
  BY ConcatProperties
<1>2. ASSUME NEW i \in 1 .. Len(u) PROVE (s \o t)[i] = u[i]
  <2>1. Len(s) \in Nat /\ Len(t) \in Nat
    OBVIOUS
  <2>2. CASE i <= Len(s)
    <3>1. i \in 1 .. Len(s)
      BY <2>1, <2>2
    <3> QED  BY <1>1, <2>2, <3>1
  <2>3. CASE i > Len(s)
    <3>1. i - Len(s) \in 1 .. Len(t) /\ Len(s) + (i - Len(s)) = i /\ ~(i <= Len(s))
      BY <2>1, <2>3
    <3>2. (s \o t)[i] = t[i - Len(s)]
      BY <1>1, <3>1
    <3> QED  BY <3>1, <3>2
  <2> QED  BY <2>1, <2>2, <2>3
<1> QED  BY <1>1, <1>2, SeqEqual

(* Where s stands in u. *)
LEMMA SubSeqIs ==
  ASSUME NEW S, NEW u \in Seq(S), NEW s \in Seq(S), NEW p \in Nat,
         p + Len(s) <= Len(u)
  PROVE  SubSeq(u, p + 1, p + Len(s)) = s <=> \A k \in 1 .. Len(s) : u[p + k] = s[k]
<1> DEFINE n == Len(s)
           part == SubSeq(u, p + 1, p + n)
<1>1. n \in Nat /\ Len(u) \in Nat
  OBVIOUS
<1>2. \A i \in p + 1 .. p + n : u[i] \in S
  BY <1>1
<1>3. /\ part \in Seq(S) /\ Len(part) = IF p + 1 <= p + n THEN p + n - (p + 1) + 1 ELSE 0
      /\ \A i \in 1 .. p + n - (p + 1) + 1 : part[i] = u[p + 1 + i - 1]
  BY <1>1, <1>2, SubSeqProperties
<1> HIDE DEF part
<1>4. Len(part) = n /\ p + n - (p + 1) + 1 = n
  BY <1>1, <1>3
<1>5. \A i \in 1 .. n : part[i] = u[p + i]
  <2>1. ASSUME NEW i \in 1 .. n PROVE p + 1 + i - 1 = p + i
    BY <1>1
  <2> QED  BY <1>3, <1>4, <2>1
<1>6. (\A k \in 1 .. n : u[p + k] = s[k]) => part = s
  BY <1>3, <1>4, <1>5, SeqEqual
<1> QED  BY <1>5, <1>6 DEF part

(* The characters of a part that is the string s.                            *)
LEMMA SubSeqAt ==
  \A u, s \in Seq(Chars) : \A p \in Nat :
    (p + Len(s) <= Len(u) /\ SubSeq(u, p + 1, p + Len(s)) = s)
      => \A k \in 1 .. Len(s) : u[p + k] = s[k]
<1>1. TAKE u, s \in Seq(Chars)
<1>2. TAKE p \in Nat
<1>3. HAVE p + Len(s) <= Len(u) /\ SubSeq(u, p + 1, p + Len(s)) = s
<1>4. SubSeq(u, p + 1, p + Len(s)) = s <=> \A k \in 1 .. Len(s) : u[p + k] = s[k]
  <2>1. p + Len(s) <= Len(u)
    BY <1>3
  <2> QED  BY ONLY <1>1, <1>2, <2>1, SubSeqIs
<1> QED  BY <1>3, <1>4

-----------------------------------------------------------------------------
(* Trimming. *)

(* The part of a view from a place on. *)
Part(v, from, n) == [ptr |-> v.ptr + from, len |-> n]

(* A part of a view shows a part of what the view shows. *)
LEMMA PartTyped ==
  ASSUME text \in Seq(Chars), NEW v, Good(v), NEW from \in Nat, NEW n \in Nat,
         from + n <= v.len
  PROVE  /\ Good(Part(v, from, n))
         /\ Shown(Part(v, from, n)) \in Seq(Chars) /\ Len(Shown(Part(v, from, n))) = n
         /\ \A i \in 1 .. n : Shown(Part(v, from, n))[i] = Shown(v)[from + i]
<1> DEFINE w == Part(v, from, n)
<1>1. /\ v.ptr \in Int /\ v.len \in Nat /\ Len(text) \in Nat
      /\ v.len = 0 \/ (0 <= v.ptr /\ v.ptr + v.len <= Len(text))
      /\ w \in View /\ w.ptr = v.ptr + from /\ w.len = n
  BY DEF Good, View, Inside, Part
<1> HIDE DEF w
<1>2. Good(w)
  BY <1>1 DEF Good, Inside
<1>3. ASSUME NEW i \in 1 .. n PROVE Shown(w)[i] = Shown(v)[from + i]
  <2>1. from + i \in 1 .. v.len /\ w.ptr + i = v.ptr + (from + i) /\ i \in 1 .. w.len
    BY <1>1
  <2>2. Shown(w)[i] = text[w.ptr + i]
    BY <1>2, <2>1, ShownTyped
  <2>3. Shown(v)[from + i] = text[v.ptr + (from + i)]
    BY <2>1, ShownTyped
  <2> QED  BY <2>1, <2>2, <2>3
<1>4. Shown(w) \in Seq(Chars) /\ Len(Shown(w)) = n
  BY <1>1, <1>2, ShownTyped
<1> QED  BY <1>2, <1>3, <1>4 DEF w

(* What is cut off a view, and what is left of it, are parts of it.        *)
LEMMA Cut ==
  ASSUME NEW v \in View, NEW n \in 0 .. v.len
  PROVE  /\ head(v, n) = Part(v, 0, n) /\ triml(v, n) = Part(v, n, v.len - n)
         /\ trimr(v, n) = Part(v, 0, v.len - n) /\ tail(v, n) = Part(v, v.len - n, n)
<1>1. v = [ptr |-> v.ptr, len |-> v.len] /\ v.ptr \in Int /\ v.len \in Nat /\ ~(v.len < n)
  BY DEF View
<1>2. v.ptr + 0 = v.ptr /\ v.ptr + (v.len - n) = v.ptr + v.len - n
  BY <1>1
<1>3. head(v, n) = [ptr |-> v.ptr, len |-> n] /\ trimr(v, n) = [ptr |-> v.ptr, len |-> v.len - n]
  BY <1>1 DEF head, trimr
<1>4. triml(v, n) = Part(v, n, v.len - n) /\ tail(v, n) = Part(v, v.len - n, n)
  BY <1>1, <1>2 DEF triml, tail, Part
<1> QED  BY <1>2, <1>3, <1>4 DEF Part

(* Two parts, one behind the other, make the whole. *)
LEMMA PartsJoined ==
  ASSUME text \in Seq(Chars), NEW v, Good(v), NEW n \in 0 .. v.len
  PROVE  Shown(Part(v, 0, n)) \o Shown(Part(v, n, v.len - n)) = Shown(v)
<1>1. n \in Nat /\ v.len \in Nat /\ v.len - n \in Nat /\ 0 + n <= v.len /\ n + (v.len - n) <= v.len
  BY DEF Good, View
<1> DEFINE s == Shown(Part(v, 0, n))
           t == Shown(Part(v, n, v.len - n))
<1>2. /\ s \in Seq(Chars) /\ Len(s) = n
      /\ \A i \in 1 .. n : s[i] = Shown(v)[0 + i]
  BY <1>1, PartTyped
<1>3. /\ t \in Seq(Chars) /\ Len(t) = v.len - n
      /\ \A i \in 1 .. v.len - n : t[i] = Shown(v)[n + i]
  BY <1>1, PartTyped
<1>4. Shown(v) \in Seq(Chars) /\ Len(Shown(v)) = v.len
  BY ShownTyped
<1> HIDE DEF s, t
<1>5. \A i \in 1 .. Len(s) : Shown(v)[i] = s[i]
  BY <1>1, <1>2
<1>6. \A i \in 1 .. Len(t) : Shown(v)[Len(s) + i] = t[i]
  BY <1>2, <1>3
<1>7. Len(Shown(v)) = Len(s) + Len(t)
  BY <1>1, <1>2, <1>3, <1>4
<1>8. s \o t = Shown(v)
  BY <1>2, <1>3, <1>4, <1>5, <1>6, <1>7, Joined, Zenon
<1> QED  BY <1>8 DEF s, t

LEMMA TrimHolds == ASSUME text \in Seq(Chars), Good(vst_program) PROVE TrimLaw
<1> DEFINE v == vst_program
<1>1. v \in View /\ v.ptr \in Int /\ v.len \in Nat /\ Good(v)
  BY DEF Good, View
<1> HIDE DEF v
<1>2. ASSUME NEW n \in 0 .. v.len + 1, n <= v.len
      PROVE  /\ Shown(head(v, n)) \o Shown(triml(v, n)) = Shown(v)
             /\ Shown(trimr(v, n)) \o Shown(tail(v, n)) = Shown(v)
             /\ Len(Shown(head(v, n))) = n /\ Len(Shown(tail(v, n))) = n
  <2>1. /\ n \in 0 .. v.len /\ v.len - n \in 0 .. v.len /\ v.len - (v.len - n) = n
        /\ n \in Nat /\ v.len - n \in Nat /\ 0 + n <= v.len /\ (v.len - n) + n <= v.len
    BY <1>1, <1>2
  <2>2. /\ head(v, n) = Part(v, 0, n) /\ triml(v, n) = Part(v, n, v.len - n)
        /\ trimr(v, n) = Part(v, 0, v.len - n) /\ tail(v, n) = Part(v, v.len - n, n)
    BY <1>1, <2>1, Cut
  <2>3. Shown(Part(v, 0, n)) \o Shown(Part(v, n, v.len - n)) = Shown(v)
    BY <1>1, <2>1, PartsJoined
  <2>4. Shown(Part(v, 0, v.len - n)) \o Shown(Part(v, v.len - n, v.len - (v.len - n))) = Shown(v)
    BY <1>1, <2>1, PartsJoined
  <2>5. Len(Shown(Part(v, 0, n))) = n /\ Len(Shown(Part(v, v.len - n, n))) = n
    BY <1>1, <2>1, PartTyped
  <2> QED  BY <2>1, <2>2, <2>3, <2>4, <2>5
<1>3. ASSUME NEW n \in 0 .. v.len + 1, ~(n <= v.len)
      PROVE  /\ head(v, n) = v /\ tail(v, n) = v
             /\ Shown(triml(v, n)) = <<>> /\ Shown(trimr(v, n)) = <<>>
  <2>1. v.len < n /\ v = [ptr |-> v.ptr, len |-> v.len]
    BY <1>1, <1>3 DEF View
  <2>2. /\ triml(v, n) = [ptr |-> v.ptr + v.len - 1, len |-> 0]
        /\ trimr(v, n) = [ptr |-> v.ptr, len |-> 0] /\ head(v, n) = v /\ tail(v, n) = v
    BY <2>1 DEF triml, trimr, head, tail
  <2>3. ASSUME NEW w \in View, w.len = 0 PROVE Shown(w) = <<>>
    <3>1. Good(w)
      BY <2>3 DEF Good, Inside
    <3> QED  BY <2>3, <3>1, ShownTyped, EmptySeq
  <2>4. triml(v, n) \in View /\ triml(v, n).len = 0 /\ trimr(v, n) \in View /\ trimr(v, n).len = 0
    BY <1>1, <2>2 DEF View
  <2> QED  BY <2>2, <2>3, <2>4
<1> QED  BY <1>2, <1>3 DEF TrimLaw, v

-----------------------------------------------------------------------------
(* Comparing. *)

(* Character by character, as the code compares, or as sequences.          *)
LEMMA Begins ==
  ASSUME text \in Seq(Chars), NEW v, Good(v), NEW s \in Seq(Chars),
         NEW p \in Nat, p + Len(s) <= v.len
  PROVE  (\A j \in 0 .. Len(s) - 1 : At(v, p + j) = s[j + 1])
           <=> SubSeq(Shown(v), p + 1, p + Len(s)) = s
<1> DEFINE n == Len(s)
           whole == Shown(v)
<1>1. n \in Nat /\ v.len \in Nat /\ v.ptr \in Int
  BY DEF Good, View
<1>2. /\ whole \in Seq(Chars) /\ Len(whole) = v.len
      /\ \A i \in 1 .. v.len : whole[i] = text[v.ptr + i]
  BY ShownTyped
<1> HIDE DEF whole
<1>3. SubSeq(whole, p + 1, p + n) = s <=> \A k \in 1 .. n : whole[p + k] = s[k]
  BY <1>2, SubSeqIs
<1> HIDE DEF n
<1>4. ASSUME NEW k \in 1 .. n PROVE whole[p + k] = At(v, p + (k - 1))
  <2>1. p + k \in 1 .. v.len /\ v.ptr + (p + (k - 1)) + 1 = v.ptr + (p + k)
    BY <1>1 DEF n
  <2> QED  BY <1>2, <2>1 DEF At
<1>5. ASSUME \A k \in 1 .. n : whole[p + k] = s[k], NEW j \in 0 .. n - 1
      PROVE  At(v, p + j) = s[j + 1]
  <2>1. j + 1 \in 1 .. n /\ (j + 1) - 1 = j
    BY <1>1
  <2>2. whole[p + (j + 1)] = At(v, p + ((j + 1) - 1))
    BY <1>4, <2>1
  <2> QED  BY <1>5, <2>1, <2>2
<1>6. ASSUME \A j \in 0 .. n - 1 : At(v, p + j) = s[j + 1], NEW k \in 1 .. n
      PROVE  whole[p + k] = s[k]
  <2>1. k - 1 \in 0 .. n - 1 /\ (k - 1) + 1 = k
    BY <1>1
  <2>2. At(v, p + (k - 1)) = s[(k - 1) + 1]
    BY <1>6, <2>1
  <2> QED  BY <1>4, <2>1, <2>2
<1> QED  BY <1>3, <1>5, <1>6 DEF n, whole

LEMMA IsHead ==
  ASSUME text \in Seq(Chars), NEW v, Good(v), NEW s \in Seq(Chars)
  PROVE  is_head(v, s) <=> Len(s) <= v.len /\ SubSeq(Shown(v), 1, Len(s)) = s
<1>1. Len(s) \in Nat /\ v.len \in Nat /\ 0 + Len(s) = Len(s) /\ 0 + 1 = 1
  BY DEF Good, View
<1>2. is_head(v, s) <=> /\ Len(s) <= v.len
                        /\ \A j \in 0 .. Len(s) - 1 : At(v, 0 + j) = s[j + 1]
  <2>1. \A j \in 0 .. Len(s) - 1 : 0 + j = j
    BY <1>1
  <2> QED  BY <1>1, <2>1 DEF is_head
<1>3. ASSUME Len(s) <= v.len
      PROVE  (\A j \in 0 .. Len(s) - 1 : At(v, 0 + j) = s[j + 1])
               <=> SubSeq(Shown(v), 0 + 1, 0 + Len(s)) = s
  BY <1>1, <1>3, Begins
<1> QED  BY <1>1, <1>2, <1>3

LEMMA InHolds ==
  ASSUME text \in Seq(Chars), NEW v, Good(v), NEW s \in Seq(Chars)
  PROVE  in(v, s) <=> Occurs(s, Shown(v))
<1>1. Len(s) \in Nat /\ v.len \in Nat /\ Len(Shown(v)) = v.len
  BY ShownTyped DEF Good, View
<1>2. ASSUME NEW p \in 0 .. v.len - Len(s)
      PROVE  /\ Len(s) <= v.len
             /\ (\A j \in 0 .. Len(s) - 1 : At(v, p + j) = s[j + 1])
                  <=> SubSeq(Shown(v), p + 1, p + Len(s)) = s
  <2>1. p \in Nat /\ p + Len(s) <= v.len /\ Len(s) <= v.len
    BY <1>1
  <2> QED  BY <2>1, Begins
<1> QED  BY <1>1, <1>2 DEF in, Occurs

LEMMA HeadHolds ==
  ASSUME text \in Seq(Chars), NEW v, Good(v), NEW s \in Seq(Chars)
  PROVE  is_head(v, s) <=> IsPrefix(s, Shown(v))
<1>1. Len(Shown(v)) = v.len /\ SubSeq(s, 1, Len(s)) = s
  BY ShownTyped, SubSeqFull
<1> QED  BY <1>1, IsHead DEF IsPrefix

LEMMA EqHolds ==
  ASSUME text \in Seq(Chars), NEW v, Good(v), NEW s \in Seq(Chars)
  PROVE  eq(v, s) <=> s = Shown(v)
<1>1. Shown(v) \in Seq(Chars) /\ Len(Shown(v)) = v.len
  BY ShownTyped
<1>2. SubSeq(Shown(v), 1, Len(Shown(v))) = Shown(v) /\ Len(s) \in Nat
  BY <1>1, SubSeqFull
<1> QED  BY <1>1, <1>2, IsHead DEF eq

LEMMA ReverseTyped ==
  ASSUME NEW S, NEW s \in Seq(S)
  PROVE  /\ Reverse(s) \in Seq(S) /\ Len(Reverse(s)) = Len(s)
         /\ \A i \in 1 .. Len(s) : Reverse(s)[i] = s[Len(s) - i + 1]
<1>1. \A i \in 1 .. Len(s) : s[Len(s) - i + 1] \in S
  OBVIOUS
<1> QED  BY <1>1 DEF Reverse

LEMMA TailHolds ==
  ASSUME text \in Seq(Chars), NEW v, Good(v), NEW s \in Seq(Chars)
  PROVE  is_tail(v, s) <=> IsSuffix(s, Shown(v))
<1> DEFINE whole == Shown(v)
           n == Len(s)
<1>1. n \in Nat /\ v.len \in Nat /\ v.ptr \in Int
  BY DEF Good, View
<1>2. /\ whole \in Seq(Chars) /\ Len(whole) = v.len
      /\ \A i \in 1 .. v.len : whole[i] = text[v.ptr + i]
  BY ShownTyped
<1> HIDE DEF whole
<1>3. /\ Reverse(s) \in Seq(Chars) /\ Len(Reverse(s)) = n
      /\ \A i \in 1 .. n : Reverse(s)[i] = s[n - i + 1]
  BY ReverseTyped
<1>4. /\ Reverse(whole) \in Seq(Chars) /\ Len(Reverse(whole)) = v.len
      /\ \A i \in 1 .. v.len : Reverse(whole)[i] = whole[v.len - i + 1]
  BY <1>2, ReverseTyped
<1>5. SubSeq(Reverse(s), 1, n) = Reverse(s)
  BY <1>3, SubSeqFull
<1>6. IsSuffix(s, whole)
        <=> n <= v.len /\ SubSeq(Reverse(whole), 0 + 1, 0 + n) = Reverse(s)
  <2>1. 0 + 1 = 1 /\ 0 + n = n
    BY <1>1
  <2> QED  BY <1>3, <1>4, <1>5, <2>1 DEF IsSuffix, IsPrefix
<1>7. ASSUME n <= v.len
      PROVE  SubSeq(Reverse(whole), 0 + 1, 0 + n) = Reverse(s)
               <=> \A k \in 1 .. n : Reverse(whole)[0 + k] = Reverse(s)[k]
  <2>1. 0 + Len(Reverse(s)) <= Len(Reverse(whole)) /\ Len(Reverse(s)) = n /\ 0 \in Nat
    BY <1>1, <1>3, <1>4, <1>7
  <2> HIDE DEF n
  <2>2. SubSeq(Reverse(whole), 0 + 1, 0 + Len(Reverse(s))) = Reverse(s)
          <=> \A k \in 1 .. Len(Reverse(s)) : Reverse(whole)[0 + k] = Reverse(s)[k]
    BY <1>3, <1>4, <2>1, SubSeqIs
  <2> QED  BY <2>1, <2>2
<1>8. ASSUME n <= v.len, NEW k \in 1 .. n
      PROVE  Reverse(whole)[0 + k] = At(v, v.len - (k - 1) - 1) /\ Reverse(s)[k] = s[n - (k - 1)]
  <2>1. /\ k \in 1 .. v.len /\ 0 + k = k /\ v.len - k + 1 \in 1 .. v.len
        /\ n - k + 1 = n - (k - 1)
        /\ v.ptr + (v.len - (k - 1) - 1) + 1 = v.ptr + (v.len - k + 1)
    BY <1>1, <1>8
  <2>2. Reverse(s)[k] = s[n - (k - 1)]
    BY <1>3, <1>8, <2>1
  <2>3. Reverse(whole)[k] = whole[v.len - k + 1]
    BY <1>4, <2>1
  <2>4. whole[v.len - k + 1] = At(v, v.len - (k - 1) - 1)
    BY <1>2, <2>1 DEF At
  <2> QED  BY <2>1, <2>2, <2>3, <2>4
<1>9. ASSUME n <= v.len
      PROVE  (\A k \in 1 .. n : Reverse(whole)[0 + k] = Reverse(s)[k])
               <=> \A i \in 0 .. n - 1 : At(v, v.len - i - 1) = s[n - i]
  <2>1. ASSUME \A k \in 1 .. n : Reverse(whole)[0 + k] = Reverse(s)[k], NEW i \in 0 .. n - 1
        PROVE  At(v, v.len - i - 1) = s[n - i]
    <3>1. i + 1 \in 1 .. n /\ (i + 1) - 1 = i
      BY <1>1
    <3>2. At(v, v.len - ((i + 1) - 1) - 1) = s[n - ((i + 1) - 1)]
      BY <1>8, <1>9, <2>1, <3>1
    <3> QED  BY <3>1, <3>2
  <2>2. ASSUME \A i \in 0 .. n - 1 : At(v, v.len - i - 1) = s[n - i], NEW k \in 1 .. n
        PROVE  Reverse(whole)[0 + k] = Reverse(s)[k]
    <3>1. k - 1 \in 0 .. n - 1
      BY <1>1
    <3>2. At(v, v.len - (k - 1) - 1) = s[n - (k - 1)]
      BY <2>2, <3>1
    <3> QED  BY <1>8, <1>9, <3>2
  <2> QED  BY <2>1, <2>2
<1>10. is_tail(v, s) <=> n <= v.len /\ \A i \in 0 .. n - 1 : At(v, v.len - i - 1) = s[n - i]
  BY <1>1 DEF is_tail
<1> QED  BY <1>6, <1>7, <1>9, <1>10 DEF whole

LEMMA CompareHolds == ASSUME text \in Seq(Chars), Good(vst_program) PROVE CompareLaw
<1> SUFFICES ASSUME NEW s \in Needles
             PROVE  LET whole == Shown(vst_program)
                    IN  /\ in(vst_program, s) <=> Occurs(s, whole)
                        /\ is_head(vst_program, s) <=> IsPrefix(s, whole)
                        /\ is_tail(vst_program, s) <=> IsSuffix(s, whole)
                        /\ eq(vst_program, s) <=> s = whole
  BY DEF CompareLaw
<1>1. s \in Seq(Chars)
  BY StringsAssumption
<1> QED  BY <1>1, InHolds, HeadHolds, TailHolds, EqHolds

-----------------------------------------------------------------------------
(* Splitting.  The library's facts on well-founded relations give a set of *)
(* numbers its least element.                                              *)

NatLess == { ss \in Nat \X Nat : ss[1] < ss[2] }

LEMMA NatLessWellFounded == IsWellFoundedOn(NatLess, Nat)
<1>1. NatLess = OpToRel(<, Nat)
  BY Zenon DEF NatLess, OpToRel
<1> QED  BY <1>1, NatLessThanWellFounded, Zenon

LEMMA Least ==
  ASSUME NEW S \in SUBSET Nat, S # {}
  PROVE  \E m \in S : \A k \in S : m <= k
<1>1. PICK m \in S : \A k \in S : ~ (<<k, m>> \in NatLess)
  BY NatLessWellFounded, WFMin
<1>2. ASSUME NEW k \in S PROVE m <= k
  <2>1. k \in Nat /\ m \in Nat /\ ~ (<<k, m>> \in NatLess)
    BY <1>1
  <2>2. ~ (k < m)
    BY <2>1 DEF NatLess
  <2> QED  BY <2>1, <2>2
<1> QED  BY <1>2

(* The place a split is made at. *)
LEMMA FirstPlace ==
  ASSUME NEW v \in View, NEW n, NEW begins
  PROVE  LET places == { i \in 0 .. v.len - 1 : i \in begins }
         IN  \/ places = {} /\ SplitFirst(v, n, begins) = NotFound
             \/ \E m \in places : /\ \A j \in places : m <= j
                                  /\ SplitFirst(v, n, begins) = Split(v, n, m)
<1> DEFINE places == { i \in 0 .. v.len - 1 : i \in begins }
           m == CHOOSE i \in places : \A j \in places : i <= j
<1>1. CASE places = {}
  BY <1>1 DEF SplitFirst
<1>2. CASE places # {}
  <2>1. places \in SUBSET Nat
    BY DEF View
  <2>2. \E i \in places : \A j \in places : i <= j
    BY <1>2, <2>1, Least
  <2>3. m \in places /\ \A j \in places : m <= j
    BY <2>2
  <2>4. SplitFirst(v, n, begins) = Split(v, n, m)
    BY <1>2 DEF SplitFirst
  <2> QED  BY <2>3, <2>4
<1> QED  BY <1>1, <1>2

LEMMA SplitParts ==
  ASSUME NEW v \in View, NEW n \in Nat, NEW m \in Nat, m + n <= v.len
  PROVE  /\ Split(v, n, m).front = Part(v, 0, m)
         /\ Split(v, n, m).back = Part(v, m + n, v.len - m - n)
         /\ Split(v, n, m).found = TRUE
<1>1. v = [ptr |-> v.ptr, len |-> v.len] /\ v.ptr \in Int /\ v.len \in Nat
  BY DEF View
<1>2. v.ptr + 0 = v.ptr /\ v.ptr + (m + n) = v.ptr + m + n
  BY <1>1
<1>3. [v EXCEPT !.len = m] = [ptr |-> v.ptr, len |-> m]
  BY <1>1
<1> QED  BY <1>2, <1>3 DEF Split, Part

(* Where a separator begins, in the code's words and in those of the law.  *)
Places(v, s) == { i \in 0 .. v.len - 1 : i \in { j \in 0 .. v.len - 1 : is_head(triml(v, j), s) } }

LEMMA PlacesOf ==
  ASSUME text \in Seq(Chars), NEW v, Good(v), NEW s \in Seq(Chars), s # <<>>
  PROVE  Places(v, s) = { p \in 0 .. v.len - Len(s) :
                            SubSeq(Shown(v), p + 1, p + Len(s)) = s }
<1> DEFINE n == Len(s)
<1>1. n \in Nat /\ n # 0 /\ v \in View /\ v.len \in Nat /\ v.ptr \in Int
  BY EmptySeq DEF Good, View
<1>2. ASSUME NEW i \in 0 .. v.len - 1
      PROVE  is_head(triml(v, i), s)
               <=> i \in 0 .. v.len - n /\ SubSeq(Shown(v), i + 1, i + n) = s
  <2> DEFINE w == Part(v, i, v.len - i)
  <2>1. triml(v, i) = w
    BY <1>1, Cut
  <2>2. w.ptr = v.ptr + i /\ w.len = v.len - i
    BY DEF Part
  <2>3. \A j \in 0 .. n - 1 : At(w, j) = At(v, i + j)
    <3>1. ASSUME NEW j \in 0 .. n - 1 PROVE w.ptr + j + 1 = v.ptr + (i + j) + 1
      BY <1>1, <2>2
    <3> QED  BY <3>1 DEF At
  <2> HIDE DEF w
  <2>4. is_head(w, s) <=> /\ i \in 0 .. v.len - n
                          /\ \A j \in 0 .. n - 1 : At(v, i + j) = s[j + 1]
    <3>1. w.len >= n <=> i \in 0 .. v.len - n
      BY <1>1, <2>2
    <3> QED  BY <2>3, <3>1 DEF is_head
  <2>5. ASSUME i \in 0 .. v.len - n
        PROVE  (\A j \in 0 .. n - 1 : At(v, i + j) = s[j + 1])
                 <=> SubSeq(Shown(v), i + 1, i + n) = s
    <3>1. i \in Nat /\ i + n <= v.len
      BY <1>1, <2>5
    <3> QED  BY <3>1, Begins
  <2> QED  BY <2>1, <2>4, <2>5
<1>3. 0 .. v.len - n \subseteq 0 .. v.len - 1
  BY <1>1
<1> QED  BY <1>2, <1>3 DEF Places

(* The law of splits, for one view and one separator. *)
SplitAt(v, s) ==
    LET split == split_string(v, s)
        first == split_set(v, { s[i] : i \in DOMAIN s })
        whole == Shown(v)
        front == Shown(split.front)
    IN  /\ split.found <=> whole # <<>> /\ Occurs(s, whole)
        /\ split.found => front \o s \o Shown(split.back) = whole
        /\ s = <<>> => front = <<>>
        /\ split.found /\ s # <<>> =>
              /\ ~Occurs(s, front \o SubSeq(s, 1, Len(s) - 1))
              /\ first.found /\ first.front.len <= split.front.len
        /\ Len(s) = 1 => split_char(v, s[1]) = split

(* An empty separator is found in front of a text that is not empty.       *)
LEMMA SplitEmpty ==
  ASSUME text \in Seq(Chars), NEW v, Good(v), NEW s, s = <<>>
  PROVE  SplitAt(v, s)
<1> DEFINE begins == { j \in 0 .. v.len - 1 : is_head(triml(v, j), s) }
           places == { i \in 0 .. v.len - 1 : i \in begins }
           split == split_string(v, s)
           whole == Shown(v)
<1>1. Len(s) = 0 /\ v \in View /\ v.len \in Nat /\ v.ptr \in Int /\ 0 \in Nat
  BY DEF Good, View
<1>2. whole \in Seq(Chars) /\ Len(whole) = v.len
  BY ShownTyped
<1>3. ASSUME NEW i \in 0 .. v.len - 1 PROVE i \in begins
  <2>1. i \in 0 .. v.len /\ v.len - i >= 0
    BY <1>1
  <2>2. triml(v, i) = Part(v, i, v.len - i) /\ Part(v, i, v.len - i).len = v.len - i
    BY <1>1, <2>1, Cut DEF Part
  <2>3. \A j \in 0 .. Len(s) - 1 : At(triml(v, i), j) = s[j + 1]
    BY <1>1
  <2>4. triml(v, i).len >= Len(s)
    BY <1>1, <2>1, <2>2
  <2> QED  BY <2>3, <2>4 DEF is_head
<1>4. split = SplitFirst(v, 0, begins)
  BY <1>1 DEF split_string
<1>5. Occurs(s, whole)
  <2>1. 0 \in 0 .. Len(whole) - Len(s) /\ 0 + 1 = 1 /\ 0 + Len(s) = 0
    BY <1>1, <1>2
  <2>2. SubSeq(whole, 1, 0) = <<>>
    BY <1>2
  <2> QED  BY <2>1, <2>2 DEF Occurs
<1>6. \A n \in Nat : n = 0 => \/ places = {} /\ SplitFirst(v, n, begins) = NotFound
                             \/ \E m \in places : /\ \A j \in places : m <= j
                                                  /\ SplitFirst(v, n, begins) = Split(v, n, m)
  <2> HIDE DEF begins
  <2> QED  BY <1>1, FirstPlace
<1>7. places = 0 .. v.len - 1
  BY <1>3
<1>8. Len(s) # 1
  BY <1>1
<1> HIDE DEF begins, places
<1>9. CASE v.len = 0
  <2>1. whole = <<>> /\ places = {}
    BY <1>1, <1>2, <1>7, <1>9, EmptySeq
  <2>2. split = NotFound
    BY <1>1, <1>4, <1>6, <2>1
  <2>3. split.found = FALSE /\ split.front = Null
    BY <2>2 DEF NotFound
  <2>4. Shown(Null) = <<>>
    <3>1. Good(Null) /\ Null.len = 0
      BY NullGood DEF Good, Null
    <3>2. Shown(Null) \in Seq(Chars) /\ Len(Shown(Null)) = 0
      BY <3>1, ShownTyped
    <3> QED  BY <3>2, EmptySeq
  <2> HIDE DEF split, whole
  <2> QED  BY <1>8, <2>1, <2>3, <2>4 DEF SplitAt, split, whole
<1>10. CASE v.len # 0
  <2>1. whole # <<>> /\ 0 \in places
    BY <1>1, <1>2, <1>7, <1>10
  <2>2. PICK m \in places : (\A j \in places : m <= j) /\ split = Split(v, 0, m)
    BY <1>1, <1>4, <1>6, <2>1
  <2>3. m = 0
    <3>1. m <= 0 /\ m \in 0 .. v.len - 1
      BY <1>7, <2>1, <2>2
    <3> QED  BY <1>1, <3>1
  <2>4. ASSUME NEW n \in Nat, n = 0
        PROVE  /\ Split(v, n, n).front = Part(v, 0, n)
               /\ Split(v, n, n).back = Part(v, n + n, v.len - n - n)
               /\ Split(v, n, n).found = TRUE
    <3>1. n + n <= v.len
      BY <1>1, <2>4
    <3> QED  BY <1>1, <3>1, SplitParts
  <2>5. /\ split.front = Part(v, 0, 0) /\ split.back = Part(v, 0, v.len - 0)
        /\ split.found = TRUE
    <3>1. 0 + 0 = 0 /\ v.len - 0 - 0 = v.len - 0
      BY <1>1
    <3>2. /\ Split(v, 0, 0).front = Part(v, 0, 0) /\ Split(v, 0, 0).back = Part(v, 0 + 0, v.len - 0 - 0)
          /\ Split(v, 0, 0).found = TRUE
      BY <1>1, <2>4
    <3> HIDE DEF split
    <3> QED  BY <2>2, <2>3, <3>1, <3>2
  <2>6. Shown(Part(v, 0, 0)) = <<>>
    <3>1. \A n \in Nat : n = 0 => Shown(Part(v, 0, n)) \in Seq(Chars) /\ Len(Shown(Part(v, 0, n))) = n
      <4>1. ASSUME NEW n \in Nat, n = 0 PROVE 0 + n <= v.len
        BY <1>1, <4>1
      <4> QED  BY <1>1, <4>1, PartTyped
    <3>2. Shown(Part(v, 0, 0)) \in Seq(Chars) /\ Len(Shown(Part(v, 0, 0))) = 0
      BY <1>1, <3>1
    <3> QED  BY <3>2, EmptySeq
  <2>7. <<>> \o Shown(Part(v, 0, v.len - 0)) = whole
    <3>1. 0 \in 0 .. v.len
      BY <1>1
    <3>2. Shown(Part(v, 0, 0)) \o Shown(Part(v, 0, v.len - 0)) = whole
      BY <3>1, PartsJoined
    <3> HIDE DEF whole
    <3> QED  BY <2>6, <3>2
  <2>8. <<>> \o <<>> = <<>>
    OBVIOUS
  <2> HIDE DEF split, whole
  <2>9. Shown(split.front) \o s \o Shown(split.back) = whole
    BY <2>5, <2>6, <2>7, <2>8
  <2> QED  BY <1>5, <1>8, <2>1, <2>5, <2>6, <2>9 DEF SplitAt, split, whole
<1> QED  BY <1>9, <1>10

(* The split at a string, and the one at a character. *)
LEMMA SplitHolds ==
  ASSUME text \in Seq(Chars), NEW v, Good(v), NEW s \in Seq(Chars), s # <<>>
  PROVE  SplitAt(v, s)
<1> DEFINE n == Len(s)
           split == split_string(v, s)
           whole == Shown(v)
           front == Shown(split.front)
           back == Shown(split.back)
           first == split_set(v, { s[i] : i \in DOMAIN s })
           P == { p \in 0 .. v.len - n : SubSeq(whole, p + 1, p + n) = s }
<1>1. n \in Nat /\ n # 0 /\ v \in View /\ v.len \in Nat /\ v.ptr \in Int
  BY EmptySeq DEF Good, View
<1>2. whole \in Seq(Chars) /\ Len(whole) = v.len
  BY ShownTyped
<1>3. /\ split = SplitFirst(v, n, { j \in 0 .. v.len - 1 : is_head(triml(v, j), s) })
      /\ Places(v, s) = P
  BY PlacesOf DEF split_string
<1>4. \/ P = {} /\ split = NotFound
      \/ \E m \in P : (\A j \in P : m <= j) /\ split = Split(v, n, m)
  <2> DEFINE begins == { j \in 0 .. v.len - 1 : is_head(triml(v, j), s) }
  <2>1. Places(v, s) = { i \in 0 .. v.len - 1 : i \in begins }
    BY DEF Places
  <2> HIDE DEF begins, n, split, P
  <2>2. \/ Places(v, s) = {} /\ SplitFirst(v, n, begins) = NotFound
        \/ \E m \in Places(v, s) : /\ \A j \in Places(v, s) : m <= j
                                   /\ SplitFirst(v, n, begins) = Split(v, n, m)
    BY <1>1, <2>1, FirstPlace
  <2> QED  BY <1>3, <2>2 DEF begins
<1>5. Occurs(s, whole) <=> P # {}
  BY <1>2 DEF Occurs
<1>6. ASSUME Len(s) = 1 PROVE split_char(v, s[1]) = split
  <2>1. ASSUME NEW i \in 0 .. v.len - 1
        PROVE  is_head(triml(v, i), s) <=> At(v, i) = s[1]
    <3>1. triml(v, i) = Part(v, i, v.len - i) /\ v.len - i >= 1 /\ v.ptr + i + 0 + 1 = v.ptr + i + 1
      BY <1>1, Cut
    <3>2. /\ Part(v, i, v.len - i).len >= 1
          /\ At(Part(v, i, v.len - i), 0) = At(v, i)
      BY <3>1 DEF Part, At
    <3>3. 0 .. Len(s) - 1 = {0} /\ 0 + 1 = 1
      BY <1>6
    <3> QED  BY <1>6, <3>1, <3>2, <3>3 DEF is_head
  <2>2. { i \in 0 .. v.len - 1 : At(v, i) = s[1] }
          = { j \in 0 .. v.len - 1 : is_head(triml(v, j), s) }
    BY <2>1
  <2> QED  BY <1>3, <1>6, <2>2 DEF split_char
<1> HIDE DEF split, whole, P, n
<1>7. CASE P = {} /\ split = NotFound
  <2>1. split.found = FALSE
    BY <1>7 DEF NotFound
  <2>2. ~Occurs(s, whole)
    BY <1>5, <1>7
  <2> QED  BY <1>6, <2>1, <2>2 DEF SplitAt, n, split, whole
<1>8. ASSUME NEW m \in P, \A j \in P : m <= j, split = Split(v, n, m)
      PROVE  /\ split.found
             /\ front \o s \o back = whole
             /\ ~Occurs(s, front \o SubSeq(s, 1, n - 1))
             /\ first.found /\ first.front.len <= split.front.len
  <2>1. /\ m \in Nat /\ m + n <= v.len /\ SubSeq(whole, m + 1, m + n) = s
        /\ 0 + m <= v.len /\ v.len - m - n \in Nat /\ (m + n) + (v.len - m - n) <= v.len
        /\ m + n \in Nat
    BY <1>1 DEF P
  <2>2. /\ split.front = Part(v, 0, m) /\ split.back = Part(v, m + n, v.len - m - n)
        /\ split.found = TRUE
    BY <1>1, <1>8, <2>1, SplitParts
  <2>3. /\ front \in Seq(Chars) /\ Len(front) = m
        /\ \A i \in 1 .. m : front[i] = whole[0 + i]
    BY <2>1, <2>2, PartTyped DEF whole
  <2>4. /\ back \in Seq(Chars) /\ Len(back) = v.len - m - n
        /\ \A i \in 1 .. v.len - m - n : back[i] = whole[m + n + i]
    <3> DEFINE from == m + n
               size == v.len - m - n
    <3>1. from \in Nat /\ size \in Nat /\ from + size <= v.len /\ back = Shown(Part(v, from, size))
      BY <2>1, <2>2
    <3> HIDE DEF from, size, back
    <3>2. /\ back \in Seq(Chars) /\ Len(back) = size
          /\ \A i \in 1 .. size : back[i] = whole[from + i]
      BY <3>1, PartTyped DEF whole
    <3> QED  BY <3>2 DEF from, size
  <2> HIDE DEF front, back, first
  <2>5. \A k \in 1 .. n : whole[m + k] = s[k]
    <3>1. SubSeq(whole, m + 1, m + Len(s)) = s
      BY <2>1 DEF n
    <3>2. whole \in Seq(Chars) /\ m \in Nat /\ m + Len(s) <= Len(whole)
      BY <1>2, <2>1 DEF n
    <3> HIDE DEF whole, P
    <3>3. \A k \in 1 .. Len(s) : whole[m + k] = s[k]
      BY <3>1, <3>2, SubSeqAt, Zenon
    <3> QED  BY <3>3 DEF n
  <2>6. /\ front \o s \in Seq(Chars) /\ Len(front \o s) = m + n
        /\ \A i \in 1 .. m + n : (front \o s)[i] = IF i <= m THEN front[i] ELSE s[i - m]
    <3>1. s \in Seq(Chars) /\ Len(s) = n
      BY <1>2 DEF n
    <3> HIDE DEF n
    <3>2. Len(front \o s) = Len(front) + Len(s) /\ front \o s \in Seq(Chars)
          /\ \A i \in 1 .. Len(front) + Len(s) :
               (front \o s)[i] = IF i <= Len(front) THEN front[i] ELSE s[i - Len(front)]
      BY <2>3, <3>1, ConcatProperties
    <3> QED  BY <2>3, <3>1, <3>2
  <2>7. ASSUME NEW i \in 1 .. m + n PROVE whole[i] = (front \o s)[i]
    <3>1. CASE i <= m
      <4>1. i \in 1 .. m /\ 0 + i = i
        BY <1>1, <2>1, <3>1
      <4> QED  BY <2>3, <2>6, <3>1, <4>1
    <3>2. CASE ~(i <= m)
      <4>1. i - m \in 1 .. n /\ m + (i - m) = i
        BY <1>1, <2>1, <3>2
      <4> QED  BY <2>5, <2>6, <3>2, <4>1
    <3> QED  BY <3>1, <3>2
  <2>8. front \o s \o back = whole
    <3>1. Len(whole) = Len(front \o s) + Len(back)
      <4>1. v.len = (m + n) + (v.len - m - n)
        BY <1>1, <2>1
      <4> QED  BY <1>2, <2>4, <2>6, <4>1
    <3>2. \A i \in 1 .. Len(front \o s) : whole[i] = (front \o s)[i]
      BY <2>6, <2>7
    <3>3. \A i \in 1 .. Len(back) : whole[Len(front \o s) + i] = back[i]
      BY <2>4, <2>6
    <3> QED  BY <1>2, <2>4, <2>6, <3>1, <3>2, <3>3, Joined, Zenon
  <2>9. ~Occurs(s, front \o SubSeq(s, 1, n - 1))
    <3> DEFINE start == SubSeq(s, 1, n - 1)
               both == front \o start
    <3>1. /\ start \in Seq(Chars) /\ Len(start) = n - 1
          /\ \A i \in 1 .. n - 1 : start[i] = s[i]
      <4>1. \A i \in 1 .. n - 1 : s[i] \in Chars /\ 1 + i - 1 = i
        BY <1>1 DEF n
      <4>2. /\ start \in Seq(Chars)
            /\ Len(start) = IF 1 <= n - 1 THEN n - 1 - 1 + 1 ELSE 0
            /\ \A i \in 1 .. n - 1 - 1 + 1 : start[i] = s[1 + i - 1]
        BY <1>1, <4>1, SubSeqProperties
      <4>3. n - 1 - 1 + 1 = n - 1 /\ (~(1 <= n - 1) => n - 1 = 0)
        BY <1>1
      <4> HIDE DEF start
      <4> QED  BY <4>1, <4>2, <4>3
    <3> HIDE DEF start
    <3>2. /\ both \in Seq(Chars) /\ Len(both) = m + (n - 1)
          /\ \A i \in 1 .. m + (n - 1) : both[i] = IF i <= m THEN front[i] ELSE start[i - m]
      <4>1. /\ both \in Seq(Chars) /\ Len(both) = Len(front) + Len(start)
            /\ \A i \in 1 .. Len(front) + Len(start) :
                  both[i] = IF i <= Len(front) THEN front[i] ELSE start[i - Len(front)]
        BY <2>3, <3>1, ConcatProperties
      <4> HIDE DEF both
      <4> QED  BY <2>3, <3>1, <4>1
    <3> HIDE DEF both
    <3>3. ASSUME NEW i \in 1 .. m + (n - 1) PROVE both[i] = whole[i]
      <4>1. i \in 1 .. m + n
        BY <1>1, <2>1
      <4>2. CASE i <= m
        BY <2>6, <2>7, <3>2, <4>1, <4>2
      <4>3. CASE ~(i <= m)
        <5>1. i - m \in 1 .. n - 1
          BY <1>1, <2>1, <4>3
        <5> QED  BY <2>6, <2>7, <3>1, <3>2, <4>1, <4>3, <5>1
      <4> QED  BY <4>2, <4>3
    <3>4. ASSUME NEW p \in 0 .. Len(both) - Len(s), SubSeq(both, p + 1, p + Len(s)) = s
          PROVE  FALSE
      <4>1. /\ p \in Nat /\ p < m /\ p + n <= Len(both) /\ p + n <= v.len
            /\ p \in 0 .. v.len - n
        <5>1. Len(both) - Len(s) = m - 1
          <6>1. Len(both) = m + (n - 1) /\ Len(s) = n
            BY <3>2 DEF n
          <6> QED  BY <1>1, <2>1, <6>1
        <5>2. p \in Nat /\ p <= m - 1
          BY <2>1, <5>1
        <5>3. Len(both) = m + (n - 1) /\ m \in Nat /\ m + n <= v.len
          BY <2>1, <3>2
        <5>4. n \in Nat /\ v.len \in Nat
          BY <1>1
        <5> QED  BY <5>2, <5>3, <5>4
      <4>2. \A k \in 1 .. n : both[p + k] = s[k]
        <5>1. p + Len(s) <= Len(both)
          BY <4>1 DEF n
        <5>2. SubSeq(both, p + 1, p + Len(s)) = s <=> \A k \in 1 .. Len(s) : both[p + k] = s[k]
          BY <3>2, <4>1, <5>1, SubSeqIs
        <5> QED  BY <3>4, <5>2 DEF n
      <4>3. \A k \in 1 .. n : p + k \in 1 .. m + (n - 1)
        BY <1>1, <2>1, <4>1
      <4>4. \A k \in 1 .. n : whole[p + k] = s[k]
        BY <3>3, <4>2, <4>3
      <4>5. p + Len(s) <= Len(whole)
        BY <1>2, <4>1 DEF n
      <4>6. SubSeq(whole, p + 1, p + n) = s
        BY <1>2, <4>1, <4>4, <4>5, SubSeqIs DEF n
      <4>7. p \in P
        BY <4>1, <4>6 DEF P
      <4> QED  BY <1>8, <2>1, <4>1, <4>7
    <3> QED  BY <3>4 DEF Occurs, both, start
  <2>10. first.found /\ first.front.len <= split.front.len
    <3> DEFINE C == { s[i] : i \in DOMAIN s }
               begins == { i \in 0 .. v.len - 1 : At(v, i) \in C }
               Q == { i \in 0 .. v.len - 1 : i \in begins }
    <3>1. m \in Q
      <4>1. m \in 0 .. v.len - 1 /\ m + 1 \in 1 .. v.len /\ 1 \in 1 .. n
        BY <1>1, <2>1
      <4>2. At(v, m) = whole[m + 1]
        <5>1. v.ptr + m + 1 = v.ptr + (m + 1)
          BY <1>1, <2>1
        <5> QED  BY <4>1, <5>1, ShownTyped DEF At, whole
      <4>3. whole[m + 1] = s[1] /\ s[1] \in C
        BY <2>5, <4>1 DEF n
      <4> QED  BY <4>1, <4>2, <4>3
    <3>2. first = SplitFirst(v, 1, begins)
      BY DEF first, split_set
    <3> HIDE DEF begins
    <3>3. \/ Q = {} /\ first = NotFound
          \/ \E q \in Q : (\A j \in Q : q <= j) /\ first = Split(v, 1, q)
      BY <1>1, <3>2, FirstPlace
    <3>4. PICK q \in Q : (\A j \in Q : q <= j) /\ first = Split(v, 1, q)
      BY <3>1, <3>3
    <3>5. q \in Nat /\ q + 1 <= v.len /\ q <= m
      BY <1>1, <3>1, <3>4
    <3>6. first.front = Part(v, 0, q) /\ first.found = TRUE
      BY <1>1, <3>4, <3>5, SplitParts
    <3> QED  BY <2>2, <3>5, <3>6 DEF Part
  <2> QED  BY <2>2, <2>8, <2>9, <2>10
<1>9. CASE \E m \in P : (\A j \in P : m <= j) /\ split = Split(v, n, m)
  <2>1. /\ split.found
        /\ front \o s \o back = whole
        /\ ~Occurs(s, front \o SubSeq(s, 1, n - 1))
        /\ first.found /\ first.front.len <= split.front.len
    BY <1>8, <1>9
  <2>2. P # {}
    BY <1>9
  <2>3. whole # <<>>
    <3>1. Len(whole) # 0
      BY <1>1, <1>2, <2>2 DEF P
    <3> QED  BY <1>2, <3>1, EmptySeq
  <2> HIDE DEF first
  <2> QED  BY <1>5, <1>6, <2>1, <2>2, <2>3 DEF SplitAt, n, split, whole, front, back, first
<1> QED  BY <1>4, <1>7, <1>9

-----------------------------------------------------------------------------
(* The pass of main. *)

PassInv == text \in Seq(Chars) /\ Good(vst_program) /\ Good(current_vs)

(* A split leaves views into the text, where the separator ends inside.    *)
LEMMA SplitFirstGood ==
  ASSUME text \in Seq(Chars), NEW v, Good(v), NEW n \in Nat, NEW begins,
         \A i \in begins : i \in Nat /\ i + n <= v.len
  PROVE  Good(SplitFirst(v, n, begins).front) /\ Good(SplitFirst(v, n, begins).back)
<1> DEFINE places == { i \in 0 .. v.len - 1 : i \in begins }
           split == SplitFirst(v, n, begins)
<1>1. v \in View /\ v.len \in Nat
  BY DEF Good, View
<1>2. \/ places = {} /\ split = NotFound
      \/ \E m \in places : (\A j \in places : m <= j) /\ split = Split(v, n, m)
  BY <1>1, FirstPlace
<1>3. CASE split = NotFound
  <2>1. split.front = Null /\ split.back = Null
    BY <1>3 DEF NotFound
  <2> QED  BY <2>1, NullGood DEF Good
<1>4. CASE \E m \in places : split = Split(v, n, m)
  <2>1. PICK m \in places : split = Split(v, n, m)
    BY <1>4
  <2>2. /\ m \in Nat /\ m + n \in Nat /\ v.len - m - n \in Nat /\ 0 + m <= v.len /\ 0 \in Nat
        /\ m + n <= v.len /\ (m + n) + (v.len - m - n) <= v.len
    BY <1>1
  <2>3. split.front = Part(v, 0, m) /\ split.back = Part(v, m + n, v.len - m - n)
    <3>1. /\ Split(v, n, m).front = Part(v, 0, m)
          /\ Split(v, n, m).back = Part(v, m + n, v.len - m - n)
      BY <1>1, <2>2, SplitParts
    <3> HIDE DEF split
    <3> QED  BY <2>1, <3>1
  <2>4. Good(Part(v, 0, m))
    BY <2>2, PartTyped
  <2>5. Good(Part(v, m + n, v.len - m - n))
    BY <2>2, PartTyped
  <2> QED  BY <2>3, <2>4, <2>5
<1> QED  BY <1>2, <1>3, <1>4

LEMMA SplitCharGood ==
  ASSUME text \in Seq(Chars), NEW v, Good(v), NEW c
  PROVE  Good(split_char(v, c).front) /\ Good(split_char(v, c).back)
<1> DEFINE begins == { i \in 0 .. v.len - 1 : At(v, i) = c }
<1>1. \A i \in begins : i \in Nat /\ i + 1 <= v.len
  BY DEF Good, View
<1>2. split_char(v, c) = SplitFirst(v, 1, begins)
  BY DEF split_char
<1> HIDE DEF begins
<1>3. ASSUME NEW n \in Nat, n = 1
      PROVE  Good(SplitFirst(v, n, begins).front) /\ Good(SplitFirst(v, n, begins).back)
  BY <1>1, <1>3, SplitFirstGood
<1> QED  BY <1>2, <1>3

LEMMA SplitSetGood ==
  ASSUME text \in Seq(Chars), NEW v, Good(v), NEW C
  PROVE  Good(split_set(v, C).front) /\ Good(split_set(v, C).back)
<1> DEFINE begins == { i \in 0 .. v.len - 1 : At(v, i) \in C }
<1>1. \A i \in begins : i \in Nat /\ i + 1 <= v.len
  BY DEF Good, View
<1>2. split_set(v, C) = SplitFirst(v, 1, begins)
  BY DEF split_set
<1> HIDE DEF begins
<1>3. ASSUME NEW n \in Nat, n = 1
      PROVE  Good(SplitFirst(v, n, begins).front) /\ Good(SplitFirst(v, n, begins).back)
  BY <1>1, <1>3, SplitFirstGood
<1> QED  BY <1>2, <1>3

(* The separator of split_string ends inside the view: is_head looks at the*)
(* length of what is left.                                                 *)
LEMMA SplitStringGood ==
  ASSUME text \in Seq(Chars), NEW v, Good(v), NEW s \in Seq(Chars)
  PROVE  Good(split_string(v, s).front) /\ Good(split_string(v, s).back)
<1> DEFINE begins == { i \in 0 .. v.len - 1 : is_head(triml(v, i), s) }
           n == Len(s)
<1>1. n \in Nat /\ v \in View /\ v.len \in Nat
  BY DEF Good, View
<1>2. ASSUME NEW i \in begins PROVE i \in Nat /\ i + n <= v.len
  <2>1. i \in Nat /\ i \in 0 .. v.len
    BY <1>1
  <2>2. triml(v, i).len = v.len - i
    BY <1>1, <2>1, Cut DEF Part
  <2>3. triml(v, i).len >= n
    BY DEF is_head
  <2> QED  BY <1>1, <2>1, <2>2, <2>3
<1>3. split_string(v, s) = SplitFirst(v, n, begins)
  BY DEF split_string
<1> HIDE DEF begins, n
<1>4. Good(SplitFirst(v, n, begins).front) /\ Good(SplitFirst(v, n, begins).back)
  BY <1>1, <1>2, SplitFirstGood
<1> QED  BY <1>3, <1>4

(* Cutting any number of characters leaves a view into the text.           *)
LEMMA CutGood ==
  ASSUME text \in Seq(Chars), NEW v, Good(v), NEW n \in 0 .. v.len + 1
  PROVE  /\ Inside(head(v, n)) /\ Inside(tail(v, n))
         /\ Inside(triml(v, n)) /\ Inside(trimr(v, n))
<1>1. v \in View /\ v.len \in Nat /\ n \in Nat
  BY DEF Good, View
<1>2. CASE n <= v.len
  <2>1. n \in 0 .. v.len /\ v.len - n \in Nat /\ 0 \in Nat /\ 0 + n <= v.len /\ n + (v.len - n) <= v.len
        /\ 0 + (v.len - n) <= v.len /\ (v.len - n) + n <= v.len
    BY <1>1, <1>2
  <2>2. Good(Part(v, 0, n)) /\ Good(Part(v, n, v.len - n))
    BY <1>1, <2>1, PartTyped
  <2>3. Good(Part(v, 0, v.len - n))
    BY <1>1, <2>1, PartTyped
  <2>4. Good(Part(v, v.len - n, n))
    BY <1>1, <2>1, PartTyped
  <2> QED  BY <1>1, <2>1, <2>2, <2>3, <2>4, Cut DEF Good
<1>3. CASE ~(n <= v.len)
  <2>1. v.len < n
    BY <1>1, <1>3
  <2>2. head(v, n) = v /\ tail(v, n) = v /\ triml(v, n).len = 0 /\ trimr(v, n).len = 0
    BY <1>1, <2>1 DEF head, tail, triml, trimr, View
  <2> QED  BY <2>2 DEF Good, Inside
<1> QED  BY <1>2, <1>3

LEMMA PassInvInit == PassInit => PassInv
<1> SUFFICES ASSUME PassInit PROVE PassInv
  OBVIOUS
<1>1. text \in Seq(Chars) /\ Len(text) \in Nat
  BY StringsAssumption DEF PassInit
<1>2. Good(cst2vst)
  BY <1>1 DEF cst2vst, Good, View, Inside
<1> QED  BY <1>1, <1>2, NullGood DEF PassInit, PassInv, Good

LEMMA PassInvNext == PassInv /\ [PassNext]_<<text, passVars>> => PassInv'
<1> SUFFICES ASSUME PassInv, [PassNext]_<<text, passVars>> PROVE PassInv'
  OBVIOUS
<1>1. text' = text
  BY DEF PassNext, SplitLine, SkipBlanks
<1>2. ASSUME NEW v, Good(v) PROVE Good(v)'
  BY <1>1, <1>2 DEF Good, Inside
<1>3. CASE SplitLine
  <2>1. Good(split_char(vst_program, "\n").front) /\ Good(split_char(vst_program, "\n").back)
    BY SplitCharGood DEF PassInv
  <2>2. /\ vst_program' = split_char(vst_program, "\n").back
        /\ current_vs' = split_char(vst_program, "\n").front
    BY <1>3 DEF SplitLine
  <2> QED  BY <1>1, <2>1, <2>2 DEF PassInv, Good, Inside
<1>4. CASE SkipBlanks /\ StartsBlank
  <2>1. vst_program' = vst_program /\ current_vs' = triml(current_vs, 1)
    BY <1>4 DEF SkipBlanks
  <2>2. current_vs \in View /\ 1 \in 0 .. current_vs.len /\ current_vs.len \in Nat
    <3>1. current_vs.len >= Len(<<" ">>) \/ current_vs.len >= Len(<<"\t">>)
      BY <1>4 DEF StartsBlank, is_head
    <3>2. current_vs.len >= 1
      <4>1. Len(<<" ">>) = 1 /\ Len(<<"\t">>) = 1
        OBVIOUS
      <4> QED  BY <3>1, <4>1
    <3> QED  BY <3>2 DEF PassInv, Good, View
  <2>3. triml(current_vs, 1) = Part(current_vs, 1, current_vs.len - 1)
    BY <2>2, Cut
  <2>4. Good(Part(current_vs, 1, current_vs.len - 1))
    <3>1. 1 \in Nat /\ current_vs.len - 1 \in Nat /\ 1 + (current_vs.len - 1) <= current_vs.len
      BY <2>2
    <3> QED  BY <3>1, PartTyped DEF PassInv
  <2> QED  BY <1>1, <2>1, <2>3, <2>4 DEF PassInv, Good, Inside
<1>5. CASE UNCHANGED <<vst_program, current_vs>>
  BY <1>1, <1>5 DEF PassInv, Good, Inside
<1> QED  BY <1>3, <1>4, <1>5 DEF PassNext, SkipBlanks, passVars

LEMMA PassInvariant == PassSpec => []PassInv
  BY PassInvInit, PassInvNext, PTL DEF PassSpec

(* Neither the views of the pass nor any that an operation makes of them   *)
(* reach outside the text.                                                 *)
THEOREM ViewsStayInside == PassSpec => []ViewsInside
<1>1. PassInv => ViewsInside
  <2> SUFFICES ASSUME PassInv, NEW v \in {vst_program, current_vs}
               PROVE  /\ Inside(v)
                      /\ \A n \in 0 .. v.len + 1 :
                            /\ Inside(head(v, n)) /\ Inside(tail(v, n))
                            /\ Inside(triml(v, n)) /\ Inside(trimr(v, n))
                      /\ \A s \in Needles :
                            /\ PartsInside(split_string(v, s))
                            /\ PartsInside(split_set(v, { s[i] : i \in DOMAIN s }))
                            /\ \A i \in DOMAIN s : PartsInside(split_char(v, s[i]))
    BY DEF ViewsInside
  <2>1. text \in Seq(Chars) /\ Good(v)
    BY DEF PassInv
  <2>2. \A n \in 0 .. v.len + 1 : /\ Inside(head(v, n)) /\ Inside(tail(v, n))
                                   /\ Inside(triml(v, n)) /\ Inside(trimr(v, n))
    BY <2>1, CutGood
  <2>3. ASSUME NEW s \in Needles
        PROVE  /\ PartsInside(split_string(v, s))
               /\ PartsInside(split_set(v, { s[i] : i \in DOMAIN s }))
               /\ \A i \in DOMAIN s : PartsInside(split_char(v, s[i]))
    <3>1. s \in Seq(Chars)
      BY StringsAssumption
    <3>2. PartsInside(split_string(v, s))
      BY <2>1, <3>1, SplitStringGood DEF PartsInside, Good
    <3>3. PartsInside(split_set(v, { s[i] : i \in DOMAIN s }))
      BY <2>1, SplitSetGood DEF PartsInside, Good
    <3>4. ASSUME NEW i \in DOMAIN s PROVE PartsInside(split_char(v, s[i]))
      BY <2>1, SplitCharGood DEF PartsInside, Good
    <3> QED  BY <3>2, <3>3, <3>4
  <2> QED  BY <2>1, <2>2, <2>3 DEF Good
<1> QED  BY <1>1, PassInvariant, PTL

(* Cutting n characters off either end loses none of them. *)
THEOREM CutsMakeWhole == PassSpec => []TrimLaw
<1>1. PassInv => TrimLaw
  BY TrimHolds DEF PassInv
<1> QED  BY <1>1, PassInvariant, PTL

(* The comparisons, which go character by character, answer what prefixes, *)
(* suffixes and parts of sequences are.                                    *)
THEOREM ComparesSequences == PassSpec => []CompareLaw
<1>1. PassInv => CompareLaw
  BY CompareHolds DEF PassInv
<1> QED  BY <1>1, PassInvariant, PTL

(* A split takes a text apart at the first separator and loses nothing.    *)
THEOREM SplitsAtFirst == PassSpec => []SplitLaw
<1>1. PassInv => SplitLaw
  <2> SUFFICES ASSUME PassInv, NEW s \in Needles PROVE SplitAt(vst_program, s)
    BY DEF SplitLaw, SplitAt
  <2>1. s \in Seq(Chars)
    BY StringsAssumption
  <2>2. text \in Seq(Chars) /\ Good(vst_program)
    BY DEF PassInv
  <2> QED  BY <2>1, <2>2, SplitHolds, SplitEmpty
<1> QED  BY <1>1, PassInvariant, PTL

-----------------------------------------------------------------------------
(* Reading numbers.  A recursion over 0 .. n has a solution: the least     *)
(* length without one is not 0, and one before it can be continued.        *)
Solves(g, n, V, z, next) ==
    /\ g \in [0 .. n -> V]
    /\ g[0] = z /\ \A k \in 1 .. n : g[k] = next[<<k, g[k - 1]>>]

LEMMA Recursion ==
  ASSUME NEW n \in Nat, NEW V, NEW z \in V, NEW next \in [(1 .. n) \X V -> V]
  PROVE  \E g : Solves(g, n, V, z, next)
<1> DEFINE S == { m \in 0 .. n : ~\E g : Solves(g, m, V, z, next) }
<1>1. ASSUME S # {} PROVE FALSE
  <2>1. S \in SUBSET Nat
    OBVIOUS
  <2>2. PICK m \in S : \A k \in S : m <= k
    <3> HIDE DEF S
    <3> QED  BY <1>1, <2>1, Least
  <2>3. m \in 0 .. n /\ ~\E g : Solves(g, m, V, z, next)
    OBVIOUS
  <2>4. m # 0
    <3>1. ASSUME m = 0 PROVE FALSE
      <4> DEFINE g == [k \in 0 .. m |-> z]
      <4>1. Solves(g, m, V, z, next)
        BY <3>1 DEF Solves
      <4> QED  BY <2>3, <4>1
    <3> QED  BY <3>1
  <2>5. m - 1 \in 0 .. n /\ m \in 1 .. n /\ ~ (m <= m - 1)
    BY <2>3, <2>4
  <2>6. PICK g : Solves(g, m - 1, V, z, next)
    BY <2>2, <2>5
  <2>7. /\ g \in [0 .. m - 1 -> V] /\ g[0] = z
        /\ \A k \in 1 .. m - 1 : g[k] = next[<<k, g[k - 1]>>]
    BY <2>6 DEF Solves
  <2> DEFINE h == [k \in 0 .. m |-> IF k = m THEN next[<<m, g[m - 1]>>] ELSE g[k]]
  <2>8. m - 1 \in 0 .. m - 1 /\ g[m - 1] \in V /\ next[<<m, g[m - 1]>>] \in V
    BY <2>5, <2>7
  <2>9. \A k \in 0 .. m : k = m \/ (k # m /\ k \in 0 .. m - 1)
    BY <2>5
  <2>10. h \in [0 .. m -> V]
    BY <2>7, <2>8, <2>9
  <2>11. h[0] = z
    BY <2>5, <2>7
  <2>12. ASSUME NEW k \in 1 .. m PROVE h[k] = next[<<k, h[k - 1]>>]
    <3>1. k \in 0 .. m /\ k - 1 \in 0 .. m /\ k - 1 # m
      BY <2>5
    <3>2. CASE k = m
      BY <3>1, <3>2
    <3>3. CASE k # m
      <4>1. k \in 1 .. m - 1
        BY <2>5, <3>3
      <4> QED  BY <2>7, <3>1, <3>3, <4>1
    <3> QED  BY <3>2, <3>3
  <2> HIDE DEF h
  <2>13. Solves(h, m, V, z, next)
    BY <2>10, <2>11, <2>12 DEF Solves
  <2> QED  BY <2>3, <2>13
<1>2. n \in 0 .. n /\ n \notin S
  BY <1>1
<1> QED  BY <1>2

(* Arithmetic modulo a number. *)
LEMMA Quotient ==
  ASSUME NEW m \in Nat \ {0}, NEW x \in Int
  PROVE  /\ x % m \in 0 .. m - 1 /\ x \div m \in Int
         /\ x = m * (x \div m) + (x % m)
  OBVIOUS

LEMMA MultipleLarge ==
  ASSUME NEW m \in Nat \ {0}, NEW c \in Int, c > 0
  PROVE  m * c >= m
  OBVIOUS

LEMMA RemainderOnce ==
  ASSUME NEW m \in Nat \ {0}, NEW q \in Int, NEW p \in Int, NEW r \in 0 .. m - 1, NEW s \in 0 .. m - 1,
         m * q + r = m * p + s
  PROVE  r = s
<1>1. m * (q - p) = s - r /\ m * (p - q) = r - s
  OBVIOUS
<1>2. CASE q - p > 0
  <2>1. m * (q - p) >= m
    BY <1>2, MultipleLarge
  <2> QED  BY <1>1, <2>1
<1>3. CASE p - q > 0
  <2>1. m * (p - q) >= m
    BY <1>3, MultipleLarge
  <2> QED  BY <1>1, <2>1
<1>4. CASE p = q
  BY <1>4
<1> QED  BY <1>2, <1>3, <1>4

LEMMA ModuloPlus ==
  ASSUME NEW m \in Nat \ {0}, NEW y \in Int, NEW t \in Int
  PROVE  (m * t + y) % m = y % m
<1> DEFINE z == m * t + y
<1>1. m * t \in Int /\ z \in Int
  OBVIOUS
<1>2. /\ y % m \in 0 .. m - 1 /\ y \div m \in Int /\ y = m * (y \div m) + (y % m)
      /\ z % m \in 0 .. m - 1 /\ z \div m \in Int /\ z = m * (z \div m) + (z % m)
  BY <1>1, Quotient
<1>3. m * (z \div m) + (z % m) = m * (t + (y \div m)) + (y % m)
  BY <1>2
<1>4. t + (y \div m) \in Int
  BY <1>2
<1> HIDE DEF z
<1> QED  BY <1>2, <1>3, <1>4, RemainderOnce DEF z

LEMMA ModuloTimes ==
  ASSUME NEW m \in Nat \ {0}, NEW x \in Int, NEW w \in Int, NEW v \in Int
  PROVE  ((x % m) * w + v) % m = (x * w + v) % m
<1> DEFINE q == x \div m
           r == x % m
<1>1. r \in Int /\ q \in Int /\ x = m * q + r
  BY Quotient
<1> HIDE DEF q, r
<1>2. x * w + v = m * (q * w) + (r * w + v)
  BY <1>1
<1>3. q * w \in Int /\ r * w + v \in Int
  BY <1>1
<1> QED  BY <1>2, <1>3, ModuloPlus DEF r

LEMMA RecursionTyped ==
  ASSUME NEW n \in Nat, NEW V, NEW f, f[0] \in V, \A k \in 1 .. n : f[k - 1] \in V => f[k] \in V
  PROVE  \A k \in 0 .. n : f[k] \in V
<1> DEFINE S == { k \in 0 .. n : f[k] \notin V }
<1>1. ASSUME S # {} PROVE FALSE
  <2>1. S \in SUBSET Nat
    OBVIOUS
  <2>2. PICK m \in S : \A k \in S : m <= k
    <3> HIDE DEF S
    <3> QED  BY <1>1, <2>1, Least
  <2>3. m \in 1 .. n /\ m - 1 \in 0 .. n /\ ~ (m <= m - 1)
    BY <2>2
  <2>4. f[m - 1] \in V
    BY <2>2, <2>3
  <2> QED  BY <2>2, <2>3, <2>4
<1> QED  BY <1>1

(* The powers of the base.                                                 *)
Weight(n, base) ==
    LET weight[k \in 0 .. n] == IF k = 0 THEN 1 ELSE base * weight[k - 1]
    IN  weight

LEMMA WeightIs ==
  ASSUME NEW n \in Nat, NEW base \in Nat
  PROVE  LET weight == Weight(n, base)
         IN  /\ weight[0] = 1 /\ \A k \in 1 .. n : weight[k] = base * weight[k - 1]
             /\ \A k \in 0 .. n : weight[k] \in Nat
<1> DEFINE step(f) == [k \in 0 .. n |-> IF k = 0 THEN 1 ELSE base * f[k - 1]]
           weight == CHOOSE f : f = step(f)
           next == [kx \in (1 .. n) \X Nat |-> base * kx[2]]
<1>1. PICK g : Solves(g, n, Nat, 1, next)
  <2>1. next \in [(1 .. n) \X Nat -> Nat] /\ 1 \in Nat
    OBVIOUS
  <2> HIDE DEF next
  <2> QED  BY <2>1, Recursion, Zenon
<1>2. ASSUME NEW k \in 1 .. n PROVE k \in 0 .. n /\ k # 0 /\ k - 1 \in 0 .. n
  OBVIOUS
<1>3. 0 \in 0 .. n /\ \A k \in 0 .. n : k = 0 \/ k \in 1 .. n
  OBVIOUS
<1>4. ASSUME NEW k \in 1 .. n PROVE g[k] = base * g[k - 1]
  <2>1. g[k - 1] \in Nat /\ g[k] = next[<<k, g[k - 1]>>]
    BY <1>1, <1>2 DEF Solves
  <2> QED  BY <2>1
<1>5. g = step(g)
  <2>1. g = [k \in 0 .. n |-> g[k]] /\ g[0] = 1
    BY <1>1 DEF Solves
  <2> QED  BY <1>2, <1>3, <1>4, <2>1
<1>6. weight = step(weight)
  <2> HIDE DEF step
  <2> QED  BY <1>5
<1> HIDE DEF weight
<1>7. weight[0] = 1 /\ \A k \in 1 .. n : weight[k] = base * weight[k - 1]
  BY <1>2, <1>3, <1>6
<1>8. \A k \in 0 .. n : weight[k] \in Nat
  <2>1. weight[0] \in Nat /\ \A k \in 1 .. n : weight[k - 1] \in Nat => weight[k] \in Nat
    BY <1>7
  <2> QED  BY <2>1, RecursionTyped, Zenon
<1> QED  BY <1>7, <1>8 DEF weight, Weight

(* The value of the last k digits, for any weights of their places.        *)
Value(buffer, n, weight) ==
    LET value[k \in 0 .. n] ==
          IF k = 0 THEN 0
          ELSE value[k - 1] + DigitOf(buffer[Len(buffer) - k + 1]) * weight[k - 1]
    IN  value

LEMMA ValueIs ==
  ASSUME NEW buffer, NEW n \in Nat, NEW weight,
         \A k \in 1 .. n : DigitOf(buffer[Len(buffer) - k + 1]) \in Nat /\ weight[k - 1] \in Nat
  PROVE  LET value == Value(buffer, n, weight)
         IN  /\ value[0] = 0
             /\ \A k \in 1 .. n :
                  value[k] = value[k - 1] + DigitOf(buffer[Len(buffer) - k + 1]) * weight[k - 1]
             /\ \A k \in 0 .. n : value[k] \in Nat
<1> DEFINE a(k) == DigitOf(buffer[Len(buffer) - k + 1]) * weight[k - 1]
           step(f) == [k \in 0 .. n |-> IF k = 0 THEN 0 ELSE f[k - 1] + a(k)]
           value == CHOOSE f : f = step(f)
           next == [kx \in (1 .. n) \X Nat |-> kx[2] + a(kx[1])]
<1>0. \A k \in 1 .. n : a(k) \in Nat
  OBVIOUS
<1> HIDE DEF a
<1>1. PICK g : Solves(g, n, Nat, 0, next)
  <2>1. next \in [(1 .. n) \X Nat -> Nat] /\ 0 \in Nat
    BY <1>0
  <2> HIDE DEF next
  <2> QED  BY <2>1, Recursion, Zenon
<1>2. ASSUME NEW k \in 1 .. n PROVE k \in 0 .. n /\ k # 0 /\ k - 1 \in 0 .. n
  OBVIOUS
<1>3. 0 \in 0 .. n /\ \A k \in 0 .. n : k = 0 \/ k \in 1 .. n
  OBVIOUS
<1>4. ASSUME NEW k \in 1 .. n PROVE g[k] = g[k - 1] + a(k)
  <2>1. g[k - 1] \in Nat /\ g[k] = next[<<k, g[k - 1]>>]
    BY <1>1, <1>2 DEF Solves
  <2> QED  BY <2>1
<1>5. g = step(g)
  <2>1. g = [k \in 0 .. n |-> g[k]] /\ g[0] = 0
    BY <1>1 DEF Solves
  <2> QED  BY <1>2, <1>3, <1>4, <2>1
<1>6. value = step(value)
  <2> HIDE DEF step
  <2> QED  BY <1>5
<1> HIDE DEF value
<1>7. value[0] = 0 /\ \A k \in 1 .. n : value[k] = value[k - 1] + a(k)
  BY <1>2, <1>3, <1>6
<1>8. \A k \in 0 .. n : value[k] \in Nat
  <2>1. value[0] \in Nat /\ \A k \in 1 .. n : value[k - 1] \in Nat => value[k] \in Nat
    BY <1>0, <1>7
  <2> QED  BY <2>1, RecursionTyped, Zenon
<1> QED  BY <1>7, <1>8 DEF value, a, Value

(* The number after i characters, with the digits from the first on.       *)
Number(buffer, first, base) ==
    LET nb[i \in 0 .. Len(buffer)] ==
          IF i < first THEN 0 ELSE (nb[i - 1] * base + DigitOf(buffer[i])) % Modulus
    IN  nb

LEMMA NumberIs ==
  ASSUME NEW buffer, Len(buffer) \in Nat, NEW first \in Nat \ {0}, NEW base \in Nat,
         \A i \in first .. Len(buffer) : DigitOf(buffer[i]) \in Nat
  PROVE  LET nb == Number(buffer, first, base)
         IN  /\ \A i \in 0 .. Len(buffer) : i < first => nb[i] = 0
             /\ \A i \in first .. Len(buffer) :
                  nb[i] = (nb[i - 1] * base + DigitOf(buffer[i])) % Modulus
             /\ \A i \in 0 .. Len(buffer) : nb[i] \in 0 .. Modulus - 1
<1> DEFINE len == Len(buffer)
           D(i) == DigitOf(buffer[i])
           V == 0 .. Modulus - 1
           step(f) == [i \in 0 .. len |->
                         IF i < first THEN 0 ELSE (f[i - 1] * base + D(i)) % Modulus]
           nb == CHOOSE f : f = step(f)
           next == [kx \in (1 .. len) \X V |->
                      IF kx[1] < first THEN 0 ELSE (kx[2] * base + D(kx[1])) % Modulus]
<1>0. len \in Nat /\ \A i \in first .. len : D(i) \in Nat
  OBVIOUS
<1> HIDE DEF len, D
<1>1. 0 \in V /\ \A x \in Int : x % Modulus \in V
  BY ModulusAssumption
<1>2. ASSUME NEW k \in 1 .. len
      PROVE  /\ k \in 0 .. len /\ k - 1 \in 0 .. len
             /\ ~ (k < first) => k \in first .. len
  BY <1>0
<1>3. ASSUME NEW k \in 1 .. len, ~ (k < first), NEW x \in V PROVE (x * base + D(k)) % Modulus \in V
  <2>1. x \in Nat /\ D(k) \in Nat
    BY <1>0, <1>2, <1>3
  <2>2. x * base + D(k) \in Int
    BY <2>1
  <2> QED  BY <1>1, <2>2
<1> HIDE DEF V
<1>4. PICK g : Solves(g, len, V, 0, next)
  <2>1. next \in [(1 .. len) \X V -> V]
    BY <1>1, <1>3
  <2> HIDE DEF next
  <2> QED  BY <1>0, <1>1, <2>1, Recursion, Zenon
<1>5. 0 \in 0 .. len /\ 0 < first /\ \A k \in 0 .. len : k = 0 \/ k \in 1 .. len
  BY <1>0
<1>6. ASSUME NEW k \in 1 .. len
      PROVE  g[k] = IF k < first THEN 0 ELSE (g[k - 1] * base + D(k)) % Modulus
  <2>1. g[k - 1] \in V /\ g[k] = next[<<k, g[k - 1]>>]
    BY <1>2, <1>4 DEF Solves
  <2>2. next[<<k, g[k - 1]>>] = IF k < first THEN 0 ELSE (g[k - 1] * base + D(k)) % Modulus
    BY <2>1
  <2> QED  BY <2>1, <2>2
<1>7. g = step(g)
  <2>1. g = [k \in 0 .. len |-> g[k]] /\ g[0] = 0
    BY <1>4 DEF Solves
  <2> QED  BY <1>5, <1>6, <2>1
<1>8. nb = step(nb)
  <2> HIDE DEF step
  <2> QED  BY <1>7
<1> HIDE DEF nb
<1>9. /\ \A i \in 0 .. len : i < first => nb[i] = 0
      /\ \A i \in 1 .. len : ~ (i < first) => nb[i] = (nb[i - 1] * base + D(i)) % Modulus
  <2>1. \A i \in 0 .. len :
          nb[i] = IF i < first THEN 0 ELSE (nb[i - 1] * base + D(i)) % Modulus
    BY <1>8
  <2> QED  BY <1>2, <2>1, Zenon
<1>10. \A i \in 0 .. len : nb[i] \in V
  <2>1. \A k \in 1 .. len : nb[k - 1] \in V => nb[k] \in V
    BY <1>1, <1>2, <1>3, <1>9
  <2> QED  BY <1>0, <1>1, <1>5, <1>9, <2>1, RecursionTyped
<1>11. \A i \in first .. len : i \in 1 .. len /\ ~ (i < first)
  BY <1>0
<1> QED  BY <1>9, <1>10, <1>11 DEF nb, len, D, V, Number

(* With j characters read, the number so far, at its place, and the value  *)
(* of the digits to come are together the value of all, modulo the word.   *)
LEMMA DigitsByPlace ==
  ASSUME NEW buffer, Len(buffer) \in Nat,
         NEW first \in Nat \ {0}, first <= Len(buffer) + 1, NEW base \in Nat,
         \A i \in first .. Len(buffer) : DigitOf(buffer[i]) \in Nat
  PROVE  ReadDigits(buffer, first, base) = PlaceValue(buffer, first, base) % Modulus
<1> DEFINE len == Len(buffer)
           n == Len(buffer) - first + 1
           weight == Weight(n, base)
           value == Value(buffer, n, weight)
           nb == Number(buffer, first, base)
<1>1. ReadDigits(buffer, first, base) = nb[len] /\ PlaceValue(buffer, first, base) = value[n]
  BY DEF ReadDigits, PlaceValue, Weight, Value, Number
<1>2. n \in Nat /\ len \in Nat /\ first - 1 \in 0 .. len /\ n = len - (first - 1)
  OBVIOUS
<1>3. /\ weight[0] = 1 /\ \A k \in 1 .. n : weight[k] = base * weight[k - 1]
      /\ \A k \in 0 .. n : weight[k] \in Nat
  <2> HIDE DEF n
  <2> QED  BY <1>2, WeightIs
<1>4. \A k \in 1 .. n : k - 1 \in 0 .. n /\ len - k + 1 \in first .. len
  OBVIOUS
<1> HIDE DEF weight
<1>5. /\ value[0] = 0
      /\ \A k \in 1 .. n :
           value[k] = value[k - 1] + DigitOf(buffer[Len(buffer) - k + 1]) * weight[k - 1]
      /\ \A k \in 0 .. n : value[k] \in Nat
  <2>1. \A k \in 1 .. n : DigitOf(buffer[Len(buffer) - k + 1]) \in Nat /\ weight[k - 1] \in Nat
    BY <1>3, <1>4
  <2> HIDE DEF n
  <2> QED  BY <1>2, <2>1, ValueIs
<1>6. /\ \A i \in 0 .. len : i < first => nb[i] = 0
      /\ \A i \in first .. len : nb[i] = (nb[i - 1] * base + DigitOf(buffer[i])) % Modulus
      /\ \A i \in 0 .. len : nb[i] \in 0 .. Modulus - 1
  BY NumberIs
<1> HIDE DEF nb, value
<1> DEFINE All(j) == (nb[j] * weight[len - j] + value[len - j]) % Modulus
<1>7. ASSUME NEW j \in first .. len PROVE All(j) = All(j - 1)
  <2> DEFINE k == len - j
             d == DigitOf(buffer[j])
             x == nb[j - 1]
             w == weight[k]
             v == value[k]
  <2>1. /\ k \in 0 .. n /\ k + 1 \in 1 .. n /\ (k + 1) - 1 = k /\ len - (j - 1) = k + 1
        /\ len - (k + 1) + 1 = j /\ j - 1 \in 0 .. len
    BY <1>2
  <2>2. x \in Nat /\ d \in Nat /\ w \in Nat /\ v \in Nat
    <3>1. x \in 0 .. Modulus - 1
      BY <1>6, <2>1
    <3>2. w \in Nat /\ v \in Nat
      BY <1>3, <1>5, <2>1
    <3>3. d \in Nat
      OBVIOUS
    <3> QED  BY <3>1, <3>2, <3>3
  <2>3. nb[j] = (x * base + d) % Modulus
    BY <1>6
  <2>4. weight[k + 1] = base * w /\ value[k + 1] = v + d * w
    BY <1>3, <1>5, <2>1
  <2> HIDE DEF k, d, x, w, v
  <2>5. (((x * base + d) % Modulus) * w + v) % Modulus = ((x * base + d) * w + v) % Modulus
    <3>1. x * base + d \in Int /\ w \in Int /\ v \in Int
      BY <2>2
    <3> QED  BY <3>1, ModulusAssumption, ModuloTimes, Zenon
  <2>6. (x * base + d) * w + v = x * (base * w) + (v + d * w)
    BY <2>2
  <2>7. All(j) = (((x * base + d) % Modulus) * w + v) % Modulus
    BY <2>3 DEF k, w, v
  <2>8. All(j - 1) = (x * (base * w) + (v + d * w)) % Modulus
    BY <2>1, <2>4 DEF x
  <2> QED  BY <2>5, <2>6, <2>7, <2>8
<1>8. All(first - 1) = value[n] % Modulus
  <2>1. nb[first - 1] = 0 /\ len - (first - 1) = n
    BY <1>2, <1>6
  <2>2. weight[n] \in Nat /\ value[n] \in Nat
    BY <1>2, <1>3, <1>5
  <2>3. All(first - 1) = (0 * weight[n] + value[n]) % Modulus
    BY <2>1
  <2> HIDE DEF All, n
  <2>4. 0 * weight[n] + value[n] = value[n]
    BY <2>2
  <2> QED  BY <2>3, <2>4
<1>9. All(len) = nb[len]
  <2>1. nb[len] \in 0 .. Modulus - 1 /\ weight[0] = 1 /\ value[0] = 0
    BY <1>2, <1>3, <1>5, <1>6
  <2>2. len - len = 0
    BY <1>2
  <2>3. \A y \in 0 .. Modulus - 1 : (y * 1 + 0) % Modulus = y
    BY ModulusAssumption
  <2>4. All(len) = (nb[len] * 1 + 0) % Modulus
    BY <2>1, <2>2
  <2> HIDE DEF All
  <2> QED  BY <2>1, <2>3, <2>4
<1> HIDE DEF All
<1> DEFINE same == [k \in 0 .. n |-> All(first - 1 + k)]
           Once == {All(first - 1)}
<1>10. \A k \in 0 .. n : same[k] \in Once
  <2>1. same[0] \in Once
    BY <1>2
  <2>2. \A k \in 1 .. n : k \in 0 .. n /\ first - 1 + k \in first .. len /\ (first - 1 + k) - 1 = first - 1 + (k - 1)
    BY <1>2
  <2>3. \A k \in 1 .. n : same[k] = same[k - 1]
    BY <1>4, <1>7, <2>2
  <2> HIDE DEF same, n, Once
  <2>4. \A k \in 1 .. n : same[k - 1] \in Once => same[k] \in Once
    BY <2>3
  <2> QED  BY <1>2, <2>1, <2>4, RecursionTyped
<1>11. same[n] = All(len) /\ n \in 0 .. n
  BY <1>2
<1> HIDE DEF same
<1>12. All(len) = All(first - 1)
  BY <1>10, <1>11
<1> QED  BY <1>1, <1>8, <1>9, <1>12

(* A text is read as its digits say, modulo the width of a word, if it is  *)
(* a number; and no number is decimal and hexadecimal.                     *)
LEMMA ReadsAll == ASSUME NEW C, NEW buffer \in Seq(C) PROVE ReadsNumber(buffer)
<1> DEFINE len == Len(buffer)
<1>1. len \in Nat /\ DOMAIN buffer = 1 .. len
  OBVIOUS
<1>2. \A c \in HexDigits : DigitOf(c) \in Nat
  <2>1. ASSUME NEW c \in HexDigits PROVE \E i \in DOMAIN Lower : c \in {Lower[i], Upper[i]}
    <3>1. DOMAIN Lower = 1 .. 16 /\ DOMAIN Upper = 1 .. 16
      BY DEF Lower, Upper, Decimal
    <3>2. \E i \in 1 .. 16 : c = Lower[i] \/ c = Upper[i]
      BY <3>1 DEF HexDigits, Digits
    <3> QED  BY <3>1, <3>2
  <2>2. \A i \in DOMAIN Lower : i - 1 \in Nat
    BY DEF Lower, Decimal
  <2> HIDE DEF HexDigits
  <2> QED  BY <2>1, <2>2 DEF DigitOf
<1>3. DecimalDigits \subseteq HexDigits
  <2>1. DOMAIN Decimal = 1 .. 10 /\ DOMAIN Lower = 1 .. 16
    BY DEF Lower, Decimal
  <2>2. \A i \in 1 .. 10 : i \in 1 .. 16 /\ Decimal[i] = Lower[i]
    BY DEF Lower, Decimal
  <2> QED  BY <2>1, <2>2 DEF DecimalDigits, HexDigits, Digits
<1>4. "x" \notin DecimalDigits
  BY DEF DecimalDigits, Digits, Decimal
<1>5. ~ (is_hexnb(buffer) /\ is_decimal(buffer))
  <2>1. len >= 2 => 2 \in DOMAIN buffer
    BY <1>1
  <2> QED  BY <1>4, <2>1 DEF is_hexnb, is_decimal
<1>6. ASSUME is_hexnb(buffer) PROVE buffer_to_uint64(buffer) = PlaceValue(buffer, 3, 16) % Modulus
  <2>1. len >= 2 /\ \A i \in 3 .. len : DigitOf(buffer[i]) \in Nat
    BY <1>2, <1>6 DEF is_hexnb
  <2>2. 3 \in Nat \ {0} /\ 3 <= len + 1 /\ 16 \in Nat
    BY <1>1, <2>1
  <2> QED  BY <1>1, <1>6, <2>1, <2>2, DigitsByPlace DEF buffer_to_uint64
<1>7. ASSUME is_decimal(buffer)
      PROVE  buffer_to_uint64(buffer) = PlaceValue(buffer, 1, 10) % Modulus
  <2>1. \A i \in 1 .. len : DigitOf(buffer[i]) \in Nat
    BY <1>1, <1>2, <1>3, <1>7 DEF is_decimal
  <2>2. 1 \in Nat \ {0} /\ 1 <= len + 1 /\ 10 \in Nat
    BY <1>1
  <2>3. buffer_to_uint64(buffer) = ReadDigits(buffer, 1, 10)
    BY <1>5, <1>7 DEF buffer_to_uint64
  <2> QED  BY <1>1, <2>1, <2>2, <2>3, DigitsByPlace
<1> QED  BY <1>5, <1>6, <1>7 DEF ReadsNumber, is_number

(* Whatever the text, if it is a number then it is read as its digits say, *)
(* modulo the width of a word, and no text is a decimal and a hexadecimal  *)
(* number.                                                                 *)
THEOREM NumbersRead == PassSpec => []NumberLaw
<1>1. PassInv => NumberLaw
  BY ReadsAll DEF PassInv, NumberLaw
<1> QED  BY <1>1, PassInvariant, PTL
=============================================================================
