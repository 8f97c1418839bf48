----------------------------- MODULE ViewString -----------------------------
(***************************************************************************)
(* Views of strings (src/src/ccbase/vs/view_string.h): a pointer into a    *)
(* text that is not copied, and a length.  Pointers are positions in the   *)
(* text, counted from 0; its last byte is the terminating zero.  Strings a *)
(* view is compared with are given as sequences.                           *)
(***************************************************************************)
EXTENDS Integers, SequencesExt

CONSTANTS
    Chars,
    Strings,   \* the texts, as sequences of characters
    Needles    \* strings views are compared with and split at

ASSUME StringsAssumption == \A s \in Strings \cup Needles : s \in Seq(Chars)

VARIABLE text

Null == [ptr |-> 0, len |-> 0]    \* {0}: the parts of a split not found

At(v, i) == text[v.ptr + i + 1]

(* What a view shows (ccb_vst2cst copies it), and the view of all the text.*)
Shown(v) == [i \in 1 .. v.len |-> At(v, i - 1)]
cst2vst == [ptr |-> 0, len |-> Len(text)]

(* Fault: the last characters are taken from the front. *)
tail_front(v, nb) == IF v.len < nb THEN v ELSE [ptr |-> v.ptr, len |-> nb]

head(v, nb) == IF v.len < nb THEN v ELSE [v EXCEPT !.len = nb]
tail(v, nb) == IF v.len < nb THEN v ELSE [ptr |-> v.ptr + v.len - nb, len |-> nb]

(* Beyond the end, triml points at the last character of what it was given.*)
triml(v, id) == IF v.len < id THEN [ptr |-> v.ptr + v.len - 1, len |-> 0]
                ELSE [ptr |-> v.ptr + id, len |-> v.len - id]
trimr(v, id) == [v EXCEPT !.len = IF v.len < id THEN 0 ELSE v.len - id]

is_head(v, s) == v.len >= Len(s) /\ \A i \in 0 .. Len(s) - 1 : At(v, i) = s[i + 1]
is_tail(v, s) == /\ v.len >= Len(s)
                 /\ \A i \in 0 .. Len(s) - 1 : At(v, v.len - i - 1) = s[Len(s) - i]
eq(v, s) == v.len = Len(s) /\ is_head(v, s)

(* Fault: the last place is not tried. *)
in_short(v, s) ==
    /\ v.len >= Len(s)
    /\ \E i \in 0 .. v.len - Len(s) - 1 :
          \A j \in 0 .. Len(s) - 1 : At(v, i + j) = s[j + 1]

in(v, s) ==
    /\ v.len >= Len(s)
    /\ \E i \in 0 .. v.len - Len(s) :
          \A j \in 0 .. Len(s) - 1 : At(v, i + j) = s[j + 1]

(* Fault: the rest is as long as if the separator were empty. *)
SplitLong(v, n, i) == [front |-> [v EXCEPT !.len = i],
                       back |-> [ptr |-> v.ptr + i + n, len |-> v.len - i],
                       found |-> TRUE]

(* A split at the first place where the separator, n characters long,      *)
(* begins.                                                                 *)
NotFound == [front |-> Null, back |-> Null, found |-> FALSE]
Split(v, n, i) == [front |-> [v EXCEPT !.len = i],
                   back |-> [ptr |-> v.ptr + i + n, len |-> v.len - i - n],
                   found |-> TRUE]

(* Fault: the separator stays in the rest. *)
SplitKeeps(v, n, begins) ==
    LET places == { i \in 0 .. v.len - 1 : i \in begins }
    IN  IF places = {} THEN NotFound
        ELSE Split(v, 0, CHOOSE i \in places : \A j \in places : i <= j)

SplitFirst(v, n, begins) ==
    LET places == { i \in 0 .. v.len - 1 : i \in begins }
    IN  IF places = {} THEN NotFound
        ELSE Split(v, n, CHOOSE i \in places : \A j \in places : i <= j)

split_char(v, c) == SplitFirst(v, 1, { i \in 0 .. v.len - 1 : At(v, i) = c })
split_set(v, C) == SplitFirst(v, 1, { i \in 0 .. v.len - 1 : At(v, i) \in C })
split_string(v, s) ==
    SplitFirst(v, Len(s), { i \in 0 .. v.len - 1 : is_head(triml(v, i), s) })

-----------------------------------------------------------------------------
(* The pass over the text that main makes before it assembles it           *)
(* (src/src/wiasm_to_wbin.c): it splits the text into lines and skips the  *)
(* blanks before a line that holds a colon.  Nothing of it is used later.  *)

VARIABLES
    vst_program,  \* what is left of the text
    current_vs,   \* what is left of the line
    pass          \* "split", "skip" (blanks) or "done"

passVars == <<vst_program, current_vs, pass>>

PassInit ==
    /\ text \in Strings
    /\ vst_program = cst2vst
    /\ current_vs = Null
    /\ pass = "split"

SplitLine ==
    /\ pass = "split"
    /\ LET split == split_char(vst_program, "\n")
       IN  /\ vst_program' = split.back
           /\ current_vs' = split.front
           /\ pass' = IF in(split.front, <<":">>) THEN "skip"
                      ELSE IF split.found THEN "split" ELSE "done"
    /\ UNCHANGED text

StartsBlank == is_head(current_vs, <<" ">>) \/ is_head(current_vs, <<"\t">>)

SkipBlanks ==
    /\ pass = "skip"
    /\ \/ StartsBlank /\ current_vs' = triml(current_vs, 1) /\ UNCHANGED pass
       \/ ~StartsBlank /\ pass' = "split" /\ UNCHANGED current_vs
    /\ UNCHANGED <<text, vst_program>>

PassNext == SplitLine \/ SkipBlanks

PassSpec == PassInit /\ [][PassNext]_<<text, passVars>> /\ WF_<<text, passVars>>(PassNext)

-----------------------------------------------------------------------------
Inside(v) == v.len = 0 \/ (0 <= v.ptr /\ v.ptr + v.len <= Len(text))

PartsInside(split) == Inside(split.front) /\ Inside(split.back)

(* Neither the two views of the pass nor any that an operation makes of    *)
(* them, cutting any number of characters or splitting at any separator,   *)
(* reach outside the text, whatever was split and trimmed before.          *)
ViewsInside ==
    \A v \in {vst_program, current_vs} :
        /\ Inside(v)
        /\ \A n \in 0 .. v.len + 1 : /\ Inside(head(v, n)) /\ Inside(tail(v, n))
                                     /\ Inside(triml(v, n)) /\ Inside(trimr(v, n))
        /\ \A s \in Needles : /\ PartsInside(split_string(v, s))
                              /\ PartsInside(split_set(v, { s[i] : i \in DOMAIN s }))
                              /\ \A i \in DOMAIN s : PartsInside(split_char(v, s[i]))

Occurs(s, whole) == \E p \in 0 .. Len(whole) - Len(s) :
                        SubSeq(whole, p + 1, p + Len(s)) = s

(* A split takes the text apart at the first separator and loses nothing;  *)
(* it finds one if there is one.  Splitting at a set of characters stops   *)
(* at the first of any of them.  An empty separator is found in front of a *)
(* text, but not in an empty one.                                          *)
SplitLaw ==
    \A s \in Needles :
        LET split == split_string(vst_program, s)
            first == split_set(vst_program, { s[i] : i \in DOMAIN s })
            whole == Shown(vst_program)
            front == Shown(split.front)
        IN  /\ split.found <=> whole # <<>> /\ Occurs(s, whole)
            /\ split.found => front \o s \o Shown(split.back) = whole
            /\ s = <<>> => front = <<>>
            /\ split.found /\ s # <<>> =>
                  /\ ~Occurs(s, front \o SubSeq(s, 1, Len(s) - 1))
                  /\ first.found /\ first.front.len <= split.front.len
            /\ Len(s) = 1 => split_char(vst_program, s[1]) = split

(* What the comparisons answer is what the characters say, for a view in   *)
(* the middle of a text as for one of its own, and for empty strings.      *)
CompareLaw ==
    \A s \in Needles :
        LET whole == Shown(vst_program)
        IN  /\ in(vst_program, s) <=> Occurs(s, whole)
            /\ is_head(vst_program, s) <=> IsPrefix(s, whole)
            /\ is_tail(vst_program, s) <=> IsSuffix(s, whole)
            /\ eq(vst_program, s) <=> s = whole

(* What is cut off and what is left make the whole; nothing is left, or    *)
(* all of it, where more is asked for than there is.                       *)
TrimLaw ==
    \A n \in 0 .. vst_program.len + 1 :
        LET v == vst_program
        IN  IF n <= v.len
            THEN /\ Shown(head(v, n)) \o Shown(triml(v, n)) = Shown(v)
                 /\ Shown(trimr(v, n)) \o Shown(tail(v, n)) = Shown(v)
                 /\ Len(Shown(head(v, n))) = n /\ Len(Shown(tail(v, n))) = n
            ELSE /\ head(v, n) = v /\ tail(v, n) = v
                 /\ Shown(triml(v, n)) = <<>> /\ Shown(trimr(v, n)) = <<>>

(* The pass ends, also on empty lines, lines of blanks and without a       *)
(* newline at the end.                                                     *)
PassEnds == <>(pass = "done")
=============================================================================
