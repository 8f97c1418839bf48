------------------------------- MODULE Wiasm -------------------------------
(***************************************************************************)
(* What a text means, read as a whole: its comments, its operations with   *)
(* their arguments, and its labels, as sets of positions in the text.  The *)
(* assembler's single pass is compared with this reading.                  *)
(***************************************************************************)
EXTENDS Assembler, FiniteSets

SameLine(i, j) == \A k \in i .. j : text[k] # Newline

(* Positions outside comments.                                             *)
CodeAt == { i \in DOMAIN text : ~\E h \in 1 .. i : text[h] = Hash /\ SameLine(h, i) }

(* The label before a colon; it may be empty.                              *)
LabelOf(i) == IF i > 1 /\ text[i - 1] \in Tokens THEN text[i - 1] ELSE End

(* The positions in a set, each at the place that is its rank.             *)
InOrder(S) == [n \in 1 .. Cardinality(S) |->
                 CHOOSE i \in S : Cardinality({ j \in S : j <= i }) = n]
TextAt(positions) == [n \in DOMAIN positions |-> text[positions[n]]]

(* The first word of a line that is no label is its operation, the others  *)
(* are the arguments.  A label stands for the number of operations before  *)
(* it.                                                                     *)
Reading ==
    LET code == CodeAt
        colons == { i \in code : text[i] = Colon }
        words == { i \in code : text[i] \in Tokens /\ i + 1 \notin colons }
        ops == InOrder({ i \in words : ~\E j \in words : j < i /\ SameLine(j, i) })
        args(i) == TextAt(InOrder({ j \in words : j > i /\ SameLine(i, j) }))
    IN  [ops |-> [k \in DOMAIN ops |-> [name |-> text[ops[k]], args |-> args(ops[k])]],
         labels |-> [i \in colons |->
                       [name |-> LabelOf(i),
                        before |-> Cardinality({ k \in DOMAIN ops : ops[k] < i })]],
         tokens |-> { text[i] : i \in code }]

(* The bytes of an operation, a word for what it is and one for each of    *)
(* its arguments, and of the first n operations of a reading.              *)
Footprint(name) == (Len(ArgsOf(name)) + 1) * WordSize
Size(r, n) == LET size[k \in 0 .. n] == IF k = 0 THEN 0
                                        ELSE size[k - 1] + Footprint(r.ops[k].name)
              IN  size[n]

Names(r) == { r.labels[i].name : i \in DOMAIN r.labels }
AddressOf(r, l) == Size(r, r.labels[CHOOSE i \in DOMAIN r.labels : r.labels[i].name = l].before)

IsTarget(o, n) == ArgsOf(o.name)[n] = "target" /\ o.args[n] \notin HexTokens

(* An operation without faults. *)
SoundOperation(r, o) ==
    /\ o.name \in Mnemonics
    /\ Len(o.args) <= Len(ArgsOf(o.name))
    /\ \A n \in DOMAIN o.args :
          CASE ArgsOf(o.name)[n] = "register" -> o.args[n] \in RegisterNames
            [] ArgsOf(o.name)[n] = "number"   -> o.args[n] \in DOMAIN NumberOf
            [] ArgsOf(o.name)[n] = "target"   -> o.args[n] \in HexTokens \cup Names(r)

Sound(r) ==
    /\ r.tokens \cap (FullTokens \cup LongTokens) = {}
    /\ \A k \in DOMAIN r.ops : SoundOperation(r, r.ops[k])
    /\ \A i, j \in DOMAIN r.labels : r.labels[i].name = r.labels[j].name => i = j
    /\ "ENTRY" \in Names(r)

(* w renders the operation k; what is in place of an argument that the     *)
(* text does not give is not said.                                         *)
Renders(r, k, w) ==
    LET o == r.ops[k]
    IN  /\ w.at = Size(r, k - 1) /\ w.bytes = Footprint(o.name)
        /\ w.op.code = InstructionOf(o.name).code /\ w.op.imm = InstructionOf(o.name).imm
        /\ \A n \in DOMAIN o.args :
              w.op.args[n - 1] = IF IsTarget(o, n) THEN AddressOf(r, o.args[n])
                                 ELSE ValueOf(o.args[n])

-----------------------------------------------------------------------------
(* The assembler's process has ended, and its file was opened. *)
LeavesFile == phase = "done" \/ (phase = "render" /\ status # "running")

(* No comment begins directly behind a token. *)
CommentsApart == \A i \in DOMAIN text \ {1} :
                    text[i] = Hash /\ i - 1 \in CodeAt => text[i - 1] \notin Tokens

(* A file that was finished holds what the text means, operation by        *)
(* operation, with ENTRY as its entry point; and one that rendering left   *)
(* unfinished holds a part of that, up to some operation.                  *)
AssemblesText ==
    LeavesFile /\ CommentsApart =>
        LET r == Reading
        IN  /\ entry_point = AddressOf(r, "ENTRY")
            /\ Len(written) <= Len(r.ops)
            /\ \A k \in DOMAIN written : Renders(r, k, written[k])
            /\ phase = "done" => Len(written) = Len(r.ops)

(* The assembler finishes texts without faults only, and refuses none of   *)
(* them: an error message is the text's fault, or that of its header.      *)
AcceptsExactlySound ==
    /\ phase = "done" /\ CommentsApart => Sound(Reading)
    /\ status = "failed" /\ phase # "header" /\ CommentsApart => ~Sound(Reading)

(* "comments start with #": what precedes the # of a comment is code like  *)
(* any other.                                                              *)
CommentsEndCode ==
    phase = "done" => \A k \in DOMAIN written : Renders(Reading, k, written[k])
=============================================================================
