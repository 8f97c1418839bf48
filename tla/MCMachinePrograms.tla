------------------------- MODULE MCMachinePrograms -------------------------
(***************************************************************************)
(* All programs of three instructions from Alphabet followed by "scall 1". *)
(* Jumps are written with the index of their target, as the assembler's    *)
(* labels are, and get its address here, jre the way to it: a number that  *)
(* wraps around if it leads back.                                          *)
(***************************************************************************)
EXTENDS WiredMachine

LOCAL INSTANCE SequencesExt

I(code, a0, a1) == [code |-> code, imm |-> TRUE,
                    size |-> <<"inst_128", "inst_192", "inst_256">>[Arity(code)],
                    args |-> (0 :> a0) @@ (1 :> a1) @@ (2 :> 0)]

StackCell == StackBase
Exit == I("scall", 1, 0)

\* jumps back, forth and onto themselves; threads; one exit in the middle;
\* an EQ of 1 for the conditional jump; a stack cell written and read; an
\* instruction longer than its opcode asks for
Alphabet ==
    { Exit, I("jmp", 1, 0), I("jre", 1, 0), I("jmp", 4, 0), I("jne", 3, 0),
      [I("scall", 7, 0) EXCEPT !.size = "inst_192"],
      I("jmp_th", 1, 0), I("jmp_th", 2, 0), I("jmp_th", 3, 0), I("jmp_th", 4, 0),
      I("eq", RA, 0), I("savea", StackCell, 1), I("loada", RA, StackCell) }

Addr(s, i) == FoldLeft(LAMBDA a, o : a + OpLen(o), 0, SubSeq(s, 1, i - 1))

Resolve(s, a, o) ==
    CASE o.code = "jre" -> [o EXCEPT !.args[0] = (Addr(s, @) - a) % WordMod]
      [] o.code \in (JumpCodes \ {"jre"}) \cup {"jmp_th"} -> [o EXCEPT !.args[0] = Addr(s, @)]
      [] OTHER -> o

Assemble(s) == [entry |-> 0,
                text  |-> [a \in { Addr(s, i) : i \in DOMAIN s } |->
                             Resolve(s, a, s[CHOOSE i \in DOMAIN s : Addr(s, i) = a])]]

MCPrograms == { Assemble(Append(s, Exit)) : s \in [1 .. 3 -> Alphabet] }
ASSUME TheyStay == \A p \in MCPrograms : StaysInText(p)

MCMemories == { [a \in HeapAddr |-> 0] }
\* no instruction of these programs computes
MCAlu(code, x, y) == 0
=============================================================================
