----------------------- MODULE MCMachineInstructions -----------------------
(***************************************************************************)
(* All programs of two instructions from an alphabet with every opcode, in *)
(* one form or both, followed by "scall 1".  They write PC, the counter,   *)
(* their own text and addresses outside the memory, and so come to execute *)
(* bytes that are no instruction; some have a size that does not suit the  *)
(* opcode, or number a register that there is not, reached or not.  Every  *)
(* thread keeps the machine for two instructions.                          *)
(***************************************************************************)
EXTENDS WiredMachine

LOCAL INSTANCE SequencesExt
LOCAL Arithmetic == INSTANCE Alu
MCAlu(code, x, y) == Arithmetic!AluResult(code, x, y)

O(code, imm, a0, a1, a2) ==
    [code |-> code, imm |-> imm, args |-> (0 :> a0) @@ (1 :> a1) @@ (2 :> a2),
     size |-> <<"inst_128", "inst_192", "inst_256">>[Arity(code)]]
Sized(o, size) == [o EXCEPT !.size = size]
R(code, a0, a1) == O(code, FALSE, a0, a1, 0)
I(code, a0, a1) == O(code, TRUE, a0, a1, 0)

StackCell == StackBase
Far == RamSize + 2
Exit == I("scall", 1, 0)

Alphabet ==
    { Exit, I("scall", 7, 0),
      I("load", RA, Far), I("load", PC, Far), R("load", PC, RA),
      I("load", RA, 4), R("load", Z, RA),
      I("loada", RA, StackCell), I("loada", RA, Far),
      R("save", RA, SP), I("save", RA, 1), I("savea", StackCell, 1),
      I("savea", 0, 1), R("savea", Far, RA),
      I("eq", RA, 4), R("lt", Z, RA), I("neq", RA, Z), I("neq", RA, Far),
      R("gt", RA, Z), I("gte", RA, 4), I("lte", RA, 3),
      I("not", RA, 30), R("not", RA, RA),
      R("jre", RA, 0), I("jre", 31, 0), R("jeq", RA, 0), I("jne", 0, 0),
      I("jeq", Far, 0), I("jmp", 4, 0),
      I("jmp_th", 0, 0), R("jmp_th", RA, 0), I("jmp_th", Far, 0) }
    \cup { O(c, TRUE, RA, RA, 3) : c \in AluCodes }
    \cup { O("min", FALSE, RA, Z, RA), O("div", FALSE, RA, RA, Z) }
    \cup { Sized(I("scall", 7, 0), "inst_256"),
           Sized(O("add", TRUE, RA, RA, 3), "inst_128"),
           R("lt", Z, IC), I("load", IC, 5),
           R("jeq", 20, 0), O("div", TRUE, 20, RA, 0), R("savea", Far, 20) }

MCWildOps == { R("load", 20, RA), I("load", IC, 1), I("savea", 1, 0), Sized(Exit, "inst_192") }

Addr(s, i) == FoldLeft(LAMBDA a, o : a + OpLen(o), 0, SubSeq(s, 1, i - 1))
Assemble(s) == [entry |-> 0,
                text  |-> [a \in { Addr(s, i) : i \in DOMAIN s } |->
                             s[CHOOSE i \in DOMAIN s : Addr(s, i) = a]]]

MCPrograms == { Assemble(Append(s, Exit)) : s \in [1 .. 2 -> Alphabet] }
MCMemories == { [a \in HeapAddr |-> 1] }
=============================================================================
