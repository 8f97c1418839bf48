----------------------------- MODULE Mnemonics -----------------------------
(***************************************************************************)
(* The tables of the assembler (src/src/parse_wiasm.c): what a mnemonic    *)
(* stands for, the size its instruction is given, what its arguments are,  *)
(* and the names of the registers.                                         *)
(***************************************************************************)
EXTENDS WiredDefs

(* The names parse_instruction knows: for each code the mnemonic of its    *)
(* immediate form; the register form is called like the code.              *)
MemoryNames == [load |-> "loadi", loada |-> "loada", save |-> "savei",
                savea |-> "saveai"]
AluNames == [add |-> "addi", min |-> "mini", mult |-> "multi", div |-> "divi",
             and |-> "andi", or |-> "ori", xor |-> "xori"]
CompareNames == [not |-> "noti", eq |-> "eqi", neq |-> "neqi", gt |-> "gti",
                 gte |-> "gtei", lt |-> "lti", lte |-> "ltei"]
JumpNames == [jre |-> "jrei", jeq |-> "jeqi", jne |-> "jnei", jmp |-> "jmpi",
              jmp_th |-> "jmp_thi"]

Of(names) == DOMAIN names \cup { names[c] : c \in DOMAIN names }
Mnemonics == {"scall"} \cup Of(MemoryNames) \cup Of(AluNames)
                       \cup Of(CompareNames) \cup Of(JumpNames)

(* The type given to new_instruction: a code and whether it is immediate.  *)
FromTable(names, n) ==
    LET c == CHOOSE d \in DOMAIN names : n \in {d, names[d]}
    IN  [code |-> c, imm |-> n = names[c]]

InstructionOf(n) ==
    CASE n = "scall"              -> [code |-> n, imm |-> TRUE]
      [] n \in Of(MemoryNames)    -> FromTable(MemoryNames, n)
      [] n \in Of(AluNames)       -> FromTable(AluNames, n)
      [] n \in Of(CompareNames)   -> FromTable(CompareNames, n)
      [] n \in Of(JumpNames)      -> FromTable(JumpNames, n)

(* The size given to new_instruction. *)
SizeOf(n) == CASE n \in {"scall"} \cup Of(JumpNames) -> "inst_128"
               [] n \in Of(MemoryNames) \cup Of(CompareNames) -> "inst_192"
               [] n \in Of(AluNames) -> "inst_256"

(* What new_instruction returns for it: sizeof(raw_128_op), ... *)
CountedBytes(size) == CASE size = "inst_128" -> 2 * WordSize
                        [] size = "inst_192" -> 3 * WordSize
                        [] size = "inst_256" -> 4 * WordSize

-----------------------------------------------------------------------------
(* Arguments, as the parse_..._arg functions read them: a "register", a    *)
(* "number", or a "target": an address in hexadecimal or else a label.     *)
LastArg(n) == IF InstructionOf(n).imm THEN "number" ELSE "register"

MemoryArgs(n) == <<IF InstructionOf(n).code = "savea" THEN "number" ELSE "register",
                   LastArg(n)>>
AluArgs(n) == <<"register", "register", LastArg(n)>>
CompareArgs(n) == <<"register", LastArg(n)>>
JumpArgs(n) == <<IF InstructionOf(n).imm THEN "target" ELSE "register">>

ArgsOf(n) == CASE n = "scall"            -> <<"number">>
               [] n \in Of(MemoryNames)  -> MemoryArgs(n)
               [] n \in Of(AluNames)     -> AluArgs(n)
               [] n \in Of(CompareNames) -> CompareArgs(n)
               [] n \in Of(JumpNames)    -> JumpArgs(n)

(* buffer_to_register *)
RegisterOf == [pc |-> 0, eq |-> 1, sp |-> 2, z  |-> 3, rt |-> 4, ra |-> 5, rb |-> 6,
               rc |-> 7, rd |-> 8, re |-> 9, rf |-> 10, rg |-> 11, rh |-> 12]
RegisterNames == DOMAIN RegisterOf
=============================================================================
