----------------------------- MODULE WiredDefs -----------------------------
(***************************************************************************)
(* Definitions shared by the modules of the virtual machine: machine words *)
(* and bytes, the register numbers, the layout of the memory a program is  *)
(* given, and the decoded form of an instruction (src/src/wired.def.h).    *)
(*                                                                         *)
(* The widths are parameters.  In the C code WordMod = 2^64, ByteMod = 2^8 *)
(* and LowMod = 2^56 (a word without its most significant byte), and a     *)
(* word is stored in WordSize = 8 bytes.  TLC uses smaller ones.           *)
(***************************************************************************)
EXTENDS Integers

CONSTANTS
    WordMod,    \* number of values of an uint64_t
    ByteMod,    \* number of values of a char
    LowMod,     \* number of values of the low seven bytes of an uint64_t
    WordSize,   \* sizeof(uint64_t)
    RamSize,    \* header.ram_size
    StackSize   \* header.stack_size

ASSUME WidthsAssumption ==
    /\ ByteMod \in Nat \ {0, 1} /\ LowMod \in Nat \ {0}
    /\ WordMod = LowMod * ByteMod
    /\ WordSize \in Nat \ {0} /\ 4 * WordSize <= WordMod

(* A header with a byte to spare: the stack and the byte above it lie      *)
(* inside the memory.  For these, Loader shows the layout defined below;   *)
(* what else its checks let pass is a finding there.                       *)
ASSUME HeaderAssumption ==
    /\ RamSize \in Nat /\ StackSize \in Nat
    /\ StackSize < RamSize /\ RamSize <= WordMod

Word == 0 .. WordMod - 1
Byte == 0 .. ByteMod - 1

(* Fault: a sum that does not wrap around. *)
PlusUnbounded(x, y) == x + y

(* uint64_t addition of two words. *)
Plus(x, y) == IF x + y >= WordMod THEN x + y - WordMod ELSE x + y

(* registry_t.  IC, the instruction counter, is a register like the others *)
(* for an instruction that names it, but is kept apart: see WiredMachine.  *)
PC == 0
EQ == 1
SP == 2
Z  == 3
RT == 4
RA == 5
RH == 12
SPL == 13
IC == 14
Registers == PC .. SPL
Indexed == Registers \cup {IC}

(* ctx_t: the stack occupies the addresses [StackBase, StackBase+StackSize)*)
StackBase == RamSize - 1 - StackSize
StackIdx == 0 .. StackSize - 1
StackAddr == StackBase .. StackBase + StackSize - 1
HeapAddr == (0 .. RamSize - 1) \ StackAddr

Stack == [StackIdx -> Byte]
RegisterFile == [Registers -> Word]

-----------------------------------------------------------------------------
(* Instructions.  "imm" tells the immediate form of an opcode (addi) from  *)
(* the register form (add); scall and loada exist in the immediate form    *)
(* only.  vm_op_t always has room for three arguments.                     *)

AluCodes == {"add", "min", "mult", "div", "and", "or", "xor"}
CompareCodes == {"eq", "neq", "gt", "gte", "lt", "lte"}
JumpCodes == {"jre", "jeq", "jne", "jmp"}
OneArgCodes == JumpCodes \cup {"scall", "jmp_th"}
TwoArgCodes == CompareCodes \cup {"load", "loada", "save", "savea", "not"}
Codes == OneArgCodes \cup TwoArgCodes \cup AluCodes

(* op_meta_t: op_code and op_size stand in memory side by side, and        *)
(* nothing makes the one suit the other.                                   *)
OpSizes == {"inst_128", "inst_192", "inst_256"}

Op == { o \in [code : Codes, imm : BOOLEAN, size : OpSizes, args : [0 .. 2 -> Word]] :
            o.code \in {"scall", "loada"} => o.imm }

(* The arguments that lie behind op_meta_t, by op_size. *)
NArgs(o) == CASE o.size = "inst_128" -> 1
              [] o.size = "inst_192" -> 2
              [] o.size = "inst_256" -> 3

(* Bytes by which the clock moves PC: op_meta_t and the arguments. *)
OpLen(o) == (NArgs(o) + 1) * WordSize

(* What the decoder makes of it: the arguments that are not there are zero.*)
Decoded(o) == [o EXCEPT !.args = [k \in 0 .. 2 |-> IF k < NArgs(o) THEN @[k] ELSE 0]]

(* The arguments an exec_ function uses, by op_code alone. *)
Arity(code) == IF code \in OneArgCodes THEN 1
               ELSE IF code \in TwoArgCodes THEN 2 ELSE 3

(* The positions of the arguments that number a register: all but the last,*)
(* which an immediate form gives as a value, and the address of a savea.   *)
RegisterArgs(o) ==
    { k \in 0 .. Arity(o.code) - 1 :
        /\ k < Arity(o.code) - 1 \/ ~o.imm
        /\ ~(o.code = "savea" /\ k = 0) }

(* Every register operand names a register other than the counter. *)
WellNamed(o) == \A k \in RegisterArgs(o) : o.args[k] \in Registers

(* A loaded program, text (address -> instruction) and entry: instructions *)
(* outside the stack window.                                               *)
IsProgram(p) ==
    /\ p.entry \in Word
    /\ DOMAIN p.text \subseteq HeapAddr
    /\ \A a \in DOMAIN p.text :
          p.text[a] \in Op /\ a .. a + OpLen(p.text[a]) - 1 \subseteq HeapAddr
=============================================================================
