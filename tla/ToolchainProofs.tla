-------------------------- MODULE ToolchainProofs --------------------------
(***************************************************************************)
(* Proofs about the assembler and the start of the machine, one after the  *)
(* other: the file the one leaves is what the other expects.               *)
(***************************************************************************)
EXTENDS Toolchain, AssemblerProofs

-----------------------------------------------------------------------------
(* What the tables say of arguments: the machine takes the same ones for   *)
(* registers as the assembler.                                             *)
LEMMA RegisterTable ==
  ASSUME NEW n \in Mnemonics, NEW args, NEW size
  PROVE  LET o == [code |-> InstructionOf(n).code, imm |-> InstructionOf(n).imm,
                size |-> size, args |-> args]
         IN  /\ Arity(o.code) = Len(ArgsOf(n))
             /\ \A k \in RegisterArgs(o) : ArgsOf(n)[k + 1] = "register"
             /\ o.code \in {"scall", "loada"} => o.imm
<1> DEFINE c == InstructionOf(n).code
           i == InstructionOf(n).imm
           o == [code |-> c, imm |-> i, size |-> size, args |-> args]
<1>1. o.code = c /\ o.imm = i
  OBVIOUS
<1> HIDE DEF o
<1>2. /\ OneArgCodes = {"jre", "jeq", "jne", "jmp", "scall", "jmp_th"}
      /\ TwoArgCodes = {"eq", "neq", "gt", "gte", "lt", "lte", "load", "loada", "save",
                        "savea", "not"}
      /\ AluCodes = {"add", "min", "mult", "div", "and", "or", "xor"}
  BY DEF OneArgCodes, TwoArgCodes, AluCodes, JumpCodes, CompareCodes
<1>3. CASE n = "scall"
  <2>1. n \notin Of(JumpNames) /\ n \notin Of(MemoryNames) /\ n \notin Of(AluNames)
        /\ n \notin Of(CompareNames)
    BY <1>3, FamiliesApart
  <2>2. InstructionOf(n) = [code |-> n, imm |-> TRUE] /\ ArgsOf(n) = <<"number">>
    BY <1>3, <2>1 DEF InstructionOf, ArgsOf
  <2>3. c = "scall" /\ i = TRUE /\ Len(ArgsOf(n)) = 1
    BY <1>3, <2>2
  <2> HIDE DEF c, i
  <2>4. Arity(o.code) = 1 /\ RegisterArgs(o) = {}
    BY <1>1, <1>2, <2>3 DEF Arity, RegisterArgs
  <2> QED  BY <1>1, <2>3, <2>4 DEF o, c, i
<1>4. CASE n \in Of(MemoryNames)
  <2>1. n # "scall" /\ n \notin Of(JumpNames) /\ n \notin Of(AluNames)
        /\ n \notin Of(CompareNames)
    BY <1>4, FamiliesApart
  <2>2. InstructionOf(n) = FromTable(MemoryNames, n) /\ ArgsOf(n) = MemoryArgs(n)
    BY <1>4, <2>1 DEF InstructionOf, ArgsOf
  <2>3. c \in DOMAIN MemoryNames /\ i \in BOOLEAN
    BY <1>4, <2>2, TableEntry
  <2>4. c \in {"load", "loada", "save", "savea"}
    BY <2>3 DEF MemoryNames
  <2>5. c = "loada" => i
    <3> DEFINE d == CHOOSE e \in DOMAIN MemoryNames : n \in {e, MemoryNames[e]}
    <3>1. \E e \in DOMAIN MemoryNames : n \in {e, MemoryNames[e]}
      BY <1>4 DEF Of
    <3>2. n \in {d, MemoryNames[d]}
      BY <3>1
    <3> HIDE DEF d
    <3>3. FromTable(MemoryNames, n) = [code |-> d, imm |-> n = MemoryNames[d]]
      BY DEF FromTable, d
    <3>4. c = d
      BY <2>2, <3>3
    <3>5. MemoryNames["loada"] = "loada"
      BY DEF MemoryNames
    <3>6. ASSUME d = "loada" PROVE FromTable(MemoryNames, n) = [code |-> d, imm |-> TRUE]
      BY <3>2, <3>3, <3>5, <3>6
    <3> QED  BY <2>2, <3>4, <3>6
  <2>6. /\ ArgsOf(n) = <<IF c = "savea" THEN "number" ELSE "register",
                         IF i THEN "number" ELSE "register">>
    BY <2>2 DEF MemoryArgs, LastArg
  <2> HIDE DEF c, i
  <2>7. Arity(o.code) = 2 /\ Len(ArgsOf(n)) = 2
    BY <1>1, <1>2, <2>4, <2>6 DEF Arity
  <2>8. ASSUME NEW k \in RegisterArgs(o) PROVE ArgsOf(n)[k + 1] = "register"
    <3>1. /\ k \in 0 .. 1 /\ (k = 1 => ~i)
          /\ ~(c = "savea" /\ k = 0)
      BY <1>1, <2>7, <2>8 DEF RegisterArgs
    <3>2. CASE k = 0
      BY <2>6, <3>1, <3>2
    <3>3. CASE k = 1
      BY <2>6, <3>1, <3>3
    <3> QED  BY <3>1, <3>2, <3>3
  <2> QED  BY <1>1, <2>4, <2>5, <2>7, <2>8 DEF o, c, i
<1>5. CASE n \in Of(AluNames)
  <2>1. n # "scall" /\ n \notin Of(JumpNames) /\ n \notin Of(MemoryNames)
        /\ n \notin Of(CompareNames)
    BY <1>5, FamiliesApart
  <2>2. InstructionOf(n) = FromTable(AluNames, n) /\ ArgsOf(n) = AluArgs(n)
    BY <1>5, <2>1 DEF InstructionOf, ArgsOf
  <2>3. c \in DOMAIN AluNames /\ i \in BOOLEAN
    BY <1>5, <2>2, TableEntry
  <2>4. c \in {"add", "min", "mult", "div", "and", "or", "xor"}
    BY <2>3 DEF AluNames
  <2>6. ArgsOf(n) = <<"register", "register", IF i THEN "number" ELSE "register">>
    BY <2>2 DEF AluArgs, LastArg
  <2> HIDE DEF c, i
  <2>7. Arity(o.code) = 3 /\ Len(ArgsOf(n)) = 3
    BY <1>1, <1>2, <2>4, <2>6 DEF Arity
  <2>8. ASSUME NEW k \in RegisterArgs(o) PROVE ArgsOf(n)[k + 1] = "register"
    <3>1. k \in 0 .. 2 /\ (k = 2 => ~i)
      BY <1>1, <2>7, <2>8 DEF RegisterArgs
    <3> QED  BY <2>6, <3>1
  <2> QED  BY <1>1, <2>4, <2>7, <2>8 DEF o, c, i
<1>6. CASE n \in Of(CompareNames)
  <2>1. n # "scall" /\ n \notin Of(JumpNames) /\ n \notin Of(MemoryNames)
        /\ n \notin Of(AluNames)
    BY <1>6, FamiliesApart
  <2>2. InstructionOf(n) = FromTable(CompareNames, n) /\ ArgsOf(n) = CompareArgs(n)
    BY <1>6, <2>1 DEF InstructionOf, ArgsOf
  <2>3. c \in DOMAIN CompareNames /\ i \in BOOLEAN
    BY <1>6, <2>2, TableEntry
  <2>4. c \in {"not", "eq", "neq", "gt", "gte", "lt", "lte"}
    BY <2>3 DEF CompareNames
  <2>6. ArgsOf(n) = <<"register", IF i THEN "number" ELSE "register">>
    BY <2>2 DEF CompareArgs, LastArg
  <2> HIDE DEF c, i
  <2>7. Arity(o.code) = 2 /\ Len(ArgsOf(n)) = 2
    BY <1>1, <1>2, <2>4, <2>6 DEF Arity
  <2>8. ASSUME NEW k \in RegisterArgs(o) PROVE ArgsOf(n)[k + 1] = "register"
    <3>1. k \in 0 .. 1 /\ (k = 1 => ~i)
      BY <1>1, <2>7, <2>8 DEF RegisterArgs
    <3> QED  BY <2>6, <3>1
  <2> QED  BY <1>1, <2>4, <2>7, <2>8 DEF o, c, i
<1>7. CASE n \in Of(JumpNames)
  <2>1. n # "scall" /\ n \notin Of(MemoryNames) /\ n \notin Of(AluNames)
        /\ n \notin Of(CompareNames)
    BY <1>7, FamiliesApart
  <2>2. InstructionOf(n) = FromTable(JumpNames, n) /\ ArgsOf(n) = JumpArgs(n)
    BY <1>7, <2>1 DEF InstructionOf, ArgsOf
  <2>3. c \in DOMAIN JumpNames /\ i \in BOOLEAN
    BY <1>7, <2>2, TableEntry
  <2>4. c \in {"jre", "jeq", "jne", "jmp", "jmp_th"}
    BY <2>3 DEF JumpNames
  <2>6. ArgsOf(n) = <<IF i THEN "target" ELSE "register">>
    BY <2>2 DEF JumpArgs
  <2> HIDE DEF c, i
  <2>7. Arity(o.code) = 1 /\ Len(ArgsOf(n)) = 1
    BY <1>1, <1>2, <2>4, <2>6 DEF Arity
  <2>8. ASSUME NEW k \in RegisterArgs(o) PROVE ArgsOf(n)[k + 1] = "register"
    <3>1. k = 0 /\ ~i
      BY <1>1, <2>7, <2>8 DEF RegisterArgs
    <3> QED  BY <2>6, <3>1
  <2> QED  BY <1>1, <2>4, <2>7, <2>8 DEF o, c, i
<1> QED  BY <1>3, <1>4, <1>5, <1>6, <1>7, Families

-----------------------------------------------------------------------------
(* The inductive invariant.  To Inv, which AssemblerProofs proves of the   *)
(* assembler, it adds the order of the operations' addresses, a bound on   *)
(* them, the kinds of the arguments, and what is in the file.              *)

Ordered == \A i, j \in 1 .. Len(starts) + 1 : i < j => StartOf(i) < StartOf(j)

(* An operation takes a lexeme of the text at least. *)
Short ==
    /\ text \in Texts /\ current \in 1 .. Len(text) + 1
    /\ Len(program) + (IF buffer = End THEN 0 ELSE 1) < current
    /\ instruction_addr <= 4 * WordSize * Len(program)

ArgsTyped(o) ==
    /\ \A k \in DOMAIN o.args :
          /\ k < Len(ArgsOf(o.name)) /\ o.args[k] \in Word
          /\ ArgsOf(o.name)[k + 1] = "register" => o.args[k] \in Registers
    /\ o.size = "inst_jmp" => ArgsOf(o.name)[1] = "target"

Parsed == \A i \in 1 .. Len(program) : ArgsTyped(program[i])

ArgumentsGiven(o) ==
    o.size # "inst_jmp" => DOMAIN o.args = 0 .. Len(ArgsOf(o.name)) - 1

(* What is written of an operation is an instruction of the machine.       *)
Rendered(o, w) ==
    /\ w.op \in Op
    /\ OpLen(w.op) = RawOp(o.size).bytes
    /\ NArgs(w.op) = Arity(w.op.code)
    /\ ArgumentsGiven(o) => WellNamed(w.op)

File == \A i \in 1 .. Len(written) : Rendered(program[i], written[i])

AssemblerInv == Inv /\ Ordered /\ Short /\ Parsed /\ File

(* The machine starts with what the assembler left. *)
MachineInv ==
    /\ vm # "waiting" => LeavesFile /\ file = OutFile
    /\ vm = "loaded" => L!Valid /\ pc = file.header.entry_point
    /\ vm = "rejected" => ~L!Valid

-----------------------------------------------------------------------------
(* Arguments. *)

LEMMA WordTyped == WordMod \in Nat /\ (\A x \in Word : x \in Nat)
  BY WidthsAssumption DEF Word

(* What an accepted argument stands for is one the operation can take.     *)
LEMMA ValueTaken ==
  ASSUME NEW o \in Operations, NEW k \in Nat, NEW w \in Labels,
         Accepts(o, k, w), ~IsLabel(o, k, w)
  PROVE  /\ ValueOf(w) \in Word
         /\ ArgsOf(o.name)[k + 1] = "register" => ValueOf(w) \in Registers
<1>1. RH < WordMod /\ RH = 12 /\ WordMod \in Nat
  BY ToolAssumption, WordTyped DEF RH
<1>2. ASSUME w \in RegisterNames PROVE RegisterOf[w] \in 0 .. RH
  BY <1>1, <1>2 DEF RegisterNames, RegisterOf
<1>3. ASSUME w \in RegisterNames PROVE ValueOf(w) \in Word /\ ValueOf(w) \in Registers
  <2>1. ValueOf(w) = RegisterOf[w]
    BY <1>3 DEF ValueOf
  <2>2. ValueOf(w) \in 0 .. 12
    BY <1>1, <1>2, <1>3, <2>1
  <2> QED  BY <1>1, <2>2 DEF Word, Registers, PC, SPL
<1>4. ASSUME w \notin RegisterNames PROVE ValueOf(w) \in Word
  <2>1. k + 1 \in 1 .. Len(ArgsOf(o.name)) /\ o.name \in Mnemonics
    <3>1. o.name \in Mnemonics
      BY DEF Operations
    <3>2. Len(ArgsOf(o.name)) \in Nat /\ k < Len(ArgsOf(o.name))
      BY <3>1, FamilyTable DEF Accepts
    <3> QED  BY <3>1, <3>2
  <2>2. ArgsOf(o.name)[k + 1] \in {"register", "number", "target"}
    <3>1. \A j \in 1 .. Len(ArgsOf(o.name)) : ArgsOf(o.name)[j] \in {"register", "number", "target"}
      BY <2>1, FamilyTable
    <3> QED  BY <2>1, <3>1
  <2>3. w \in DOMAIN NumberOf
    BY <1>4, <2>2, TextAssumption DEF Accepts, IsLabel
  <2> QED  BY <1>4, <2>3, TextAssumption DEF ValueOf
<1>5. ArgsOf(o.name)[k + 1] = "register" => w \in RegisterNames
  BY DEF Accepts
<1> QED  BY <1>3, <1>4, <1>5

LEMMA ArgTaken ==
  ASSUME NEW o \in Operations, NEW k \in Nat, NEW w \in Labels,
         Accepts(o, k, w), ArgsTyped(o)
  PROVE  ArgsTyped(WithArg(o, k, w))
<1>1. o.name \in Mnemonics
  BY DEF Operations
<1>2. Len(ArgsOf(o.name)) \in Nat /\ k < Len(ArgsOf(o.name))
  BY <1>1, FamilyTable DEF Accepts
<1>3. o = [name |-> o.name, size |-> o.size, args |-> o.args, flag |-> o.flag]
  BY DEF Operations
<1>4. CASE IsLabel(o, k, w)
  <2>1. WithArg(o, k, w) = [name |-> o.name, size |-> "inst_jmp", args |-> o.args, flag |-> w]
    BY <1>3, <1>4 DEF WithArg
  <2>2. ArgsOf(o.name)[1] = "target"
    <3>1. k + 1 \in 1 .. Len(ArgsOf(o.name)) /\ ArgsOf(o.name)[k + 1] = "target"
      BY <1>2, <1>4 DEF IsLabel
    <3>2. SizeOf(o.name) = "inst_128"
      BY <1>1, <3>1, FamilyTable
    <3>3. Len(ArgsOf(o.name)) = 1
      BY <1>1, <3>2, FamilyTable
    <3>4. k + 1 = 1
      BY <3>1, <3>3
    <3> QED  BY <3>1, <3>4
  <2> QED  BY <2>1, <2>2 DEF ArgsTyped
<1>5. CASE ~IsLabel(o, k, w)
  <2> DEFINE args == [j \in DOMAIN o.args \cup {k} |-> IF j = k THEN ValueOf(w) ELSE o.args[j]]
  <2>1. WithArg(o, k, w) = [name |-> o.name, size |-> o.size, args |-> args, flag |-> o.flag]
    BY <1>3, <1>5 DEF WithArg
  <2>2. ValueOf(w) \in Word /\ (ArgsOf(o.name)[k + 1] = "register" => ValueOf(w) \in Registers)
    BY <1>5, ValueTaken
  <2>3. ASSUME NEW j \in DOMAIN args
        PROVE  /\ j < Len(ArgsOf(o.name)) /\ args[j] \in Word
               /\ ArgsOf(o.name)[j + 1] = "register" => args[j] \in Registers
    <3>1. CASE j = k
      BY <1>2, <2>2, <3>1
    <3>2. CASE j # k
      BY <3>2 DEF ArgsTyped
    <3> QED  BY <3>1, <3>2
  <2> HIDE DEF args
  <2> QED  BY <2>1, <2>3 DEF ArgsTyped
<1> QED  BY <1>4, <1>5

-----------------------------------------------------------------------------
(* Parsing. *)

LEMMA UnitTyped == 4 * WordSize \in Nat /\ 4 * WordSize > 0
  BY WidthsAssumption

LEMMA BytesBounds ==
  ASSUME NEW n \in Mnemonics
  PROVE  CountedBytes(SizeOf(n)) \in Nat /\ 0 < CountedBytes(SizeOf(n)) /\ CountedBytes(SizeOf(n)) <= 4 * WordSize
<1>1. SizeOf(n) \in {"inst_128", "inst_192", "inst_256"}
  BY FamilyTable
<1>2. WordSize \in Nat /\ WordSize > 0
  BY WidthsAssumption
<1> QED  BY <1>1, <1>2, BytesOfSizes

(* A token handed over keeps order and bound; it adds one operation at     *)
(* most.                                                                   *)
LEMMA HandOverKeeps ==
  ASSUME AssemblerInv, HandOver
  PROVE  /\ Ordered' /\ Parsed'
         /\ Len(program') <= Len(program) + (IF buffer = End THEN 0 ELSE 1)
         /\ instruction_addr' <= 4 * WordSize * Len(program')
<1> DEFINE n == Len(program)
<1>1. /\ program \in Seq(Operations) /\ starts \in Seq(Nat) /\ instruction_addr \in Nat
      /\ n \in Nat /\ Len(starts) = n
      /\ nb_args \in Nat /\ buffer \in Labels
      /\ instruction_addr <= 4 * WordSize * n
  BY DEF AssemblerInv, Inv, Counted, LineTyped, Short
<1>2. CASE buffer = End /\ UNCHANGED programVars
  <2>1. /\ program' = program /\ starts' = starts /\ instruction_addr' = instruction_addr
        /\ \A i : StartOf(i)' = StartOf(i)
    BY <1>2 DEF programVars, StartOf
  <2>2. Ordered' /\ Parsed'
    BY <2>1 DEF AssemblerInv, Ordered, Parsed
  <2> QED  BY <1>1, <1>2, <2>1, <2>2
<1>3. CASE buffer # End /\ ParseInstruction
  <2> DEFINE o == NewOperation(buffer)
             size == CountedBytes(SizeOf(buffer))
  <2>1. /\ o \in Operations /\ size \in Nat /\ 0 < size /\ size <= 4 * WordSize
    BY <1>3, NewOperationTyped, BytesBounds DEF ParseInstruction
  <2>2. /\ program' = Append(program, o)
        /\ starts' = Append(starts, instruction_addr)
        /\ instruction_addr' = instruction_addr + size
    BY <1>3 DEF ParseInstruction
  <2>3. ArgsTyped(o)
    <3>1. o.args = [k \in {} |-> 0] /\ o.size = SizeOf(buffer)
      BY DEF NewOperation
    <3>2. DOMAIN o.args = {} /\ o.size # "inst_jmp"
      BY <1>3, <3>1, FamilyTable DEF ParseInstruction
    <3> QED  BY <3>2 DEF ArgsTyped
  <2> HIDE DEF o, size
  <2>4. /\ Len(program') = n + 1 /\ program'[n + 1] = o
        /\ \A i \in 1 .. n : program'[i] = program[i]
    BY <1>1, <2>1, <2>2
  <2>5. /\ Len(starts') = n + 1 /\ starts'[n + 1] = instruction_addr
        /\ \A i \in 1 .. n : starts'[i] = starts[i]
    BY <1>1, <2>2
  <2>6. Parsed'
    <3>1. \A i \in 1 .. n : ArgsTyped(program[i])
      BY DEF AssemblerInv, Parsed
    <3>2. \A i \in 1 .. n + 1 : i \in 1 .. n \/ i = n + 1
      BY <1>1
    <3>3. ASSUME NEW i \in 1 .. n + 1 PROVE ArgsTyped(program'[i])
      BY <2>3, <2>4, <3>1, <3>2
    <3> HIDE DEF n
    <3> QED  BY <2>4, <3>3 DEF Parsed, ArgsTyped
  <2>7. /\ \A i \in 1 .. n + 1 : StartOf(i)' = StartOf(i) /\ StartOf(i) \in Nat
        /\ StartOf(n + 1) = instruction_addr
        /\ \A i : i = n + 2 => StartOf(i)' = instruction_addr + size
    BY <1>1, <2>2, <2>5 DEF StartOf
  <2>8. Ordered'
    <3>1. \A i, j \in 1 .. n + 1 : i < j => StartOf(i) < StartOf(j)
      BY <1>1 DEF AssemblerInv, Ordered
    <3>2. ASSUME NEW i \in 1 .. n + 2, NEW j \in 1 .. n + 2, i < j
          PROVE  StartOf(i)' < StartOf(j)'
      <4>1. i \in 1 .. n + 1
        BY <1>1, <3>2
      <4>2. CASE j \in 1 .. n + 1
        BY <2>7, <3>1, <3>2, <4>1, <4>2
      <4>3. CASE j = n + 2
        <5>1. StartOf(i) <= StartOf(n + 1)
          <6>1. i < n + 1 \/ i = n + 1
            BY <1>1, <4>1
          <6>2. n + 1 \in 1 .. n + 1
            BY <1>1
          <6>3. StartOf(i) < StartOf(n + 1) \/ StartOf(i) = StartOf(n + 1)
            BY <3>1, <4>1, <6>1, <6>2
          <6> QED  BY <2>7, <4>1, <6>2, <6>3
        <5>2. StartOf(i)' = StartOf(i) /\ StartOf(i) \in Nat
          BY <2>7, <4>1
        <5> QED  BY <1>1, <2>1, <2>7, <4>3, <5>1, <5>2
      <4> QED  BY <1>1, <4>2, <4>3
    <3>3. Len(starts') + 1 = n + 2
      BY <1>1, <2>5
    <3> HIDE DEF n
    <3> QED  BY <3>2, <3>3 DEF Ordered
  <2>9. instruction_addr' <= 4 * WordSize * Len(program')
    <3> DEFINE unit == 4 * WordSize
    <3>1. unit \in Nat
      BY UnitTyped
    <3>2. instruction_addr <= unit * n /\ size <= unit
      BY <1>1, <2>1
    <3> HIDE DEF unit
    <3>3. unit * (n + 1) = unit * n + unit /\ unit * n \in Nat
      BY <1>1, <3>1
    <3>4. instruction_addr + size <= unit * (n + 1)
      BY <1>1, <2>1, <3>1, <3>2, <3>3
    <3> QED  BY <2>2, <2>4, <3>4 DEF unit
  <2>10. Len(program') <= n + (IF buffer = End THEN 0 ELSE 1)
    BY <1>1, <1>3, <2>4
  <2> QED  BY <2>6, <2>8, <2>9, <2>10
<1>4. CASE buffer # End /\ ParseArg
  <2> DEFINE new == WithArg(program[n], nb_args, buffer)
  <2>1. n # 0 /\ n \in 1 .. n /\ program[n] \in Operations
    BY <1>1, <1>4 DEF ParseArg, AssemblerInv, Inv, LineTyped
  <2>2. ArgsTyped(program[n])
    BY <2>1 DEF AssemblerInv, Parsed
  <2>3. RawOp(program[n].size).bytes = CountedBytes(SizeOf(program[n].name))
    BY <2>1 DEF AssemblerInv, Inv, Counted
  <2>4. ArgsTyped(new) /\ new \in Operations
    BY <1>1, <1>4, <2>1, <2>2, <2>3, ArgTaken, WithArgTyped DEF ParseArg, Operation
  <2>5. /\ program' = [program EXCEPT ![n] = new]
        /\ starts' = starts /\ instruction_addr' = instruction_addr
    BY <1>4 DEF ParseArg
  <2> HIDE DEF new
  <2>6. /\ Len(program') = n
        /\ \A i \in 1 .. n : program'[i] = IF i = n THEN new ELSE program[i]
    BY <1>1, <2>1, <2>4, <2>5
  <2>7. Parsed'
    <3>1. ASSUME NEW i \in 1 .. n PROVE ArgsTyped(program'[i])
      <4>1. ArgsTyped(program[i])
        BY DEF AssemblerInv, Parsed
      <4> QED  BY <2>4, <2>6, <4>1
    <3> HIDE DEF n
    <3> QED  BY <2>6, <3>1 DEF Parsed, ArgsTyped
  <2>8. Ordered'
    <3>1. \A i : StartOf(i)' = StartOf(i)
      BY <2>5 DEF StartOf
    <3> QED  BY <2>5, <3>1 DEF AssemblerInv, Ordered
  <2>9. instruction_addr' <= 4 * WordSize * Len(program')
    BY <1>1, <2>5, <2>6
  <2> QED  BY <1>1, <1>4, <2>6, <2>7, <2>8, <2>9
<1> QED  BY <1>2, <1>3, <1>4 DEF HandOver

-----------------------------------------------------------------------------
(* The other steps of the scan. *)

LEMMA SameOperations ==
  ASSUME AssemblerInv, UNCHANGED programVars
  PROVE  /\ Ordered' /\ Parsed' /\ program' = program
         /\ instruction_addr' <= 4 * WordSize * Len(program')
<1>1. /\ program' = program /\ starts' = starts /\ instruction_addr' = instruction_addr
      /\ \A i : StartOf(i)' = StartOf(i)
  BY DEF programVars, StartOf
<1> QED  BY <1>1 DEF AssemblerInv, Ordered, Parsed, Short

(* In the scan nothing is in the file. *)
LEMMA NothingRendered ==
  ASSUME AssemblerInv, phase = "scan", UNCHANGED fileVars
  PROVE  File'
<1>1. Len(written') = 0
  BY DEF AssemblerInv, Inv, Filed, fileVars
<1> QED  BY <1>1 DEF File

LEMMA SameFile ==
  ASSUME AssemblerInv, UNCHANGED <<program, written>>
  PROVE  File'
  BY DEF AssemblerInv, File

LEMMA InsideText ==
  ASSUME Short, Lexeme # End
  PROVE  current + 1 \in 1 .. Len(text) + 1
<1>1. text \in Seq(Tokens \cup Separators) /\ current \in 1 .. Len(text) + 1
  BY TextAssumption DEF Short
<1>2. current \in DOMAIN text
  BY DEF Lexeme
<1> QED  BY <1>1, <1>2

(* A token is handed over. *)
LEMMA HandingOver ==
  ASSUME AssemblerInv, HandOver, phase = "scan", UNCHANGED <<text, fileVars>>, buffer' = End,
         \/ current' = current
         \/ current' = current + 1 /\ Lexeme # End
  PROVE  Ordered' /\ Short' /\ Parsed' /\ File'
<1>1. /\ Ordered' /\ Parsed' /\ File'
      /\ Len(program') <= Len(program) + (IF buffer = End THEN 0 ELSE 1)
      /\ instruction_addr' <= 4 * WordSize * Len(program')
  BY HandOverKeeps, NothingRendered
<1>2. /\ Len(program) + (IF buffer = End THEN 0 ELSE 1) < current
      /\ text \in Texts /\ current \in 1 .. Len(text) + 1 /\ Len(program) \in Nat
  BY DEF AssemblerInv, Inv, Counted, Short
<1>3. Len(program') \in Nat
  BY HandOverStep DEF AssemblerInv
<1>4. current' \in 1 .. Len(text) + 1 /\ current <= current' /\ text' = text
  BY <1>2, InsideText DEF AssemblerInv
<1>5. Len(program') + 0 < current'
  BY <1>1, <1>2, <1>3, <1>4
<1> QED  BY <1>1, <1>2, <1>4, <1>5 DEF Short

LEMMA AssemblerScan ==
  ASSUME AssemblerInv, Comment \/ Separator \/ LineEnd \/ Label \/ Token
  PROVE  Ordered' /\ Short' /\ Parsed' /\ File'
<1>1. /\ text \in Texts /\ current \in 1 .. Len(text) + 1 /\ Len(program) \in Nat
      /\ Len(text) \in Nat
      /\ Len(program) < current
  <2>1. Len(program) \in Nat /\ text \in Texts /\ current \in 1 .. Len(text) + 1
        /\ Len(program) + (IF buffer = End THEN 0 ELSE 1) < current
    BY DEF AssemblerInv, Inv, Counted, Short
  <2> QED  BY <2>1, TextAssumption
<1>2. phase = "scan" /\ text' = text /\ UNCHANGED fileVars
  BY DEF Comment, Separator, LineEnd, Label, Token, Reads
<1>3. Short
  BY DEF AssemblerInv
<1>4. CASE Comment
  <2>1. UNCHANGED programVars /\ buffer' = End
    BY <1>4 DEF Comment
  <2>2. PICK q \in current .. Len(text) + 1 : current' = IF q = Len(text) + 1 THEN q ELSE q + 1
    BY <1>4 DEF Comment, Skips
  <2>3. current' \in 1 .. Len(text) + 1 /\ Len(program) + 0 < current'
    BY <1>1, <2>2
  <2> QED  BY <1>1, <1>2, <2>1, <2>3, SameOperations, NothingRendered DEF Short
<1>5. CASE Separator
  BY <1>2, <1>5, HandingOver DEF Separator
<1>6. CASE LineEnd
  <2>1. Lexeme # End
    BY <1>6 DEF LineEnd, Reads, Newline, End
  <2> QED  BY <1>2, <1>6, <2>1, HandingOver DEF LineEnd
<1>7. CASE Label
  <2>1. Lexeme # End
    BY <1>7 DEF Label, Reads, Colon, End
  <2>2. UNCHANGED programVars /\ buffer' = End /\ current' = current + 1
    BY <1>7 DEF Label
  <2>3. current' \in 1 .. Len(text) + 1 /\ Len(program) + 0 < current'
    BY <1>1, <1>3, <2>1, <2>2, InsideText
  <2> QED  BY <1>1, <1>2, <2>2, <2>3, SameOperations, NothingRendered DEF Short
<1>8. CASE Token
  <2>1. Lexeme # End
    BY <1>8, TextAssumption DEF Token, Reads
  <2>2. UNCHANGED programVars /\ current' = current + 1
    BY <1>8 DEF Token
  <2>3. current' \in 1 .. Len(text) + 1 /\ Len(program) + 1 < current' /\ Len(program) + 0 < current'
    BY <1>1, <1>3, <2>1, <2>2, InsideText
  <2> QED  BY <1>1, <1>2, <2>2, <2>3, SameOperations, NothingRendered DEF Short
<1> QED  BY <1>4, <1>5, <1>6, <1>7, <1>8

-----------------------------------------------------------------------------
(* Addresses are words. *)

LEMMA AddressesWords ==
  ASSUME AssemblerInv
  PROVE  instruction_addr \in Word /\ Boundaries \subseteq Word
         /\ \A a \in Boundaries : a <= instruction_addr
<1> DEFINE unit == 4 * WordSize
           n == Len(program)
           m == Len(text)
<1>1. /\ text \in Texts /\ n \in Nat /\ n + 1 <= current /\ current <= m + 1
      /\ instruction_addr \in Nat /\ instruction_addr <= unit * n /\ starts \in Seq(Nat)
      /\ Len(starts) = n
  BY DEF AssemblerInv, Inv, Counted, Short
<1>2. unit * m < WordMod /\ WordMod \in Nat /\ m \in Nat /\ unit \in Nat
  BY <1>1, ToolAssumption, TextAssumption, WordTyped, UnitTyped
<1> HIDE DEF unit, m
<1>3. unit * n <= unit * m
  <2>1. n <= m
    <3>1. current \in Nat
      BY DEF AssemblerInv, Inv, LineTyped
    <3> QED  BY <1>1, <1>2, <3>1
  <2> QED  BY <1>1, <1>2, <2>1
<1>4. instruction_addr \in Word
  <2>1. unit * n \in Nat /\ unit * m \in Nat
    BY <1>1, <1>2
  <2> QED  BY <1>1, <1>2, <1>3, <2>1 DEF Word
<1>5. ASSUME NEW i \in DOMAIN starts PROVE starts[i] \in Nat /\ starts[i] <= instruction_addr
  <2>1. i \in 1 .. n /\ i < n + 1 /\ i \in 1 .. n + 1 /\ n + 1 \in 1 .. n + 1
    BY <1>1
  <2>2. StartOf(i) < StartOf(n + 1)
    BY <1>1, <2>1 DEF AssemblerInv, Ordered
  <2>3. StartOf(i) = starts[i] /\ StartOf(n + 1) = instruction_addr
    BY <1>1, <2>1 DEF StartOf
  <2>4. starts[i] \in Nat
    BY <1>1
  <2> QED  BY <1>1, <2>2, <2>3, <2>4
<1>6. ASSUME NEW a \in Boundaries PROVE a \in Nat /\ a <= instruction_addr
  BY <1>1, <1>5 DEF Boundaries
<1>7. \A a \in Nat : a <= instruction_addr => a \in Word
  BY <1>1, <1>2, <1>4 DEF Word
<1> QED  BY <1>4, <1>6, <1>7

-----------------------------------------------------------------------------
(* Rendering. *)

(* The size of an operation is the one it was made with, but for jumps.    *)
LEMMA CountedRight ==
  ASSUME NEW o \in Operations, ArgsTyped(o), RawOp(o.size).bytes = CountedBytes(SizeOf(o.name))
  PROVE  SizedRight(o)
<1>1. o.name \in Mnemonics /\ o.size \in Sizes
  BY DEF Operations
<1>2. /\ RawOp(o.size).args = Len(ArgsOf(o.name))
      /\ Len(ArgsOf(o.name)) \in {1, 2, 3}
  BY <1>1, RoomForArgs, FamilyTable
<1>3. CASE o.size = "inst_jmp"
  <2>1. ArgsOf(o.name)[1] = "target"
    BY <1>3 DEF ArgsTyped
  <2>2. 1 \in 1 .. Len(ArgsOf(o.name))
    <3>1. \A l \in {1, 2, 3} : 1 \in 1 .. l
      OBVIOUS
    <3> QED  BY <1>2, <3>1, Zenon
  <2> QED  BY <1>1, <1>3, <2>1, <2>2 DEF SizedRight
<1>4. CASE o.size # "inst_jmp"
  <2>1. \/ o.size = "inst_128" /\ RawOp(o.size).args = 1
        \/ o.size = "inst_192" /\ RawOp(o.size).args = 2
        \/ o.size = "inst_256" /\ RawOp(o.size).args = 3
    BY <1>1, <1>4, BytesOfSizes DEF Sizes
  <2>2. \/ SizeOf(o.name) = "inst_128" /\ Len(ArgsOf(o.name)) = 1
        \/ SizeOf(o.name) = "inst_192" /\ Len(ArgsOf(o.name)) = 2
        \/ SizeOf(o.name) = "inst_256" /\ Len(ArgsOf(o.name)) = 3
    BY <1>1, FamilyTable
  <2>3. o.size = SizeOf(o.name)
    BY <1>2, <2>1, <2>2
  <2> QED  BY <1>1, <2>3 DEF SizedRight
<1> QED  BY <1>3, <1>4

LEMMA EncodedRendered ==
  ASSUME NEW o \in Operations, NEW args, ArgsTyped(o), RawOp(o.size).bytes = CountedBytes(SizeOf(o.name)),
         \A k \in 0 .. 2 : args[k] \in Word,
         o.size # "inst_jmp" => \A k \in DOMAIN o.args : args[k] = o.args[k],
         NEW w, w.op = Encoded(o, args)
  PROVE  Rendered(o, w)
<1> DEFINE n == o.name
           size == RawOp(o.size).op_size
           new == [k \in 0 .. 2 |-> IF k < RawOp(o.size).args THEN args[k] ELSE 0]
           op == [code |-> InstructionOf(n).code, imm |-> InstructionOf(n).imm,
                  size |-> size, args |-> new]
<1>1. n \in Mnemonics /\ o.size \in Sizes
  BY DEF Operations
<1>2. w.op = op /\ Encoded(o, args) = op
  BY DEF Encoded
<1>3. 0 \in Word
  BY WidthsAssumption DEF Word
<1>4. new \in [0 .. 2 -> Word]
  BY <1>3
<1>5. \A k \in 0 .. 2 : k < Len(ArgsOf(n)) => new[k] = args[k]
  BY <1>1, RoomForArgs
<1>6. InstructionOf(n).code \in Codes /\ InstructionOf(n).imm \in BOOLEAN
  BY <1>1, FamilyTable DEF Codes
<1>7. /\ Arity(op.code) = Len(ArgsOf(n))
      /\ \A k \in RegisterArgs(op) : ArgsOf(n)[k + 1] = "register"
      /\ op.code \in {"scall", "loada"} => op.imm
  <2> HIDE DEF new, size, n
  <2> QED  BY <1>1, RegisterTable
<1>8. /\ OpLen(op) = RawOp(o.size).bytes
      /\ NArgs(op) = Arity(op.code)
  <2> HIDE DEF op, n
  <2>1. SizedRight(o)
    BY CountedRight DEF n
  <2> QED  BY <1>2, <2>1, SizesAgree
<1>9. op \in Op
  <2>1. size \in OpSizes
    BY <1>1, BytesOfSizes DEF Sizes, OpSizes
  <2> HIDE DEF new, size
  <2>2. op \in [code : Codes, imm : BOOLEAN, size : OpSizes, args : [0 .. 2 -> Word]]
    BY <1>4, <1>6, <2>1
  <2> QED  BY <1>7, <2>2 DEF Op
<1>10. op.args = new
  OBVIOUS
<1> HIDE DEF new, op
<1>11. ASSUME ArgumentsGiven(o) PROVE WellNamed(op)
  <2> SUFFICES ASSUME NEW k \in RegisterArgs(op) PROVE new[k] \in Registers
    BY <1>10 DEF WellNamed
  <2>1. Arity(op.code) \in {1, 2, 3}
    BY DEF Arity
  <2>2. k \in 0 .. Arity(op.code) - 1 /\ ArgsOf(n)[k + 1] = "register"
    BY <1>7 DEF RegisterArgs
  <2>3. k \in 0 .. 2 /\ k < Len(ArgsOf(n))
    BY <1>7, <2>1, <2>2
  <2>4. o.size # "inst_jmp"
    <3>1. SUFFICES ASSUME o.size = "inst_jmp" PROVE FALSE
      OBVIOUS
    <3>2. ArgsOf(n)[1] = "target"
      BY <3>1 DEF ArgsTyped
    <3>3. Len(ArgsOf(n)) = 1
      <4>1. Len(ArgsOf(n)) \in {1, 2, 3}
        BY <1>1, FamilyTable
      <4>2. 1 \in 1 .. Len(ArgsOf(n))
        <5>1. \A l \in {1, 2, 3} : 1 \in 1 .. l
          OBVIOUS
        <5> QED  BY <4>1, <5>1, Zenon
      <4>3. SizeOf(n) = "inst_128"
        BY <1>1, <3>2, <4>2, FamilyTable
      <4> QED  BY <1>1, <4>3, FamilyTable
    <3>4. k + 1 = 1
      BY <2>2, <2>3, <3>3
    <3> QED  BY <2>2, <3>2, <3>4
  <2>5. k \in DOMAIN o.args
    BY <1>11, <2>1, <2>2, <1>7, <2>4 DEF ArgumentsGiven
  <2>6. o.args[k] \in Registers /\ args[k] = o.args[k]
    BY <2>2, <2>4, <2>5 DEF ArgsTyped
  <2> QED  BY <1>5, <2>3, <2>6
<1> QED  BY <1>2, <1>8, <1>9, <1>11 DEF Rendered

LEMMA SameScan ==
  ASSUME AssemblerInv, UNCHANGED <<text, scanVars>>
  PROVE  Ordered' /\ Short' /\ Parsed' /\ program' = program
<1>1. UNCHANGED <<programVars, text, current, buffer>>
  BY DEF scanVars
<1>2. Ordered' /\ Parsed' /\ program' = program /\ instruction_addr' <= 4 * WordSize * Len(program')
  BY <1>1, SameOperations
<1> QED  BY <1>1, <1>2 DEF AssemblerInv, Short

LEMMA WriteKeeps ==
  ASSUME AssemblerInv, Len(written) < Len(program), NEW args,
         \A k \in 0 .. 2 : args[k] \in Word,
         LET o == program[Len(written) + 1]
         IN  /\ Write(o, args)
             /\ o.size # "inst_jmp" => \A k \in DOMAIN o.args : args[k] = o.args[k]
  PROVE  Ordered' /\ Short' /\ Parsed' /\ File'
<1> DEFINE n == Len(written)
           o == program[n + 1]
           w == [at |-> offset, bytes |-> RawOp(o.size).bytes, op |-> Encoded(o, args)]
<1>1. /\ n \in Nat /\ n + 1 \in 1 .. Len(program) /\ written \in Seq(Files)
      /\ program \in Seq(Operations)
  BY DEF AssemblerInv, Inv, Filed, Counted
<1>2. written' = Append(written, w) /\ UNCHANGED <<text, scanVars>>
  BY DEF Write
<1>3. Ordered' /\ Short' /\ Parsed' /\ program' = program
  BY <1>2, SameScan
<1>4. Rendered(o, w)
  <2>1. o \in Operations
    BY <1>1
  <2>2. ArgsTyped(o)
    BY <1>1 DEF AssemblerInv, Parsed
  <2>3. RawOp(o.size).bytes = CountedBytes(SizeOf(o.name))
    BY <1>1 DEF AssemblerInv, Inv, Counted
  <2>4. w.op = Encoded(o, args)
    OBVIOUS
  <2>5. o.size # "inst_jmp" => \A k \in DOMAIN o.args : args[k] = o.args[k]
    OBVIOUS
  <2> HIDE DEF o, w
  <2> QED  BY <2>1, <2>2, <2>3, <2>4, <2>5, EncodedRendered
<1> HIDE DEF w
<1>5. /\ Len(written') = n + 1 /\ written'[n + 1] = w
      /\ \A i \in 1 .. n : written'[i] = written[i]
  BY <1>1, <1>2
<1>6. ASSUME NEW i \in 1 .. n + 1 PROVE Rendered(program[i], written'[i])
  <2>1. CASE i \in 1 .. n
    BY <1>5, <2>1 DEF AssemblerInv, File
  <2>2. CASE i = n + 1
    BY <1>4, <1>5, <2>2
  <2> QED  BY <1>1, <2>1, <2>2
<1> HIDE DEF n, o
<1>7. File'
  BY <1>3, <1>5, <1>6 DEF File, Rendered, ArgumentsGiven
<1> QED  BY <1>3, <1>7

LEMMA RenderPlainKeeps ==
  ASSUME AssemblerInv, RenderPlain PROVE Ordered' /\ Short' /\ Parsed' /\ File'
<1>1. PICK o \in {program[i] : i \in DOMAIN program}, junk \in [0 .. 2 -> Junk] :
        /\ Rendering(o) /\ o.size # "inst_jmp"
        /\ Write(o, [k \in 0 .. 2 |-> IF k \in DOMAIN o.args THEN o.args[k] ELSE junk[k]])
  BY DEF RenderPlain
<1> DEFINE args == [k \in 0 .. 2 |-> IF k \in DOMAIN o.args THEN o.args[k] ELSE junk[k]]
<1>2. Len(written) < Len(program) /\ o = program[Len(written) + 1]
  BY <1>1 DEF Rendering
<1>3. /\ Len(written) \in Nat /\ Len(written) + 1 \in 1 .. Len(program)
      /\ program \in Seq(Operations)
  BY <1>2 DEF AssemblerInv, Inv, Filed, Counted
<1>4. o \in Operations /\ ArgsTyped(o) /\ o.name \in Mnemonics
  <2>1. \A k \in 1 .. Len(program) : program[k] \in Operations /\ ArgsTyped(program[k])
    <3>1. \A k \in 1 .. Len(program) : program[k] \in Operations
      BY <1>3
    <3> QED  BY <3>1 DEF AssemblerInv, Parsed
  <2>2. o \in Operations /\ ArgsTyped(o)
    BY <1>2, <1>3, <2>1
  <2> QED  BY <2>2 DEF Operations
<1>5. ASSUME NEW k \in 0 .. 2 PROVE args[k] \in Word
  <2>1. junk[k] \in Word
    BY TextAssumption
  <2>2. k \in DOMAIN o.args => o.args[k] \in Word
    BY <1>4 DEF ArgsTyped
  <2> QED  BY <2>1, <2>2
<1>6. ASSUME NEW k \in DOMAIN o.args PROVE args[k] = o.args[k]
  <2>1. k \in Nat
    <3>1. PICK D \in SUBSET Nat : o.args \in [D -> Int]
      BY <1>4 DEF Operations
    <3> QED  BY <3>1
  <2>2. k < Len(ArgsOf(o.name)) /\ Len(ArgsOf(o.name)) \in {1, 2, 3}
    BY <1>4, FamilyTable DEF ArgsTyped
  <2>3. \A len \in {1, 2, 3} : k < len => k \in 0 .. 2
    BY <2>1
  <2>4. k \in 0 .. 2
    BY <2>2, <2>3, Zenon
  <2> QED  BY <2>4
<1>7. Write(o, args)
  BY <1>1
<1> HIDE DEF args
<1> QED  BY <1>2, <1>5, <1>6, <1>7, WriteKeeps

LEMMA RenderJumpKeeps ==
  ASSUME AssemblerInv, RenderJump PROVE Ordered' /\ Short' /\ Parsed' /\ File'
<1>1. PICK o \in {program[i] : i \in DOMAIN program} :
        /\ Rendering(o) /\ o.size = "inst_jmp" /\ Lookup(o.flag)
        /\ \/ status' = "running" /\ Write(o, [k \in 0 .. 2 |-> found'])
           \/ status' = "failed" /\ UNCHANGED <<text, phase, scanVars, fileVars>>
  BY DEF RenderJump
<1>2. CASE UNCHANGED <<text, phase, scanVars, fileVars>>
  BY <1>2, SameScan, SameFile DEF fileVars
<1>3. CASE status' = "running" /\ Write(o, [k \in 0 .. 2 |-> found'])
  <2> DEFINE args == [k \in 0 .. 2 |-> found']
  <2>1. Len(written) < Len(program) /\ o = program[Len(written) + 1]
    BY <1>1 DEF Rendering
  <2>2. /\ Len(written) \in Nat /\ Len(written) + 1 \in 1 .. Len(program)
        /\ program \in Seq(Operations)
    BY <2>1 DEF AssemblerInv, Inv, Filed, Counted
  <2>3. o.flag \in Labels
    <3>1. o \in Operations
      BY <2>1, <2>2
    <3> QED  BY <3>1 DEF Operations
  <2>4. found' \in Word
    <3>1. PICK i \in DOMAIN Chain(o.flag) : found' = Chain(o.flag)[i].addr
      BY <1>1, <1>3 DEF Lookup
    <3>2. hash_label[o.flag] \in Buckets
      BY <2>3, TableAssumption
    <3>3. found' \in Boundaries
      BY <3>1, <3>2 DEF Chain, AssemblerInv, Inv, LabelsOnInstructions
    <3> QED  BY <3>3, AddressesWords
  <2>5. \A k \in 0 .. 2 : args[k] \in Word
    BY <2>4
  <2>6. Write(o, args)
    BY <1>3
  <2> HIDE DEF args
  <2> QED  BY <1>1, <2>1, <2>5, <2>6, WriteKeeps
<1> QED  BY <1>1, <1>2, <1>3

-----------------------------------------------------------------------------
LEMMA AssemblerInvInit == Init => AssemblerInv
<1> SUFFICES ASSUME Init PROVE AssemblerInv
  OBVIOUS
<1>1. Inv
  BY InitInv
<1>2. /\ program = <<>> /\ starts = <<>> /\ written = <<>> /\ instruction_addr = 0
      /\ current = 1 /\ buffer = End /\ text \in Texts
  BY DEF Init
<1>3. Len(program) = 0 /\ Len(starts) = 0 /\ Len(written) = 0 /\ Len(text) \in Nat
  BY <1>2, TextAssumption
<1>4. Ordered /\ Parsed /\ File
  BY <1>3 DEF Ordered, Parsed, File
<1>5. Short
  <2>1. 4 * WordSize * 0 = 0
    BY UnitTyped
  <2> QED  BY <1>2, <1>3, <2>1 DEF Short
<1> QED  BY <1>1, <1>4, <1>5 DEF AssemblerInv

LEMMA AssemblerInvNext == AssemblerInv /\ [Next]_vars => AssemblerInv'
<1> SUFFICES ASSUME AssemblerInv, [Next]_vars PROVE AssemblerInv'
  OBVIOUS
<1>1. Inv'
  BY NextInv DEF AssemblerInv
<1>2. ASSUME UNCHANGED <<text, scanVars, fileVars>> PROVE Ordered' /\ Short' /\ Parsed' /\ File'
  BY <1>2, SameScan, SameFile DEF fileVars
<1>3. CASE Comment \/ Separator \/ LineEnd \/ Label \/ Token
  BY <1>1, <1>3, AssemblerScan DEF AssemblerInv
<1>4. CASE RenderPlain
  BY <1>1, <1>4, RenderPlainKeeps DEF AssemblerInv
<1>5. CASE RenderJump
  BY <1>1, <1>5, RenderJumpKeeps DEF AssemblerInv
<1>6. CASE ReadHeader \/ BadHeader \/ TokenRefused \/ LabelRefused \/ TokenTooLong \/ CheckEntry
           \/ Finish \/ HostFails \/ UNCHANGED vars
  <2>1. UNCHANGED <<text, scanVars, fileVars>>
    BY <1>6 DEF ReadHeader, BadHeader, TokenRefused, LabelRefused, TokenTooLong, CheckEntry,
                Finish, HostFails, Ends, vars
  <2> QED  BY <1>1, <1>2, <2>1 DEF AssemblerInv
<1> QED  BY <1>3, <1>4, <1>5, <1>6 DEF Next, Scan

-----------------------------------------------------------------------------
(* The machine. *)

(* An assembler that has ended does nothing more. *)
LEMMA FileStays ==
  ASSUME LeavesFile, [Next]_vars
  PROVE  UNCHANGED vars
<1>1. phase = "done" \/ (phase = "render" /\ status # "running")
  BY DEF LeavesFile
<1>2. ASSUME Next PROVE FALSE
  <2>1. status = "running" /\ phase # "done"
    BY <1>2 DEF Next, Scan, ReadHeader, BadHeader, Comment, Separator, LineEnd, TokenRefused,
                Label, LabelRefused, Token, TokenTooLong, CheckEntry, RenderPlain, RenderJump,
                Rendering, Finish, HostFails, Reads
  <2> QED  BY <1>1, <2>1
<1> QED  BY <1>2

LEMMA ToolInvNext ==
  AssemblerInv /\ MachineInv /\ [ToolNext]_toolVars => AssemblerInv' /\ MachineInv'
<1> SUFFICES ASSUME AssemblerInv, MachineInv, [ToolNext]_toolVars
             PROVE  AssemblerInv' /\ MachineInv'
  OBVIOUS
<1>1. [Next]_vars
  BY DEF ToolNext, Assemble, StartMachine, LoadFile, toolVars
<1>2. AssemblerInv'
  BY <1>1, AssemblerInvNext
<1>3. CASE UNCHANGED loaderVars
  <2>1. vm' = vm /\ pc' = pc /\ file' = file
    BY <1>3 DEF loaderVars
  <2>2. vm # "waiting" => UNCHANGED <<phase, status, offset, entry_point>>
    <3> SUFFICES ASSUME vm # "waiting" PROVE UNCHANGED <<phase, status, offset, entry_point>>
      OBVIOUS
    <3>1. UNCHANGED vars
      BY <1>1, FileStays DEF MachineInv
    <3> QED  BY <3>1 DEF vars, scanVars, entryVars, fileVars, table
  <2>3. L!Valid' <=> L!Valid
    BY <2>1 DEF L!Valid, L!EnoughRam, L!Wrap, L!pgm_size
  <2>4. vm # "waiting" => OutFile' = OutFile /\ (LeavesFile' <=> LeavesFile)
    BY <2>2 DEF LeavesFile, OutFile
  <2> QED  BY <1>2, <2>1, <2>3, <2>4 DEF MachineInv
<1>4. CASE StartMachine
  <2>1. /\ LeavesFile /\ file' = OutFile /\ vm' = "reading"
        /\ UNCHANGED <<phase, status, offset, entry_point>>
    BY <1>4 DEF StartMachine, vars, scanVars, entryVars, fileVars, table
  <2>2. OutFile' = OutFile /\ LeavesFile'
    BY <2>1 DEF LeavesFile, OutFile
  <2>3. LeavesFile' /\ file' = OutFile'
    BY <2>1, <2>2
  <2>4. vm' # "waiting" /\ ~(vm' = "loaded") /\ ~(vm' = "rejected")
    BY <2>1
  <2> QED  BY <1>2, <2>3, <2>4 DEF MachineInv
<1>5. CASE LoadFile
  <2>1. /\ vm = "reading" /\ file' = file /\ UNCHANGED <<phase, status, offset, entry_point>>
    BY <1>5 DEF LoadFile, L!Next, L!Load, L!Overrun, L!Reject, L!HostFails, L!Allocates, vars,
                scanVars, entryVars, fileVars, table
  <2>2. L!Valid' <=> L!Valid
    BY <2>1 DEF L!Valid, L!EnoughRam, L!Wrap, L!pgm_size
  <2>3. /\ vm' # "waiting"
        /\ vm' = "loaded" => L!Valid /\ pc' = file.header.entry_point
        /\ vm' = "rejected" => ~L!Valid
    BY <1>5 DEF LoadFile, L!Next, L!Load, L!Overrun, L!Reject, L!HostFails, L!Allocates
  <2>4. OutFile' = OutFile /\ (LeavesFile' <=> LeavesFile)
    BY <2>1 DEF LeavesFile, OutFile
  <2> QED  BY <1>2, <2>1, <2>2, <2>3, <2>4 DEF MachineInv
<1> QED  BY <1>2, <1>3, <1>4, <1>5 DEF ToolNext, Assemble, toolVars

LEMMA ToolInvInit == ToolInit => AssemblerInv /\ MachineInv
  BY AssemblerInvInit DEF ToolInit, MachineInv

LEMMA ToolInvariant == ToolSpec => [](AssemblerInv /\ MachineInv)
  BY ToolInvInit, ToolInvNext, PTL DEF ToolSpec

-----------------------------------------------------------------------------
(* What Loader sees of the file. *)
LEMMA FileSeen ==
  ASSUME file = OutFile, offset \in Nat
  PROVE  /\ L!pgm_size = offset /\ file.size >= HeaderSize
         /\ file.header.wire = TRUE /\ file.header.ram_size = RamSize
         /\ file.header.stack_size = StackSize /\ file.header.entry_point = entry_point
<1>1. file.size = HeaderSize + offset /\ HeaderSize \in Nat
  BY ToolAssumption DEF OutFile
<1> QED  BY <1>1 DEF OutFile, L!pgm_size

LEMMA WrapLess == \A x \in Nat : L!Wrap(x) <= x
<1>1. WordMod \in Nat /\ WordMod > 0
  BY WidthsAssumption
<1> SUFFICES ASSUME NEW x \in Nat PROVE x % WordMod <= x
  BY DEF L!Wrap
<1>2. CASE x < WordMod
  <2>1. x % WordMod = x
    BY <1>1, <1>2
  <2> QED  BY <2>1
<1>3. CASE ~(x < WordMod)
  <2>1. x % WordMod < WordMod /\ x % WordMod \in Nat
    BY <1>1
  <2> QED  BY <1>1, <1>3, <2>1
<1> QED  BY <1>2, <1>3

(* A finished file is refused for its size only: the entry point of a text *)
(* the assembler accepts lies in the program, and the header is whole.     *)
THEOREM RefusedForSize == ToolSpec => []FinishedIsLoaded
<1>1. AssemblerInv /\ MachineInv => FinishedIsLoaded
  <2> SUFFICES ASSUME AssemblerInv, MachineInv, vm = "rejected", phase = "done",
                      ~(offset + StackSize > RamSize)
               PROVE  FALSE
    BY DEF FinishedIsLoaded
  <2>1. file = OutFile /\ ~L!Valid
    BY DEF MachineInv
  <2>2. offset \in Nat /\ Len(written) = Len(program) /\ offset = StartOf(Len(written) + 1)
        /\ Len(starts) = Len(program) /\ Len(program) \in Nat
    BY DEF AssemblerInv, Inv, Filed, Counted
  <2>3. offset = instruction_addr
    BY <2>2 DEF StartOf
  <2>4. entry_point <= offset
    BY <2>3, AddressesWords DEF AssemblerInv, Inv, LabelsOnInstructions
  <2>5. L!EnoughRam(file.header)
    <3>1. offset + StackSize \in Nat /\ offset + StackSize <= RamSize /\ RamSize \in Nat
      BY <2>2, HeaderAssumption
    <3>2. L!Wrap(offset + StackSize) <= offset + StackSize
      BY <3>1, WrapLess
    <3>3. L!Wrap(offset + StackSize) \in Int
      BY <3>1, WidthsAssumption DEF L!Wrap
    <3>4. RamSize >= L!Wrap(offset + StackSize)
      BY <3>1, <3>2, <3>3
    <3> QED  BY <2>1, <2>2, <3>4, FileSeen DEF L!EnoughRam
  <2> QED  BY <2>1, <2>2, <2>4, <2>5, FileSeen DEF L!Valid
<1> QED  BY <1>1, ToolInvariant, PTL

-----------------------------------------------------------------------------
(* Where the written instructions are. *)
LEMMA WrittenAt ==
  ASSUME AssemblerInv
  PROVE  /\ Len(written) \in Nat /\ Len(written) <= Len(program) /\ Len(program) \in Nat
         /\ DOMAIN written = 1 .. Len(written)
         /\ \A i \in 1 .. Len(written) + 1 : StartOf(i) \in Nat /\ StartOf(i) <= offset
         /\ StartOf(Len(written) + 1) = offset /\ offset \in Nat
         /\ \A i \in 1 .. Len(written) :
               /\ written[i].at = StartOf(i) /\ written[i].op \in Op
               /\ StartOf(i + 1) = StartOf(i) + OpLen(written[i].op)
               /\ NArgs(written[i].op) = Arity(written[i].op.code)
               /\ ArgumentsGiven(program[i]) => WellNamed(written[i].op)
<1> DEFINE n == Len(written)
<1>1. /\ n \in Nat /\ Len(program) \in Nat /\ n <= Len(program) /\ DOMAIN written = 1 .. n
      /\ Len(starts) = Len(program) /\ starts \in Seq(Nat) /\ instruction_addr \in Nat
      /\ offset = StartOf(n + 1) /\ offset \in Nat
  BY DEF AssemblerInv, Inv, Filed, Counted
<1>2. ASSUME NEW i \in 1 .. n + 1 PROVE StartOf(i) \in Nat /\ StartOf(i) <= offset
  <2>1. StartOf(i) \in Nat
    <3>1. i \in 1 .. Len(starts) => starts[i] \in Nat
      BY <1>1
    <3>2. i <= Len(starts) => i \in 1 .. Len(starts)
      BY <1>1
    <3> QED  BY <1>1, <3>1, <3>2 DEF StartOf
  <2>2. CASE i = n + 1
    BY <1>1, <2>2
  <2>3. CASE i # n + 1
    <3>1. /\ i < n + 1 /\ i \in 1 .. Len(starts) + 1 /\ n + 1 \in 1 .. Len(starts) + 1
      BY <1>1, <2>3
    <3>2. StartOf(i) < StartOf(n + 1)
      BY <3>1 DEF AssemblerInv, Ordered
    <3> QED  BY <1>1, <2>1, <3>2
  <2> QED  BY <2>1, <2>2, <2>3
<1>3. ASSUME NEW i \in 1 .. n
      PROVE  /\ written[i].at = StartOf(i) /\ written[i].op \in Op
             /\ StartOf(i + 1) = StartOf(i) + OpLen(written[i].op)
             /\ NArgs(written[i].op) = Arity(written[i].op.code)
             /\ ArgumentsGiven(program[i]) => WellNamed(written[i].op)
  <2>1. written[i].at = StartOf(i)
    BY DEF AssemblerInv, Inv, Filed
  <2>2. Rendered(program[i], written[i])
    BY DEF AssemblerInv, File
  <2>3. StartOf(i + 1) = StartOf(i) + RawOp(program[i].size).bytes
    <3>1. i \in 1 .. Len(program)
      BY <1>1
    <3> QED  BY <3>1 DEF AssemblerInv, Inv, Counted
  <2> QED  BY <2>1, <2>2, <2>3 DEF Rendered
<1> QED  BY <1>1, <1>2, <1>3

(* Memory holds each of them at its address. *)
LEMMA LoadedAt ==
  ASSUME AssemblerInv
  PROVE  /\ DOMAIN LoadedText = { StartOf(i) : i \in 1 .. Len(written) }
         /\ \A i \in 1 .. Len(written) : LoadedText[StartOf(i)] = written[i].op
<1> DEFINE n == Len(written)
           W == { written[i] : i \in DOMAIN written }
<1>1. /\ n \in Nat /\ DOMAIN written = 1 .. n
      /\ \A i \in 1 .. n : written[i].at = StartOf(i)
  BY WrittenAt
<1>2. DOMAIN LoadedText = { written[i].at : i \in DOMAIN written }
  BY DEF LoadedText
<1>3. DOMAIN LoadedText = { StartOf(i) : i \in 1 .. n }
  BY <1>1, <1>2
<1>4. ASSUME NEW i \in 1 .. n PROVE LoadedText[StartOf(i)] = written[i].op
  <2>1. \A w \in W : w.at = StartOf(i) => w = written[i]
    <3> SUFFICES ASSUME NEW j \in 1 .. n, written[j].at = StartOf(i) PROVE j = i
      BY <1>1
    <3>1. /\ i \in 1 .. Len(starts) + 1 /\ j \in 1 .. Len(starts) + 1
          /\ StartOf(i) \in Nat /\ StartOf(j) \in Nat /\ i \in Nat /\ j \in Nat
      <4>1. Len(starts) = Len(program)
        BY DEF AssemblerInv, Inv, Counted
      <4> QED  BY <4>1, WrittenAt
    <3>2. (i < j => StartOf(i) < StartOf(j)) /\ (j < i => StartOf(j) < StartOf(i))
      BY <3>1 DEF AssemblerInv, Ordered
    <3>3. StartOf(j) = StartOf(i)
      BY <1>1
    <3> QED  BY <3>1, <3>2, <3>3
  <2>2. written[i] \in W /\ written[i].at = StartOf(i)
    BY <1>1
  <2>3. (CHOOSE w \in W : w.at = StartOf(i)) = written[i]
    <3> HIDE DEF W
    <3> QED  BY <2>1, <2>2
  <2>4. StartOf(i) \in { written[j].at : j \in DOMAIN written }
    BY <1>1
  <2>5. LoadedText[StartOf(i)] = (CHOOSE w \in W : w.at = StartOf(i)).op
    BY <2>4, Zenon DEF LoadedText
  <2> QED  BY <2>3, <2>5
<1> QED  BY <1>3, <1>4

(* What the machine is started with is a program in the sense the proofs   *)
(* about the machine assume, and neither its instructions nor its entry    *)
(* point lead anywhere but to an instruction or to the end.                *)
THEOREM LoadsPrograms == ToolSpec => []LoadedIsProgram
<1>1. AssemblerInv /\ MachineInv => LoadedIsProgram
  <2> DEFINE n == Len(written)
             p == [entry |-> pc, text |-> LoadedText]
  <2> SUFFICES ASSUME AssemblerInv, MachineInv, vm = "loaded",
                      offset + StackSize < RamSize
               PROVE  /\ IsProgram(p)
                      /\ {pc} \cup { a + OpLen(LoadedText[a]) : a \in DOMAIN LoadedText }
                            \subseteq DOMAIN LoadedText \cup {offset}
                      /\ \A a \in DOMAIN LoadedText :
                            NArgs(LoadedText[a]) = Arity(LoadedText[a].code)
                      /\ AllArgumentsGiven =>
                            \A a \in DOMAIN LoadedText : WellNamed(LoadedText[a])
    BY DEF LoadedIsProgram
  <2>1. /\ n \in Nat /\ n <= Len(program) /\ Len(program) \in Nat /\ offset \in Nat
        /\ \A i \in 1 .. n + 1 : StartOf(i) \in Nat /\ StartOf(i) <= offset
        /\ StartOf(n + 1) = offset
        /\ \A i \in 1 .. n : /\ written[i].op \in Op
                             /\ StartOf(i + 1) = StartOf(i) + OpLen(written[i].op)
                             /\ NArgs(written[i].op) = Arity(written[i].op.code)
                             /\ ArgumentsGiven(program[i]) => WellNamed(written[i].op)
    BY WrittenAt
  <2>2. /\ DOMAIN LoadedText = { StartOf(i) : i \in 1 .. n }
        /\ \A i \in 1 .. n : LoadedText[StartOf(i)] = written[i].op
    BY LoadedAt
  <2>3. /\ RamSize \in Nat /\ StackSize \in Nat /\ RamSize <= WordMod /\ WordMod \in Nat
        /\ offset + StackSize < RamSize
    BY HeaderAssumption, WordTyped
  <2>4. pc = entry_point /\ entry_point <= offset /\ entry_point \in Boundaries
    BY <2>1, FileSeen DEF MachineInv, L!Valid, AssemblerInv, Inv, LabelsOnInstructions
  <2>5. pc \in Word
    BY <2>4, AddressesWords
  <2> HIDE DEF n
  <2>6. 0 .. offset - 1 \subseteq HeapAddr
    <3>1. ASSUME NEW a \in 0 .. offset - 1 PROVE a \in 0 .. RamSize - 1 /\ a < StackBase
      BY <2>1, <2>3 DEF StackBase
    <3>2. StackBase \in Int
      BY <2>3 DEF StackBase
    <3>3. \A a \in StackAddr : a >= StackBase
      BY <2>3, <3>2 DEF StackAddr
    <3> QED  BY <2>1, <3>1, <3>2, <3>3 DEF HeapAddr
  <2>7. ASSUME NEW i \in 1 .. n
        PROVE  /\ LoadedText[StartOf(i)] \in Op
               /\ NArgs(LoadedText[StartOf(i)]) = Arity(LoadedText[StartOf(i)].code)
               /\ AllArgumentsGiven => WellNamed(LoadedText[StartOf(i)])
               /\ StartOf(i) .. StartOf(i) + OpLen(LoadedText[StartOf(i)]) - 1 \subseteq HeapAddr
               /\ StartOf(i) \in HeapAddr
               /\ StartOf(i) + OpLen(LoadedText[StartOf(i)]) \in DOMAIN LoadedText \cup {offset}
    <3>1. LoadedText[StartOf(i)] = written[i].op
      BY <2>2
    <3>2. /\ i \in 1 .. n + 1 /\ i + 1 \in 1 .. n + 1
          /\ StartOf(i) \in Nat /\ StartOf(i + 1) \in Nat /\ StartOf(i + 1) <= offset
      BY <2>1
    <3>3. StartOf(i + 1) = StartOf(i) + OpLen(written[i].op) /\ written[i].op \in Op
      BY <2>1
    <3>4. AllArgumentsGiven => ArgumentsGiven(program[i])
      <4>1. i \in DOMAIN program
        <5>1. DOMAIN program = 1 .. Len(program)
          BY DEF AssemblerInv, Inv, Counted
        <5> QED  BY <2>1, <5>1
      <4> QED  BY <4>1 DEF AllArgumentsGiven, ArgumentsGiven
    <3>5. /\ NArgs(written[i].op) = Arity(written[i].op.code)
          /\ AllArgumentsGiven => WellNamed(written[i].op)
      BY <2>1, <3>4
    <3>6. OpLen(written[i].op) \in Nat /\ OpLen(written[i].op) > 0
      <4>1. NArgs(written[i].op) \in {1, 2, 3}
        BY <3>5 DEF Arity
      <4>2. WordSize \in Nat /\ WordSize > 0
        BY WidthsAssumption
      <4>3. OpLen(written[i].op) \in {2 * WordSize, 3 * WordSize, 4 * WordSize}
        BY <4>1, <4>2 DEF OpLen
      <4> QED  BY <4>2, <4>3
    <3>7. StartOf(i) .. StartOf(i) + OpLen(written[i].op) - 1 \subseteq 0 .. offset - 1
      <4>1. \A first, len, end \in Nat : first + len <= end => first .. first + len - 1 \subseteq 0 .. end - 1
        OBVIOUS
      <4>2. StartOf(i) + OpLen(written[i].op) <= offset /\ offset \in Nat
        BY <2>1, <3>2, <3>3
      <4> QED  BY <3>2, <3>6, <4>1, <4>2, Zenon
    <3>8. StartOf(i) \in 0 .. offset - 1
      BY <2>1, <3>2, <3>3, <3>6
    <3>9. StartOf(i + 1) \in DOMAIN LoadedText \cup {offset}
      <4>1. i + 1 \in 1 .. n \/ i + 1 = n + 1
        BY <2>1
      <4> QED  BY <2>1, <2>2, <4>1
    <3> QED  BY <2>6, <3>1, <3>3, <3>5, <3>7, <3>8, <3>9
  <2>8. IsProgram(p)
    <3>1. p.entry = pc /\ p.text = LoadedText
      OBVIOUS
    <3>2. DOMAIN LoadedText \subseteq HeapAddr
      BY <2>2, <2>7
    <3>3. ASSUME NEW a \in DOMAIN LoadedText
          PROVE  /\ LoadedText[a] \in Op
                 /\ a .. a + OpLen(LoadedText[a]) - 1 \subseteq HeapAddr
      <4>1. PICK i \in 1 .. n : a = StartOf(i)
        BY <2>2
      <4> QED  BY <2>7, <4>1
    <3> HIDE DEF p
    <3> QED  BY <2>5, <3>1, <3>2, <3>3 DEF IsProgram
  <2>9. pc \in DOMAIN LoadedText \cup {offset}
    <3>1. /\ Len(starts) = Len(program) /\ DOMAIN starts = 1 .. Len(starts)
      BY DEF AssemblerInv, Inv, Counted
    <3>2. PICK j \in 1 .. Len(starts) + 1 : pc = StartOf(j)
      <4>1. CASE pc = instruction_addr
        <5>1. Len(starts) + 1 \in 1 .. Len(starts) + 1 /\ ~(Len(starts) + 1 <= Len(starts))
          BY <2>1, <3>1
        <5>2. StartOf(Len(starts) + 1) = instruction_addr
          BY <5>1 DEF StartOf
        <5> QED  BY <4>1, <5>1, <5>2
      <4>2. CASE \E k \in DOMAIN starts : pc = starts[k]
        <5>1. PICK k \in DOMAIN starts : pc = starts[k]
          BY <4>2
        <5>2. k \in 1 .. Len(starts) + 1 /\ k <= Len(starts)
          BY <2>1, <3>1
        <5> QED  BY <5>1, <5>2 DEF StartOf
      <4> QED  BY <2>4, <4>1, <4>2 DEF Boundaries
    <3>3. j \in 1 .. n \/ j = n + 1 \/ n + 1 < j
      BY <2>1, <3>1
    <3>4. ~(n + 1 < j)
      <4>1. n + 1 \in 1 .. Len(starts) + 1
        BY <2>1, <3>1
      <4>2. n + 1 < j => StartOf(n + 1) < StartOf(j)
        BY <4>1 DEF AssemblerInv, Ordered
      <4>3. StartOf(j) <= offset /\ StartOf(j) \in Nat
        BY <2>4, <2>5, <3>2, WordTyped
      <4> QED  BY <2>1, <4>2, <4>3
    <3> QED  BY <2>1, <2>2, <3>2, <3>3, <3>4
  <2>10. { a + OpLen(LoadedText[a]) : a \in DOMAIN LoadedText } \subseteq DOMAIN LoadedText \cup {offset}
    <3> SUFFICES ASSUME NEW a \in DOMAIN LoadedText
                 PROVE  a + OpLen(LoadedText[a]) \in DOMAIN LoadedText \cup {offset}
      OBVIOUS
    <3>1. PICK i \in 1 .. n : a = StartOf(i)
      BY <2>2
    <3> QED  BY <2>7, <3>1
  <2>11. ASSUME NEW a \in DOMAIN LoadedText
         PROVE  /\ NArgs(LoadedText[a]) = Arity(LoadedText[a].code)
                /\ AllArgumentsGiven => WellNamed(LoadedText[a])
    <3>1. PICK i \in 1 .. n : a = StartOf(i)
      BY <2>2
    <3> QED  BY <2>7, <3>1
  <2> QED  BY <2>8, <2>9, <2>10, <2>11
<1> QED  BY <1>1, ToolInvariant, PTL
=============================================================================
