------------------------ MODULE WiredMachineProofs ------------------------
(***************************************************************************)
(* Theorems about the whole machine, for every program, every memory, any  *)
(* number of threads and any TH_SWITCH: it is well typed, it executes      *)
(* instructions of threads that have not exited only, it returns only once *)
(* they all have, its scheduler skips none of them, and whatever a program *)
(* does its threads are isolated.                                          *)
(***************************************************************************)
EXTENDS WiredMachine, ThreadCtxProofs

(* How the exit flag and the active flag of the current thread go together *)
(* over one turn of the loop.                                              *)
ExitFlag ==
    /\ phase \in {"fetch", "execute"} => ~wm_state.exit
    /\ phase = "schedule" => (wm_state.exit <=> ~ths[current].active)

(* The inductive invariant.                                                *)
Inv == TypeOK /\ Capacity /\ RunnerIsLive /\ ExitFlag /\ HaltsWhenAllExited

(* What the widths give: small constants are words, PC stays one.          *)
LEMMA Words ==
  /\ WordMod \in Nat /\ WordMod >= 2 /\ 0 \in Word /\ 1 \in Word
  /\ \A x \in Word, y \in 0 .. WordMod : Plus(x, y) \in Word
<1>1. WordMod \in Nat /\ WordMod >= 2
  <2>1. /\ WordMod = LowMod * ByteMod /\ LowMod \in Nat /\ ByteMod \in Nat
        /\ LowMod >= 1 /\ ByteMod >= 2
    BY WidthsAssumption
  <2> QED  BY <2>1
<1> QED  BY <1>1 DEF Plus, Word

(* An instruction is at most four words long.                              *)
LEMMA OpLenBound ==
  ASSUME NEW o \in Op
  PROVE  OpLen(o) \in 0 .. WordMod
<1>1. NArgs(o) \in {1, 2, 3}
  BY DEF NArgs, Op, OpSizes
<1>2. OpLen(o) \in {2 * WordSize, 3 * WordSize, 4 * WordSize}
  BY <1>1 DEF OpLen
<1> QED  BY <1>2, WidthsAssumption, Words

(* Decoding clears the arguments that are not there, and nothing else.     *)
LEMMA DecodedOp ==
  ASSUME NEW o \in Op
  PROVE  /\ Decoded(o) \in Op
         /\ Decoded(o).code = o.code /\ Decoded(o).imm = o.imm
         /\ Decoded(o).args[0] = o.args[0]
         /\ OpLen(Decoded(o)) = OpLen(o)
<1> DEFINE cleared == [k \in 0 .. 2 |-> IF k < NArgs(o) THEN o.args[k] ELSE 0]
<1>1. NArgs(o) \in {1, 2, 3} /\ o.args \in [0 .. 2 -> Word]
  BY DEF NArgs, Op, OpSizes
<1>2. cleared \in [0 .. 2 -> Word] /\ cleared[0] = o.args[0]
  BY <1>1, Words
<1>3. Decoded(o) = [o EXCEPT !.args = cleared]
  BY DEF Decoded
<1> HIDE DEF cleared
<1>4. /\ Decoded(o) \in Op /\ Decoded(o).code = o.code /\ Decoded(o).imm = o.imm
      /\ Decoded(o).args = cleared /\ Decoded(o).size = o.size
  BY <1>2, <1>3 DEF Op
<1> QED  BY <1>2, <1>4 DEF OpLen, NArgs

LEMMA ZeroOpOp == ZeroOp \in Op
  BY Words DEF ZeroOp, Op, OpSizes, Codes, OneArgCodes

(* What an instruction reads is a word.                                    *)
LEMMA OperandWords ==
  ASSUME TypeOK
  PROVE  /\ \A k \in 0 .. 2 : op.args[k] \in Word /\ Operands(k) \subseteq Word
         /\ \A r : Shows(r) \subseteq Word
         /\ NeqiOperands \subseteq Word
<1>1. registers \in RegisterFile /\ op \in Op
  BY DEF TypeOK, CtxTypeOK
<1>2. \A r : Shows(r) \subseteq Word
  BY <1>1 DEF Shows, RegisterFile
<1>3. \A k \in 0 .. 2 : op.args[k] \in Word
  BY <1>1 DEF Op
<1> QED  BY <1>2, <1>3 DEF Operands, NeqiOperands
-----------------------------------------------------------------------------
(* Instructions.                                                           *)

(* What an instruction leaves when it goes on to the clock.                *)
Continued ==
    /\ phase' = "clock" /\ wm_state' \in [pc_set : BOOLEAN, exit : BOOLEAN]
    /\ op' = op /\ ic' \in 0 .. TH_SWITCH - 1

LEMMA ContinuesState ==
  ASSUME TypeOK, NEW set \in BOOLEAN, Continues(set), ic' \in 0 .. TH_SWITCH - 1
  PROVE  Continued
  BY DEF Continues, Continued, TypeOK

(* A process that ends leaves everything else as it is.                    *)
EndedNow ==
    /\ phase' \in Over \ {"halted"}
    /\ UNCHANGED <<ctxVars, codeVars, op, wm_state, ic>>

(* Writing one register is a step of the running thread on its own state.  *)
LEMMA WriteRegisterOwn ==
  ASSUME Inv, phase = "execute", NEW r, NEW v \in Word, WriteRegister(r, v)
  PROVE  /\ OwnStep /\ UNCHANGED codeVars /\ ths' = ths
         /\ ic' \in 0 .. TH_SWITCH - 1
<1>1. /\ ths \in [0 .. nb_ths - 1 -> Thread] /\ registers \in RegisterFile
      /\ window \in Stack /\ ths[current].active /\ current \in 0 .. nb_ths - 1
      /\ ic \in 0 .. TH_SWITCH - 1
  BY DEF Inv, TypeOK, CtxTypeOK, Capacity, RunnerIsLive
<1>2. registers' \in RegisterFile
  BY <1>1 DEF WriteRegister, RegisterFile
<1>3. ths' = [ths EXCEPT ![current].active = ths[current].active]
  BY <1>1 DEF WriteRegister, Thread
<1>4. ths[current].active \in BOOLEAN
  BY <1>1 DEF Thread
<1>5. OwnStep
  BY <1>1, <1>2, <1>3, <1>4 DEF OwnStep, WriteRegister
<1>6. (v % TH_SWITCH) \in 0 .. TH_SWITCH - 1
  <2>1. v \in Nat /\ TH_SWITCH \in Nat \ {0}
    BY MachineAssumption, Words DEF Word
  <2> QED  BY <2>1, DivMod
<1>7. ic' \in 0 .. TH_SWITCH - 1
  BY <1>1, <1>6 DEF WriteRegister
<1> QED  BY <1>5, <1>7 DEF WriteRegister

(* Every byte of the memory is one, and its extension is a word.           *)
LEMMA LoadedWord ==
  ASSUME TypeOK, NEW a \in Nat, ~OutOfRange(a)
  PROVE  SignExtend(Ram(a)) \in Word
<1>1. Ram(a) \in Byte
  <2>1. CASE a \in StackAddr
    <3>1. a - StackBase \in StackIdx
      BY <2>1, HeaderAssumption DEF StackAddr, StackBase, StackIdx
    <3> QED  BY <2>1, <3>1 DEF Ram, TypeOK, CtxTypeOK, Stack
  <2>2. CASE a \notin StackAddr
    <3>1. a \in HeapAddr
      BY <2>2, HeaderAssumption DEF HeapAddr, OutOfRange
    <3> QED  BY <2>2, <3>1 DEF Ram, TypeOK
  <2> QED  BY <2>1, <2>2
<1>2. ByteMod \in Nat /\ ByteMod <= WordMod /\ WordMod \in Nat
  <2>1. /\ WordMod = LowMod * ByteMod /\ LowMod \in Nat /\ ByteMod \in Nat
        /\ LowMod >= 1 /\ ByteMod >= 2
    BY WidthsAssumption
  <2> QED  BY <2>1
<1> QED  BY <1>1, <1>2 DEF SignExtend, Byte, Word

(* A store keeps window, heap and text well formed.                        *)
LEMMA StoreOwn ==
  ASSUME Inv, phase = "execute", NEW a \in Nat, NEW v \in Word, Store(a, v)
  PROVE  /\ OwnStep /\ Continued /\ ths' = ths
         /\ heap' \in [HeapAddr -> Byte]
         /\ DOMAIN text' \subseteq HeapAddr
         /\ \A b \in DOMAIN text' : text'[b] \in Op
<1>1. /\ ths \in [0 .. nb_ths - 1 -> Thread] /\ registers \in RegisterFile
      /\ window \in Stack /\ ths[current].active /\ current \in 0 .. nb_ths - 1
      /\ heap \in [HeapAddr -> Byte] /\ DOMAIN text \subseteq HeapAddr
      /\ \A b \in DOMAIN text : text[b] \in Op
  BY DEF Inv, TypeOK, CtxTypeOK, Capacity, RunnerIsLive
<1>2. v % ByteMod \in Byte
  <2>1. v \in Nat /\ ByteMod \in Nat \ {0}
    BY WidthsAssumption, Words DEF Word
  <2> QED  BY <2>1, DivMod DEF Byte
<1>3. /\ window' \in Stack /\ heap' \in [HeapAddr -> Byte]
      /\ DOMAIN text' \subseteq HeapAddr
      /\ \A b \in DOMAIN text' : text'[b] \in Op
  <2>1. CASE /\ a \in StackAddr
             /\ window' = [window EXCEPT ![a - StackBase] = v % ByteMod]
             /\ UNCHANGED codeVars
    <3>1. window' \in Stack
      BY <1>1, <1>2, <2>1 DEF Stack
    <3>2. heap' = heap /\ text' = text
      BY <2>1 DEF codeVars
    <3> QED  BY <1>1, <3>1, <3>2
  <2>2. CASE /\ a \in HeapAddr
             /\ heap' = [heap EXCEPT ![a] = v % ByteMod]
             /\ text' = [c \in { b \in DOMAIN text : ~Covers(b, a) } |-> text[c]]
             /\ UNCHANGED window
    BY <1>1, <1>2, <2>2
  <2> QED  BY <2>1, <2>2 DEF Store
<1>4. ths[current].active \in BOOLEAN /\ ths' = [ths EXCEPT ![current].active = ths[current].active]
  BY <1>1 DEF Store, Thread
<1>5. OwnStep
  BY <1>1, <1>3, <1>4 DEF OwnStep, Store
<1>6. Continued
  BY ContinuesState DEF Store, Inv, TypeOK
<1> QED  BY <1>3, <1>5, <1>6 DEF Store

(* The memory and the text stay well formed.                               *)
CodeTyped ==
    /\ heap \in [HeapAddr -> Byte]
    /\ DOMAIN text \subseteq HeapAddr
    /\ \A a \in DOMAIN text : text[a] \in Op

(* What any instruction does to the contexts: nothing, a step of the       *)
(* running thread on its own state, or a new thread; and to the rest.      *)
Instruction ==
    /\ UNCHANGED ctxVars \/ OwnStep \/ \E pc \in Word : AddCtx(pc)
    /\ current' = current /\ ths'[current].active
    /\ CodeTyped'
    /\ Continued \/ EndedNow

(* An instruction that writes one register, loada or another. *)
LEMMA WriteInstruction ==
  ASSUME Inv, phase = "execute", NEW r, NEW v \in Word, WriteRegister(r, v),
         ic' \in 0 .. TH_SWITCH - 1 => Continued
  PROVE  Instruction
<1>1. OwnStep /\ Continued /\ UNCHANGED codeVars /\ ths' = ths
  BY WriteRegisterOwn
<1>2. CodeTyped'
  BY <1>1 DEF Inv, TypeOK, CodeTyped, codeVars
<1> QED  BY <1>1, <1>2 DEF Instruction, OwnStep

LEMMA SetRegisterInstruction ==
  ASSUME Inv, phase = "execute", NEW r, NEW v \in Word, SetRegister(r, v)
  PROVE  Instruction
<1>1. ic' \in 0 .. TH_SWITCH - 1 => Continued
  BY ContinuesState DEF SetRegister, Inv
<1> QED  BY <1>1, WriteInstruction DEF SetRegister

LEMMA EndsInstruction ==
  ASSUME Inv, phase \in {"fetch", "execute"}, NEW how \in {"failed", "undefined"}, Ends(how)
  PROVE  Instruction
<1>1. EndedNow
  BY DEF Ends, EndedNow, Over
<1>2. CodeTyped'
  BY DEF Inv, TypeOK, CodeTyped, codeVars, Ends
<1> QED  BY <1>1, <1>2 DEF Instruction, EndedNow, ctxVars, Inv, RunnerIsLive

(* Each instruction is one of those.                                       *)
LEMMA ExecuteInstruction ==
  ASSUME Inv, Execute
  PROVE  Instruction
<1>1. /\ TypeOK /\ op \in Op /\ registers \in RegisterFile
      /\ wm_state \in [pc_set : BOOLEAN, exit : BOOLEAN]
      /\ ic \in 0 .. TH_SWITCH - 1
      /\ phase = "execute" /\ ths[current].active
  <2>1. phase = "execute"
    BY DEF Execute, Executes, ExecMisnamed, ExecScall, ExecLoad, ExecLoada, ExecSave,
           ExecAlu, ExecNot, ExecCompare, ExecJump, ExecJmpTh
  <2> QED  BY <2>1 DEF Inv, TypeOK, CtxTypeOK, RunnerIsLive
<1>2. \A k \in 0 .. 2 : op.args[k] \in Word /\ Operands(k) \subseteq Word
  BY <1>1, OperandWords
<1>3. \A r : Shows(r) \subseteq Word
  BY <1>1, OperandWords
<1>4. \A x \in Word : x \in Nat /\ x \in 0 .. WordMod
  BY Words DEF Word
<1>5. CASE ExecMisnamed
  BY <1>1, <1>5, EndsInstruction DEF ExecMisnamed
<1>6. CASE ExecScall
  <2>1. Continued
    BY <1>6, <1>1 DEF ExecScall, Continued
  <2>2. CodeTyped' /\ UNCHANGED ctxVars
    BY <1>1, <1>6 DEF ExecScall, CodeTyped, TypeOK, codeVars
  <2> QED  BY <1>1, <2>1, <2>2 DEF Instruction, ctxVars
<1>7. CASE ExecLoad
  <2>1. PICK v \in Operands(1) : SetRegister(op.args[0], v)
    BY <1>7 DEF ExecLoad
  <2> QED  BY <1>1, <1>2, <2>1, SetRegisterInstruction
<1>8. CASE ExecLoada
  <2>1. CASE OutOfRange(op.args[1]) /\ Ends("failed")
    BY <2>1, <1>1, EndsInstruction
  <2>2. CASE /\ ~OutOfRange(op.args[1])
             /\ WriteRegister(op.args[0], SignExtend(Ram(op.args[1])))
             /\ phase' = "clock"
             /\ wm_state' = [wm_state EXCEPT !.exit = FALSE]
             /\ UNCHANGED op
    <3>1. SignExtend(Ram(op.args[1])) \in Word
      BY <1>1, <1>2, <1>4, <2>2, LoadedWord
    <3>2. ic' \in 0 .. TH_SWITCH - 1 => Continued
      BY <1>1, <2>2 DEF Continued
    <3> QED  BY <1>1, <2>2, <3>1, <3>2, WriteInstruction
  <2> QED  BY <1>8, <2>1, <2>2 DEF ExecLoada
<1>9. CASE ExecSave
  <2>1. CASE Ends("failed")
    BY <2>1, <1>1, EndsInstruction
  <2>2. CASE \E addr \in IF op.code = "save" THEN Shows(op.args[0]) ELSE {op.args[0]},
                v \in Operands(1) :
                \/ ~OutOfRange(addr) /\ Store(addr, v)
                \/ OutOfRange(addr) /\ Ends("undefined")
    <3>1. PICK addr \in IF op.code = "save" THEN Shows(op.args[0]) ELSE {op.args[0]},
               v \in Operands(1) : Store(addr, v) \/ Ends("undefined")
      BY <2>2
    <3>2. addr \in Nat /\ v \in Word
      BY <1>2, <1>3, <1>4
    <3>3. CASE Ends("undefined")
      BY <3>3, <1>1, EndsInstruction
    <3>4. CASE Store(addr, v)
      <4>1. OwnStep /\ Continued /\ CodeTyped' /\ ths' = ths
        BY <1>1, <3>2, <3>4, StoreOwn DEF CodeTyped
      <4> QED  BY <1>1, <4>1 DEF Instruction, OwnStep
    <3> QED  BY <3>1, <3>3, <3>4
  <2> QED  BY <1>9, <2>1, <2>2 DEF ExecSave
<1>10. CASE ExecAlu
  <2>1. PICK y \in Operands(2) :
           \/ op.code = "div" /\ y = 0 /\ Ends("failed")
           \/ /\ op.code = "div" => y # 0
              /\ \E x \in Shows(op.args[1]) : SetRegister(op.args[0], Alu(op.code, x, y))
    BY <1>10 DEF ExecAlu
  <2>2. CASE Ends("failed")
    BY <2>2, <1>1, EndsInstruction
  <2>3. CASE /\ op.code = "div" => y # 0
             /\ \E x \in Shows(op.args[1]) : SetRegister(op.args[0], Alu(op.code, x, y))
    <3>1. PICK x \in Shows(op.args[1]) : SetRegister(op.args[0], Alu(op.code, x, y))
      BY <2>3
    <3>2. op.code \in AluCodes /\ x \in Word /\ y \in Word
      BY <1>2, <1>3, <1>10 DEF ExecAlu, Executes
    <3>3. Alu(op.code, x, y) \in Word
      BY <2>3, <3>2, MachineAssumption
    <3> QED  BY <1>1, <3>1, <3>3, SetRegisterInstruction
  <2> QED  BY <2>1, <2>2, <2>3
<1>11. CASE ExecNot
  <2>1. PICK v \in Operands(1) : SetRegister(op.args[0], WordMod - 1 - v)
    BY <1>11 DEF ExecNot
  <2>2. v \in Word
    BY <1>2
  <2>3. WordMod - 1 - v \in Word
    BY <2>2, Words DEF Word
  <2> QED  BY <1>1, <2>1, <2>3, SetRegisterInstruction
<1>12. CASE ExecCompare
  <2>1. PICK v \in {0, 1} : SetRegister(EQ, v)
    BY <1>12 DEF ExecCompare
  <2> QED  BY <1>1, <2>1, Words, SetRegisterInstruction
<1>13. CASE ExecJump
  <2>1. CASE ~Taken /\ Continues(FALSE) /\ UNCHANGED <<ctxVars, codeVars, ic>>
    <3>1. Continued
      BY <2>1, <1>1, ContinuesState
    <3>2. CodeTyped'
      BY <2>1, <1>1 DEF CodeTyped, TypeOK, codeVars
    <3> QED  BY <1>1, <2>1, <3>1, <3>2 DEF Instruction, ctxVars
  <2>2. CASE Ends("failed")
    BY <2>2, <1>1, EndsInstruction
  <2>3. ASSUME NEW v \in Operands(0), registers' = [registers EXCEPT ![PC] = Target(v)],
               Continues(TRUE),
               UNCHANGED <<ths, nb_ths, allocated_ths, current, window, codeVars, ic>>
        PROVE  Instruction
    <3>1. Target(v) \in Word
      <4>1. v \in Word /\ v \in 0 .. WordMod /\ registers[PC] \in Word
        BY <1>1, <1>2, <1>4 DEF RegisterFile, PC, Registers, SPL
      <4> QED  BY <4>1, Words DEF Target
    <3>2. Continued
      BY <2>3, <1>1, ContinuesState
    <3>3. CodeTyped'
      BY <2>3, <1>1 DEF CodeTyped, TypeOK, codeVars
    <3>4. registers' \in RegisterFile
      BY <3>1, <2>3, <1>1 DEF RegisterFile
    <3>5. /\ ths \in [0 .. nb_ths - 1 -> Thread] /\ current \in 0 .. nb_ths - 1
          /\ ths[current].active /\ window \in Stack
      BY <1>1 DEF Inv, TypeOK, CtxTypeOK, Capacity
    <3>6. ths' = [ths EXCEPT ![current].active = ths[current].active]
      BY <2>3, <3>5 DEF Thread
    <3>7. OwnStep
      BY <2>3, <3>4, <3>5, <3>6 DEF OwnStep, Thread
    <3> QED  BY <2>3, <3>2, <3>3, <3>5, <3>7 DEF Instruction
  <2> QED  BY <1>13, <2>1, <2>2, <2>3 DEF ExecJump
<1>14. CASE ExecJmpTh
  <2>1. PICK addr \in Operands(0) :
           \/ Ends("failed")
           \/ AddCtx(addr) /\ Continues(FALSE) /\ UNCHANGED <<codeVars, ic>>
    BY <1>14 DEF ExecJmpTh
  <2>2. addr \in Word
    BY <1>2
  <2>3. CASE Ends("failed")
    BY <2>3, <1>1, EndsInstruction
  <2>4. CASE AddCtx(addr) /\ Continues(FALSE) /\ UNCHANGED <<codeVars, ic>>
    <3>1. Continued
      BY <2>4, <1>1, ContinuesState
    <3>2. CodeTyped'
      BY <2>4, <1>1 DEF CodeTyped, TypeOK, codeVars
    <3>3. current' = current /\ ths'[current] = ths[current]
      BY <2>4 DEF AddCtx, Inv, TypeOK, CtxTypeOK, Capacity
    <3> QED  BY <1>1, <2>2, <2>4, <3>1, <3>2, <3>3 DEF Instruction
  <2> QED  BY <2>1, <2>3, <2>4
<1> QED
  BY <1>5, <1>6, <1>7, <1>8, <1>9, <1>10, <1>11, <1>12, <1>13, <1>14 DEF Execute
-----------------------------------------------------------------------------
(* The invariant.                                                          *)

(* Whatever the machine does to the contexts keeps them well formed.       *)
LEMMA CtxStepInv ==
  ASSUME Inv, UNCHANGED ctxVars \/ OwnStep \/ \E pc \in Word : AddCtx(pc)
  PROVE  CtxInv'
<1>1. CtxInv
  BY DEF Inv, TypeOK, CtxInv
<1>2. CASE UNCHANGED ctxVars
  BY <1>1, <1>2 DEF CtxInv, CtxTypeOK, Capacity, ctxVars
<1> QED  BY <1>1, <1>2, OwnStepInv, AddCtxInv

LEMMA InitInv == Init => Inv
<1> SUFFICES ASSUME Init PROVE Inv
  OBVIOUS
<1>1. PICK p \in Programs : text = p.text /\ CtxInit(p.entry)
  BY DEF Init
<1>2. /\ p.entry \in Word /\ DOMAIN text \subseteq HeapAddr
      /\ \A a \in DOMAIN text : text[a] \in Op
      /\ heap \in [HeapAddr -> Byte] /\ TH_SWITCH \in Nat \ {0}
  BY <1>1, MachineAssumption DEF Init, IsProgram
<1>3. CtxInv
  BY <1>1, <1>2, CtxInitInv
<1>4. ZeroOp \in Op
  BY ZeroOpOp
<1>5. ths[current].active
  BY <1>1 DEF CtxInit
<1>6. TypeOK
  BY <1>2, <1>3, <1>4 DEF Init, TypeOK, CtxInv, Phases
<1> QED
  BY <1>3, <1>5, <1>6 DEF Init, Inv, CtxInv, RunnerIsLive, ExitFlag, HaltsWhenAllExited

(* The clock is a step of the running thread: it moves PC, and may stop it.*)
LEMMA ClockOwn ==
  ASSUME Inv, Clock
  PROVE  OwnStep /\ (wm_state.exit <=> ~ths'[current].active)
<1>1. /\ ths \in [0 .. nb_ths - 1 -> Thread] /\ registers \in RegisterFile
      /\ window \in Stack /\ current \in 0 .. nb_ths - 1 /\ ths[current].active
      /\ wm_state.exit \in BOOLEAN
  BY DEF Inv, TypeOK, CtxTypeOK, Capacity, RunnerIsLive, Clock
<1>2. registers' \in RegisterFile
  <2>1. registers[PC] \in Word
    BY <1>1 DEF RegisterFile, Registers, PC, SPL
  <2>2. Plus(registers[PC], OpLen(op)) \in Word
    BY <2>1, OpLenBound, Words DEF Inv, TypeOK
  <2> QED  BY <1>1, <2>2 DEF Clock, RegisterFile
<1>3. /\ ths' = [ths EXCEPT ![current].active = ~wm_state.exit]
      /\ ths'[current].active = ~wm_state.exit
  <2>1. ths[current].active = TRUE
    BY <1>1 DEF Thread
  <2>2. CASE wm_state.exit
    BY <1>1, <2>2 DEF Clock, Thread
  <2>3. CASE ~wm_state.exit
    BY <1>1, <2>1, <2>3 DEF Clock, Thread
  <2> QED  BY <2>2, <2>3
<1> QED
  BY <1>1, <1>2, <1>3 DEF OwnStep, Clock

(* The scan comes back to the current thread only after all the others.    *)
LEMMA FoundCurrent ==
  ASSUME Inv, Found(current), NEW t \in 0 .. nb_ths - 1, t # current
  PROVE  ~ths[t].active
<1>1. /\ nb_ths \in Nat /\ current \in Nat /\ current < nb_ths
  BY DEF Inv, TypeOK, CtxTypeOK, Capacity
<1>2. PICK d \in 1 .. nb_ths : /\ current = After(d)
                              /\ \A e \in 1 .. d - 1 : ~StopsAt(e)
  BY DEF Found
<1>3. d = nb_ths
  BY <1>1, <1>2 DEF After
<1>4. PICK e \in 1 .. nb_ths - 1 : t = After(e)
  <2> DEFINE e == IF t > current THEN t - current ELSE t - current + nb_ths
  <2>1. e \in 1 .. nb_ths - 1 /\ t = After(e)
    BY <1>1 DEF After
  <2> QED  BY <2>1
<1>5. ~StopsAt(e)
  BY <1>1, <1>2, <1>3, <1>4
<1> QED  BY <1>4, <1>5 DEF StopsAt

(* Every step of the machine keeps the invariant.                          *)
LEMMA NextInv == Inv /\ [Next]_vars => Inv'
<1> SUFFICES ASSUME Inv, [Next]_vars PROVE Inv'
  OBVIOUS
<1>1. /\ TypeOK /\ CtxInv /\ CodeTyped /\ ic \in 0 .. TH_SWITCH - 1 /\ op \in Op
      /\ wm_state \in [pc_set : BOOLEAN, exit : BOOLEAN] /\ phase \in Phases
      /\ TH_SWITCH \in Nat \ {0}
  BY MachineAssumption DEF Inv, TypeOK, CtxInv, CodeTyped
<1>2. CASE Fetch
  <2>1. op' \in Op
    BY <1>1, <1>2, MachineAssumption, DecodedOp DEF Fetch, CodeTyped
  <2>2. CtxInv' /\ CodeTyped' /\ ths' = ths /\ current' = current
    BY <1>1, <1>2, CtxStepInv DEF Fetch, CodeTyped, ctxVars, codeVars
  <2>3. /\ wm_state' \in [pc_set : BOOLEAN, exit : BOOLEAN]
        /\ wm_state'.exit = wm_state.exit /\ phase' = "execute" /\ ic' = ic
    BY <1>1, <1>2 DEF Fetch
  <2>4. ~wm_state.exit /\ ths[current].active
    BY <1>2 DEF Fetch, Inv, ExitFlag, RunnerIsLive
  <2> QED
    BY <1>1, <2>1, <2>2, <2>3, <2>4
    DEF Inv, TypeOK, CtxInv, CodeTyped, Phases, RunnerIsLive, ExitFlag, HaltsWhenAllExited
<1>3. CASE FetchInvalid
  <2>1. PICK how \in {"failed", "undefined"} : Ends(how)
    BY <1>3 DEF FetchInvalid
  <2>2. CtxInv' /\ CodeTyped'
    BY <1>1, <2>1, CtxStepInv DEF Ends, CodeTyped, ctxVars, codeVars
  <2> QED
    BY <1>1, <2>1, <2>2
    DEF Ends, Inv, TypeOK, CtxInv, CodeTyped, Phases, Over, RunnerIsLive, ExitFlag,
        HaltsWhenAllExited
<1>4. CASE Execute
  <2>1. Instruction
    BY <1>4, ExecuteInstruction
  <2>2. CtxInv' /\ CodeTyped' /\ current' = current /\ ths'[current'].active
    BY <2>1, CtxStepInv DEF Instruction
  <2>3. CASE Continued
    BY <1>1, <2>2, <2>3
    DEF Continued, Inv, TypeOK, CtxInv, CodeTyped, Phases, RunnerIsLive, ExitFlag,
        HaltsWhenAllExited
  <2>4. CASE EndedNow
    BY <1>1, <2>2, <2>4
    DEF EndedNow, Inv, TypeOK, CtxInv, CodeTyped, Phases, Over, RunnerIsLive, ExitFlag,
        HaltsWhenAllExited
  <2> QED  BY <2>1, <2>3, <2>4 DEF Instruction
<1>5. CASE Clock
  <2>1. OwnStep /\ (wm_state.exit <=> ~ths'[current].active)
    BY <1>5, ClockOwn
  <2>2. CtxInv' /\ CodeTyped'
    BY <1>1, <1>5, <2>1, CtxStepInv DEF Clock, CodeTyped, codeVars
  <2>3. ic' \in 0 .. TH_SWITCH - 1
    BY <1>1, <1>5 DEF Clock
  <2>4. ZeroOp \in Op
    BY ZeroOpOp
  <2> QED
    BY <1>1, <1>5, <2>1, <2>2, <2>3, <2>4
    DEF Clock, Inv, TypeOK, CtxInv, CodeTyped, Phases, RunnerIsLive, ExitFlag,
        HaltsWhenAllExited
<1>6. CASE SwitchThread
  <2>1. PICK t \in 0 .. nb_ths - 1 : Found(t) /\ t # current /\ SwitchCtx(t)
    BY <1>6 DEF SwitchThread
  <2>2. CtxInv' /\ CodeTyped'
    BY <1>1, <1>6, <2>1, SwitchCtxInv DEF SwitchThread, CodeTyped, codeVars
  <2>3. ths[t].active
    BY <2>1 DEF Found, StopsAt
  <2>4. current' = t /\ ths'[t] = ths[t]
    BY <1>1, <2>1 DEF SwitchCtx, CtxInv, CtxTypeOK, Capacity
  <2>5. /\ wm_state' \in [pc_set : BOOLEAN, exit : BOOLEAN] /\ ~wm_state'.exit
        /\ phase' = "fetch" /\ op' = op /\ ic' = ic
    BY <1>1, <1>6 DEF SwitchThread
  <2> QED
    BY <1>1, <2>2, <2>3, <2>4, <2>5
    DEF Inv, TypeOK, CtxInv, CodeTyped, Phases, RunnerIsLive, ExitFlag, HaltsWhenAllExited
<1>7. CASE KeepThread
  <2>1. CtxInv' /\ CodeTyped' /\ ths' = ths /\ current' = current /\ nb_ths' = nb_ths
    BY <1>1, <1>7, CtxStepInv DEF KeepThread, CodeTyped, ctxVars, codeVars
  <2>2. wm_state.exit <=> ~ths[current].active
    BY <1>7 DEF KeepThread, Inv, ExitFlag
  <2>3. wm_state.exit => \A t \in 0 .. nb_ths - 1 : ~ths[t].active
    BY <1>7, <2>2, FoundCurrent DEF KeepThread, TimeToSwitch
  <2>4. /\ phase' = IF wm_state.exit THEN "halted" ELSE "fetch"
        /\ op' = op /\ ic' = ic /\ wm_state' = wm_state
    BY <1>7 DEF KeepThread
  <2> QED
    BY <1>1, <2>1, <2>2, <2>3, <2>4
    DEF Inv, TypeOK, CtxInv, CodeTyped, Phases, Over, RunnerIsLive, ExitFlag,
        HaltsWhenAllExited
<1>8. CASE UNCHANGED vars
  BY <1>8
  DEF vars, ctxVars, codeVars, Inv, TypeOK, CtxTypeOK, Capacity, RunnerIsLive, ExitFlag,
      HaltsWhenAllExited
<1> QED
  BY <1>2, <1>3, <1>4, <1>5, <1>6, <1>7, <1>8 DEF Next, Ended

LEMMA Invariant == Spec => []Inv
  BY InitInv, NextInv, PTL DEF Spec

(* The machine's state stays well typed.                                   *)
THEOREM Typing == Spec => []TypeOK
<1>1. Inv => TypeOK
  BY DEF Inv
<1> QED  BY <1>1, Invariant, PTL

(* The loop only executes instructions for a thread that has not exited.   *)
THEOREM RunnerLives == Spec => []RunnerIsLive
<1>1. Inv => RunnerIsLive
  BY DEF Inv
<1> QED  BY <1>1, Invariant, PTL

(* The machine returns only once every thread it created has exited.       *)
THEOREM HaltsLast == Spec => []HaltsWhenAllExited
<1>1. Inv => HaltsWhenAllExited
  BY DEF Inv
<1> QED  BY <1>1, Invariant, PTL
-----------------------------------------------------------------------------
(* The scheduler.                                                          *)

(* The scan for the next thread passes over exited threads only.           *)
LEMMA FoundNext ==
  ASSUME Inv, NEW t \in 0 .. nb_ths - 1, Found(t), t # current,
         NEW u \in 0 .. nb_ths - 1, Between(u, current, t)
  PROVE  ~ths[u].active
<1>1. /\ nb_ths \in Nat /\ current \in Nat /\ current < nb_ths
  BY DEF Inv, TypeOK, CtxTypeOK, Capacity
<1>2. PICK d \in 1 .. nb_ths : /\ t = After(d)
                              /\ \A e \in 1 .. d - 1 : ~StopsAt(e)
  BY DEF Found
<1>3. PICK e \in 1 .. d - 1 : u = After(e)
  <2> DEFINE e == IF u > current THEN u - current ELSE u - current + nb_ths
  <2>1. e \in 1 .. d - 1 /\ u = After(e)
    BY <1>1, <1>2 DEF After, Between
  <2> QED  BY <2>1
<1> QED  BY <1>2, <1>3 DEF StopsAt

(* Round robin: a switch passes over no thread that has not exited.        *)
THEOREM RoundRobin == Spec => NoThreadSkipped
<1>1. Inv /\ [Next]_vars =>
        [current' # current =>
            \A t \in 0 .. nb_ths - 1 : Between(t, current, current') => ~ths[t].active]_vars
  <2> SUFFICES ASSUME Inv, Next, current' # current,
                      NEW t \in 0 .. nb_ths - 1, Between(t, current, current')
               PROVE  ~ths[t].active
    OBVIOUS
  <2>1. SwitchThread
    <3>1. ~Fetch /\ ~FetchInvalid /\ ~Clock /\ ~KeepThread /\ ~Ended
      BY DEF Fetch, FetchInvalid, Ends, Clock, KeepThread, Ended, vars, ctxVars
    <3>2. ~Execute
      BY ExecuteInstruction DEF Instruction
    <3> QED  BY <3>1, <3>2 DEF Next
  <2>2. PICK u \in 0 .. nb_ths - 1 : Found(u) /\ u # current /\ SwitchCtx(u)
    BY <2>1 DEF SwitchThread
  <2>3. current' = u
    BY <2>2 DEF SwitchCtx
  <2> QED  BY <2>2, <2>3, FoundNext
<1> QED  BY <1>1, Invariant, PTL DEF Spec, NoThreadSkipped
-----------------------------------------------------------------------------
(* Isolation.                                                              *)

(* Every step of the machine is a step of isolated threads, or none.       *)
LEMMA NextIsolated == Inv /\ [Next]_vars => [Isolated!Next]_(Isolated!vars)
<1> SUFFICES ASSUME Inv, [Next]_vars PROVE [Isolated!Next]_(Isolated!vars)
  OBVIOUS
<1>1. CtxInv
  BY DEF Inv, TypeOK, CtxInv
<1>2. ASSUME UNCHANGED ctxVars PROVE UNCHANGED Isolated!vars
  BY <1>2 DEF ctxVars, Isolated!vars, CtxOf
<1>3. CASE Execute
  <2>1. ths[current].active
    <3>1. phase = "execute"
      BY <1>3 DEF Execute, Executes, ExecMisnamed, ExecScall, ExecLoad, ExecLoada, ExecSave,
             ExecAlu, ExecNot, ExecCompare, ExecJump, ExecJmpTh
    <3> QED  BY <3>1 DEF Inv, RunnerIsLive
  <2>2. UNCHANGED ctxVars \/ OwnStep \/ \E pc \in Word : AddCtx(pc)
    BY <1>3, ExecuteInstruction DEF Instruction
  <2> QED
    BY <1>1, <1>2, <2>1, <2>2, OwnStepIsolated, AddCtxIsolated DEF Isolated!Next
<1>4. CASE Clock
  BY <1>1, <1>4, ClockOwn, OwnStepIsolated DEF Isolated!Next
<1>5. CASE SwitchThread
  <2>1. PICK t \in 0 .. nb_ths - 1 : Found(t) /\ t # current /\ SwitchCtx(t)
    BY <1>5 DEF SwitchThread
  <2>2. ths[t].active
    BY <2>1 DEF Found, StopsAt
  <2> QED  BY <1>1, <2>1, <2>2, SwitchCtxIsolated DEF Isolated!Next
<1>6. CASE Fetch \/ FetchInvalid \/ KeepThread \/ Ended \/ UNCHANGED vars
  <2>1. UNCHANGED ctxVars
    BY <1>6 DEF Fetch, FetchInvalid, Ends, KeepThread, Ended, vars
  <2> QED  BY <1>2, <2>1
<1> QED  BY <1>3, <1>4, <1>5, <1>6 DEF Next

(* Whatever the programs do, wild code included, no thread's PC, low bytes *)
(* of EQ, stack or active flag changes while another runs.                 *)
THEOREM MachineIsolation == Spec => Isolation
<1>1. Init => Isolated!Init
  <2> SUFFICES ASSUME Init PROVE Isolated!Init
    OBVIOUS
  <2>1. PICK p \in Programs : CtxInit(p.entry)
    BY DEF Init
  <2> QED  BY <2>1, MachineAssumption, CtxInitIsolated DEF IsProgram
<1> QED
  BY <1>1, Invariant, NextIsolated, PTL DEF Spec, Isolation, Isolated!Spec

-----------------------------------------------------------------------------
(***************************************************************************)
(* Programs that stay in their text, run by the whole machine.             *)
(***************************************************************************)

TextLeadsOn == \A a \in DOMAIN text : LeadsOn(text, a)

(* PC of a thread, live or saved. *)
PcOf(t) == (IF t = current THEN registers ELSE ths[t].regiters)[PC]
PcsInText == \A t \in 0 .. nb_ths - 1 : ths[t].active => PcOf(t) \in DOMAIN text

(* What is executed is what PC points at, and the clock will move PC to an *)
(* instruction.                                                            *)
Onward == wm_state.pc_set \/ wm_state.exit \/ Plus(registers[PC], OpLen(op)) \in DOMAIN text
AtPc == /\ phase = "execute" => op = Decoded(text[registers[PC]])
        /\ phase = "clock" => Onward

(* The inductive invariant. *)
PcInv == Inv /\ TextLeadsOn /\ PcsInText /\ AtPc

LEMMA PcOfCtx == PcsInText => PcOnInstruction
  BY DEF PcsInText, PcOnInstruction, CtxOf, PcOf

(* The running thread's instruction leads on. *)
LEMMA Running ==
  ASSUME PcInv, phase \in {"fetch", "execute"}
  PROVE  /\ registers[PC] \in DOMAIN text
         /\ LeadsOn(text, registers[PC])
<1>1. current \in 0 .. nb_ths - 1 /\ ths[current].active
  BY DEF PcInv, Inv, TypeOK, CtxTypeOK, Capacity, RunnerIsLive
<1>2. PcOf(current) \in DOMAIN text
  BY <1>1 DEF PcInv, PcsInText
<1>3. registers[PC] \in DOMAIN text
  BY <1>2 DEF PcOf
<1> QED  BY <1>3 DEF PcInv, TextLeadsOn

(* Decoding keeps what LeadsOn looks at: the instruction in execution      *)
(* leads on, too.                                                          *)
LEMMA Decodes ==
  ASSUME PcInv, phase = "execute"
  PROVE  /\ op.code \in AluCodes \cup {"load", "loada", "not"} => op.args[0] # PC
         /\ op.code # "save"
         /\ op.code = "savea" => op.args[0] \in StackAddr
         /\ op.code \in JumpCodes \cup {"jmp_th"} => op.imm
         /\ op.code \in {"jmp", "jeq", "jne", "jmp_th"} => op.args[0] \in DOMAIN text
         /\ op.code = "jre" => Plus(registers[PC], op.args[0]) \in DOMAIN text
         /\ op.code \in {"jmp", "jre"} \/ (op.code = "scall" /\ op.args[0] = 1)
               \/ Plus(registers[PC], OpLen(op)) \in DOMAIN text
<1>1. registers[PC] \in DOMAIN text /\ LeadsOn(text, registers[PC])
  BY Running
<1>2. op = Decoded(text[registers[PC]]) /\ text[registers[PC]] \in Op
  BY <1>1 DEF PcInv, AtPc, Inv, TypeOK
<1>3. /\ op.code = text[registers[PC]].code /\ op.imm = text[registers[PC]].imm
      /\ op.args[0] = text[registers[PC]].args[0]
      /\ OpLen(op) = OpLen(text[registers[PC]])
  BY <1>2, DecodedOp
<1> QED  BY <1>1, <1>3 DEF LeadsOn

(* Steps that move no PC. *)
LEMMA SamePcs ==
  ASSUME PcInv, UNCHANGED <<text, ths, nb_ths, current>>, registers'[PC] = registers[PC]
  PROVE  TextLeadsOn' /\ PcsInText'
<1>1. TextLeadsOn'
  BY DEF PcInv, TextLeadsOn
<1>2. \A t : PcOf(t)' = PcOf(t)
  BY DEF PcOf
<1>3. PcsInText'
  BY <1>2 DEF PcInv, PcsInText
<1> QED  BY <1>1, <1>3

LEMMA GoesOn ==
  ASSUME PcInv, phase = "execute", UNCHANGED <<text, ths, nb_ths, current>>,
         registers'[PC] = registers[PC], Continues(FALSE),
         op.code \notin {"jmp", "jre", "scall"}
  PROVE  TextLeadsOn' /\ PcsInText' /\ AtPc'
<1>1. Plus(registers[PC], OpLen(op)) \in DOMAIN text
  BY Decodes
<1>2. phase' = "clock" /\ op' = op
  BY DEF Continues
<1>3. AtPc'
  BY <1>1, <1>2 DEF AtPc, Onward
<1> QED  BY <1>3, SamePcs

LEMMA WriteRegisterPc ==
  ASSUME PcInv, NEW r, r # PC, NEW v, WriteRegister(r, v)
  PROVE  /\ UNCHANGED <<text, ths, nb_ths, current>>
         /\ registers'[PC] = registers[PC]
<1>1. registers \in RegisterFile /\ PC \in Registers
  BY DEF PcInv, Inv, TypeOK, CtxTypeOK, PC, Registers, SPL
<1>2. registers'[PC] = registers[PC]
  BY <1>1 DEF WriteRegister, RegisterFile
<1> QED  BY <1>2 DEF WriteRegister, codeVars

LEMMA SetRegisterPc ==
  ASSUME PcInv, phase = "execute", NEW r, r # PC, NEW v, SetRegister(r, v),
         op.code \notin {"jmp", "jre", "scall"}
  PROVE  TextLeadsOn' /\ PcsInText' /\ AtPc'
  BY WriteRegisterPc, GoesOn DEF SetRegister

LEMMA EndsPc ==
  ASSUME PcInv, NEW how \in Over, Ends(how)
  PROVE  TextLeadsOn' /\ PcsInText' /\ AtPc'
<1>1. AtPc'
  BY DEF Ends, AtPc, Over
<1> QED  BY <1>1, SamePcs DEF Ends, ctxVars, codeVars

LEMMA ExecutePc ==
  ASSUME PcInv, Execute
  PROVE  TextLeadsOn' /\ PcsInText' /\ AtPc'
<1>1. phase = "execute"
  BY DEF Execute, Executes, ExecMisnamed, ExecScall, ExecLoad, ExecLoada, ExecSave,
         ExecAlu, ExecNot, ExecCompare, ExecJump, ExecJmpTh
<1>2. "failed" \in Over /\ "undefined" \in Over
  BY DEF Over
<1>3. CASE ExecMisnamed
  BY <1>2, <1>3, EndsPc DEF ExecMisnamed
<1>4. CASE ExecScall
  <2>1. /\ phase' = "clock" /\ op' = op /\ UNCHANGED <<ctxVars, codeVars>>
        /\ wm_state'.exit = (wm_state.exit \/ op.args[0] = 1) /\ op.code = "scall"
    BY <1>4 DEF ExecScall, Executes
  <2>2. op.args[0] = 1 \/ Plus(registers[PC], OpLen(op)) \in DOMAIN text
    BY <1>1, <2>1, Decodes
  <2>3. AtPc'
    BY <2>1, <2>2 DEF AtPc, Onward, ctxVars, codeVars
  <2> QED  BY <2>1, <2>3, SamePcs DEF ctxVars, codeVars
<1>5. CASE ExecLoad
  <2>1. op.code = "load" /\ op.args[0] # PC
    BY <1>1, <1>5, Decodes DEF ExecLoad, Executes
  <2> QED  BY <1>1, <1>5, <2>1, SetRegisterPc DEF ExecLoad
<1>6. CASE ExecLoada
  <2>1. op.code = "loada" /\ op.args[0] # PC
    BY <1>1, <1>6, Decodes DEF ExecLoada, Executes
  <2>2. CASE Ends("failed")
    BY <1>2, <2>2, EndsPc
  <2>3. CASE /\ WriteRegister(op.args[0], SignExtend(Ram(op.args[1])))
             /\ phase' = "clock" /\ UNCHANGED op
    <3>1. UNCHANGED <<text, ths, nb_ths, current>> /\ registers'[PC] = registers[PC]
      BY <2>1, <2>3, WriteRegisterPc
    <3>2. Plus(registers[PC], OpLen(op)) \in DOMAIN text
      BY <1>1, <2>1, Decodes
    <3>3. AtPc'
      BY <2>3, <3>1, <3>2 DEF AtPc, Onward
    <3> QED  BY <3>1, <3>3, SamePcs
  <2> QED  BY <1>6, <2>2, <2>3 DEF ExecLoada
<1>7. CASE ExecSave
  <2>1. op.code = "savea" /\ op.args[0] \in StackAddr
    BY <1>1, <1>7, Decodes DEF ExecSave, Executes
  <2>2. CASE Ends("failed") \/ Ends("undefined")
    BY <1>2, <2>2, EndsPc
  <2>3. ASSUME NEW v, Store(op.args[0], v)
        PROVE  TextLeadsOn' /\ PcsInText' /\ AtPc'
    <3>1. op.args[0] \notin HeapAddr
      BY <2>1 DEF HeapAddr
    <3>2. UNCHANGED <<text, ths, nb_ths, current, registers>> /\ Continues(FALSE)
      BY <2>3, <3>1 DEF Store, codeVars
    <3> QED  BY <1>1, <2>1, <3>2, GoesOn
  <2> QED  BY <1>7, <2>1, <2>2, <2>3 DEF ExecSave
<1>8. CASE ExecAlu
  <2>1. op.code \in AluCodes /\ op.args[0] # PC
    BY <1>1, <1>8, Decodes DEF ExecAlu, Executes
  <2>2. op.code \notin {"jmp", "jre", "scall"}
    BY <2>1 DEF AluCodes
  <2> QED  BY <1>1, <1>2, <1>8, <2>1, <2>2, SetRegisterPc, EndsPc DEF ExecAlu
<1>9. CASE ExecNot
  <2>1. op.code = "not" /\ op.args[0] # PC
    BY <1>1, <1>9, Decodes DEF ExecNot, Executes
  <2> QED  BY <1>1, <1>9, <2>1, SetRegisterPc DEF ExecNot
<1>10. CASE ExecCompare
  <2>1. op.code \in CompareCodes /\ EQ # PC
    BY <1>10 DEF ExecCompare, Executes, EQ, PC
  <2>2. op.code \notin {"jmp", "jre", "scall"}
    BY <2>1 DEF CompareCodes
  <2>3. PICK v : SetRegister(EQ, v)
    BY <1>10 DEF ExecCompare
  <2> QED  BY <1>1, <2>1, <2>2, <2>3, SetRegisterPc
<1>11. CASE ExecJump
  <2>1. op.code \in JumpCodes /\ op.imm
    BY <1>1, <1>11, Decodes DEF ExecJump, Executes
  <2>2. CASE ~Taken /\ Continues(FALSE) /\ UNCHANGED <<ctxVars, codeVars, ic>>
    <3>1. op.code \in {"jeq", "jne"}
      BY <2>1, <2>2 DEF Taken, JumpCodes
    <3> QED  BY <1>1, <2>2, <3>1, GoesOn DEF ctxVars, codeVars
  <2>3. CASE Ends("failed")
    BY <1>2, <2>3, EndsPc
  <2>4. ASSUME NEW v \in Operands(0), registers' = [registers EXCEPT ![PC] = Target(v)],
               Continues(TRUE),
               UNCHANGED <<ths, nb_ths, allocated_ths, current, window, codeVars, ic>>
        PROVE  TextLeadsOn' /\ PcsInText' /\ AtPc'
    <3>1. Target(v) \in DOMAIN text
      <4>1. v = op.args[0]
        BY <2>1 DEF Operands
      <4> QED  BY <1>1, <2>1, <4>1, Decodes DEF Target, JumpCodes
    <3>2. registers \in RegisterFile /\ PC \in Registers
      BY DEF PcInv, Inv, TypeOK, CtxTypeOK, PC, Registers, SPL
    <3>3. registers'[PC] = Target(v) /\ text' = text
      BY <2>4, <3>2 DEF RegisterFile, codeVars
    <3>4. TextLeadsOn'
      BY <3>3 DEF PcInv, TextLeadsOn
    <3>5. PcsInText'
      <4>1. \A t : PcOf(t)' = IF t = current THEN Target(v) ELSE PcOf(t)
        BY <2>4, <3>3 DEF PcOf
      <4> QED  BY <2>4, <3>1, <3>3, <4>1 DEF PcInv, PcsInText
    <3>6. phase' = "clock" /\ wm_state'.pc_set
      <4>1. wm_state \in [pc_set : BOOLEAN, exit : BOOLEAN]
        BY DEF PcInv, Inv, TypeOK
      <4> QED  BY <2>4, <4>1 DEF Continues
    <3> QED  BY <3>4, <3>5, <3>6 DEF AtPc, Onward
  <2> QED  BY <1>11, <2>2, <2>3, <2>4 DEF ExecJump
<1>12. CASE ExecJmpTh
  <2>1. op.code = "jmp_th" /\ op.imm /\ op.args[0] \in DOMAIN text
    BY <1>1, <1>12, Decodes DEF ExecJmpTh, Executes
  <2>2. CASE Ends("failed")
    BY <1>2, <2>2, EndsPc
  <2>3. CASE AddCtx(op.args[0]) /\ Continues(FALSE) /\ UNCHANGED codeVars
    <3>1. /\ text' = text /\ registers' = registers
          /\ current' = current /\ nb_ths' = nb_ths + 1 /\ nb_ths \in Nat
          /\ current \in 0 .. nb_ths - 1
      BY <2>1, <2>3 DEF codeVars, AddCtx, PcInv, Inv, TypeOK, CtxTypeOK, Capacity
    <3>2. PICK junk \in Stack :
             ths' = [t \in 0 .. nb_ths |->
                       IF t = nb_ths THEN [regiters |-> NewRegisters(op.args[0]),
                                           stack |-> junk, active |-> TRUE]
                       ELSE ths[t]]
      BY <2>3, <3>1 DEF AddCtx
    <3>3. NewRegisters(op.args[0])[PC] = op.args[0]
      BY DEF NewRegisters, Registers, PC, SPL
    <3>4. ASSUME NEW t \in 0 .. nb_ths' - 1, ths'[t].active PROVE PcOf(t)' \in DOMAIN text
      <4>1. CASE t = nb_ths
        <5>1. ths'[t].regiters = NewRegisters(op.args[0]) /\ t # current'
          BY <3>1, <3>2, <4>1
        <5> QED  BY <2>1, <3>3, <5>1 DEF PcOf
      <4>2. CASE t # nb_ths
        <5>1. t \in 0 .. nb_ths - 1 /\ ths'[t] = ths[t]
          BY <3>1, <3>2, <4>2
        <5>2. PcOf(t)' = PcOf(t)
          BY <3>1, <5>1 DEF PcOf
        <5> QED  BY <3>4, <5>1, <5>2 DEF PcInv, PcsInText
      <4> QED  BY <4>1, <4>2
    <3>5. PcsInText' /\ TextLeadsOn'
      BY <3>1, <3>4 DEF PcsInText, PcInv, TextLeadsOn
    <3>6. Plus(registers[PC], OpLen(op)) \in DOMAIN text
      BY <1>1, <2>1, Decodes
    <3>7. AtPc'
      BY <2>3, <3>1, <3>6 DEF AtPc, Onward, Continues
    <3> QED  BY <3>5, <3>7
  <2>4. Operands(0) = {op.args[0]}
    BY <2>1 DEF Operands
  <2> QED  BY <1>12, <2>2, <2>3, <2>4 DEF ExecJmpTh
<1> QED
  BY <1>3, <1>4, <1>5, <1>6, <1>7, <1>8, <1>9, <1>10, <1>11, <1>12 DEF Execute

-----------------------------------------------------------------------------
(* The clock moves PC on for a thread that goes on. *)
LEMMA ClockPc ==
  ASSUME PcInv, Clock
  PROVE  TextLeadsOn' /\ PcsInText' /\ AtPc'
<1>1. /\ text' = text /\ current' = current /\ nb_ths' = nb_ths /\ phase' = "schedule"
      /\ registers' = IF wm_state.pc_set THEN registers
                      ELSE [registers EXCEPT ![PC] = Plus(@, OpLen(op))]
      /\ ths' = IF wm_state.exit THEN [ths EXCEPT ![current].active = FALSE] ELSE ths
      /\ phase = "clock"
  BY DEF Clock, codeVars
<1>2. /\ registers \in RegisterFile /\ PC \in Registers
      /\ ths \in [0 .. nb_ths - 1 -> Thread] /\ current \in 0 .. nb_ths - 1
  BY DEF PcInv, Inv, TypeOK, CtxTypeOK, Capacity, PC, Registers, SPL
<1>3. Onward
  BY <1>1 DEF PcInv, AtPc
<1>4. ASSUME NEW t \in 0 .. nb_ths - 1, ths'[t].active PROVE PcOf(t)' \in DOMAIN text
  <2>1. CASE t = current
    <3>1. ~wm_state.exit /\ ths[t].active
      BY <1>1, <1>2, <1>4, <2>1 DEF Thread
    <3>2. PcOf(t) \in DOMAIN text /\ PcOf(t) = registers[PC] /\ PcOf(t)' = registers'[PC]
      BY <1>1, <2>1, <3>1 DEF PcInv, PcsInText, PcOf
    <3>3. CASE wm_state.pc_set
      BY <1>1, <3>2, <3>3
    <3>4. CASE ~wm_state.pc_set
      <4>1. registers'[PC] = Plus(registers[PC], OpLen(op))
        BY <1>1, <1>2, <3>4 DEF RegisterFile
      <4> QED  BY <1>3, <3>1, <3>2, <3>4, <4>1 DEF Onward
    <3> QED  BY <3>3, <3>4
  <2>2. CASE t # current
    <3>1. ths'[t] = ths[t]
      BY <1>1, <1>2, <2>2
    <3>2. PcOf(t)' = PcOf(t) /\ ths[t].active
      BY <1>1, <1>4, <2>2, <3>1 DEF PcOf
    <3> QED  BY <3>2 DEF PcInv, PcsInText
  <2> QED  BY <2>1, <2>2
<1> QED  BY <1>1, <1>4 DEF PcInv, PcsInText, TextLeadsOn, AtPc

(* A switch stores one PC and brings back another. *)
LEMMA SwitchPc ==
  ASSUME PcInv, SwitchThread
  PROVE  TextLeadsOn' /\ PcsInText' /\ AtPc'
<1>1. PICK n \in 0 .. nb_ths - 1 : n # current /\ SwitchCtx(n)
  BY DEF SwitchThread
<1>2. text' = text /\ phase' = "fetch"
  BY DEF SwitchThread, codeVars
<1>3. /\ ths \in [0 .. nb_ths - 1 -> Thread] /\ current \in 0 .. nb_ths - 1
      /\ registers \in RegisterFile
      /\ \A t \in 0 .. nb_ths - 1 : ths[t].regiters \in RegisterFile
  BY DEF PcInv, Inv, TypeOK, CtxTypeOK, Capacity, Thread
<1>4. /\ current' = n /\ nb_ths' = nb_ths
      /\ \A t \in 0 .. nb_ths - 1 : ths'[t].active = ths[t].active
      /\ \A t \in 0 .. nb_ths - 1 :
            ths'[t].regiters = IF t = current THEN CopyRegisters(ths[current].regiters, registers)
                               ELSE ths[t].regiters
      /\ registers' = CopyRegisters(registers, ths[n].regiters)
  BY <1>1, <1>3 DEF SwitchCtx, Thread
<1>5. /\ CopyRegisters(ths[current].regiters, registers)[PC] = registers[PC]
      /\ registers'[PC] = ths[n].regiters[PC]
  BY <1>3, <1>4, CopyRegistersFile
<1>6. \A t \in 0 .. nb_ths - 1 : PcOf(t)' = PcOf(t)
  BY <1>1, <1>4, <1>5 DEF PcOf
<1>7. PcsInText'
  BY <1>2, <1>4, <1>6 DEF PcInv, PcsInText
<1> QED  BY <1>2, <1>7 DEF PcInv, TextLeadsOn, AtPc

LEMMA InitPc == (\A p \in Programs : StaysInText(p)) /\ Init => PcInv
<1> SUFFICES ASSUME \A p \in Programs : StaysInText(p), Init PROVE PcInv
  OBVIOUS
<1>1. PICK p \in Programs : text = p.text /\ CtxInit(p.entry)
  BY DEF Init
<1>2. TextLeadsOn /\ p.entry \in DOMAIN text
  BY <1>1 DEF TextLeadsOn, StaysInText
<1>3. registers[PC] = p.entry
  BY <1>1 DEF CtxInit, NewRegisters, Registers, PC, SPL
<1>4. PcsInText
  BY <1>1, <1>2, <1>3 DEF CtxInit, PcsInText, PcOf
<1>5. AtPc
  BY DEF Init, AtPc
<1> QED  BY <1>2, <1>4, <1>5, InitInv DEF PcInv

LEMMA NextPc == PcInv /\ [Next]_vars => PcInv'
<1> SUFFICES ASSUME PcInv, [Next]_vars PROVE TextLeadsOn' /\ PcsInText' /\ AtPc'
  BY NextInv DEF PcInv
<1>1. CASE Fetch
  <2>1. /\ registers[PC] \in DOMAIN text /\ op' = Decoded(text[registers[PC]])
        /\ phase' = "execute" /\ UNCHANGED <<ctxVars, codeVars>>
    BY <1>1, Running DEF Fetch
  <2>2. AtPc'
    BY <2>1 DEF AtPc, ctxVars, codeVars
  <2> QED  BY <2>1, <2>2, SamePcs DEF ctxVars, codeVars
<1>2. CASE FetchInvalid
  BY <1>2, Running DEF FetchInvalid
<1>3. CASE Execute
  BY <1>3, ExecutePc
<1>4. CASE Clock
  BY <1>4, ClockPc
<1>5. CASE SwitchThread
  BY <1>5, SwitchPc
<1>6. CASE KeepThread
  BY <1>6, SamePcs DEF KeepThread, ctxVars, codeVars, AtPc
<1>7. CASE UNCHANGED vars
  <2>1. AtPc'
    BY <1>7 DEF vars, ctxVars, codeVars, PcInv, AtPc, Onward
  <2> QED  BY <1>7, <2>1, SamePcs DEF vars, ctxVars, codeVars
<1> QED
  BY <1>1, <1>2, <1>3, <1>4, <1>5, <1>6, <1>7 DEF Next, Ended

(* If every program stays in its text, then whatever threads it creates    *)
(* and however they are switched, none of them leaves it either.           *)
THEOREM ThreadsStayInText ==
  ASSUME \A p \in Programs : StaysInText(p)
  PROVE  Spec => []PcOnInstruction
<1>1. Init => PcInv
  BY InitPc
<1>2. PcInv => PcOnInstruction
  BY PcOfCtx DEF PcInv
<1> QED  BY <1>1, <1>2, NextPc, PTL DEF Spec

LEMMA NextJump ==
  ASSUME PcInv, JumpsReach, [Next]_vars
  PROVE  JumpsReach'
<1> SUFFICES ASSUME phase' = "failed" PROVE op'.code \notin JumpCodes
  BY DEF JumpsReach
<1>1. CASE FetchInvalid
  BY <1>1, Running DEF FetchInvalid
<1>2. CASE ExecJump
  <2>1. phase = "execute" /\ op.code \in JumpCodes /\ op.imm
    BY <1>2, Decodes DEF ExecJump, Executes
  <2>2. Operands(0) = {op.args[0]} /\ op.args[0] \in Word
    BY <2>1, OperandWords DEF Operands, PcInv, Inv
  <2>3. CASE \E v \in Operands(0) : Taken /\ OutOfRange(Target(v)) /\ Ends("failed")
    <3>1. Target(op.args[0]) \in DOMAIN text
      BY <2>1, Decodes DEF Target, JumpCodes
    <3>2. Target(op.args[0]) \in 0 .. RamSize - 1
      BY <3>1 DEF PcInv, Inv, TypeOK, HeapAddr
    <3>3. OutOfRange(Target(op.args[0]))
      BY <2>2, <2>3
    <3> QED  BY <3>2, <3>3, HeaderAssumption DEF OutOfRange
  <2> QED  BY <1>2, <2>3 DEF ExecJump, Continues
<1>3. CASE Execute /\ ~ExecJump
  <2>1. op' = op
    BY <1>3 DEF Execute, ExecMisnamed, ExecScall, ExecLoad, ExecLoada, ExecSave, ExecAlu,
           ExecNot, ExecCompare, ExecJmpTh, Ends, SetRegister, Store, Continues
  <2>2. ~ExecMisnamed
    BY DEF ExecMisnamed, Ends
  <2>3. op.code \in {"scall", "load", "loada", "save", "savea", "not", "jmp_th"}
                     \cup AluCodes \cup CompareCodes
    BY <1>3, <2>2 DEF Execute, Executes, ExecScall, ExecLoad, ExecLoada, ExecSave, ExecAlu,
           ExecNot, ExecCompare, ExecJmpTh
  <2> QED  BY <2>1, <2>3 DEF AluCodes, CompareCodes, JumpCodes
<1>4. CASE UNCHANGED vars
  BY <1>4 DEF vars, JumpsReach
<1> QED
  BY <1>1, <1>2, <1>3, <1>4
  DEF Next, Ended, Fetch, Clock, SwitchThread, KeepThread

(* If every program stays in its text, no jump of one is out of range.     *)
THEOREM JumpsReachText ==
  ASSUME \A p \in Programs : StaysInText(p)
  PROVE  Spec => []JumpsReach
<1>1. Init => PcInv /\ JumpsReach
  BY InitPc DEF Init, JumpsReach
<1>2. PcInv /\ JumpsReach /\ [Next]_vars => PcInv' /\ JumpsReach'
  BY NextPc, NextJump
<1> QED  BY <1>1, <1>2, PTL DEF Spec
=============================================================================
