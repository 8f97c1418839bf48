--------------------------- MODULE WiredMachine ---------------------------
(***************************************************************************)
(* The virtual machine: main's loop in src/src/wired_machine.c, which      *)
(* fetches, decodes and executes one instruction, advances the clock and   *)
(* lets the scheduler choose a thread, with the instructions of            *)
(* src/src/exec_instr.c and the thread contexts of ThreadCtx.              *)
(*                                                                         *)
(* Memory.  The machine has one array of RamSize bytes.  Its part under    *)
(* the stack is "window" (ThreadCtx), the rest is "heap".  "text" says     *)
(* which decoded instructions still lie intact in it: a store into one     *)
(* removes it.  Bytes that are no intact instruction decode to anything:   *)
(* to one of WildOps, or to an invalid one.                                *)
(***************************************************************************)
EXTENDS ThreadCtx

CONSTANTS
    Programs,     \* the loaded programs: records of text and entry
    Memories,     \* what the memory outside the stack may hold at the start
    WildOps,      \* bound: what bytes that are no intact instruction decode to
    TH_SWITCH,    \* instructions between two switches
    Alu(_, _, _)  \* result of an arithmetic or bitwise instruction (see Alu)

ASSUME MachineAssumption ==
    /\ \A p \in Programs : IsProgram(p)
    /\ Memories \subseteq [HeapAddr -> Byte]
    /\ WildOps \subseteq Op
    /\ TH_SWITCH \in Nat \ {0} /\ WordMod % TH_SWITCH = 0
    /\ \A c \in AluCodes, x, y \in Word :
          (c = "div" => y # 0) => Alu(c, x, y) \in Word

VARIABLES
    text,      \* address -> the intact instruction that starts there
    heap,      \* the memory outside the stack window
    op,        \* the instruction in execution
    phase,     \* what the loop does next
    wm_state,  \* pc_set: the instruction set PC; exit: the thread exits
    ic         \* the instruction counter IC, modulo TH_SWITCH

codeVars == <<text, heap>>
vars == <<ctxVars, codeVars, op, phase, wm_state, ic>>

(* main returned, CCB_ERROR ended the process, or the C code did something *)
(* undefined: no step is modelled after that.                              *)
Over == {"halted", "failed", "undefined"}
Phases == {"fetch", "execute", "clock", "schedule"} \cup Over

(* vm_op_t op = {0} *)
ZeroOp == [code |-> "scall", imm |-> TRUE, size |-> "inst_128",
           args |-> [k \in 0 .. 2 |-> 0]]

TypeOK ==
    /\ CtxTypeOK
    /\ DOMAIN text \subseteq HeapAddr
    /\ \A a \in DOMAIN text : text[a] \in Op
    /\ heap \in [HeapAddr -> Byte]
    /\ op \in Op
    /\ phase \in Phases
    /\ wm_state \in [pc_set : BOOLEAN, exit : BOOLEAN]
    /\ ic \in 0 .. TH_SWITCH - 1

Init ==
    /\ \E p \in Programs : text = p.text /\ CtxInit(p.entry)
    /\ heap \in Memories
    /\ op = ZeroOp
    /\ phase = "fetch"
    /\ wm_state = [pc_set |-> FALSE, exit |-> FALSE]
    /\ ic = 0

-----------------------------------------------------------------------------
(* The process ends, with a message or without. *)
Ends(how) == phase' = how /\ UNCHANGED <<ctxVars, codeVars, op, wm_state, ic>>

(* Fetch and decode: the eight bytes at PC give the opcode and the size,   *)
(* which says how many arguments are read.                                 *)
Fetch ==
    /\ phase = "fetch"
    /\ \/ /\ registers[PC] \in DOMAIN text
          /\ op' = Decoded(text[registers[PC]])
       \/ /\ registers[PC] \notin DOMAIN text
          /\ op' \in { Decoded(o) : o \in WildOps }
    /\ wm_state' = [wm_state EXCEPT !.pc_set = FALSE]
    /\ phase' = "execute"
    /\ UNCHANGED <<ctxVars, codeVars, ic>>

(* An invalid size or opcode; where the longest instruction reaches beyond *)
(* the memory, anything may happen.                                        *)
FetchInvalid ==
    /\ phase = "fetch"
    /\ registers[PC] \notin DOMAIN text
    /\ \/ Ends("failed")
       \/ registers[PC] + 4 * WordSize > RamSize /\ Ends("undefined")

-----------------------------------------------------------------------------
(* Instructions. *)

Executes(codes) == phase = "execute" /\ op.code \in codes

(* Fault: a jump does not tell the clock that it set PC. *)
ContinuesUnset(set) == /\ phase' = "clock"
                       /\ wm_state' = [wm_state EXCEPT !.pc_set = FALSE]
                       /\ UNCHANGED op

(* An instruction that goes on to the clock, without or with PC set. *)
Continues(set) == /\ phase' = "clock"
                  /\ wm_state' = [wm_state EXCEPT !.pc_set = set]
                  /\ UNCHANGED op

(* What the register r may hold: of the counter only ic is known, and an   *)
(* instruction that names it twice may see two values of it here.  Beyond  *)
(* the registers there is none.                                            *)
Shows(r) == IF r \in Registers THEN {registers[r]}
            ELSE { w \in Word : r = IC /\ w % TH_SWITCH = ic }

(* The value of a last argument: the argument itself or its register. *)
Operands(k) == IF op.imm THEN {op.args[k]} ELSE Shows(op.args[k])

WriteRegister(r, v) ==
    /\ \/ r \in Registers /\ registers' = [registers EXCEPT ![r] = v] /\ UNCHANGED ic
       \/ r = IC /\ ic' = v % TH_SWITCH /\ UNCHANGED registers
    /\ UNCHANGED <<ths, nb_ths, allocated_ths, current, window, codeVars>>

SetRegister(r, v) == WriteRegister(r, v) /\ Continues(FALSE)

OutOfRange(addr) == addr > RamSize - 1

Taken == /\ op.code = "jeq" => registers[EQ] # 0
         /\ op.code = "jne" => registers[EQ] = 0

(* The instruction indexes the registers with an argument that numbers     *)
(* none of them; not if it reports an error first, or does not jump.       *)
Misnamed ==
    \E k \in RegisterArgs(op) :
        /\ op.args[k] \notin Indexed
        /\ op.code = "loada" => ~OutOfRange(op.args[1])
        /\ op.code \in {"save", "savea"} => ~OutOfRange(op.args[0])
        /\ op.code \in JumpCodes => Taken
        /\ op.code = "div" /\ k # 2 => Operands(2) # {0}

ExecMisnamed == phase = "execute" /\ Misnamed /\ Ends("undefined")

(* exec_scall: 1 exits; 0, 2 (print) and unknown numbers change no state.  *)
ExecScall ==
    /\ Executes({"scall"})
    /\ phase' = "clock"
    /\ wm_state' = [pc_set |-> FALSE, exit |-> wm_state.exit \/ op.args[0] = 1]
    /\ UNCHANGED <<ctxVars, codeVars, op, ic>>

(* exec_load, exec_loadi *)
ExecLoad == Executes({"load"}) /\ \E v \in Operands(1) : SetRegister(op.args[0], v)

(* A char is signed: its top bit fills the word. *)
SignExtend(b) == IF 2 * b >= ByteMod THEN b + WordMod - ByteMod ELSE b

Ram(a) == IF a \in StackAddr THEN window[a - StackBase] ELSE heap[a]

(* exec_loada: unlike the others it clears exit and leaves pc_set. *)
ExecLoada ==
    /\ Executes({"loada"})
    /\ \/ OutOfRange(op.args[1]) /\ Ends("failed")
       \/ /\ ~OutOfRange(op.args[1])
          /\ WriteRegister(op.args[0], SignExtend(Ram(op.args[1])))
          /\ phase' = "clock"
          /\ wm_state' = [wm_state EXCEPT !.exit = FALSE]
          /\ UNCHANGED op

(* A store in the memory.  One into the heap destroys the instruction it   *)
(* hits.                                                                   *)
Covers(a, addr) == a <= addr /\ addr < a + OpLen(text[a])
Store(addr, v) ==
    /\ \/ /\ addr \in StackAddr
          /\ window' = [window EXCEPT ![addr - StackBase] = v % ByteMod]
          /\ UNCHANGED codeVars
       \/ /\ addr \in HeapAddr
          /\ heap' = [heap EXCEPT ![addr] = v % ByteMod]
          /\ text' = [a \in { b \in DOMAIN text : ~Covers(b, addr) } |-> text[a]]
          /\ UNCHANGED window
    /\ Continues(FALSE)
    /\ UNCHANGED <<ths, nb_ths, allocated_ths, current, registers, ic>>

(* exec_save, exec_savei, exec_savea, exec_saveai.  All four compare the   *)
(* first argument with the size of the memory: the address in the last     *)
(* two, but the number of the register that holds it in the first two.     *)
ExecSave ==
    /\ Executes({"save", "savea"})
    /\ \/ OutOfRange(op.args[0]) /\ Ends("failed")
       \/ /\ ~OutOfRange(op.args[0])
          /\ \E addr \in IF op.code = "save" THEN Shows(op.args[0]) ELSE {op.args[0]},
                v \in Operands(1) :
                \/ ~OutOfRange(addr) /\ Store(addr, v)
                \/ OutOfRange(addr) /\ Ends("undefined")

(* exec_add .. exec_xori *)
ExecAlu ==
    /\ Executes(AluCodes)
    /\ \E y \in Operands(2) :
          \/ op.code = "div" /\ y = 0 /\ Ends("failed")
          \/ /\ op.code = "div" => y # 0
             /\ \E x \in Shows(op.args[1]) : SetRegister(op.args[0], Alu(op.code, x, y))

(* exec_not, exec_noti *)
ExecNot == Executes({"not"}) /\ \E v \in Operands(1) : SetRegister(op.args[0], WordMod - 1 - v)

Compare(code, x, y) ==
    CASE code = "eq"  -> x = y  [] code = "neq" -> x # y
      [] code = "gt"  -> x > y  [] code = "gte" -> x >= y
      [] code = "lt"  -> x < y  [] code = "lte" -> x <= y

(* exec_neqi takes its value for a register number; beyond the registers   *)
(* it reads whatever is there.                                             *)
NeqiOperands == IF op.args[1] \in Indexed THEN Shows(op.args[1]) ELSE Word

(* exec_eq .. exec_ltei *)
ExecCompare ==
    /\ Executes(CompareCodes)
    /\ \E x \in Shows(op.args[0]),
          y \in IF op.code = "neq" /\ op.imm THEN NeqiOperands ELSE Operands(1) :
          SetRegister(EQ, IF Compare(op.code, x, y) THEN 1 ELSE 0)

(* Fault: the sum of a relative jump does not wrap around. *)
TargetUnbounded(v) == IF op.code = "jre" THEN PlusUnbounded(registers[PC], v) ELSE v

(* exec_jre .. exec_jmpi *)
Target(v) == IF op.code = "jre" THEN Plus(registers[PC], v) ELSE v
ExecJump ==
    /\ Executes(JumpCodes)
    /\ \/ ~Taken /\ Continues(FALSE) /\ UNCHANGED <<ctxVars, codeVars, ic>>
       \/ \E v \in Operands(0) : Taken /\ OutOfRange(Target(v)) /\ Ends("failed")
       \/ \E v \in Operands(0) :
            /\ Taken /\ ~OutOfRange(Target(v))
            /\ registers' = [registers EXCEPT ![PC] = Target(v)]
            /\ Continues(TRUE)
            /\ UNCHANGED <<ths, nb_ths, allocated_ths, current, window, codeVars, ic>>

(* exec_jmpth, exec_jmpthi; the host has no room for one more thread than  *)
(* MaxThreads, and "Can't allocate threads" ends the process.              *)
ExecJmpTh ==
    /\ Executes({"jmp_th"})
    /\ \E addr \in Operands(0) :
          \/ (OutOfRange(addr) \/ nb_ths = MaxThreads) /\ Ends("failed")
          \/ /\ ~OutOfRange(addr)
             /\ AddCtx(addr)
             /\ Continues(FALSE)
             /\ UNCHANGED <<codeVars, ic>>

Execute == \/ ExecMisnamed \/ ExecScall \/ ExecLoad \/ ExecLoada \/ ExecSave
           \/ ExecAlu \/ ExecNot \/ ExecCompare \/ ExecJump \/ ExecJmpTh

-----------------------------------------------------------------------------
(* Clock and scheduler. *)

(* The clock counts the instruction, moves PC past it unless it set PC,    *)
(* and marks the thread inactive if it exits.                              *)
Clock ==
    /\ phase = "clock"
    /\ ic' = IF ic + 1 = TH_SWITCH THEN 0 ELSE ic + 1
    /\ registers' = IF wm_state.pc_set THEN registers
                    ELSE [registers EXCEPT ![PC] = Plus(@, OpLen(op))]
    /\ ths' = IF wm_state.exit THEN [ths EXCEPT ![current].active = FALSE] ELSE ths
    /\ op' = ZeroOp
    /\ phase' = "schedule"
    /\ UNCHANGED <<nb_ths, allocated_ths, current, window, codeVars, wm_state>>

(* The thread d places after the current one, around the table. *)
After(d) == IF current + d < nb_ths THEN current + d ELSE current + d - nb_ths

(* Fault: the scan stops at any thread, active or not. *)
StopsAnywhere(d) == TRUE

(* The scheduler's scan stops at the first active thread after the current *)
(* one, or back at the current one.                                        *)
StopsAt(d) == ths[After(d)].active \/ After(d) = current

(* Faults: the scan takes any active thread, or the one of lowest number.  *)
FoundAny(t) == \E d \in 1 .. nb_ths : t = After(d) /\ StopsAt(d)
FoundLowest(t) ==
    /\ \E d \in 1 .. nb_ths : t = After(d) /\ StopsAt(d)
    /\ \A u \in 0 .. nb_ths - 1 : (u < t \/ t = current) /\ ths[u].active => u = current

Found(t) == \E d \in 1 .. nb_ths :
                /\ t = After(d) /\ StopsAt(d)
                /\ \A e \in 1 .. d - 1 : ~StopsAt(e)

(* Fault: a thread keeps the machine until it exits. *)
TimeToSwitchOnExit == wm_state.exit

TimeToSwitch == ic = 0 \/ wm_state.exit

(* Another thread is found: it takes over, and the loop goes on. *)
SwitchThread ==
    /\ phase = "schedule" /\ TimeToSwitch
    /\ \E t \in 0 .. nb_ths - 1 : Found(t) /\ t # current /\ SwitchCtx(t)
    /\ wm_state' = [wm_state EXCEPT !.exit = FALSE]
    /\ phase' = "fetch"
    /\ UNCHANGED <<codeVars, op, ic>>

(* Faults: one thread's exit ends the loop; the last one's does not.       *)
KeepOrHaltOnExit ==
    /\ phase = "schedule" /\ (wm_state.exit \/ (TimeToSwitch => Found(current)))
    /\ phase' = IF wm_state.exit THEN "halted" ELSE "fetch"
    /\ UNCHANGED <<ctxVars, codeVars, op, wm_state, ic>>
KeepNeverHalts ==
    /\ phase = "schedule" /\ (TimeToSwitch => Found(current))
    /\ phase' = "fetch"
    /\ UNCHANGED <<ctxVars, codeVars, op, wm_state, ic>>

(* No switch is due or no other thread is active: the current one goes on, *)
(* or the loop ends if it exited.                                          *)
KeepThread ==
    /\ phase = "schedule" /\ (TimeToSwitch => Found(current))
    /\ phase' = IF wm_state.exit THEN "halted" ELSE "fetch"
    /\ UNCHANGED <<ctxVars, codeVars, op, wm_state, ic>>

(* The process has ended. *)
Ended == phase \in Over /\ UNCHANGED vars

Next == Fetch \/ FetchInvalid \/ Execute \/ Clock \/ SwitchThread \/ KeepThread \/ Ended

(* One thread of the host runs the loop, which never waits. *)
Spec == Init /\ [][Next]_vars /\ WF_vars(Next)

-----------------------------------------------------------------------------
(* An instruction is only executed for a thread that has not exited.       *)
RunnerIsLive == phase \in {"fetch", "execute", "clock"} => ths[current].active

(* The machine returns only once every thread it created has exited.       *)
HaltsWhenAllExited ==
    phase = "halted" => \A t \in 0 .. nb_ths - 1 : ~ths[t].active

(* Round robin: the scheduler passes over no thread that has not exited.   *)
(* Going around the table from the thread that is suspended to the one     *)
(* that takes over, all threads in between have.                           *)
Between(t, old, new) == IF old < new THEN old < t /\ t < new ELSE t > old \/ t < new
NoThreadSkipped ==
    [][current' # current =>
          \A t \in 0 .. nb_ths - 1 :
              Between(t, current, current') => ~ths[t].active]_vars

(* The instruction at an address writes neither PC nor the text and leads  *)
(* to other instructions only: where it jumps, where a thread it creates   *)
(* begins, and, unless it always jumps or exits, right behind it.          *)
LeadsOn(txt, a) ==
    LET o == txt[a]
    IN  /\ o.code \in AluCodes \cup {"load", "loada", "not"} => o.args[0] # PC
        /\ o.code # "save"
        /\ o.code = "savea" => o.args[0] \in StackAddr
        /\ o.code \in JumpCodes \cup {"jmp_th"} => o.imm
        /\ o.code \in {"jmp", "jeq", "jne", "jmp_th"} => o.args[0] \in DOMAIN txt
        /\ o.code = "jre" => Plus(a, o.args[0]) \in DOMAIN txt
        /\ o.code \in {"jmp", "jre"} \/ (o.code = "scall" /\ o.args[0] = 1)
              \/ Plus(a, OpLen(o)) \in DOMAIN txt

StaysInText(p) == p.entry \in DOMAIN p.text /\ \A a \in DOMAIN p.text : LeadsOn(p.text, a)

(* In a program that stays in its text, every thread that has not exited   *)
(* stands at an instruction, whether it runs or is suspended: PCs are      *)
(* saved at instruction boundaries only.                                   *)
PcOnInstruction ==
    \A t \in 0 .. nb_ths - 1 : ths[t].active => CtxOf(t).pc \in DOMAIN text

(* Nor does a jump of such a program, forth or, with a number that wraps   *)
(* around, back, end the process as one "Out of range".                    *)
JumpsReach == phase = "failed" => op.code \notin JumpCodes

(* neqi compares a register with the value of its second argument.         *)
NeqiComparesValue ==
    [][phase = "execute" /\ WellNamed(op) /\ op.code = "neq" /\ op.imm =>
          registers'[EQ] = IF registers[op.args[0]] # op.args[1] THEN 1 ELSE 0]_vars

(* A save through a register to an address outside the memory ends the     *)
(* process with "Out of range adress".                                     *)
SaveChecksAddress ==
    [][phase = "execute" /\ WellNamed(op) /\ op.code = "save"
          /\ OutOfRange(registers[op.args[0]]) => phase' = "failed"]_vars

(* Every thread that has not exited gets to execute an instruction, unless *)
(* the process ends.                                                       *)
Live(t) == t < nb_ths /\ ths[t].active
Runs(t) == current = t /\ phase = "execute"
EveryThreadRuns ==
    \A t \in 0 .. MaxThreads - 1 :
        Live(t) ~> (Runs(t) \/ ~Live(t) \/ phase \in Over)

(* Once all threads have exited, the machine returns.                      *)
LastExitHalts ==
    (\A t \in 0 .. nb_ths - 1 : ~ths[t].active) ~> phase = "halted"
=============================================================================
