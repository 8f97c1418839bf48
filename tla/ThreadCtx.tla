----------------------------- MODULE ThreadCtx -----------------------------
(***************************************************************************)
(* The thread contexts of the virtual machine (src/src/th_process_ctx.c):  *)
(* a growing table of saved contexts, and the switch that stores the live  *)
(* registers and the stack window of the machine's memory in the entry of  *)
(* the current thread and loads those of another.                          *)
(*                                                                         *)
(* The live registers and the window belong to the machine: this module    *)
(* has the operations, ThreadEnv closes it with a program that does        *)
(* anything, and WiredMachine with the machine's main loop.                *)
(***************************************************************************)
EXTENDS WiredDefs

CONSTANTS
    MaxThreads   \* bound: the threads the host's memory has room for

ASSUME MaxThreadsAssumption == MaxThreads \in Nat \ {0}

VARIABLES
    ths,            \* thread number -> its entry in the table
    nb_ths,         \* entries in use
    allocated_ths,  \* entries allocated
    current,        \* the thread that runs
    registers,      \* the live registers
    window          \* the stack's part of the machine's memory

ctxVars == <<ths, nb_ths, allocated_ths, current, registers, window>>

(* vm_th_t; "regiters" is the field's name in the code. *)
Thread == [regiters : RegisterFile, stack : Stack, active : BOOLEAN]

CtxTypeOK ==
    /\ nb_ths \in 0 .. MaxThreads /\ allocated_ths \in Nat
    /\ ths \in [0 .. nb_ths - 1 -> Thread]
    /\ current \in Nat
    /\ registers \in RegisterFile
    /\ window \in Stack

-----------------------------------------------------------------------------
(* ths_add_ctx: the registers are zeroed but for PC, SP and SPL; the stack *)
(* is what malloc returns, so it may hold anything.                        *)
NewRegisters(pc) ==
    [r \in Registers |-> IF r = PC THEN pc
                         ELSE IF r = SP THEN StackBase
                         ELSE IF r = SPL THEN RamSize - 1 ELSE 0]

(* Fault: the table grows when it has overflowed, not when it is full.     *)
GrowLate(n, allocated) ==
    IF n - 1 > allocated THEN 2 * (IF allocated = 0 THEN 1 ELSE allocated)
    ELSE allocated

(* Entries allocated once n are in use: the table doubles when it is full. *)
Grow(n, allocated) ==
    IF n > allocated THEN 2 * (IF allocated = 0 THEN 1 ELSE allocated)
    ELSE allocated

AddCtx(pc) ==
    /\ nb_ths < MaxThreads
    /\ nb_ths' = nb_ths + 1
    /\ allocated_ths' = Grow(nb_ths + 1, allocated_ths)
    /\ \E junk \in Stack :
          ths' = [t \in 0 .. nb_ths |->
                    IF t = nb_ths
                    THEN [regiters |-> NewRegisters(pc), stack |-> junk,
                          active |-> TRUE]
                    ELSE ths[t]]
    /\ UNCHANGED <<current, registers, window>>

(* Fault: the low bytes are added to a word instead of replacing its own.  *)
SpliceAdds(d, s) == d + (s % LowMod)

(* The word d after its low bytes were overwritten with those of s. *)
Splice(d, s) == d - (d % LowMod) + (s % LowMod)

(* Fault: one register, sizeof(uint64_t) bytes, is copied. *)
CopyPcOnly(dst, src) == [dst EXCEPT ![PC] = src[PC]]

(* memcpy(dst, src, REGISTERS_NB): REGISTERS_NB is the number of registers,*)
(* 15, and memcpy counts bytes, so what is copied is PC, eight bytes, and  *)
(* the seven low bytes of EQ.                                              *)
CopyRegisters(dst, src) ==
    [dst EXCEPT ![PC] = src[PC], ![EQ] = Splice(dst[EQ], src[EQ])]

(* Fault: the stack of the suspended thread is not stored. *)
SwitchLosesStack(th_id) ==
    LET stored == [ths EXCEPT ![current].regiters = CopyRegisters(@, registers)]
    IN  /\ ths' = stored
        /\ registers' = CopyRegisters(registers, stored[th_id].regiters)
        /\ window' = stored[th_id].stack
        /\ current' = th_id
        /\ UNCHANGED <<nb_ths, allocated_ths>>

(* ths_switch_ctx: store in the entry of current, then load that of th_id. *)
SwitchCtx(th_id) ==
    LET stored == [ths EXCEPT ![current].regiters = CopyRegisters(@, registers),
                              ![current].stack = window]
    IN  /\ ths' = stored
        /\ registers' = CopyRegisters(registers, stored[th_id].regiters)
        /\ window' = stored[th_id].stack
        /\ current' = th_id
        /\ UNCHANGED <<nb_ths, allocated_ths>>

-----------------------------------------------------------------------------
(* init_ths, and the context of the program's first thread. *)
CtxInit(pc) ==
    /\ nb_ths = 1
    /\ allocated_ths = Grow(1, 0)
    /\ current = 0
    /\ registers = NewRegisters(pc)
    /\ window \in Stack
    /\ \E junk \in Stack :
          ths = [t \in {0} |-> [regiters |-> NewRegisters(pc), stack |-> junk,
                                active |-> TRUE]]

-----------------------------------------------------------------------------
(* The slots ths_add_ctx, ths_switch_ctx and the main loop index are all   *)
(* inside the allocated table, whatever the order of creations and         *)
(* switches: the growth keeps ahead of the count.                          *)
Capacity == /\ nb_ths <= allocated_ths
            /\ current < nb_ths

(* A thread as a program sees it: what the contexts keep apart for each.   *)
(* The current thread's is live, the others' are in the table.             *)
CtxOf(t) ==
    LET regs == IF t = current THEN registers ELSE ths[t].regiters
    IN  [pc |-> regs[PC], eq |-> regs[EQ] % LowMod,
         stack |-> IF t = current THEN window ELSE ths[t].stack,
         active |-> ths[t].active]

Ctxs == [pc : Word, eq : 0 .. LowMod - 1, stack : Stack, active : BOOLEAN]
NewCtxs == { c \in Ctxs : c.eq = 0 /\ c.active }

Isolated == INSTANCE IsolatedThreads WITH
                Ctx <- Ctxs, NewCtx <- NewCtxs,
                ctx <- [t \in 0 .. nb_ths - 1 |-> CtxOf(t)],
                running <- current

(* Threads are isolated: PC, the low bytes of EQ, the stack and the active *)
(* flag of a thread change only while it runs, and a switch brings back    *)
(* exactly what the thread had when it was last switched out.              *)
Isolation == Isolated!Spec
=============================================================================
