----------------------------- MODULE ThreadEnv -----------------------------
(***************************************************************************)
(* The thread contexts under a program that may do anything a program can  *)
(* do to them: write its registers and its stack, create threads, exit,    *)
(* and be switched out between any two of these for any other thread that  *)
(* is active.                                                              *)
(***************************************************************************)
EXTENDS ThreadCtx

CONSTANTS
    EntryPoints,  \* addresses threads start at
    Writes        \* bound: <<register, value>> the program writes

ASSUME EnvAssumption ==
    /\ EntryPoints \subseteq Word /\ EntryPoints # {}
    /\ Writes \subseteq Registers \X Word

(* The running thread writes a register or a cell of its stack. *)
Compute ==
    /\ ths[current].active
    /\ \/ /\ \E w \in Writes : registers' = [registers EXCEPT ![w[1]] = w[2]]
          /\ UNCHANGED window
       \/ /\ \E i \in StackIdx, b \in Byte : window' = [window EXCEPT ![i] = b]
          /\ UNCHANGED registers
    /\ UNCHANGED <<ths, nb_ths, allocated_ths, current>>

(* The running thread stops. *)
Exit ==
    /\ ths[current].active
    /\ ths' = [ths EXCEPT ![current].active = FALSE]
    /\ UNCHANGED <<nb_ths, allocated_ths, current, registers, window>>

Create == ths[current].active /\ \E pc \in EntryPoints : AddCtx(pc)

Switch == \E t \in 0 .. nb_ths - 1 :
              t # current /\ ths[t].active /\ SwitchCtx(t)

CtxNext == Compute \/ Exit \/ Create \/ Switch

CtxSpec == (\E pc \in EntryPoints : CtxInit(pc)) /\ [][CtxNext]_ctxVars

-----------------------------------------------------------------------------
(* vm_th_t holds REGISTERS_NB registers for a thread: a switch stores all  *)
(* the registers of the thread it suspends.                                *)
StoresAllRegisters ==
    [][current' # current => ths'[current].regiters = registers]_ctxVars
=============================================================================
