-------------------------- MODULE ThreadEnvProofs --------------------------
(***************************************************************************)
(* The theorems about the thread contexts under any program: the table is  *)
(* well formed, the slots in use are allocated, and the contexts implement *)
(* isolated threads.                                                       *)
(***************************************************************************)
EXTENDS ThreadEnv, ThreadCtxProofs

(* Compute and Exit are steps of the running thread on its own state.      *)
LEMMA ComputeIsOwn ==
  ASSUME CtxInv, Compute \/ Exit
  PROVE  OwnStep
<1>1. /\ ths \in [0 .. nb_ths - 1 -> Thread] /\ current \in 0 .. nb_ths - 1
      /\ registers \in RegisterFile /\ window \in Stack
  BY DEF CtxInv, CtxTypeOK, Capacity
<1>2. ths[current].active \in BOOLEAN /\ ths = [ths EXCEPT ![current].active = ths[current].active]
  BY <1>1 DEF Thread
<1>3. CASE Compute
  <2>1. ths' = ths /\ UNCHANGED <<nb_ths, allocated_ths, current>>
    BY <1>3 DEF Compute
  <2>2. registers' \in RegisterFile /\ window' \in Stack
    <3>1. CASE /\ \E w \in Writes : registers' = [registers EXCEPT ![w[1]] = w[2]]
               /\ UNCHANGED window
      <4>1. PICK w \in Writes : registers' = [registers EXCEPT ![w[1]] = w[2]]
        BY <3>1
      <4>2. w[1] \in Registers /\ w[2] \in Word
        BY EnvAssumption
      <4> QED  BY <3>1, <4>1, <4>2, <1>1 DEF RegisterFile
    <3>2. CASE /\ \E i \in StackIdx, b \in Byte : window' = [window EXCEPT ![i] = b]
               /\ UNCHANGED registers
      BY <3>2, <1>1 DEF Stack
    <3> QED  BY <1>3, <3>1, <3>2 DEF Compute
  <2> QED  BY <1>2, <1>3, <2>1, <2>2 DEF OwnStep, Compute
<1>4. CASE Exit
  BY <1>1, <1>4 DEF OwnStep, Exit
<1> QED  BY <1>3, <1>4

(* Every step of the thread contexts keeps the invariant.                  *)
LEMMA CtxNextInv == CtxInv /\ [CtxNext]_ctxVars => CtxInv'
<1> SUFFICES ASSUME CtxInv, [CtxNext]_ctxVars PROVE CtxInv'
  OBVIOUS
<1>1. CASE Compute \/ Exit
  BY <1>1, ComputeIsOwn, OwnStepInv
<1>2. CASE Create
  <2>1. PICK pc \in EntryPoints : AddCtx(pc)
    BY <1>2 DEF Create
  <2> QED  BY <2>1, AddCtxInv, EnvAssumption
<1>3. CASE Switch
  <2>1. PICK t \in 0 .. nb_ths - 1 : SwitchCtx(t)
    BY <1>3 DEF Switch
  <2> QED  BY <2>1, SwitchCtxInv
<1>4. CASE UNCHANGED ctxVars
  BY <1>4 DEF CtxInv, CtxTypeOK, Capacity, ctxVars
<1> QED  BY <1>1, <1>2, <1>3, <1>4 DEF CtxNext

LEMMA CtxInvariant == CtxSpec => []CtxInv
<1>1. (\E pc \in EntryPoints : CtxInit(pc)) => CtxInv
  BY CtxInitInv, EnvAssumption
<1> QED  BY <1>1, CtxNextInv, PTL DEF CtxSpec

(* The table, the live registers and the stack window stay well formed.    *)
THEOREM CtxTyping == CtxSpec => []CtxTypeOK
<1>1. CtxInv => CtxTypeOK
  BY DEF CtxInv
<1> QED  BY <1>1, CtxInvariant, PTL

(* Every slot of the table in use was allocated, and the current thread is *)
(* one of them.                                                            *)
THEOREM CtxCapacity == CtxSpec => []Capacity
<1>1. CtxInv => Capacity
  BY DEF CtxInv
<1> QED  BY <1>1, CtxInvariant, PTL

(* Every step of the contexts is a step of isolated threads, or none.      *)
LEMMA CtxNextIsolated ==
  CtxInv /\ [CtxNext]_ctxVars => [Isolated!Next]_(Isolated!vars)
<1> SUFFICES ASSUME CtxInv, [CtxNext]_ctxVars
             PROVE  [Isolated!Next]_(Isolated!vars)
  OBVIOUS
<1>1. CASE Compute \/ Exit
  BY <1>1, ComputeIsOwn, OwnStepIsolated DEF Isolated!Next
<1>2. CASE Create
  <2>1. PICK pc \in EntryPoints : AddCtx(pc)
    BY <1>2 DEF Create
  <2>2. pc \in Word /\ ths[current].active
    BY <1>2, EnvAssumption DEF Create
  <2> QED  BY <2>1, <2>2, AddCtxIsolated DEF Isolated!Next
<1>3. CASE Switch
  <2>1. PICK t \in 0 .. nb_ths - 1 : t # current /\ ths[t].active /\ SwitchCtx(t)
    BY <1>3 DEF Switch
  <2> QED  BY <2>1, SwitchCtxIsolated DEF Isolated!Next
<1>4. CASE UNCHANGED ctxVars
  BY <1>4 DEF ctxVars, Isolated!vars, CtxOf
<1> QED  BY <1>1, <1>2, <1>3, <1>4 DEF CtxNext

(* The contexts implement isolated threads: nothing but its own steps      *)
(* changes a thread's PC, low bytes of EQ, stack or active flag.           *)
THEOREM CtxIsolation == CtxSpec => Isolation
<1>1. (\E pc \in EntryPoints : CtxInit(pc)) => Isolated!Init
  BY CtxInitIsolated, EnvAssumption
<1> QED
  BY <1>1, CtxInvariant, CtxNextIsolated, PTL DEF CtxSpec, Isolation, Isolated!Spec
=============================================================================
