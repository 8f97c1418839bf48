-------------------------- MODULE ThreadCtxProofs --------------------------
(***************************************************************************)
(* Lemmas about the operations of the thread contexts, for any number of   *)
(* threads, any stack size and any width of words: each keeps the table    *)
(* well formed and the slots in use allocated, and each is a step of       *)
(* isolated threads.  ThreadEnvProofs and WiredMachineProofs use them.     *)
(***************************************************************************)
EXTENDS ThreadCtx, TLAPS

(* Euclidean division, as the copy of part of a word uses it.              *)
LEMMA DivMod ==
  ASSUME NEW x \in Nat, NEW m \in Nat \ {0}
  PROVE  /\ x % m \in 0 .. m - 1
         /\ x \div m \in Nat
         /\ x = ((x \div m) * m) + (x % m)
  OBVIOUS

(* The quotient and remainder of a division are unique.                    *)
LEMMA ModUnique ==
  ASSUME NEW q \in Nat, NEW r \in Nat, NEW m \in Nat \ {0}, r < m
  PROVE  ((q * m) + r) % m = r
  OBVIOUS

(* Distinct multiples of m lie at least m apart.                           *)
LEMMA MultiplesApart ==
  ASSUME NEW q \in Nat, NEW p \in Nat, NEW m \in Nat \ {0}, q < p
  PROVE  (q * m) + m <= p * m
  OBVIOUS

(* Overwriting the low bytes of a word gives a word with those low bytes.  *)
LEMMA SpliceWord ==
  ASSUME NEW d \in Word, NEW s \in Word
  PROVE  /\ Splice(d, s) \in Word
         /\ Splice(d, s) % LowMod = s % LowMod
<1> DEFINE q == d \div LowMod
           r == s % LowMod
<1>1. /\ LowMod \in Nat \ {0} /\ ByteMod \in Nat \ {0}
      /\ WordMod = ByteMod * LowMod /\ WordMod \in Nat
      /\ d \in Nat /\ s \in Nat /\ d < WordMod
  BY WidthsAssumption DEF Word
<1>2. q \in Nat /\ d = (q * LowMod) + (d % LowMod) /\ d % LowMod \in 0 .. LowMod - 1
  BY <1>1, DivMod
<1>3. r \in Nat /\ r < LowMod
  BY <1>1, DivMod
<1>4. Splice(d, s) = (q * LowMod) + r
  BY <1>1, <1>2, <1>3 DEF Splice
<1>5. q < ByteMod
  <2>1. SUFFICES ASSUME ~(q < ByteMod) PROVE FALSE
    OBVIOUS
  <2>2. ByteMod = q \/ ByteMod < q
    BY <2>1, <1>1, <1>2
  <2>3. ByteMod * LowMod <= q * LowMod
    BY <2>2, <1>1, <1>2, MultiplesApart
  <2> QED  BY <2>3, <1>1, <1>2
<1>6. (q * LowMod) + LowMod <= ByteMod * LowMod
  BY <1>1, <1>2, <1>5, MultiplesApart
<1>7. Splice(d, s) \in Word
  BY <1>1, <1>2, <1>3, <1>4, <1>6 DEF Word
<1>8. Splice(d, s) % LowMod = r
  BY <1>1, <1>2, <1>3, <1>4, ModUnique
<1> QED  BY <1>7, <1>8

(* A copy between register files moves PC and the low bytes of EQ.         *)
LEMMA CopyRegistersFile ==
  ASSUME NEW dst \in RegisterFile, NEW src \in RegisterFile
  PROVE  /\ CopyRegisters(dst, src) \in RegisterFile
         /\ CopyRegisters(dst, src)[PC] = src[PC]
         /\ CopyRegisters(dst, src)[EQ] % LowMod = src[EQ] % LowMod
<1>1. dst[EQ] \in Word /\ src[EQ] \in Word /\ src[PC] \in Word
  BY DEF RegisterFile, Registers, PC, EQ, SPL
<1>2. /\ Splice(dst[EQ], src[EQ]) \in Word
      /\ Splice(dst[EQ], src[EQ]) % LowMod = src[EQ] % LowMod
  BY <1>1, SpliceWord
<1> QED  BY <1>1, <1>2 DEF CopyRegisters, RegisterFile, Registers, PC, EQ, SPL

(* A new thread's registers are words; its PC is the entry point and its   *)
(* EQ is zero.                                                             *)
LEMMA NewRegistersFile ==
  ASSUME NEW pc \in Word
  PROVE  /\ NewRegisters(pc) \in RegisterFile
         /\ NewRegisters(pc)[PC] = pc /\ NewRegisters(pc)[EQ] = 0
<1>1. WordMod \in Nat /\ 0 \in Word
  BY WidthsAssumption DEF Word
<1>2. StackBase \in Word /\ RamSize - 1 \in Word
  BY <1>1, HeaderAssumption DEF StackBase, Word
<1> QED
  BY <1>1, <1>2 DEF NewRegisters, RegisterFile, Registers, PC, EQ, SP, SPL

(* The table after a growth has room for one entry more than before.       *)
LEMMA GrowRoom ==
  ASSUME NEW n \in Nat, NEW a \in Nat, n <= a
  PROVE  Grow(n + 1, a) \in Nat /\ n + 1 <= Grow(n + 1, a)
  BY DEF Grow
-----------------------------------------------------------------------------
(* The inductive invariant: the table is well typed, and every index used  *)
(* on it is in use and allocated.                                          *)
CtxInv == CtxTypeOK /\ Capacity

(* The first context satisfies the invariant.                              *)
LEMMA CtxInitInv ==
  ASSUME NEW pc \in Word, CtxInit(pc)
  PROVE  CtxInv
<1>1. NewRegisters(pc) \in RegisterFile
  BY NewRegistersFile
<1>2. Grow(1, 0) \in Nat /\ 1 <= Grow(1, 0)
  BY DEF Grow
<1>3. ths \in [0 .. nb_ths - 1 -> Thread]
  BY <1>1 DEF CtxInit, Thread
<1> QED
  BY <1>1, <1>2, <1>3, MaxThreadsAssumption DEF CtxInit, CtxInv, CtxTypeOK, Capacity

(* ths_add_ctx keeps the invariant.                                        *)
LEMMA AddCtxInv ==
  ASSUME NEW pc \in Word, CtxInv, AddCtx(pc)
  PROVE  CtxInv'
<1>1. nb_ths \in Nat /\ nb_ths' = nb_ths + 1 /\ nb_ths' \in 0 .. MaxThreads
  BY MaxThreadsAssumption DEF CtxInv, CtxTypeOK, AddCtx
<1>2. allocated_ths' \in Nat /\ nb_ths' <= allocated_ths'
  BY <1>1, GrowRoom DEF CtxInv, CtxTypeOK, Capacity, AddCtx
<1>3. ths' \in [0 .. nb_ths' - 1 -> Thread]
  <2>1. PICK junk \in Stack :
          ths' = [t \in 0 .. nb_ths |->
                    IF t = nb_ths
                    THEN [regiters |-> NewRegisters(pc), stack |-> junk,
                          active |-> TRUE]
                    ELSE ths[t]]
    BY DEF AddCtx
  <2>2. [regiters |-> NewRegisters(pc), stack |-> junk, active |-> TRUE] \in Thread
    BY NewRegistersFile DEF Thread
  <2>3. \A t \in 0 .. nb_ths : t # nb_ths => ths[t] \in Thread
    BY <1>1 DEF CtxInv, CtxTypeOK
  <2>4. nb_ths' - 1 = nb_ths
    BY <1>1
  <2> QED  BY <2>1, <2>2, <2>3, <2>4
<1>4. current' = current /\ registers' = registers /\ window' = window
  BY DEF AddCtx
<1>5. current' \in Nat /\ current' < nb_ths'
  BY <1>1, <1>4 DEF CtxInv, CtxTypeOK, Capacity
<1>6. registers' \in RegisterFile /\ window' \in Stack
  BY <1>4 DEF CtxInv, CtxTypeOK
<1> QED
  BY <1>1, <1>2, <1>3, <1>5, <1>6 DEF CtxInv, CtxTypeOK, Capacity

(* ths_switch_ctx keeps the invariant, for any thread of the table.        *)
LEMMA SwitchCtxInv ==
  ASSUME CtxInv, NEW t \in 0 .. nb_ths - 1, SwitchCtx(t)
  PROVE  CtxInv'
<1> DEFINE stored == [ths EXCEPT
                        ![current].regiters = CopyRegisters(@, registers),
                        ![current].stack = window]
<1>1. /\ ths \in [0 .. nb_ths - 1 -> Thread] /\ current \in 0 .. nb_ths - 1
      /\ registers \in RegisterFile /\ window \in Stack /\ nb_ths \in Nat
  BY DEF CtxInv, CtxTypeOK, Capacity
<1>2. CopyRegisters(ths[current].regiters, registers) \in RegisterFile
  BY <1>1, CopyRegistersFile DEF Thread
<1>3. stored \in [0 .. nb_ths - 1 -> Thread]
  BY <1>1, <1>2 DEF Thread
<1>4. stored[t].regiters \in RegisterFile /\ stored[t].stack \in Stack
  BY <1>3 DEF Thread
<1>5. /\ ths' = stored /\ window' = stored[t].stack /\ current' = t
      /\ registers' = CopyRegisters(registers, stored[t].regiters)
      /\ nb_ths' = nb_ths /\ allocated_ths' = allocated_ths
  BY DEF SwitchCtx
<1>6. registers' \in RegisterFile
  BY <1>1, <1>4, <1>5, CopyRegistersFile
<1> QED
  BY <1>1, <1>3, <1>4, <1>5, <1>6 DEF CtxInv, CtxTypeOK, Capacity

(* A step of the running thread on its own state: the live registers, the  *)
(* stack window and its active flag, the last only by stopping.            *)
OwnStep ==
    /\ ths[current].active
    /\ registers' \in RegisterFile /\ window' \in Stack
    /\ \E a \in BOOLEAN : ths' = [ths EXCEPT ![current].active = a]
    /\ UNCHANGED <<nb_ths, allocated_ths, current>>

(* Such a step keeps the invariant.                                        *)
LEMMA OwnStepInv ==
  ASSUME CtxInv, OwnStep
  PROVE  CtxInv'
<1>1. /\ ths \in [0 .. nb_ths - 1 -> Thread] /\ current \in 0 .. nb_ths - 1
  BY DEF CtxInv, CtxTypeOK, Capacity
<1>2. PICK a \in BOOLEAN : ths' = [ths EXCEPT ![current].active = a]
  BY DEF OwnStep
<1>3. ths' \in [0 .. nb_ths - 1 -> Thread]
  BY <1>1, <1>2 DEF Thread
<1> QED
  BY <1>3 DEF OwnStep, CtxInv, CtxTypeOK, Capacity

-----------------------------------------------------------------------------
(* The contexts implement isolated threads.                                *)

(* The abstract context of every thread is well typed.                     *)
LEMMA CtxOfType == CtxInv => \A t \in 0 .. nb_ths - 1 : CtxOf(t) \in Ctxs
<1> SUFFICES ASSUME CtxInv, NEW t \in 0 .. nb_ths - 1
             PROVE  CtxOf(t) \in Ctxs
  OBVIOUS
<1> DEFINE regs == IF t = current THEN registers ELSE ths[t].regiters
<1>1. regs \in RegisterFile /\ ths[t] \in Thread /\ window \in Stack
  BY DEF CtxInv, CtxTypeOK, Thread
<1>2. regs[PC] \in Word /\ regs[EQ] \in Nat
  BY <1>1 DEF RegisterFile, Registers, PC, EQ, SPL, Word
<1>3. LowMod \in Nat \ {0}
  BY WidthsAssumption
<1>4. regs[EQ] % LowMod \in 0 .. LowMod - 1
  BY <1>2, <1>3, DivMod
<1> QED
  BY <1>1, <1>2, <1>4 DEF CtxOf, Ctxs, Thread

(* The first context is one a thread may start with.                       *)
LEMMA CtxInitIsolated ==
  ASSUME NEW pc \in Word, CtxInit(pc)
  PROVE  Isolated!Init
<1>1. CtxInv
  BY CtxInitInv
<1>2. CtxOf(0) \in Ctxs
  BY <1>1, CtxOfType DEF CtxInit
<1>3. CtxOf(0).eq = 0 /\ CtxOf(0).active
  <2>1. registers[EQ] = 0
    BY NewRegistersFile DEF CtxInit
  <2>2. registers[EQ] % LowMod = 0
    BY <2>1, WidthsAssumption, ModUnique
  <2> QED  BY <2>2 DEF CtxInit, CtxOf
<1>4. \A t \in 0 .. nb_ths - 1 : t = 0
  BY DEF CtxInit
<1>5. 0 .. nb_ths - 1 = {0} /\ current = 0
  BY DEF CtxInit
<1> QED
  BY <1>2, <1>3, <1>5 DEF Isolated!Init, NewCtxs

(* A step of the running thread on its own state changes no other context. *)
LEMMA OwnStepIsolated ==
  ASSUME CtxInv, OwnStep
  PROVE  Isolated!Run
<1>1. CtxInv'
  BY OwnStepInv
<1>2. /\ ths \in [0 .. nb_ths - 1 -> Thread] /\ current \in 0 .. nb_ths - 1
      /\ nb_ths' = nb_ths /\ current' = current
  BY DEF CtxInv, CtxTypeOK, Capacity, OwnStep
<1>3. \A t \in 0 .. nb_ths - 1 : CtxOf(t)' \in Ctxs
  <2>1. (CtxInv => \A t \in 0 .. nb_ths - 1 : CtxOf(t) \in Ctxs)'
    BY CtxOfType, PTL
  <2>2. Ctxs' = Ctxs
    BY DEF Ctxs, Stack
  <2> QED  BY <1>1, <1>2, <2>1, <2>2
<1>4. PICK a \in BOOLEAN : ths' = [ths EXCEPT ![current].active = a]
  BY DEF OwnStep
<1>5. \A t \in 0 .. nb_ths - 1 : t # current => CtxOf(t)' = CtxOf(t)
  BY <1>2, <1>4 DEF CtxOf
<1>6. CtxOf(current).active
  BY <1>2 DEF CtxOf, OwnStep
<1> QED
  BY <1>2, <1>3, <1>5, <1>6 DEF Isolated!Run

(* ths_add_ctx adds one new context and changes no other.                  *)
LEMMA AddCtxIsolated ==
  ASSUME CtxInv, NEW pc \in Word, AddCtx(pc), ths[current].active
  PROVE  Isolated!Spawn
<1>1. CtxInv'
  BY AddCtxInv
<1>2. /\ current \in 0 .. nb_ths - 1 /\ nb_ths \in Nat \ {0}
      /\ nb_ths' = nb_ths + 1 /\ current' = current
      /\ registers' = registers /\ window' = window
  BY DEF CtxInv, CtxTypeOK, Capacity, AddCtx
<1>3. \A t \in 0 .. nb_ths : CtxOf(t)' \in Ctxs
  <2>1. (CtxInv => \A t \in 0 .. nb_ths - 1 : CtxOf(t) \in Ctxs)'
    BY CtxOfType, PTL
  <2>2. nb_ths' - 1 = nb_ths
    BY <1>2
  <2> QED  BY <1>1, <2>1, <2>2
<1>4. PICK junk \in Stack :
        ths' = [t \in 0 .. nb_ths |->
                  IF t = nb_ths
                  THEN [regiters |-> NewRegisters(pc), stack |-> junk,
                        active |-> TRUE]
                  ELSE ths[t]]
  BY DEF AddCtx
<1>5. \A t \in 0 .. nb_ths - 1 : CtxOf(t)' = CtxOf(t)
  <2>1. \A t \in 0 .. nb_ths - 1 : ths'[t] = ths[t]
    BY <1>2, <1>4
  <2> QED  BY <1>2, <2>1 DEF CtxOf
<1>6. \A t \in {nb_ths} : CtxOf(t)'.eq = 0 /\ CtxOf(t)'.active
  <2>1. ths'[nb_ths].regiters[EQ] = 0 /\ ths'[nb_ths].active
    BY <1>2, <1>4, NewRegistersFile
  <2>2. ths'[nb_ths].regiters[EQ] % LowMod = 0
    BY <2>1, WidthsAssumption, ModUnique
  <2>3. nb_ths # current'
    BY <1>2
  <2> QED  BY <2>1, <2>2, <2>3 DEF CtxOf
<1>7. \A t \in {nb_ths} : CtxOf(t)' \in NewCtxs
  BY <1>2, <1>3, <1>6 DEF NewCtxs
<1>8. CtxOf(current).active
  BY DEF CtxOf
<1> DEFINE c == [t \in 0 .. nb_ths - 1 |-> CtxOf(t)]
<1>9. c' = [t \in 0 .. nb_ths |-> CtxOf(t)']
  BY <1>2
<1>10. /\ nb_ths - 1 \in DOMAIN c /\ DOMAIN c = 0 .. nb_ths - 1
       /\ c' \in [0 .. (nb_ths - 1) + 1 -> Ctxs]
       /\ c'[(nb_ths - 1) + 1] \in NewCtxs
       /\ \A t \in DOMAIN c : c'[t] = c[t]
       /\ c[current].active
  <2>1. (nb_ths - 1) + 1 = nb_ths
    BY <1>2
  <2> QED  BY <2>1, <1>2, <1>3, <1>5, <1>7, <1>8, <1>9
<1> QED
  BY <1>10, <1>2 DEF Isolated!Spawn

(* ths_switch_ctx to another active thread changes no context: what the    *)
(* suspended thread had is in the table, what the other had is live.       *)
LEMMA SwitchCtxIsolated ==
  ASSUME CtxInv, NEW t \in 0 .. nb_ths - 1, t # current, ths[t].active, SwitchCtx(t)
  PROVE  Isolated!Switch
<1> DEFINE stored == [ths EXCEPT
                        ![current].regiters = CopyRegisters(@, registers),
                        ![current].stack = window]
<1>1. /\ ths \in [0 .. nb_ths - 1 -> Thread] /\ current \in 0 .. nb_ths - 1
      /\ registers \in RegisterFile /\ window \in Stack /\ nb_ths \in Nat
  BY DEF CtxInv, CtxTypeOK, Capacity
<1>2. /\ ths' = stored /\ window' = stored[t].stack /\ current' = t
      /\ registers' = CopyRegisters(registers, stored[t].regiters)
      /\ nb_ths' = nb_ths
  BY DEF SwitchCtx
<1>3. stored[t] = ths[t] /\ ths[t].regiters \in RegisterFile
  BY <1>1 DEF Thread
<1>4. CtxOf(t)' = CtxOf(t)
  <2>1. /\ registers'[PC] = ths[t].regiters[PC]
        /\ registers'[EQ] % LowMod = ths[t].regiters[EQ] % LowMod
    BY <1>1, <1>2, <1>3, CopyRegistersFile
  <2>2. ths'[t] = ths[t] /\ window' = ths[t].stack /\ current' = t
    BY <1>2, <1>3
  <2>3. CtxOf(t)' = [pc |-> ths[t].regiters[PC],
                     eq |-> ths[t].regiters[EQ] % LowMod,
                     stack |-> ths[t].stack, active |-> ths[t].active]
    BY <2>1, <2>2 DEF CtxOf
  <2> QED  BY <2>3 DEF CtxOf
<1>5. \A u \in {current} : CtxOf(u)' = CtxOf(u)
  <2>1. /\ stored[current].regiters = CopyRegisters(ths[current].regiters, registers)
        /\ stored[current].stack = window
        /\ stored[current].active = ths[current].active
        /\ ths[current].regiters \in RegisterFile
    BY <1>1 DEF Thread
  <2>2. /\ stored[current].regiters[PC] = registers[PC]
        /\ stored[current].regiters[EQ] % LowMod = registers[EQ] % LowMod
    BY <1>1, <2>1, CopyRegistersFile
  <2>3. current' # current
    BY <1>2
  <2> QED  BY <1>2, <2>1, <2>2, <2>3 DEF CtxOf
<1>6. \A u \in 0 .. nb_ths - 1 : CtxOf(u)' = CtxOf(u)
  <2> SUFFICES ASSUME NEW u \in 0 .. nb_ths - 1, u # t, u # current
               PROVE  CtxOf(u)' = CtxOf(u)
    BY <1>4, <1>5
  <2>1. stored[u] = ths[u]
    BY <1>1
  <2> QED  BY <1>2, <2>1 DEF CtxOf
<1>7. CtxOf(t).active
  BY DEF CtxOf
<1> QED
  BY <1>2, <1>6, <1>7 DEF Isolated!Switch
=============================================================================
