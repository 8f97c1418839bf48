---------------------------- MODULE LoaderProofs ----------------------------
(***************************************************************************)
(* Proofs about the start of the machine, for any width of a word.         *)
(***************************************************************************)
EXTENDS Loader, TLAPS

(* An uint64_t keeps what fits into it, and holds a word in any case.      *)
LEMMA WrapKeeps == \A x \in Word : Wrap(x) = x
<1> SUFFICES ASSUME NEW x \in Word PROVE x % WordMod = x
  BY DEF Wrap
<1>1. WordMod \in Nat /\ x \in Int /\ 0 <= x /\ x < WordMod
  BY LoaderAssumption DEF Word
<1> HIDE DEF Word
<1> QED  BY <1>1

LEMMA WrapWord == \A x \in Int : Wrap(x) \in Word
<1>1. WordMod \in Nat /\ WordMod > 0
  BY LoaderAssumption
<1> QED  BY <1>1 DEF Wrap, Word

(* What the checks have established. *)
Inv ==
    /\ TypeOK
    /\ status = "rejected" => ~Valid
    /\ status = "loaded" => /\ Valid
                            /\ ram = file.header.ram_size
                            /\ spl = Wrap(ram - 1)
                            /\ sp = StackPointer(file.header)

LEMMA InitInv == Init => Inv
<1> SUFFICES ASSUME Init PROVE Inv
  OBVIOUS
<1>1. 0 \in Word /\ 0 \in 0 .. HostMemory
  BY LoaderAssumption DEF Word
<1> QED  BY <1>1 DEF Init, Inv, TypeOK

LEMMA FileTyped ==
  ASSUME TypeOK
  PROVE  /\ file.size \in 0 .. MaxFile /\ file.header.wire \in BOOLEAN
         /\ file.header.ram_size \in Word /\ file.header.stack_size \in Word
         /\ file.header.entry_point \in Word
         /\ \A x \in Word : x \in Nat /\ x < WordMod
<1>1. file.size \in 0 .. MaxFile /\ file.header \in Header
  BY DEF TypeOK
<1>2. \A x \in Word : x \in Nat /\ x < WordMod
  BY LoaderAssumption DEF Word
<1> QED  BY <1>1, <1>2 DEF Header

LEMMA NextInv == Inv /\ [Next]_vars => Inv'
<1> SUFFICES ASSUME Inv, [Next]_vars PROVE Inv'
  OBVIOUS
<1>1. TypeOK
  BY DEF Inv
<1>2. CASE Load
  <2>1. /\ status = "reading" /\ Valid /\ file.header.ram_size <= HostMemory
        /\ status' = "loaded" /\ ram' = file.header.ram_size
        /\ spl' = Wrap(file.header.ram_size - 1) /\ sp' = StackPointer(file.header)
        /\ pc' = file.header.entry_point /\ file' = file
    BY <1>2 DEF Load, Allocates
  <2>2. /\ ram' \in 0 .. HostMemory /\ spl' \in Word /\ sp' \in Word /\ pc' \in Word
    <3>1. ram' \in 0 .. HostMemory /\ pc' \in Word
      BY <1>1, <2>1, FileTyped, LoaderAssumption
    <3>2. /\ file.header.ram_size - 1 \in Int
          /\ file.header.ram_size - 1 - file.header.stack_size \in Int
      BY <1>1, FileTyped
    <3> QED  BY <2>1, <3>1, <3>2, WrapWord DEF StackPointer
  <2>3. TypeOK'
    BY <1>1, <2>1, <2>2 DEF TypeOK
  <2> QED  BY <2>1, <2>3 DEF Inv, Valid, pgm_size, StackPointer, EnoughRam
<1>3. CASE Reject
  BY <1>1, <1>3 DEF Reject, Inv, TypeOK, Valid, pgm_size, EnoughRam, memory
<1>4. CASE Overrun \/ HostFails
  BY <1>1, <1>4 DEF Overrun, HostFails, Allocates, Inv, TypeOK, memory
<1>5. CASE UNCHANGED vars
  BY <1>1, <1>5 DEF vars, Inv, TypeOK, Valid, pgm_size, EnoughRam, StackPointer
<1> QED  BY <1>2, <1>3, <1>4, <1>5 DEF Next

LEMMA Invariant == Spec => []Inv
  BY InitInv, NextInv, PTL DEF Spec

(* The loader's state stays well typed: the differences that give the      *)
(* registers wrap around.                                                  *)
THEOREM LoaderTyping == Spec => []TypeOK
<1>1. Inv => TypeOK
  BY DEF Inv
<1> QED  BY <1>1, Invariant, PTL

(* In a loaded machine program and stack fit, and with a byte to spare the *)
(* stack window lies between the program and the last byte.                *)
THEOREM LoaderLayout == Spec => []Layout
<1>1. Inv => Layout
  <2> DEFINE stack == file.header.stack_size
  <2> SUFFICES ASSUME Inv, status = "loaded", pgm_size + stack < WordMod
               PROVE  /\ pgm_size + stack <= ram
                      /\ pgm_size + stack < ram => /\ pgm_size <= sp
                                                   /\ sp + stack = spl
                                                   /\ spl = ram - 1
    BY DEF Layout
  <2>1. /\ ram \in Nat /\ ram < WordMod /\ stack \in Nat /\ ram = file.header.ram_size
        /\ WordMod \in Nat
    BY FileTyped, LoaderAssumption DEF Inv
  <2>2. pgm_size \in Nat
    BY FileTyped, LoaderAssumption DEF Inv, Valid, pgm_size
  <2>3. pgm_size + stack \in Word
    BY <2>1, <2>2 DEF Word
  <2>4. ram >= pgm_size + stack
    BY <2>1, <2>3, WrapKeeps DEF Inv, Valid, EnoughRam
  <2>5. ASSUME pgm_size + stack < ram
        PROVE  spl = ram - 1 /\ sp = ram - 1 - stack
    <3>1. ram - 1 \in Word /\ ram - 1 - stack \in Word
      BY <2>1, <2>2, <2>5 DEF Word
    <3> QED  BY <2>1, <3>1, WrapKeeps DEF Inv, StackPointer
  <2> HIDE DEF stack
  <2> QED  BY <2>1, <2>2, <2>4, <2>5
<1> QED  BY <1>1, Invariant, PTL

(* The machine refuses no file that fits. *)
THEOREM LoaderAccepts == Spec => []AcceptsWhatFits
<1>1. Inv => AcceptsWhatFits
  <2> DEFINE stack == file.header.stack_size
             ram_size == file.header.ram_size
  <2> SUFFICES ASSUME Inv, status = "rejected", file.size >= HeaderSize, file.header.wire,
                      pgm_size + stack <= ram_size, file.header.entry_point <= pgm_size
               PROVE  FALSE
    BY DEF AcceptsWhatFits
  <2>1. /\ ram_size \in Nat /\ ram_size < WordMod /\ stack \in Nat /\ WordMod \in Nat
    BY FileTyped, LoaderAssumption DEF Inv
  <2>2. pgm_size \in Nat
    BY FileTyped, LoaderAssumption DEF Inv, pgm_size
  <2>3. pgm_size + stack \in Word
    BY <2>1, <2>2 DEF Word
  <2>4. EnoughRam(file.header)
    BY <2>1, <2>3, WrapKeeps DEF EnoughRam
  <2> QED  BY <2>4 DEF Inv, Valid
<1> QED  BY <1>1, Invariant, PTL
=============================================================================
