------------------------------- MODULE Loader -------------------------------
(***************************************************************************)
(* The start of the virtual machine, main up to its loop                   *)
(* (src/src/wired_machine.c): a file is read, its header checked, and the  *)
(* memory, the registers and the stack window laid out from it.  All       *)
(* quantities are uint64_t, so sums and differences wrap around.           *)
(***************************************************************************)
EXTENDS Integers

CONSTANTS
    WordMod,     \* number of values of an uint64_t
    HeaderSize,  \* sizeof(wired_vm_header_t)
    MaxFile,     \* bound: the largest file
    HostMemory   \* the largest block malloc returns

ASSUME LoaderAssumption ==
    /\ WordMod \in Nat /\ MaxFile \in 0 .. WordMod - 1
    /\ HeaderSize \in 1 .. MaxFile /\ HostMemory \in Nat

Word == 0 .. WordMod - 1

(* wired_vm_header_t; "wire" tells that the identificator is "WIRE". *)
Header == [wire : BOOLEAN, ram_size : Word, stack_size : Word, entry_point : Word]

VARIABLES
    file,    \* the file's size and the header its first bytes make
    status,  \* "reading", "loaded" (the loop starts), "rejected", "failed" or
             \* "undefined" (the program was copied beyond the memory)
    ram,     \* bytes allocated for the machine's memory
    sp, spl, pc  \* the registers SP, SPL and PC

vars == <<file, status, ram, sp, spl, pc>>
memory == <<ram, sp, spl, pc>>

TypeOK ==
    /\ file \in [size : 0 .. MaxFile, header : Header]
    /\ status \in {"reading", "loaded", "rejected", "failed", "undefined"}
    /\ ram \in 0 .. HostMemory
    /\ sp \in Word /\ spl \in Word /\ pc \in Word

Init ==
    /\ file \in [size : 0 .. MaxFile, header : Header]
    /\ status = "reading"
    /\ ram = 0 /\ sp = 0 /\ spl = 0 /\ pc = 0

-----------------------------------------------------------------------------
pgm_size == file.size - HeaderSize

Wrap(x) == x % WordMod

(* Faults: the check asks for one byte more; the stack begins where it     *)
(* should end; a difference does not wrap around.                          *)
AsksMore(h) == h.ram_size > Wrap(pgm_size + h.stack_size)
StackOnTop(h) == Wrap(h.ram_size - 1)
StackBelowZero(h) == h.ram_size - 1 - h.stack_size

EnoughRam(h) == h.ram_size >= Wrap(pgm_size + h.stack_size)
StackPointer(h) == Wrap(h.ram_size - 1 - h.stack_size)

(* The checks, in order: the file holds a header, its identificator, the   *)
(* size of the memory, the entry point.                                    *)
Valid == /\ file.size >= HeaderSize
         /\ file.header.wire
         /\ EnoughRam(file.header)
         /\ file.header.entry_point <= pgm_size

(* A check fails. *)
Reject ==
    /\ status = "reading" /\ ~Valid
    /\ status' = "rejected"
    /\ UNCHANGED <<file, memory>>

(* There is no file, it cannot be read, or the memory not allocated. *)
HostFails ==
    /\ status = "reading"
    /\ status' = "failed"
    /\ UNCHANGED <<file, memory>>

Allocates == status = "reading" /\ Valid /\ file.header.ram_size <= HostMemory

(* The sum of the sizes wrapped around, and the program is larger than the *)
(* memory it is copied to.                                                 *)
Overrun ==
    /\ Allocates /\ pgm_size > file.header.ram_size
    /\ status' = "undefined"
    /\ UNCHANGED <<file, memory>>

Load ==
    /\ Allocates /\ pgm_size <= file.header.ram_size
    /\ status' = "loaded"
    /\ ram' = file.header.ram_size
    /\ spl' = Wrap(file.header.ram_size - 1)
    /\ sp' = StackPointer(file.header)
    /\ pc' = file.header.entry_point
    /\ UNCHANGED file

Next == Load \/ Overrun \/ Reject \/ HostFails

Spec == Init /\ [][Next]_vars

-----------------------------------------------------------------------------
(* The layout the machine relies on.  When the sizes do not wrap around,   *)
(* program and stack fit in the memory; and when there is a byte to spare, *)
(* the window begins above the program, ends at SPL, and SPL is the last   *)
(* byte of the memory.                                                     *)
Layout ==
    LET used == pgm_size + file.header.stack_size
    IN  status = "loaded" /\ used < WordMod =>
            /\ used <= ram
            /\ used < ram => /\ pgm_size <= sp
                             /\ sp + file.header.stack_size = spl
                             /\ spl = ram - 1

(* No file is rejected whose program and stack fit and whose entry point   *)
(* lies in the program.                                                    *)
AcceptsWhatFits ==
    status = "rejected" =>
        ~ /\ file.size >= HeaderSize /\ file.header.wire
          /\ pgm_size + file.header.stack_size <= file.header.ram_size
          /\ file.header.entry_point <= pgm_size

(* "Not enough ram allocated": in an accepted file, the memory has room    *)
(* for the program and, above it, for the stack.                           *)
WindowAboveProgram ==
    status = "loaded" =>
        pgm_size <= sp /\ sp + file.header.stack_size <= ram
=============================================================================
