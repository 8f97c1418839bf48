----------------------------- MODULE Toolchain -----------------------------
(***************************************************************************)
(* The assembler and the start of the machine, one after the other: the    *)
(* file out.wbin that the assembler leaves, complete or cut short by a     *)
(* failure, is what Loader reads.  The text's header lines state RamSize   *)
(* and StackSize.                                                          *)
(***************************************************************************)
EXTENDS Wiasm

CONSTANTS HeaderSize, MaxFile, HostMemory   \* see Loader

(* No text is so long that the size of its program, at most four words for *)
(* a lexeme, would not be an uint64_t; and registers are numbered by words.*)
ASSUME ToolAssumption ==
    /\ HeaderSize \in Nat
    /\ RH < WordMod
    /\ \A t \in Texts : 4 * WordSize * Len(t) < WordMod

VARIABLES
    file,        \* as Loader reads it
    vm,          \* "waiting" for a file, then Loader's status
    ram, sp, spl, pc

loaderVars == <<file, vm, ram, sp, spl, pc>>
toolVars == <<vars, loaderVars>>

L == INSTANCE Loader WITH status <- vm

OutFile == [size |-> HeaderSize + offset,
            header |-> [wire |-> TRUE, ram_size |-> RamSize,
                        stack_size |-> StackSize, entry_point |-> entry_point]]

ToolInit ==
    /\ Init
    /\ file = OutFile /\ vm = "waiting"
    /\ ram = 0 /\ sp = 0 /\ spl = 0 /\ pc = 0

Assemble == Next /\ UNCHANGED loaderVars

StartMachine ==
    /\ vm = "waiting" /\ LeavesFile
    /\ file' = OutFile /\ vm' = "reading"
    /\ UNCHANGED <<vars, ram, sp, spl, pc>>

LoadFile == L!Next /\ UNCHANGED vars

ToolNext == Assemble \/ StartMachine \/ LoadFile

(* Two processes, one after the other; neither waits for anything else.    *)
ToolSpec == ToolInit /\ [][ToolNext]_toolVars /\ WF_toolVars(ToolNext)

-----------------------------------------------------------------------------
(* What the loaded memory holds. *)
LoadedText == [a \in { written[i].at : i \in DOMAIN written } |->
                 (CHOOSE w \in { written[i] : i \in DOMAIN written } : w.at = a).op]

(* The text gives every operation all of its arguments. *)
AllArgumentsGiven ==
    \A i \in DOMAIN program :
        program[i].size # "inst_jmp" =>
            DOMAIN program[i].args = 0 .. Len(ArgsOf(program[i].name)) - 1

(* When the memory has a byte to spare, what the machine is started with   *)
(* is a program: instructions apart from the stack, of each of which it    *)
(* decodes as many arguments as the opcode uses, and whose op_size takes   *)
(* PC to the next one or to the end; the entry point is at one of them or, *)
(* which nothing prevents, at the end.  This holds also of a file that a   *)
(* missing label cut short: the machine cannot tell it from a whole one.   *)
(* If the text gives all arguments, all register operands name registers.  *)
LoadedIsProgram ==
    vm = "loaded" /\ offset + StackSize < RamSize =>
        /\ IsProgram([entry |-> pc, text |-> LoadedText])
        /\ {pc} \cup { a + OpLen(LoadedText[a]) : a \in DOMAIN LoadedText }
              \subseteq DOMAIN LoadedText \cup {offset}
        /\ \A a \in DOMAIN LoadedText : NArgs(LoadedText[a]) = Arity(LoadedText[a].code)
        /\ AllArgumentsGiven => \A a \in DOMAIN LoadedText : WellNamed(LoadedText[a])

(* The machine refuses a finished file only if program and stack do not    *)
(* fit into the memory its text asked for.                                 *)
FinishedIsLoaded ==
    vm = "rejected" /\ phase = "done" => offset + StackSize > RamSize

(* Every text is loaded in the end, or assembler or machine refuse it.     *)
ToolTerminates ==
    <>(vm \in {"loaded", "rejected", "failed", "undefined"} \/ (status # "running" /\ ~LeavesFile))
=============================================================================
