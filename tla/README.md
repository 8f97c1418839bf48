# wired_machine in TLA+

Specifications, model-checking configurations and proofs for `wired_machine`, a
virtual machine with user-space threads and the assembler for its programs.
Paths below are relative to the repository (`src/` is its root directory).

## The system

| part | source | state | operations |
|---|---|---|---|
| thread contexts | `src/src/th_process_ctx.c` | the table `ths` with `nb_ths` and `allocated_ths`; `current` | create, grow, switch, free |
| machine | `src/src/wired_machine.c`, main loop | registers, memory, `op`, `wm_state` | fetch, decode, execute, clock, schedule |
| instructions | `src/src/exec_instr.c` | registers, memory, `wm_state` | 46 opcodes (24 with register and immediate form taken together) |
| loader | `src/src/wired_machine.c`, main before the loop | header, memory, first registers | read, check, lay out |
| label table | `src/src/utils/hash_map.h` | array of chains of (label, address) | add, set address, find |
| assembler | `src/src/wiasm_to_wbin.c`, `parse_wiasm.c` | token buffer, instruction list, address counter, entry point | tokenise, parse, render |
| view strings | `src/src/ccbase/vs/view_string.h` | none (values) | split, trim, compare, convert |
| log | `src/src/ccbase/logs/` | one log file | init, write, close |

How they interact:

* The assembler reads a `.wiasm` text, gives every label an address while it
  collects instructions, looks labels up while it renders them and writes
  `out.wbin`; a header and the encoded instructions. That file is all the loader
  gets to see of it.
* The loader checks the header, copies the program to the start of the memory
  and puts the stack window at its end, and creates the context of thread 0.
* The loop runs one instruction of the current thread at a time. An instruction
  talks to the loop through `wm_state`: `pc_set` tells the clock not to advance
  PC, `exit` that the thread ends. `jmp_th` calls `ths_add_ctx`. After every
  `TH_SWITCH` instructions, or when the thread exits, the scheduler looks for the
  next active thread and `ths_switch_ctx` swaps the live registers and the stack
  window with the entries of the table.

What is hard in it: threads interleave at every instruction and share one set of
registers and one window that a switch must swap exactly; `exit`, `pc_set`,
`active` and `current` are written and read in different places of the loop and
of the instructions, and only the right order ends the machine at the right
time; the scan wraps around a table that grows while it is used; programs may
write PC and their own text; all arithmetic wraps around.

What makes each part correct:

* contexts: what belongs to a thread changes only while it runs; the table is
  always large enough;
* loop and scheduler: no instruction for a thread that exited, no thread passed
  over, every thread runs again, the machine returns when all threads have exited
  and only then;
* instructions: results are words; accesses outside the memory end the process;
* loader: program and stack lie apart and inside the memory, and nothing that
  fits is rejected;
* label table: a label keeps the address it was given, and lookups find it;
* assembler: the file holds what the text means; the address of a label is where
  the instruction after it is written; the texts with faults are the ones refused;
* view strings: a view stays inside its text, and each operation does with a view
  what it would do with a copy of the characters.

## Modules

| module | contents |
|---|---|
| `WiredDefs` | words, register numbers, memory layout, decoded instructions |
| `IsolatedThreads` | abstract: threads that cannot touch each other's context |
| `ThreadCtx` | operations of the thread contexts; extends `WiredDefs` |
| `ThreadEnv` | the contexts closed with a program that does anything |
| `WiredMachine` | loop, scheduler and instructions; extends `ThreadCtx` |
| `Alu` | what the arithmetic and bitwise instructions compute (for TLC) |
| `Loader` | from the file to the first instruction |
| `Dictionary` | abstract: labels that keep their address |
| `LabelTable` | the chained hash table |
| `Mnemonics` | the assembler's tables: names, codes, sizes, arguments, registers |
| `Numbers` | decimal and hexadecimal numbers, from characters |
| `Assembler` | tokenizer, parsers and renderer; extends `Mnemonics` and `LabelTable` |
| `Wiasm` | abstract: what a text means, read as a whole; extends `Assembler` |
| `Toolchain` | the assembler, then `Loader` on the file it left; extends `Wiasm` |
| `ViewString` | views of strings, and the assembler's pass that uses them |
| `MCThreadEnv`, `MCMachinePrograms`, `MCMachineInstructions`, `MCLabelTable`, `MCToolchain`, `MCStrings` | values for TLC |
| `ThreadCtxProofs`, `ThreadEnvProofs`, `WiredMachineProofs`, `LoaderProofs`, `WiasmProofs`, `ToolchainProofs` | proofs about the module of that name |
| `AssemblerProofs` | proofs about `LabelTable`, `Mnemonics` and `Assembler` |
| `ViewStringProofs` | proofs about `ViewString` and `Numbers` |

### Thread contexts

`ths`, `nb_ths`, `allocated_ths` and `current` are the fields of `ths_t`;
`registers` and `window` are the machine's live registers and the stack's part of
its memory, which `ths_switch_ctx` gets as pointers. `AddCtx` is `ths_add_ctx`
(the new stack is what `malloc` returns, hence any contents), `SwitchCtx` is
`ths_switch_ctx`: store in the current entry, then load from the other.

The switch copies `REGISTERS_NB` *bytes*. `CopyRegisters` models what that does:
15 bytes of a little-endian register array are PC and the seven low bytes of EQ
(`Splice`). `WordMod`, `ByteMod` and `LowMod` are 2^64, 2^8 and 2^56 in the code,
parameters here. The abstract context of a thread is therefore PC, the low bytes
of EQ, the stack and the active flag. The other registers are shared by all
threads; run `thread_registers` shows it.

`Isolation` is the refinement: the threads, seen through `CtxOf` (live for the
current thread, in the table for the others), implement `IsolatedThreads`, where
a step changes the running thread's context only, a switch changes none, and
only active threads are switched to.

### Machine

A turn of the loop is four steps, told apart by `phase`: `Fetch` (fetch and
decode), one of the `Exec...` actions, `Clock` (counter, PC, active flag) and
`SwitchThread` or `KeepThread`. The loop is sequential, so these steps interleave
with nothing; they are apart so that properties can speak about what happens
between them. `Found` is the scan of the scheduler: the first place after the
current one, around the table, that is active or is the current one again.

The memory is one array in the code. Here the bytes under the stack are `window`,
the others `heap`, and `text` says which *decoded* instructions still lie intact
in the memory. A store removes the instructions it hits; fetching at an address
where no intact instruction starts gives one of `WildOps` or ends the process.
This keeps programs that modify themselves or jump anywhere in the model without
encoding instructions in bytes. Programs (`Programs`) lie outside the window.

An instruction in memory (`Op`) has an `op_code` and, beside it, an `op_size`, and
nothing makes one suit the other. As in the code, `Decoded` reads as many arguments
as the size says, the others being zero, and the clock advances PC by the size
(`OpLen`), while the `Exec...` actions go by the code alone. `Arity` is the number of
arguments an opcode uses; that the assembler makes the two agree is shown of
`Toolchain`, and the machine does not rely on it.

A behaviour ends in one of three ways: `halted` (main returned), `failed`
(`CCB_ERROR`) or `undefined`: an access outside the memory that no check catches,
or one beyond the registers (`Misnamed`): only where the code gets as far as indexing
them, hence not after an error and not in a conditional jump that is not taken.
Nothing is claimed after that.

The counter IC is the 15th register, and an instruction that names it reads or writes
it like the others. It is kept apart, as `ic`, modulo `TH_SWITCH`, because nothing else
of it decides anything: what it `Shows` is any word with that remainder, so an
instruction that names it twice may see two values of it here, which the code does
not. The remainder survives the wrap-around of the counter if `TH_SWITCH` divides
`WordMod` (`MachineAssumption`); `TH_SWITCH` is 1 in the code.

`loada` is the one instruction that clears `exit` and leaves `pc_set`
(`exec_instr.c:75`). So does the model; both flags are clear at that point, `pc_set`
since the fetch and `exit` by the invariant `ExitFlag` below.

### Loader

One step from a file to the outcome of main's checks, with sums and differences
that wrap around. `Overrun` is the case in which the sum of the sizes wrapped
around and the program is copied beyond the memory. `Load` gives the registers SP, SPL and PC; their values are
what `ThreadCtx` starts with (`NewRegisters`, `CtxInit`). `HeaderAssumption` of
`WiredDefs` is what `Layout` shows of an accepted header with a byte to spare.

### Label table

A bucket is a sequence: the array's own entry and the chain behind it, empty
while the entry is unused. `AddLabel` is `table_add_label` followed by
`table_add_adrr`, as the assembler calls them; `hash_label` is any function. The
branch of `table_add_label` for an unused entry inside a chain (lines 94-103)
cannot be reached, as no entry is ever removed. `Dictionary` is what it promises.
The table is closed by `TableSpec` for its own run and its proofs; the assembler
uses the operations.

### Assembler

A text is a sequence of lexemes: tokens (as long as possible) and the characters
at which `main`'s `switch` stops. One step of the model is one turn of the loop,
except that the characters of a token are taken together. `buffer`,
`in_instruction`, `nb_args`, `program`, `instruction_addr`, `entry_point` and
`found_entry` are main's variables of these names; the `phase` tells where main
is: reading the header lines, scanning, checking the entry point, rendering.

* `Separator` and `LineEnd` hand the collected token over: to `ParseInstruction`
  as the first of a line, to `ParseArg` otherwise. Both actions differ in what
  they do to the line's state, as in the code.
* `Comment` drops the token before it and ends the line, its text skipped to the
  newline or to one step before the zero byte.
* `Label` enters the label with `instruction_addr`, also in the middle of a line,
  whose operation stays open.
* An operation starts with no arguments (`args` is a function on the arguments
  given); `RenderPlain` writes any `Junk` for one that is missing, which is what
  the uninitialised `operation_t` gives. A jump whose argument is no hexadecimal
  number is turned into `inst_jmp` and looked up when it is rendered, with the
  file already open.
* Sizes are stated twice in the code: `CountedBytes` is what `new_instruction`
  returns for an operation, `RawOp` what `render_pgm` has for each kind: the
  `op_size` it writes into the instruction, the arguments and the bytes it takes.
  `WrittenWhereCounted` and `SizesAgree` compare them.
* `TokenRefused`, `LabelRefused`, `BadHeader`, `HostFails` and the failing case of
  `RenderJump` are the calls of `CCB_ERROR`; a token of 64 characters is undefined
  behaviour, one of 65 is that or an error.

`starts` is a history variable, the address each operation was counted at. The
two header lines are read by `sscanf`: `ReadHeader` or `BadHeader`, any choice;
the sizes they give are `RamSize` and `StackSize`. What a token is as a number
comes from `Numbers`, which reads digits as `buffer_to_uint64` and
`buffer_to_hexnb` do, modulo the word.

`Wiasm` says what the same text means without any of this state: which positions
are comments, labels, operations and arguments, and the address of a label as a
sum of sizes. `AssemblesText` compares the two, for finished files and for what a
failing renderer left; `AcceptsExactlySound` says that an error is the text's
fault and that a finished text has none. Both leave out texts with a token
directly before a `#`, about which finding 5 is. The single pass implements the
whole reading; it is stated as invariants over its outcome, since the reading has
no steps. `InOrder` and `Size` are written as functions over numbers, and not with
operators that enumerate sets, so that the proofs can expand them.

### Toolchain

`StartMachine` hands the assembler's file, complete or cut short, to `Loader`,
instantiated with the status `vm`. `LoadedIsProgram` closes the circle: what is
loaded satisfies `IsProgram` of `WiredDefs`, which the machine assumes of
`Programs` (`MachineAssumption`), the `op_size` in the file suits the opcode and takes
PC from each instruction to the next or to the end, and, if the text gives every
argument, the registers named exist. Two conditions remain: a byte to spare in the
memory (finding 4), and for the registers that no argument is missing, as junk may
name one that does not exist. The entry point may be the end of the program: an
`ENTRY` behind the last instruction is accepted, and so is a header that says so.

### View strings

A view is a position and a length in the one `text`. Each C function is an
operator of its name. The pass main makes over the lines before it assembles
(`wiasm_to_wbin.c:169-185`) is the state machine `PassSpec`, split by split and
blank by blank; the laws are checked of every view it produces. `ViewsInside` is about
the two views of the pass and about every view that cutting a number of characters, or
splitting at a character, a set of them or a string, makes of these two.

## Runs

| run | module | properties | outcome |
|---|---|---|---|
| `thread_env` | `MCThreadEnv` | `CtxTypeOK`, `Capacity`, `Isolation` | hold |
| `thread_registers` | `MCThreadEnv` | `StoresAllRegisters` | violated, finding 1 |
| `programs` | `MCMachinePrograms` | `RunnerIsLive`, `HaltsWhenAllExited`, `PcOnInstruction`, `JumpsReach`, `Isolation`, `NoThreadSkipped`, `EveryThreadRuns`, `LastExitHalts` | hold |
| `instructions` | `MCMachineInstructions` | `TypeOK`, `HaltsWhenAllExited`, `Isolation`, `EveryThreadRuns` | hold |
| `neqi` | `MCMachineInstructions` | `NeqiComparesValue` | violated, finding 2 |
| `save_range` | `MCMachineInstructions` | `SaveChecksAddress` | violated, finding 3 |
| `loader` | `Loader` | `TypeOK`, `Layout`, `AcceptsWhatFits` | hold |
| `loader_window` | `Loader` | `WindowAboveProgram` | violated, finding 4 |
| `label_table` | `MCLabelTable` | `Chains`, `IsDictionary` | hold |
| `toolchain` | `MCToolchain` | `LabelsOnInstructions`, `WrittenWhereCounted`, `AssemblesText`, `AcceptsExactlySound`, `LoadedIsProgram`, `FinishedIsLoaded`, `ToolTerminates` | hold |
| `comments` | `MCToolchain` | `CommentsEndCode` | violated, finding 5 |
| `strings` | `MCStrings` | `ViewsInside`, `SplitLaw`, `CompareLaw`, `TrimLaw`, `NumberLaw`, `PassEnds` | hold |

Bounds and why they are enough:

* Words have 4 (contexts) or 32 (machine) values, of which the top bit stands for
  the top byte, so that a switch that swaps only the low part shows.
  `WordSize = 1` makes an instruction two to four addresses long, which keeps
  instruction boundaries apart from the addresses between them.
* `MaxThreads` is 3 where scheduling matters: the scan can then pass over an
  exited thread, wrap around, and find nothing; and the table grows at two of
  three creations. `AddCtx` at the bound fails the process, as a failed
  allocation does.
* `programs` runs *all* programs of three instructions before a final `scall 1`
  over jumps to every instruction, thread creation at every instruction, exit, a
  comparison and accesses to the stack: loops, threads that create threads, exits
  in any order. Relative jumps are given as the distance, which wraps around for
  those that lead back, and one instruction is longer than its opcode asks for.
  `PcOnInstruction` and `JumpsReach` are meaningful here because these programs never
  write PC as data nor their own text: each satisfies `StaysInText`, which
  `MCMachinePrograms` assumes and TLC evaluates (`TheyStay`).
* `instructions` runs all pairs from an alphabet with every opcode, with values
  chosen at the boundaries: addresses in the stack, in the program and beyond the
  memory, divisors 0 and not, negative bytes, jumps that wrap around; instructions
  with too short and too long an `op_size`; IC read and written; registers that do
  not exist, where they are indexed and where they are not. Two threads, a switch
  every two instructions. `WildOps` holds an exit of the wrong size, a store, an
  instruction that sets IC and one with a wrong register, so programs that run wild
  go on in each of these ways.
* `loader` takes all headers and file sizes of a 4-bit word.
* `label_table` has three labels in one chain, so that one is in the middle.
* `toolchain` takes all texts of three lines from 23: each family of mnemonics in
  one form at least, a label at the start, in the middle and at the end, empty and
  duplicate ones, two that collide, jumps forward, backward and to labels that are
  missing; arguments missing, surplus and of the wrong kind; comments that hold a
  label or an overlong token. Three lines are enough for a line to inherit state
  from the one before and leave some to the next. The memory of 10 words is too
  small for the longest texts, so that the loader refuses some; an `ENTRY` in the
  last line gives an entry point at the end of the program.
* `strings` takes all texts of up to 5 characters from 7: a newline, a blank, a
  colon, digits and the x of `0x`. Numbers wrap around at 256. Needles of up to
  two characters, the empty one included, make places overlap.

`CHECK_DEADLOCK` is off where a model really stops: when all threads of
`ThreadEnv` exited, after the loader's single step, after the table failed, after
assembler and loader, after the pass over the lines. In
`WiredMachine` the ended process stutters (`Ended`), and deadlock is checked.

Fairness: `WF_vars(Next)`, one weak fairness for the loop as a whole. One host
thread runs it and it waits for nothing. There is no fairness between VM threads:
that they take turns (`EveryThreadRuns`) is the scheduler's doing, and the
mutation that always takes the active thread of lowest number breaks it.
`WF_toolVars(ToolNext)` and the fairness of `PassSpec` are of the same kind: one
process that waits for nothing, then another.

Each property has a mutated definition (the operators marked "Fault" in the
modules) under which TLC finds it violated.

## Findings

1. `thread_registers`: a switch copies 15 bytes of 15 registers
   (`src/src/th_process_ctx.c:54`, `61`), so all registers but PC and the low
   bytes of EQ are shared by the threads, `$rt`, the exit code, included. In the run
   thread 0 sets RA to 1, creates thread 1 and is switched out; its entry of the table
   keeps RA = 0, and thread 1 reads the 1.
2. `neqi`: `exec_neqi` compares with the register numbered by its second argument
   (`src/src/exec_instr.c:267`); `src/wired_byte_code.txt:68` says it compares
   with the value.
3. `save_range`: `save` and `savei` check the number of the register that holds
   the address instead of the address (`src/src/exec_instr.c:84`, `96`).
4. `loader_window`: a program and a stack that fill the memory exactly are
   accepted, but the stack starts one byte lower than that (`wired_machine.c:81`,
   `100`); sizes whose sum wraps around are accepted too.
5. `comments`: at a `#` the token collected so far is dropped
   (`src/src/wiasm_to_wbin.c:202`), so `scall 4#` loses its argument and
   `ENTRY:scall#` its operation, without a message; `src/wired_byte_code.txt:119`
   only says that comments start with `#`.

Other places where documentation and code differ, without a run:
`src/wired_byte_code.txt` adds the operand of `jrei` to PC (line 82), and a label
as its operand is rendered as an absolute address, so that `jrei` to a label does
not get there; a jump target in decimal is taken for a label;
it says `jnei` jumps if `$eq != 0`, the code jumps if it
is 0, as for `jne`; it calls `$z` zero, but any instruction may write it, and
switches do not reset it; and it names the identificator `WIRED`, where both
programs use `WIRE` and a zero byte.

Two weak places that are modelled and about which no property is stated, as nothing in
the repository says otherwise: `Entry point out of executable zone`
(`wired_machine.c:85`) is reported above the size of the program only, not for an entry
point equal to it, so that the first fetch is of the bytes behind the program; and an
instruction with too few arguments (`xor ra rb`) is assembled without a message, the
rest being what the memory held, since `operation_t` is not initialised
(`parse_wiasm.c:888`).

## Proofs

TLAPS proves, for every word size, memory and stack size, number of threads, set
of programs, set of wild instructions and `TH_SWITCH`:

| theorem | property |
|---|---|
| `ThreadEnvProofs!CtxTyping`, `CtxCapacity`, `CtxIsolation` | `CtxTypeOK`, `Capacity`, `Isolation` of `CtxSpec` |
| `WiredMachineProofs!Typing` | `TypeOK` |
| `WiredMachineProofs!RunnerLives` | `RunnerIsLive` |
| `WiredMachineProofs!HaltsLast` | `HaltsWhenAllExited` |
| `WiredMachineProofs!RoundRobin` | `NoThreadSkipped` |
| `WiredMachineProofs!MachineIsolation` | `Isolation`, for the machine |
| `WiredMachineProofs!ThreadsStayInText`, `JumpsReachText` | `PcOnInstruction`, `JumpsReach`, if every program satisfies `StaysInText` |
| `LoaderProofs!LoaderTyping`, `LoaderLayout`, `LoaderAccepts` | `TypeOK`, `Layout`, `AcceptsWhatFits` of `Loader` |
| `AssemblerProofs!ChainsKept`, `TableIsDictionary` | `Chains`, `IsDictionary`, for any hash function |
| `AssemblerProofs!LabelAddresses` | `LabelsOnInstructions`, for any texts |
| `AssemblerProofs!PassesAgree` | `WrittenWhereCounted`, for any texts |
| `AssemblerProofs!SizesAgree` | bytes counted, bytes written and the advance by the `op_size` written are the same, and the arguments decoded those the opcode uses |
| `WiasmProofs!MeaningKept` | `AssemblesText`, for any texts |
| `WiasmProofs!FaultsRefused` | `AcceptsExactlySound`, for any texts |
| `ToolchainProofs!RefusedForSize` | `FinishedIsLoaded`, for any texts |
| `ToolchainProofs!LoadsPrograms` | `LoadedIsProgram`, for any texts |
| `ViewStringProofs!ViewsStayInside` | `ViewsInside`, for any strings |
| `ViewStringProofs!CutsMakeWhole`, `ComparesSequences`, `SplitsAtFirst` | `TrimLaw`, `CompareLaw`, `SplitLaw`, for any strings |
| `ViewStringProofs!NumbersRead` | `NumberLaw`, for any strings and any width of a word |

They assume the named ASSUMEs of the modules: the widths fit together and the
stack lies in the memory (`WidthsAssumption`, `HeaderAssumption`), there is room
for one thread, the loaded programs consist of instructions outside the window,
of any size and naming any register, `TH_SWITCH` divides the number of words, and
`Alu` gives words (`MachineAssumption`); file sizes and
headers are words of a given width (`LoaderAssumption`); texts consist of tokens
and separators, no two tokens side by side, the overlong ones among them, and
numbers are words (`TextAssumption`); a header's size is a number, the numbers of
the registers fit in a word, and no text is so long that the size of its program,
at most four words for each lexeme, wraps around (`ToolAssumption`); strings
consist of characters (`StringsAssumption`); a word has a value
(`ModulusAssumption`). TLC evaluates each of them on the values of the runs. The
one about the length of a text is no limit in practice: a word has 2^64 values,
and `main` holds the whole text in memory. Without it the header could state a
size smaller than the program behind it.

The arguments:

* *Contexts.* `ThreadCtxProofs` has one lemma per operation: typing, room in the
  table, and what the operation is for the isolated threads (`AddCtx` is a
  `Spawn`, `SwitchCtx` a `Switch`). `CtxInvariant` joins `CtxTypeOK` and
  `Capacity`: the table alone is not inductive, as growth relies on the count
  being within what is allocated. The machine's proofs cite the same lemmas.
* *Machine.* `HaltsWhenAllExited` alone is not inductive. `Inv` adds that the
  current thread is active whenever an instruction is fetched, executed or
  clocked (`RunnerIsLive`) and that the exit flag and the active flag agree
  (`ExitFlag`: the flag is set only between the instruction that exits and the
  schedule, and there the thread is already inactive). When `KeepThread` halts,
  the scan came back to the current thread, so every other place was passed as
  inactive, and by the flag the current one is too.
* *Round robin.* A lemma relates distances in the scan (`After`) to places
  between the old thread and the new.
* *Label table.* `AddedChain` says what adding a label does to a chain: the old
  entries stay, and the new one, with its address, is last. This needs the
  uniqueness of labels in a chain (`Chains`), which is the inductive invariant.
* *Threads in their text.* `StaysInText` is a condition on a program at rest: no
  instruction writes PC other than by a jump with an immediate target, stores go
  to the stack, and every target and every next instruction is in the text.
  `PcInv` adds to the machine's `Inv` that the text is the one loaded, that the PC
  of every active thread, live or saved, is in it, and that the fetched
  instruction is the one at PC until the clock has moved PC on. One lemma per way
  in which a step may move PC: jump, creation, clock, switch. Decoding keeps what
  `StaysInText` looks at (`DecodedOp`, `Decodes`), whatever the size. `JumpsReach`
  follows, as a target in the text is in the memory.
* *Loader.* The invariant records which checks a loaded file has passed; the
  arithmetic is that a sum below the word's width does not wrap around.
* *Assembler.* `Inv` says that the addresses in `starts` are the partial sums of
  the sizes of `program` (`Counted`), that what is written is a prefix of it at
  these addresses (`Filed`), and that labels lie on boundaries. The point is that
  an operation changes after it was counted: an argument may turn it into
  `inst_jmp`, and the proof needs that this happens to operations of one size
  only, and that the two tables of sizes agree (`SizesAgree`). How labels lie in their
  chains comes from the lemmas about `LabelTable`.
* *Meaning of a text.* The invariant `ReadSoFar` relates the assembler's pass to
  the reading of the whole text in `Wiasm`, as far as the pass has got:
  the lexeme it looks at is code and not inside a comment (`Place`); the line's
  state and the buffer are what the lexemes since the line began say (`Line`);
  `program` holds the operations of the reading that begin before this point, in
  their order, the last one with the arguments before this point
  (`OperationsRead`); the table holds the labels before it, each with the size of
  the operations before it (`LabelsRead`); what is written so far is what the
  reading gives (`OperationsPut`); which phase was reached says which of
  the reading's faults are absent (`Phases`), and an error names one
  (`Refusals`). It is inductive only together with the assembler's `Inv` and only
  for texts in which `CommentsApart` holds. What had to be shown first about the
  reading: `InOrder` lists every position of a finite set once and in increasing
  order (`InOrderIs`, by the rank of a position), so that the positions before a
  place are a prefix of it, and the prefix grows by one when the pass moves over
  one of them (`PrefixMoves`, `PrefixTakes`); and `Size` has one value only
  (`SizeIs`), so that the sums in `starts` are its values.
* *Toolchain.* `AssemblerInv` adds to the assembler's `Inv` that the addresses
  grow (`Ordered`), that the program is no larger than the text allows (`Short`),
  so that its size does not wrap around, that every operation's arguments are
  numbers of their kind (`Parsed`), and that every rendered instruction is made of
  words and, if its arguments were given, names registers (`File`). A file is then
  refused for its size only, and a file with a byte to spare is a program: the places of its instructions are the addresses counted,
  and by `SizesAgree` the `op_size` of each leads to where the next begins.
* *View strings.* `PassInv` says that the pass keeps two views inside the text.
  Each law is then a lemma about any such view: trimming and splitting stop at the
  least position with a property, whose existence is `Least`, and comparing reads
  through `Shown`.
* *Numbers.* The loop goes from the first digit and drops what exceeds a word; the
  reference adds digits at their places from the last. With j characters
  read (`DigitsByPlace`), the number so far times the weight of its place, and the
  value of the digits to come, are together the value of all, modulo the word:
  the next digit moves from one part to the other. The recursive functions have
  solutions because partial ones can be continued (`Recursion`).

Where an induction over a text or a string would be the natural argument, the proofs
look at the least number at which a statement fails (`Least`, and in `SizeIs` the
first of the positions at which two solutions of a recursion differ): the library's
induction theorems take an operator as a parameter, which the provers cannot
instantiate.

Every invariant and action property of a passing run is stated by a theorem. Only
model-checked: liveness (`EveryThreadRuns`, `LastExitHalts`, `ToolTerminates`,
`PassEnds`), which is out of the provers' reach, and the definition of `Alu`, of
which the proofs use only that it gives words.

## Not modelled

* `free_ths`, `free_hashmap`, `free_pgm`: they run only as a process ends.
* Printing (`scall 2`) and log messages. `CCB_ERROR` is modelled by its `exit`.
* `trace_log.h` and `dump_registers`, which nothing uses; build scripts.
* The unbounded case of programs that create threads forever.
* What follows the byte written behind the token buffer (a token of 64
  characters): the behaviour ends as undefined.
* `sscanf`'s reading of the header lines, beyond that it gives sizes or fails: a
  sign or spaces there are the C library's business.
* The log (one file opened and closed in each program) and its formats.
