----------------------------- MODULE Assembler -----------------------------
(***************************************************************************)
(* The assembler: main and render_pgm of src/src/wiasm_to_wbin.c with the  *)
(* parsers of src/src/parse_wiasm.c (tables: Mnemonics) and the table of   *)
(* labels (LabelTable).  One pass over the text collects operations and    *)
(* gives labels their addresses, a second one renders the operations into  *)
(* a file that is already open.                                            *)
(*                                                                         *)
(* A text is a sequence of lexemes: tokens, as long as possible, and the   *)
(* characters the tokenizer stops at.  What a token is as a number is      *)
(* given by NumberOf and HexTokens; Numbers computes both from characters. *)
(***************************************************************************)
EXTENDS Mnemonics, LabelTable

CONSTANTS
    Texts,       \* the texts to assemble, without their two header lines
    Tokens,      \* the tokens they are made of
    NumberOf,    \* buffer_to_uint64, for the tokens that are numbers
    HexTokens,   \* the numbers written in hexadecimal (is_hexnb)
    FullTokens,  \* tokens of 64 characters, as many as the buffer holds
    LongTokens,  \* tokens of more than 64 characters
    Junk         \* what memory that was not initialised may hold

Blank == " "       \* also a tabulator or a carriage return
Newline == "\n"
Colon == ":"
Hash == "#"
End == ""          \* the zero byte behind the text; as a token: none
Separators == {Blank, Newline, Colon, Hash}

ASSUME TextAssumption ==
    /\ Tokens \cap (Separators \cup {End}) = {}
    /\ \A t \in Texts : t \in Seq(Tokens \cup Separators)
    /\ \A t \in Texts : \A i \in 1 .. Len(t) - 1 :
          t[i] \notin Tokens \/ t[i + 1] \notin Tokens
    /\ FullTokens \cup LongTokens \subseteq Tokens
    /\ HexTokens \subseteq DOMAIN NumberOf
    /\ \A w \in DOMAIN NumberOf : NumberOf[w] \in Word
    /\ Junk \subseteq Word /\ Junk # {}
    /\ Labels = Tokens \cup {End} /\ Addrs = Nat

VARIABLES
    text,
    phase,             \* "header", "scan", "entry", "render" or "done"
    current,           \* the lexeme main looks at
    buffer,            \* the token collected so far
    in_instruction,    \* the line's operation has been parsed
    nb_args,           \* and so many arguments
    program,           \* program_t: the operations
    instruction_addr,  \* the size of the operations
    starts,            \* history: instruction_addr before each operation
    entry_point, found_entry,
    written,           \* the instructions in the file, behind the header
    offset             \* their size

lineVars == <<in_instruction, nb_args>>
programVars == <<program, instruction_addr, starts>>
entryVars == <<entry_point, found_entry>>
fileVars == <<written, offset>>
scanVars == <<current, buffer, lineVars, programVars, entryVars>>
vars == <<text, phase, scanVars, fileVars, table>>

Init ==
    /\ text \in Texts
    /\ phase = "header"
    /\ current = 1 /\ buffer = End
    /\ in_instruction = FALSE /\ nb_args = 0
    /\ program = <<>> /\ instruction_addr = 0 /\ starts = <<>>
    /\ entry_point = 0 /\ found_entry = FALSE
    /\ written = <<>> /\ offset = 0
    /\ TableInit

(* CCB_ERROR ends the process, or something undefined happens: no step is  *)
(* modelled after that.                                                    *)
Ends(how) == status' = how /\ UNCHANGED <<text, phase, scanVars, fileVars, hash_map, found>>

-----------------------------------------------------------------------------
(* Operations.  "args" holds the arguments given so far, nothing at first: *)
(* new_instruction leaves them uninitialised.                              *)
NewOperation(w) == [name |-> w, size |-> SizeOf(w), args |-> [k \in {} |-> 0], flag |-> End]

Accepts(o, k, w) ==
    /\ k < Len(ArgsOf(o.name))
    /\ ArgsOf(o.name)[k + 1] = "register" => w \in RegisterNames
    /\ ArgsOf(o.name)[k + 1] = "number" => w \in DOMAIN NumberOf

IsLabel(o, k, w) == ArgsOf(o.name)[k + 1] = "target" /\ w \notin HexTokens

ValueOf(w) == IF w \in RegisterNames THEN RegisterOf[w] ELSE NumberOf[w]

(* What parse_..._arg does with an argument it accepts. *)
WithArg(o, k, w) ==
    IF IsLabel(o, k, w) THEN [o EXCEPT !.flag = w, !.size = "inst_jmp"]
    ELSE [o EXCEPT !.args = [j \in DOMAIN @ \cup {k} |-> IF j = k THEN ValueOf(w) ELSE @[j]]]

Operation == program[Len(program)]

ParseInstruction ==
    /\ ~in_instruction /\ buffer \in Mnemonics
    /\ program' = Append(program, NewOperation(buffer))
    /\ starts' = Append(starts, instruction_addr)
    /\ instruction_addr' = instruction_addr + CountedBytes(SizeOf(buffer))

(* Fault: an argument counts as an instruction of its own would. *)
ParseArgCounts ==
    /\ in_instruction /\ Accepts(Operation, nb_args, buffer)
    /\ program' = [program EXCEPT ![Len(program)] = WithArg(@, nb_args, buffer)]
    /\ instruction_addr' = instruction_addr + WordSize
    /\ UNCHANGED starts

ParseArg ==
    /\ in_instruction /\ Accepts(Operation, nb_args, buffer)
    /\ program' = [program EXCEPT ![Len(program)] = WithArg(@, nb_args, buffer)]
    /\ UNCHANGED <<starts, instruction_addr>>

(* At a separator: a token that was collected is parsed. *)
HandOver == \/ buffer = End /\ UNCHANGED programVars
            \/ buffer # End /\ (ParseInstruction \/ ParseArg)

(* "Can't parse", "Unkown register", "Can't parse nb", "Too much args". *)
Refused ==
    /\ buffer # End
    /\ \/ ~in_instruction /\ buffer \notin Mnemonics
       \/ in_instruction /\ ~Accepts(Operation, nb_args, buffer)

-----------------------------------------------------------------------------
(* The tokenizer. *)

Lexeme == IF current \in DOMAIN text THEN text[current] ELSE End
Reads(S) == /\ status = "running" /\ phase = "scan"
            /\ current <= Len(text) + 1 /\ Lexeme \in S

(* Fault: a comment at the end of the text leads behind its end.           *)
SkipsBeyond(q) ==
    /\ current' = q + 1
    /\ q \in DOMAIN text => text[q] = Newline
    /\ \A r \in current .. q - 1 : text[r] # Newline

(* A comment reaches to the end of its line or of the text.                *)
Skips(q) ==
    /\ current' = IF q = Len(text) + 1 THEN q ELSE q + 1
    /\ q \in DOMAIN text => text[q] = Newline
    /\ \A r \in current .. q - 1 : text[r] # Newline

Comment ==
    /\ Reads({Hash})
    /\ \E q \in current .. Len(text) + 1 : Skips(q)
    /\ buffer' = End
    /\ in_instruction' = FALSE /\ nb_args' = 0
    /\ UNCHANGED <<text, phase, programVars, entryVars, fileVars, table>>

Separator ==
    /\ Reads({Blank, End})
    /\ HandOver
    /\ IF buffer = End THEN UNCHANGED lineVars
       ELSE in_instruction' = TRUE /\ nb_args' = IF in_instruction THEN nb_args + 1 ELSE 0
    /\ buffer' = End
    /\ IF Lexeme = End THEN phase' = "entry" /\ UNCHANGED current
       ELSE current' = current + 1 /\ UNCHANGED phase
    /\ UNCHANGED <<text, entryVars, fileVars, table>>

(* Fault: an empty token leaves the line's operation open. *)
LineEndKeeps ==
    /\ Reads({Newline})
    /\ HandOver
    /\ IF buffer = End THEN UNCHANGED lineVars ELSE in_instruction' = FALSE /\ nb_args' = 0
    /\ buffer' = End
    /\ current' = current + 1
    /\ UNCHANGED <<text, phase, entryVars, fileVars, table>>

LineEnd ==
    /\ Reads({Newline})
    /\ HandOver
    /\ in_instruction' = FALSE /\ nb_args' = 0
    /\ buffer' = End
    /\ current' = current + 1
    /\ UNCHANGED <<text, phase, entryVars, fileVars, table>>

TokenRefused == Reads({Blank, End, Newline}) /\ Refused /\ Ends("failed")

(* Fault: a label stands for the address of the operation before it.       *)
OperationAddr == IF starts = <<>> THEN 0 ELSE starts[Len(starts)]

LabelAddr == instruction_addr

Label ==
    /\ Reads({Colon})
    /\ AddLabel(buffer, LabelAddr)
    /\ entry_point' = IF buffer = "ENTRY" THEN instruction_addr ELSE entry_point
    /\ found_entry' = (found_entry \/ buffer = "ENTRY")
    /\ buffer' = End
    /\ current' = current + 1
    /\ UNCHANGED <<text, phase, lineVars, programVars, fileVars>>

LabelRefused ==
    /\ Reads({Colon})
    /\ AddFails(buffer)
    /\ UNCHANGED <<text, phase, scanVars, fileVars>>

Token ==
    /\ Reads(Tokens \ (FullTokens \cup LongTokens))
    /\ buffer' = Lexeme
    /\ current' = current + 1
    /\ UNCHANGED <<text, phase, lineVars, programVars, entryVars, fileVars, table>>

(* The zero byte behind the 64th character is written behind the buffer;   *)
(* the 65th is refused.                                                    *)
TokenTooLong ==
    \/ Reads(FullTokens \cup LongTokens) /\ Ends("undefined")
    \/ Reads(LongTokens) /\ Ends("failed")

-----------------------------------------------------------------------------
ReadHeader ==
    /\ status = "running" /\ phase = "header"
    /\ phase' = "scan"
    /\ UNCHANGED <<text, scanVars, fileVars, table>>

(* The file lacks one of the header lines. *)
BadHeader == status = "running" /\ phase = "header" /\ Ends("failed")

(* The entry point is checked, the file opened and the header written.     *)
CheckEntry ==
    /\ status = "running" /\ phase = "entry"
    /\ \/ ~found_entry /\ Ends("failed")
       \/ /\ found_entry /\ phase' = "render"
          /\ UNCHANGED <<text, scanVars, fileVars, table>>

(* Faults: a jump to a label is written with room for two arguments; the   *)
(* longest instructions get the op_size of the case before.                *)
RawJumpLong(size) ==
    CASE size = "inst_128" -> [op_size |-> "inst_128", args |-> 1, bytes |-> 2 * WordSize]
      [] size \in {"inst_192", "inst_jmp"} ->
            [op_size |-> "inst_192", args |-> 2, bytes |-> 3 * WordSize]
      [] size = "inst_256" -> [op_size |-> "inst_256", args |-> 3, bytes |-> 4 * WordSize]
RawSizeCopied(size) ==
    CASE size \in {"inst_128", "inst_jmp"} ->
            [op_size |-> "inst_128", args |-> 1, bytes |-> 2 * WordSize]
      [] size = "inst_192" -> [op_size |-> "inst_192", args |-> 2, bytes |-> 3 * WordSize]
      [] size = "inst_256" -> [op_size |-> "inst_192", args |-> 3, bytes |-> 4 * WordSize]

(* The cases of render_pgm: the op_size it writes into the instruction,    *)
(* how many arguments, and sizeof(raw_128_op), ...                         *)
RawOp(size) ==
    CASE size \in {"inst_128", "inst_jmp"} ->
            [op_size |-> "inst_128", args |-> 1, bytes |-> 2 * WordSize]
      [] size = "inst_192" -> [op_size |-> "inst_192", args |-> 2, bytes |-> 3 * WordSize]
      [] size = "inst_256" -> [op_size |-> "inst_256", args |-> 3, bytes |-> 4 * WordSize]

(* The arguments are written, given or not; there are no others. *)
Encoded(o, args) ==
    [code |-> InstructionOf(o.name).code, imm |-> InstructionOf(o.name).imm,
     size |-> RawOp(o.size).op_size,
     args |-> [k \in 0 .. 2 |-> IF k < RawOp(o.size).args THEN args[k] ELSE 0]]

Write(o, args) ==
    /\ written' = Append(written, [at |-> offset, bytes |-> RawOp(o.size).bytes,
                                   op |-> Encoded(o, args)])
    /\ offset' = offset + RawOp(o.size).bytes
    /\ UNCHANGED <<text, phase, scanVars>>

Rendering(o) == /\ status = "running" /\ phase = "render"
                /\ Len(written) < Len(program)
                /\ o = program[Len(written) + 1]

RenderPlain ==
    \E o \in {program[i] : i \in DOMAIN program}, junk \in [0 .. 2 -> Junk] :
        /\ Rendering(o) /\ o.size # "inst_jmp"
        /\ Write(o, [k \in 0 .. 2 |-> IF k \in DOMAIN o.args THEN o.args[k] ELSE junk[k]])
        /\ UNCHANGED table

(* A jump to a label, whose address is only looked up now.                 *)
RenderJump ==
    \E o \in {program[i] : i \in DOMAIN program} :
        /\ Rendering(o) /\ o.size = "inst_jmp"
        /\ Lookup(o.flag)
        /\ \/ status' = "running" /\ Write(o, [k \in 0 .. 2 |-> found'])
           \/ status' = "failed" /\ UNCHANGED <<text, phase, scanVars, fileVars>>

Finish ==
    /\ status = "running" /\ phase = "render" /\ Len(written) = Len(program)
    /\ phase' = "done"
    /\ UNCHANGED <<text, scanVars, fileVars, table>>

(* The file cannot be read, created or written, or there is no memory for  *)
(* the text or for one more operation.                                     *)
HostFails ==
    /\ status = "running"
    /\ \/ phase \in {"header", "entry", "render"}
       \/ phase = "scan" /\ buffer # End /\ ~in_instruction
    /\ Ends("aborted")

Scan == \/ Comment \/ Separator \/ LineEnd \/ TokenRefused \/ Label \/ LabelRefused
        \/ Token \/ TokenTooLong

Next == \/ ReadHeader \/ BadHeader \/ Scan \/ CheckEntry
        \/ RenderPlain \/ RenderJump \/ Finish \/ HostFails

(* One process that waits for nothing. *)
Spec == Init /\ [][Next]_vars /\ WF_vars(Next)

-----------------------------------------------------------------------------
(* Addresses of operations and the address behind the last one.            *)
Boundaries == { starts[i] : i \in DOMAIN starts } \cup {instruction_addr}

(* A label, ENTRY included, stands for the start of an operation or for    *)
(* the end of the program, wherever in a line it is written: addresses are *)
(* counted while lines are parsed, and the labels used before the sizes of *)
(* later operations are known.                                             *)
LabelsOnInstructions ==
    /\ \A b \in Buckets : \A i \in DOMAIN hash_map[b] : hash_map[b][i].addr \in Boundaries
    /\ entry_point \in Boundaries

(* The second pass puts each operation where the first one counted it: the *)
(* sizes render_pgm writes, jumps to labels included, are those that       *)
(* new_instruction returned.                                               *)
WrittenWhereCounted ==
    /\ \A i \in DOMAIN written : written[i].at = starts[i]
    /\ phase = "done" => offset = instruction_addr

(* The assembler comes to an end.                                          *)
Terminates == <>(phase = "done" \/ status # "running")
=============================================================================
