----------------------------- MODULE MCStrings -----------------------------
(* Values for TLC: all texts of up to five characters, split and skipped   *)
(* through as main does, and each of them read as a number.                *)
EXTENDS ViewString, Numbers

MCChars == {" ", ":", "\n", "0", "x", "9", "f"}
MCStringSet == UNION { [1 .. n -> MCChars] : n \in 0 .. 5 }
MCNeedles == UNION { [1 .. n -> {" ", ":", "0"}] : n \in 0 .. 2 }

(* Every text that is a number is read as its digits say. *)
NumberLaw == pass = "done" => ReadsNumber(text)
=============================================================================
