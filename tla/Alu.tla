-------------------------------- MODULE Alu --------------------------------
(***************************************************************************)
(* What the arithmetic and bitwise instructions compute, in unsigned words *)
(* that wrap around (exec_add .. exec_xori of src/src/exec_instr.c).       *)
(***************************************************************************)
EXTENDS WiredDefs

LOCAL INSTANCE Bitwise

AluResult(code, x, y) ==
    CASE code = "add"  -> (x + y) % WordMod
      [] code = "min"  -> (x - y) % WordMod
      [] code = "mult" -> (x * y) % WordMod
      [] code = "div"  -> x \div y
      [] code = "and"  -> x & y
      [] code = "or"   -> x | y
      [] code = "xor"  -> x ^^ y
=============================================================================
