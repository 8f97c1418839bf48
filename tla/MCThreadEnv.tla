---------------------------- MODULE MCThreadEnv ----------------------------
(* Values for TLC: three threads, words of two low and one high "byte".    *)
EXTENDS ThreadEnv

MCEntryPoints == {0, 3}
MCWrites == ({PC} \X {0, 3}) \cup ({EQ} \X Word)
MCUserWrites == {RA} \X Word
=============================================================================
