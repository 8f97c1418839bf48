---------------------------- MODULE MCLabelTable ----------------------------
(* Values for TLC: four labels, three of which collide, and two addresses  *)
(* next to the 0 an entry starts with.                                     *)
EXTENDS LabelTable

CONSTANTS a, b, c, d

MCHash == [l \in Labels |-> IF l = d THEN 1 ELSE 0]
=============================================================================
