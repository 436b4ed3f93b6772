----------------------------- MODULE MCOpenTable -----------------------------
(* OpenTable for TLC; keys and values are interchangeable model values.      *)
EXTENDS OpenTable, TLC

TableSymmetry == Permutations(Keys) \cup Permutations(Values)
==============================================================================
