------------------------------ MODULE MCChannel ------------------------------
(* Channel for TLC: threads are model values, interchangeable within a side. *)
EXTENDS Channel, TLC

ThreadSymmetry == Permutations(Producers) \cup Permutations(Consumers)
==============================================================================
