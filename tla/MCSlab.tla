-------------------------------- MODULE MCSlab --------------------------------
(* Slab for TLC; the elements are interchangeable model values.              *)
EXTENDS Slab, TLC

ElementSymmetry == Permutations(Values)
==============================================================================
