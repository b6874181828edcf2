-------------------------- MODULE MCHandleManager --------------------------
(* HandleManager for TLC: the pointers are interchangeable.                *)
EXTENDS HandleManager, TLC

PointerSymmetry == Permutations(Pointers)
=============================================================================
