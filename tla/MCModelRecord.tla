--------------------------- MODULE MCModelRecord ---------------------------
(***************************************************************************)
(* ModelRecord for TLC: the script's variables are interchangeable.        *)
(***************************************************************************)
EXTENDS ModelRecord, TLC

Symmetry == Permutations(Variables)
=============================================================================
