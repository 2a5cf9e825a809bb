------------------------------ MODULE MCStorage ------------------------------
(* Small instances of Storage for TLC.                                     *)
EXTENDS Storage, TLC

Symmetry == Permutations(Tables)
=============================================================================
