------------------------------ MODULE MCReaders ------------------------------
(* Small instances of Readers for TLC.                                     *)
EXTENDS Readers, TLC

\* All queriers read one table.
OneTable == [r \in Queriers |-> "t"]
=============================================================================
