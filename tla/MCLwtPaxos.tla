----------------------------- MODULE MCLwtPaxos -----------------------------
(* Small instances of LwtPaxos for TLC.                                    *)
EXTENDS LwtPaxos, TLC

\* The replicas of a kind, and the coordinators, are interchangeable.
Symmetry == Permutations(Natural) \cup Permutations(Coordinators)
=============================================================================
