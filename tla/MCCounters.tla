----------------------------- MODULE MCCounters -----------------------------
EXTENDS Counters
CONSTANTS u1, u2, u3

(* Two updates of both columns, and one of the second. *)
MCCellsOf == [u \in Updates |-> IF u = u3 THEN {2} ELSE {1, 2}]

(* The first new column comes between the two by name, the second before both. *)
MCIdOf == <<[c \in Columns |-> c - 1], [c \in Columns |-> 2 * c - 2], [c \in Columns |-> 2 * c - 1]>>
=============================================================================
