---------------------------- MODULE DurableStore ----------------------------
(***************************************************************************)
(* What the storage of a node promises, without its commit log, memtables  *)
(* and sstables: a set of writes that reads show, some of which are firm   *)
(* (they outlive any crash) and some of which are dead (a completed         *)
(* truncation removed them, and they never come back).                     *)
(***************************************************************************)
CONSTANT Writes

VARIABLES
  shown,   \* what reads return
  firm,    \* writes that must stay visible
  dead,    \* writes that must stay invisible
  up       \* whether the node runs

vars == <<shown, firm, dead, up>>

TypeOK ==
  /\ shown \subseteq Writes
  /\ firm \subseteq Writes
  /\ dead \subseteq Writes
  /\ up \in BOOLEAN

Init == shown = {} /\ firm = {} /\ dead = {} /\ up = TRUE

(* A write is applied.  It is firm at once if its client waits for the disk. *)
Write(w) ==
  /\ up
  /\ w \notin dead
  /\ shown' = shown \cup {w}
  /\ firm' \in {firm, firm \cup {w}}
  /\ UNCHANGED <<dead, up>>

(* Visible writes become firm. *)
Harden ==
  /\ up
  /\ \E ws \in SUBSET shown : firm' = firm \cup ws
  /\ UNCHANGED <<shown, dead, up>>

(* A truncation is asked for: the writes it covers are no longer firm. *)
Withdraw ==
  /\ up
  /\ \E ws \in SUBSET firm : firm' = firm \ ws
  /\ UNCHANGED <<shown, dead, up>>

(* It removes writes that are not firm ... *)
Hide ==
  /\ up
  /\ \E ws \in SUBSET (shown \ firm) : shown' = shown \ ws
  /\ UNCHANGED <<firm, dead, up>>

(* ... and is over: what it covers is dead. *)
Bury ==
  /\ up
  /\ \E ws \in SUBSET (Writes \ (shown \cup firm)) : dead' = dead \cup ws
  /\ UNCHANGED <<shown, firm, up>>

Crash ==
  /\ up
  /\ up' = FALSE
  /\ shown' = {}
  /\ UNCHANGED <<firm, dead>>

(* The node comes back with everything that is firm and nothing dead.  Writes that *)
(* are neither may or may not be there.                                            *)
Restart ==
  /\ ~up
  /\ up' = TRUE
  /\ shown' \in SUBSET (Writes \ dead)
  /\ firm \subseteq shown'
  /\ UNCHANGED <<firm, dead>>

Next ==
  \/ \E w \in Writes : Write(w)
  \/ Harden \/ Withdraw \/ Hide \/ Bury \/ Crash \/ Restart

Spec == Init /\ [][Next]_vars
=============================================================================
