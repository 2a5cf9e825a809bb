--------------------------- MODULE MCWriteHandler ---------------------------
(* Small instances of WriteHandler for TLC.                                *)
EXTENDS WriteHandler, TLC

CONSTANTS me, n2, n3, n4, n5

Write(cl, type, natural, pending) ==
  [cl |-> cl, type |-> type, natural |-> natural, pending |-> pending]

\* One datacenter with two replicas.
OneDc == [x \in Endpoints |-> 1]
Two   == [x \in {1} |-> 2]
Simple == {Write("ONE", "SIMPLE", {me, n2}, {})}

\* A datacenter with one replica, the coordinator, which n2 joins; another with
\* three replicas.
TwoDcs == [x \in Endpoints |-> IF x \in {me, n2} THEN 1 ELSE 2]
OneAndThree == [x \in {1, 2} |-> IF x = 1 THEN 1 ELSE 3]
Natural == {me, n3, n4, n5}
Clients ==
  {Write(cl, "SIMPLE", Natural, pending) :
     cl \in {"TWO", "QUORUM", "ALL", "LOCAL_QUORUM", "EACH_QUORUM"}, pending \in {{}, {n2}}}
  \cup {Write("ONE", "COUNTER", Natural, {}), Write("ANY", "SIMPLE", Natural, {})}

\* View updates, at level ANY when hints are allowed, at ONE when they are not.
Views ==
  {Write(cl, "VIEW", {n}, pending) : cl \in {"ANY", "ONE"}, n \in {n3, n4, n5}, pending \in {{}, {n2}}}
AllLevels == Clients \cup Views
ReplicaSymmetry == Permutations({n3, n4, n5})

Symmetry == Permutations(Writes)
=============================================================================
