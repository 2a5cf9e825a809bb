------------------------------ MODULE MCBatch ------------------------------
(* Four nodes in two racks: the coordinator has a neighbour in its rack and *)
(* two nodes in the other, from which the batch log endpoints are drawn.    *)
EXTENDS Batch, TLC

CONSTANTS na, nb, nc, nd, m1, m2, b1

MCRack == (na :> "r1" @@ nb :> "r1" @@ nc :> "r2" @@ nd :> "r2")
MCBatchOf == (m1 :> b1 @@ m2 :> b1)
MCOwners == (m1 :> {nb, nc} @@ m2 :> {nc})
=============================================================================
