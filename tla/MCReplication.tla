---------------------------- MODULE MCReplication ----------------------------
(***************************************************************************)
(* Replication for TLC: clients and replicas are model values and symmetric.*)
(***************************************************************************)
EXTENDS Replication, TLC

NodeSymmetry == Permutations(Clients) \cup Permutations(Replicas)
=============================================================================
