------------------------------ MODULE MCBlocking ------------------------------
(***************************************************************************)
(* BlockingServer for TLC: symmetry of the keys (they are model values).    *)
(***************************************************************************)
EXTENDS BlockingServer, TLC

KeySymmetry == Permutations(Keys)
=============================================================================
