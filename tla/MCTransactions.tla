---------------------------- MODULE MCTransactions ----------------------------
(***************************************************************************)
(* Transactions for TLC: one client may queue two commands in a             *)
(* transaction, the other none (its EXEC runs an empty queue).              *)
(***************************************************************************)
EXTENDS Transactions

TwoAndNone == <<2, 0>>
=============================================================================
