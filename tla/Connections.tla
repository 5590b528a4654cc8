------------------------------ MODULE Connections ------------------------------
(***************************************************************************)
(* The client table of main.rs as the command handler sees it: a connection *)
(* is known by its descriptor only (client_id), the kernel hands out the    *)
(* lowest free one, and a descriptor that was closed is used again.         *)
(***************************************************************************)
EXTENDS HashMaps, Integers, FiniteSets

CONSTANTS Clients,    \* descriptors that a connection can get
          MaxConns    \* bound: connections accepted in a behaviour

ASSUME ConnectionsAssumption ==
    /\ Clients \subseteq Nat \ {0}
    /\ MaxConns \in Nat

VARIABLES clients,  \* connected descriptors
          conns     \* connections accepted so far

conn_vars == <<clients, conns>>

ConnTypeOK ==
    /\ clients \subseteq Clients
    /\ conns \in Nat

ConnInit == clients = {} /\ conns = 0

\* accept: the connection gets the lowest free descriptor.
Connect(c) ==
    /\ conns < MaxConns
    /\ c \notin clients /\ \A x \in Clients \ clients : c <= x
    /\ clients' = clients \cup {c}
    /\ conns' = conns + 1

\* read_socket failed: the connection is dropped and its descriptor closed.
Drop(c) ==
    /\ c \in clients
    /\ clients' = clients \ {c}
    /\ UNCHANGED conns

=============================================================================
