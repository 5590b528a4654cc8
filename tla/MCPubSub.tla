------------------------------- MODULE MCPubSub -------------------------------
(***************************************************************************)
(* PubSub for TLC.                                                          *)
(***************************************************************************)
EXTENDS PubSub

CONSTANTS ch1, ch2

MCChannels == {ch1, ch2}

\* Every list of channels without repetition but the empty one.
DistinctLists == {s \in SeqOf(MCChannels, 2) : s # <<>> /\ IsInjective(s)}
=============================================================================
