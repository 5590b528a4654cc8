----------------------------- MODULE DurableLog -----------------------------
(***************************************************************************)
(* What an append-only log promises: the writes that were accepted survive  *)
(* a crash up to some point, which is at or after the last one confirmed,   *)
(* and none is skipped, repeated or reordered.                              *)
(***************************************************************************)
EXTENDS Integers, Sequences

CONSTANT Writes

VARIABLES accepted,  \* the writes the server's state is the result of
          confirmed  \* how many of them must survive

Init == accepted = <<>> /\ confirmed = 0

Accept(write) ==
    /\ accepted' = Append(accepted, write)
    /\ UNCHANGED confirmed

Confirm ==
    /\ confirmed' = Len(accepted)
    /\ UNCHANGED accepted

Crash ==
    /\ \E n \in confirmed..Len(accepted) : accepted' = SubSeq(accepted, 1, n)
    /\ UNCHANGED confirmed

Next ==
    \/ \E write \in Writes : Accept(write)
    \/ Confirm
    \/ Crash

Spec == Init /\ [][Next]_<<accepted, confirmed>>

=============================================================================
