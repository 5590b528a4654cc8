--------------------------- MODULE BlockedRequests ---------------------------
(***************************************************************************)
(* What the server promises a client that blocks: its request stays until   *)
(* it is answered, and it is answered once.  The promise has one exception. *)
(* The registry names a request by the millisecond of its arrival, and two  *)
(* requests of one millisecond collide: the second takes the place of the   *)
(* first, and from then on a request may be forgotten.                      *)
(***************************************************************************)
CONSTANT Requests

VARIABLES pending, answered, collided

Init == pending = {} /\ answered = {} /\ collided = FALSE

New == Requests \ (pending \cup answered)

Register(r) ==
    /\ pending' = pending \cup {r}
    /\ UNCHANGED <<answered, collided>>

Replace(old, r) ==
    /\ pending' = (pending \ {old}) \cup {r}
    /\ collided' = TRUE
    /\ UNCHANGED answered

Answer(r) ==
    /\ pending' = pending \ {r}
    /\ answered' = answered \cup {r}
    /\ UNCHANGED collided

Forget(r) ==
    /\ collided
    /\ pending' = pending \ {r}
    /\ UNCHANGED <<answered, collided>>

Next ==
    \/ \E r \in New : Register(r) \/ \E old \in pending : Replace(old, r)
    \/ \E r \in pending : Answer(r) \/ Forget(r)

Spec == Init /\ [][Next]_<<pending, answered, collided>>

=============================================================================
