------------------------------- MODULE Registry -------------------------------
(***************************************************************************)
(* RequestRegistry of src/commands/cmd_handler.rs: the table of blocked     *)
(* requests (BLPOP, XREAD BLOCK), the queues they wait in, the tree of      *)
(* deadlines and the one timerfd that is armed for the nearest of them.     *)
(* The module holds the registry's state and its two mutators, insert and   *)
(* remove, as action operators; BlockingServer composes them with the event *)
(* loop and the commands.                                                   *)
(*                                                                          *)
(* Requests are identified by the millisecond clock value read when the     *)
(* command runs, exactly as in the code, so two requests can share a        *)
(* timestamp.  A VecDeque of timestamps is a set of [pos, ts] records       *)
(* ordered by pos: push_back takes the next pos, retain is a set filter,    *)
(* the front is the least pos.                                              *)
(***************************************************************************)
EXTENDS HashMaps, Integers, FiniteSets

CONSTANTS Clients,      \* file descriptors that a connection can get
          Keys,         \* names of lists and streams
          MaxRequests   \* bound: blocking requests registered in a behaviour

ASSUME RegistryAssumption ==
    /\ Clients \subseteq Nat \ {0}
    /\ IsFiniteSet(Keys)
    /\ MaxRequests \in Nat

VARIABLES
    now,             \* the millisecond clock of utils::now()
    store,           \* timestamp -> request entry
    backlog_list,    \* list key -> queue of waiting timestamps
    backlog_stream,  \* timestamps of the waiting XREADs
    deadline,        \* deadline -> timestamp (the BTreeMap)
    timer,           \* expiry the timerfd is armed with, 0 when disarmed
    arrived,         \* number of requests registered so far
    collided         \* history: a request was registered under a used timestamp

registry_vars == <<store, backlog_list, backlog_stream, deadline, timer,
                   arrived, collided>>

-----------------------------------------------------------------------------
Arrival == [pos: Nat, ts: Nat]

ListEntry == [kind: {"List"}, id: Nat, client: Clients, conn: Nat,
              deadline: Nat, key: Keys]

StreamEntry == [kind: {"Stream"}, id: Nat, client: Clients, conn: Nat,
                deadline: Nat, key_ts: SUBSET (Keys \X Nat)]

RequestEntry == ListEntry \cup StreamEntry

RegistryTypeOK ==
    /\ now \in Nat \ {0}
    /\ DOMAIN store \subseteq Nat \ {0}
    /\ \A t \in DOMAIN store : store[t] \in RequestEntry
    /\ DOMAIN backlog_list \subseteq Keys
    /\ \A k \in DOMAIN backlog_list : backlog_list[k] \subseteq Arrival
    /\ backlog_stream \subseteq Nat
    /\ DOMAIN deadline \subseteq Nat \ {0}
    /\ \A d \in DOMAIN deadline : deadline[d] \in Nat
    /\ timer \in Nat
    /\ arrived \in Nat
    /\ collided \in BOOLEAN

RegistryInit ==
    /\ now = 1
    /\ store = [t \in {} |-> 0]
    /\ backlog_list = [k \in {} |-> {}]
    /\ backlog_stream = {}
    /\ deadline = [d \in {} |-> 0]
    /\ timer = 0
    /\ arrived = 0
    /\ collided = FALSE

-----------------------------------------------------------------------------
\* BTreeMap::first_key_value: d is the nearest deadline of the tree.
IsNearest(d, tree) == d \in DOMAIN tree /\ \A x \in DOMAIN tree : d <= x

\* A fault to detect: a deadline that has passed gives a zero expiry, which
\* disarms the timerfd.
ZeroExpiry(d) == IF d > now THEN d ELSE 0

\* The expiry set_timer_fd asks for: the deadline, or 1 ms from now when it
\* has passed already.
Expiry(d) == IF d > now THEN d ELSE now + 1

\* A fault to detect: the timerfd is never armed.
NeverArmed(tree, old) == timer' = old

\* set_timer_fd on a tree, for a timerfd that was left at `old`.  An empty
\* tree leaves the timerfd as it is: it is not disarmed.
set_timer_fd(tree, old) ==
    \/ /\ DOMAIN tree = {}
       /\ timer' = old
    \/ \E d \in DOMAIN tree : IsNearest(d, tree) /\ timer' = Expiry(d)

\* The first free deadline at or after d0 (the loop that avoids collisions in
\* the tree; it ends within `arrived` steps since the tree is no larger).
IsFreeSlot(d, d0) ==
    /\ d \notin DOMAIN deadline
    /\ \A x \in d0..(d - 1) : x \in DOMAIN deadline

\* The queue of `queues` for key k, empty when there is none.
QueueOf(queues, k) == IF k \in DOMAIN queues THEN queues[k] ELSE {}

\* The queues after entry e has been registered at position n, time now.
Enqueue(e, n) ==
    IF e.kind = "List"
    THEN /\ backlog_list' = Put(backlog_list, e.key,
                QueueOf(backlog_list, e.key) \cup {[pos |-> n, ts |-> now]})
         /\ UNCHANGED backlog_stream
    ELSE /\ backlog_stream' = backlog_stream \cup {now}
         /\ UNCHANGED backlog_list

\* insert(timestamp = now, d0, e): the entry replaces whatever the store holds
\* under the same timestamp.
insert(e, d0) ==
    /\ arrived < MaxRequests
    /\ arrived' = arrived + 1
    /\ collided' = (collided \/ now \in DOMAIN store)
    /\ \/ /\ d0 = 0
          /\ store' = Put(store, now, e)
          /\ UNCHANGED <<deadline, timer>>
       \/ /\ d0 > 0
          /\ \E d \in d0..(d0 + arrived) :
                /\ IsFreeSlot(d, d0)
                /\ deadline' = Put(deadline, d, now)
                /\ store' = Put(store, now, [e EXCEPT !.deadline = d])
          /\ set_timer_fd(deadline', timer)
    /\ Enqueue(e, arrived + 1)

\* The queue of key k after retain(t != ts).
Retained(k, t) == {a \in backlog_list[k] : a.ts # t}

\* Faults to detect: the whole queue is dropped; the queues are not cleaned; an
\* empty queue is kept.
DequeueAll(e, t) ==
    IF e.kind = "List"
    THEN backlog_list' = Without(backlog_list, e.key) /\ UNCHANGED backlog_stream
    ELSE backlog_stream' = backlog_stream \ {t} /\ UNCHANGED backlog_list

NoDequeue(e, t) == UNCHANGED <<backlog_list, backlog_stream>>

DequeueKeepingEmpty(e, t) ==
    IF e.kind = "List"
    THEN /\ backlog_list' = IF e.key \notin DOMAIN backlog_list THEN backlog_list
                            ELSE Put(backlog_list, e.key, Retained(e.key, t))
         /\ UNCHANGED backlog_stream
    ELSE backlog_stream' = backlog_stream \ {t} /\ UNCHANGED backlog_list

\* The waiting structures after entry e of timestamp t has been removed; a
\* queue that becomes empty is dropped from the map.
Dequeue(e, t) ==
    IF e.kind = "List"
    THEN /\ backlog_list' =
              IF e.key \notin DOMAIN backlog_list THEN backlog_list
              ELSE IF Retained(e.key, t) = {} THEN Without(backlog_list, e.key)
              ELSE Put(backlog_list, e.key, Retained(e.key, t))
         /\ UNCHANGED backlog_stream
    ELSE /\ backlog_stream' = backlog_stream \ {t}
         /\ UNCHANGED backlog_list

\* A fault to detect: the entry is cloned out of the store, not removed.
RemoveKeepingEntry(t, old) ==
    /\ timer' = old
    /\ UNCHANGED <<store, backlog_list, backlog_stream, deadline>>

\* remove(t), for a timerfd that was left at `old`: nothing happens when the
\* store has no such entry (the early return).
remove(t, old) ==
    \/ /\ t \notin DOMAIN store
       /\ timer' = old
       /\ UNCHANGED <<store, backlog_list, backlog_stream, deadline>>
    \/ /\ t \in DOMAIN store
       /\ store' = Without(store, t)
       /\ Dequeue(store[t], t)
       /\ deadline' = Without(deadline, store[t].deadline)
       /\ set_timer_fd(deadline', old)

-----------------------------------------------------------------------------
(***************************************************************************)
(* Properties of the registry, whatever drives it.                          *)
(***************************************************************************)

\* Nothing that waits is forgotten: each entry of the store is in the queue it
\* waits in, and in the deadline tree under its own deadline if it has one.
\* insert and remove keep it even when two requests share a timestamp.
StoreIsIndexed ==
    \A t \in DOMAIN store :
        /\ store[t].deadline > 0 =>
             /\ store[t].deadline \in DOMAIN deadline
             /\ deadline[store[t].deadline] = t
        /\ store[t].kind = "Stream" => t \in backlog_stream
        /\ store[t].kind = "List" =>
             /\ store[t].key \in DOMAIN backlog_list
             /\ [pos |-> store[t].id, ts |-> t] \in backlog_list[store[t].key]

\* Nothing dangles: every deadline, every queued timestamp and every waiting
\* XREAD names a live entry of the store, its own.
IndexIsLive ==
    /\ \A d \in DOMAIN deadline :
         deadline[d] \in DOMAIN store /\ store[deadline[d]].deadline = d
    /\ \A t \in backlog_stream :
         t \in DOMAIN store /\ store[t].kind = "Stream"
    /\ \A k \in DOMAIN backlog_list : \A a \in backlog_list[k] :
         /\ a.ts \in DOMAIN store
         /\ store[a.ts].kind = "List"
         /\ store[a.ts].key = k
         /\ store[a.ts].id = a.pos

\* remove drops a queue that it empties: is_backlog_list_empty never meets an
\* empty queue.
NoEmptyQueue == \A k \in DOMAIN backlog_list : backlog_list[k] # {}

\* The timerfd is armed whenever a deadline is pending, and for no later than
\* the nearest deadline (or the next millisecond, when that one has passed).
TimerCoversNearest ==
    \A d \in DOMAIN deadline :
        timer # 0 /\ (timer <= d \/ timer <= now + 1)

=============================================================================
