------------------------- MODULE BlockingServerProofs -------------------------
(***************************************************************************)
(* The blocking server, for any number of clients, keys, requests and items, *)
(* any timeouts and any interleaving, in three parts: insert and remove keep *)
(* the registry consistent; the server answers a request at most once and    *)
(* loses no item; serving the backlog keeps its promises, oldest first, and  *)
(* the whole implements BlockedRequests.                                     *)
(***************************************************************************)
EXTENDS BlockingServer, TLAPS, FiniteSetTheorems, SequenceTheorems, WellFoundedInduction

-----------------------------------------------------------------------------
(*****************************************************************************)
(* The registry.  Whoever drives it only cites the two lemmas at the end.    *)
(*****************************************************************************)

\* What insert and remove preserve.  The two directions of the index are needed
\* together: that nothing dangles is what lets remove clean up by the entry's
\* own key and deadline, and what makes the timer event find its entry.
RegistryInv ==
    /\ StoreIsIndexed
    /\ ~collided => IndexIsLive
    /\ NoEmptyQueue
    /\ ~collided => TimerCoversNearest

-----------------------------------------------------------------------------
\* set_timer_fd arms the timerfd for the nearest deadline of a non-empty tree,
\* with an expiry that is never zero.
LEMMA SetTimerFacts ==
    ASSUME NEW tree, DOMAIN tree \subseteq Nat \ {0}, NEW old \in Nat, now \in Nat,
           set_timer_fd(tree, old)
    PROVE  /\ timer' \in Nat
           /\ \A d \in DOMAIN tree : timer' # 0 /\ (timer' <= d \/ timer' <= now + 1)
<1>1. CASE DOMAIN tree = {}
  BY <1>1 DEF set_timer_fd, IsNearest
<1>2. CASE DOMAIN tree # {}
  <2>1. PICK n \in DOMAIN tree : IsNearest(n, tree) /\ timer' = Expiry(n)
    BY <1>2 DEF set_timer_fd
  <2>2. n \in Nat \ {0} /\ \A d \in DOMAIN tree : d \in Nat /\ n <= d
    BY <2>1 DEF IsNearest
  <2>3. timer' \in Nat /\ timer' # 0 /\ (timer' = n \/ timer' = now + 1)
    BY <2>1, <2>2 DEF Expiry
  <2> QED BY <2>2, <2>3
<1> QED BY <1>1, <1>2

-----------------------------------------------------------------------------
\* What insert stores: the entry with a deadline x.deadline that is new to the
\* tree (none when it is 0), for which the timer has been set.
InsertEffect(e, x) ==
    /\ x.kind = e.kind /\ x.id = e.id /\ x.deadline \in Nat
    /\ e.kind = "List" => x.key = e.key
    /\ store' = Put(store, now, x)
    /\ x.deadline = 0 => deadline' = deadline /\ timer' = timer
    /\ x.deadline > 0 => /\ x.deadline \notin DOMAIN deadline
                         /\ deadline' = Put(deadline, x.deadline, now)
                         /\ set_timer_fd(deadline', timer)

\* insert has that effect on the store, the deadline tree and the timer.
LEMMA InsertFacts ==
    ASSUME RegistryTypeOK, NEW e \in RequestEntry, NEW d0 \in Nat,
           e.deadline = 0, insert(e, d0)
    PROVE  \E x \in RequestEntry : InsertEffect(e, x)
<1>1. CASE d0 = 0
  <2>1. store' = Put(store, now, e) /\ deadline' = deadline /\ timer' = timer
    BY <1>1 DEF insert
  <2> QED BY <2>1 DEF InsertEffect
<1>2. CASE d0 > 0
  <2>1. PICK d \in d0..(d0 + arrived) :
           /\ IsFreeSlot(d, d0)
           /\ deadline' = Put(deadline, d, now)
           /\ store' = Put(store, now, [e EXCEPT !.deadline = d])
    BY <1>2, SMTT(30) DEF insert
  <2>2. set_timer_fd(deadline', timer)
    BY <1>2 DEF insert
  <2>3. d \in Nat /\ d > 0 /\ d \notin DOMAIN deadline
    BY <1>2, <2>1 DEF RegistryTypeOK, IsFreeSlot
  <2> DEFINE x == [e EXCEPT !.deadline = d]
  <2>4. /\ x \in RequestEntry /\ x.kind = e.kind /\ x.id = e.id /\ x.deadline = d
        /\ e.kind = "List" => x.key = e.key
    BY <2>3 DEF RequestEntry, ListEntry, StreamEntry
  <2>5. store' = Put(store, now, x)
    BY <2>1
  <2> HIDE DEF x
  <2>6. InsertEffect(e, x)
    BY <2>1, <2>2, <2>3, <2>4, <2>5 DEF InsertEffect
  <2> QED BY <2>4, <2>6
<1> QED BY <1>1, <1>2

\* What insert does to the waiting structures: the entry joins the one of its
\* kind and nothing else changes.
LEMMA EnqueueFacts ==
    ASSUME RegistryTypeOK, NEW e \in RequestEntry, NEW n \in Nat, Enqueue(e, n)
    PROVE  /\ e.kind = "List" =>
                /\ backlog_stream' = backlog_stream
                /\ e.key \in Keys
                /\ DOMAIN backlog_list' = DOMAIN backlog_list \cup {e.key}
                /\ backlog_list'[e.key] =
                     QueueOf(backlog_list, e.key) \cup {[pos |-> n, ts |-> now]}
                /\ \A k \in DOMAIN backlog_list :
                      k # e.key => backlog_list'[k] = backlog_list[k]
           /\ e.kind # "List" =>
                /\ e.kind = "Stream"
                /\ backlog_stream' = backlog_stream \cup {now}
                /\ backlog_list' = backlog_list
<1>1. e.kind = "List" => e.key \in Keys
  BY DEF RequestEntry, ListEntry, StreamEntry
<1>2. e.kind # "List" => e.kind = "Stream"
  BY DEF RequestEntry, ListEntry, StreamEntry
<1>3. CASE e.kind = "List"
  BY <1>1, <1>3 DEF Enqueue, Put
<1> QED BY <1>1, <1>2, <1>3 DEF Enqueue

\* What remove does to the waiting structures.
LEMMA DequeueFacts ==
    ASSUME RegistryTypeOK, NEW e \in RequestEntry, NEW t, Dequeue(e, t)
    PROVE  /\ e.kind = "List" =>
                /\ backlog_stream' = backlog_stream
                /\ DOMAIN backlog_list' \subseteq DOMAIN backlog_list
                /\ \A k \in DOMAIN backlog_list :
                      k # e.key => /\ k \in DOMAIN backlog_list'
                                   /\ backlog_list'[k] = backlog_list[k]
                /\ e.key \in DOMAIN backlog_list' =>
                      /\ backlog_list'[e.key] = Retained(e.key, t)
                      /\ Retained(e.key, t) # {}
                /\ e.key \in DOMAIN backlog_list /\ Retained(e.key, t) # {} =>
                      e.key \in DOMAIN backlog_list'
           /\ e.kind # "List" =>
                /\ e.kind = "Stream"
                /\ backlog_stream' = backlog_stream \ {t}
                /\ backlog_list' = backlog_list
<1>1. e.kind # "List" => e.kind = "Stream"
  BY DEF RequestEntry, ListEntry, StreamEntry
<1>2. CASE e.kind = "List"
  <2>1. CASE e.key \notin DOMAIN backlog_list
    BY <1>2, <2>1 DEF Dequeue
  <2>2. CASE e.key \in DOMAIN backlog_list /\ Retained(e.key, t) = {}
    BY <1>2, <2>2 DEF Dequeue, Without, Restrict
  <2>3. CASE e.key \in DOMAIN backlog_list /\ Retained(e.key, t) # {}
    BY <1>2, <2>3 DEF Dequeue, Put
  <2> QED BY <2>1, <2>2, <2>3
<1> QED BY <1>1, <1>2 DEF Dequeue

-----------------------------------------------------------------------------
\* insert keeps the registry well typed.
LEMMA InsertType ==
    ASSUME RegistryTypeOK, NEW e \in RequestEntry, NEW d0 \in Nat,
           e.deadline = 0, insert(e, d0), now' = now
    PROVE  RegistryTypeOK'
<1>1. PICK x \in RequestEntry : InsertEffect(e, x)
  BY InsertFacts
<1>2. /\ DOMAIN store' \subseteq Nat \ {0}
      /\ \A t \in DOMAIN store' : store'[t] \in RequestEntry
  <2>1. store' = Put(store, now, x)
    BY <1>1 DEF InsertEffect
  <2> QED BY <2>1 DEF RegistryTypeOK, Put
<1>3. /\ DOMAIN deadline' \subseteq Nat \ {0}
      /\ \A d \in DOMAIN deadline' : deadline'[d] \in Nat
  <2>1. CASE x.deadline = 0
    BY <1>1, <2>1 DEF InsertEffect, RegistryTypeOK
  <2>2. CASE x.deadline # 0
    <3>1. deadline' = Put(deadline, x.deadline, now) /\ x.deadline \in Nat
      BY <1>1, <2>2 DEF InsertEffect
    <3> QED BY <2>2, <3>1 DEF RegistryTypeOK, Put
  <2> QED BY <2>1, <2>2
<1>4. timer' \in Nat
  <2>1. CASE x.deadline = 0
    BY <1>1, <2>1 DEF InsertEffect, RegistryTypeOK
  <2>2. CASE x.deadline # 0
    <3>1. set_timer_fd(deadline', timer)
      BY <1>1, <2>2 DEF InsertEffect
    <3>2. timer \in Nat /\ now \in Nat
      BY DEF RegistryTypeOK
    <3> QED BY <1>3, <3>1, <3>2, SetTimerFacts
  <2> QED BY <2>1, <2>2
<1>5. Enqueue(e, arrived + 1) /\ arrived + 1 \in Nat
  BY DEF insert, RegistryTypeOK
<1>6. /\ DOMAIN backlog_list' \subseteq Keys
      /\ \A k \in DOMAIN backlog_list' : backlog_list'[k] \subseteq Arrival
  <2>1. [pos |-> arrived + 1, ts |-> now] \in Arrival
    BY <1>5 DEF RegistryTypeOK, Arrival
  <2>2. QueueOf(backlog_list, e.key) \subseteq Arrival
    BY DEF RegistryTypeOK, QueueOf
  <2>3. CASE e.kind = "List"
    <3>1. /\ e.key \in Keys
          /\ DOMAIN backlog_list' = DOMAIN backlog_list \cup {e.key}
          /\ backlog_list'[e.key] = QueueOf(backlog_list, e.key)
                                       \cup {[pos |-> arrived + 1, ts |-> now]}
          /\ \A k \in DOMAIN backlog_list :
                k # e.key => backlog_list'[k] = backlog_list[k]
      BY <1>5, <2>3, EnqueueFacts
    <3>2. backlog_list'[e.key] \subseteq Arrival
      BY <2>1, <2>2, <3>1
    <3> QED BY <3>1, <3>2 DEF RegistryTypeOK
  <2>4. CASE e.kind # "List"
    BY <1>5, <2>4, EnqueueFacts DEF RegistryTypeOK
  <2> QED BY <2>3, <2>4
<1>7. backlog_stream' \subseteq Nat
  BY <1>5, EnqueueFacts DEF RegistryTypeOK
<1>8. arrived' \in Nat /\ collided' \in BOOLEAN /\ now' \in Nat \ {0}
  BY DEF insert, RegistryTypeOK
<1> QED BY <1>2, <1>3, <1>4, <1>6, <1>7, <1>8 DEF RegistryTypeOK

\* remove keeps the registry well typed.
LEMMA RemoveType ==
    ASSUME RegistryTypeOK, NEW t, NEW old \in Nat, remove(t, old),
           now' = now, arrived' = arrived, collided' = collided
    PROVE  RegistryTypeOK'
<1>1. CASE t \notin DOMAIN store
  BY <1>1 DEF remove, RegistryTypeOK
<1>2. CASE t \in DOMAIN store
  <2>1. /\ store' = Without(store, t)
        /\ Dequeue(store[t], t)
        /\ deadline' = Without(deadline, store[t].deadline)
        /\ set_timer_fd(deadline', old)
        /\ store[t] \in RequestEntry
    BY <1>2 DEF remove, RegistryTypeOK
  <2>2. /\ DOMAIN store' \subseteq Nat \ {0}
        /\ \A u \in DOMAIN store' : store'[u] \in RequestEntry
    BY <2>1 DEF RegistryTypeOK, Without, Restrict
  <2>3. /\ DOMAIN deadline' \subseteq Nat \ {0}
        /\ \A x \in DOMAIN deadline' : deadline'[x] \in Nat
    BY <2>1 DEF RegistryTypeOK, Without, Restrict
  <2>4. timer' \in Nat
    <3>1. set_timer_fd(deadline', old) /\ now \in Nat
      BY <2>1 DEF RegistryTypeOK
    <3> QED BY <2>3, <3>1, SetTimerFacts
  <2>5. /\ DOMAIN backlog_list' \subseteq Keys
        /\ \A k \in DOMAIN backlog_list' : backlog_list'[k] \subseteq Arrival
        /\ backlog_stream' \subseteq Nat
    BY <2>1, DequeueFacts, ZenonT(60) DEF RegistryTypeOK, Retained
  <2> QED BY <2>2, <2>3, <2>4, <2>5 DEF RegistryTypeOK
<1> QED BY <1>1, <1>2

-----------------------------------------------------------------------------
\* insert keeps the registry consistent.
LEMMA InsertKeepsInv ==
    ASSUME RegistryTypeOK, RegistryInv, NEW e \in RequestEntry, NEW d0 \in Nat,
           e.deadline = 0, e.id = arrived + 1, insert(e, d0), now' = now
    PROVE  RegistryInv'
<1>1. PICK x \in RequestEntry : InsertEffect(e, x)
  BY InsertFacts
<1>2. /\ DOMAIN store' = DOMAIN store \cup {now}
      /\ store'[now] = x
      /\ \A t \in DOMAIN store : t # now => store'[t] = store[t]
  BY <1>1 DEF InsertEffect, Put
<1>3. /\ x.kind = e.kind /\ x.id = arrived + 1
      /\ e.kind = "List" => x.key = e.key
      /\ x.deadline \in Nat
  BY <1>1 DEF InsertEffect
<1>4. /\ DOMAIN deadline \subseteq DOMAIN deadline'
      /\ \A d \in DOMAIN deadline : deadline'[d] = deadline[d]
      /\ \A d \in DOMAIN deadline' \ DOMAIN deadline :
            d = x.deadline /\ d > 0 /\ deadline'[d] = now
      /\ x.deadline > 0 => /\ x.deadline \in DOMAIN deadline'
                           /\ deadline'[x.deadline] = now
                           /\ x.deadline \notin DOMAIN deadline
  <2>1. CASE x.deadline = 0
    BY <1>1, <1>3, <2>1 DEF InsertEffect
  <2>2. CASE x.deadline > 0
    <3>1. deadline' = Put(deadline, x.deadline, now) /\ x.deadline \notin DOMAIN deadline
      BY <1>1, <2>2 DEF InsertEffect
    <3> QED BY <2>2, <3>1 DEF Put
  <2> QED BY <1>3, <2>1, <2>2
<1>5. Enqueue(e, arrived + 1) /\ arrived + 1 \in Nat
  BY DEF insert, RegistryTypeOK
<1>6. /\ x.kind = "Stream" => now \in backlog_stream'
      /\ x.kind = "List" => /\ x.key \in DOMAIN backlog_list'
                            /\ [pos |-> arrived + 1, ts |-> now] \in backlog_list'[x.key]
      /\ backlog_stream \subseteq backlog_stream'
      /\ \A k \in DOMAIN backlog_list :
            k \in DOMAIN backlog_list' /\ backlog_list[k] \subseteq backlog_list'[k]
      /\ \A t \in backlog_stream' \ backlog_stream : t = now /\ x.kind = "Stream"
      /\ \A k \in DOMAIN backlog_list' : \A a \in backlog_list'[k] :
            \/ k \in DOMAIN backlog_list /\ a \in backlog_list[k]
            \/ x.kind = "List" /\ k = x.key /\ a = [pos |-> arrived + 1, ts |-> now]
  <2>1. CASE e.kind = "List"
    <3>1. /\ backlog_stream' = backlog_stream
          /\ DOMAIN backlog_list' = DOMAIN backlog_list \cup {e.key}
          /\ backlog_list'[e.key] =
               QueueOf(backlog_list, e.key) \cup {[pos |-> arrived + 1, ts |-> now]}
          /\ \A k \in DOMAIN backlog_list :
                k # e.key => backlog_list'[k] = backlog_list[k]
      BY <1>5, <2>1, EnqueueFacts
    <3> QED BY <1>3, <2>1, <3>1 DEF QueueOf
  <2>2. CASE e.kind # "List"
    <3>1. /\ e.kind = "Stream"
          /\ backlog_stream' = backlog_stream \cup {now}
          /\ backlog_list' = backlog_list
      BY <1>5, <2>2, EnqueueFacts
    <3> QED BY <1>3, <3>1
  <2> QED BY <2>1, <2>2
<1>7. StoreIsIndexed'
  <2> SUFFICES ASSUME NEW t \in DOMAIN store'
               PROVE  /\ store'[t].deadline > 0 =>
                           /\ store'[t].deadline \in DOMAIN deadline'
                           /\ deadline'[store'[t].deadline] = t
                      /\ store'[t].kind = "Stream" => t \in backlog_stream'
                      /\ store'[t].kind = "List" =>
                           /\ store'[t].key \in DOMAIN backlog_list'
                           /\ [pos |-> store'[t].id, ts |-> t]
                                \in backlog_list'[store'[t].key]
    BY DEF StoreIsIndexed
  <2>1. CASE t = now
    BY <1>2, <1>3, <1>4, <1>6, <2>1
  <2>2. CASE t # now
    <3>1. t \in DOMAIN store /\ store'[t] = store[t]
      BY <1>2, <2>2
    <3>2. /\ store[t].deadline > 0 => /\ store[t].deadline \in DOMAIN deadline
                                      /\ deadline[store[t].deadline] = t
          /\ store[t].kind = "Stream" => t \in backlog_stream
          /\ store[t].kind = "List" =>
               /\ store[t].key \in DOMAIN backlog_list
               /\ [pos |-> store[t].id, ts |-> t] \in backlog_list[store[t].key]
      BY <3>1 DEF RegistryInv, StoreIsIndexed
    <3> QED BY <1>4, <1>6, <3>1, <3>2
  <2> QED BY <2>1, <2>2
<1>8. ~collided' => IndexIsLive'
  <2> SUFFICES ASSUME ~collided' PROVE IndexIsLive'
    OBVIOUS
  <2>1. ~collided /\ now \notin DOMAIN store
    BY DEF insert
  <2>2. IndexIsLive
    BY <2>1 DEF RegistryInv
  <2>3. \A d \in DOMAIN deadline' :
           deadline'[d] \in DOMAIN store' /\ store'[deadline'[d]].deadline = d
    <3> SUFFICES ASSUME NEW d \in DOMAIN deadline'
                 PROVE  deadline'[d] \in DOMAIN store' /\ store'[deadline'[d]].deadline = d
      OBVIOUS
    <3>1. CASE d \in DOMAIN deadline
      <4>1. deadline[d] \in DOMAIN store /\ store[deadline[d]].deadline = d
        BY <2>2, <3>1 DEF IndexIsLive
      <4> QED BY <1>2, <1>4, <2>1, <3>1, <4>1
    <3>2. CASE d \notin DOMAIN deadline
      BY <1>2, <1>4, <3>2
    <3> QED BY <3>1, <3>2
  <2>4. \A t \in backlog_stream' : t \in DOMAIN store' /\ store'[t].kind = "Stream"
    <3>1. \A t \in backlog_stream : t \in DOMAIN store /\ store[t].kind = "Stream"
      BY <2>2 DEF IndexIsLive
    <3> QED BY <1>2, <1>6, <2>1, <3>1
  <2>5. \A k \in DOMAIN backlog_list' : \A a \in backlog_list'[k] :
           /\ a.ts \in DOMAIN store'
           /\ store'[a.ts].kind = "List"
           /\ store'[a.ts].key = k
           /\ store'[a.ts].id = a.pos
    <3> SUFFICES ASSUME NEW k \in DOMAIN backlog_list', NEW a \in backlog_list'[k]
                 PROVE  /\ a.ts \in DOMAIN store'
                        /\ store'[a.ts].kind = "List"
                        /\ store'[a.ts].key = k
                        /\ store'[a.ts].id = a.pos
      OBVIOUS
    <3>1. CASE k \in DOMAIN backlog_list /\ a \in backlog_list[k]
      <4>1. /\ a.ts \in DOMAIN store
            /\ store[a.ts].kind = "List"
            /\ store[a.ts].key = k
            /\ store[a.ts].id = a.pos
        BY <2>2, <3>1 DEF IndexIsLive
      <4> QED BY <1>2, <2>1, <4>1
    <3>2. CASE x.kind = "List" /\ k = x.key /\ a = [pos |-> arrived + 1, ts |-> now]
      BY <1>2, <1>3, <3>2
    <3> QED BY <1>6, <3>1, <3>2
  <2> QED BY <2>3, <2>4, <2>5 DEF IndexIsLive
<1>9. NoEmptyQueue'
  <2> SUFFICES ASSUME NEW k \in DOMAIN backlog_list'
               PROVE  backlog_list'[k] # {}
    BY DEF NoEmptyQueue
  <2>1. CASE e.kind = "List"
    <3>1. /\ DOMAIN backlog_list' = DOMAIN backlog_list \cup {e.key}
          /\ [pos |-> arrived + 1, ts |-> now] \in backlog_list'[e.key]
      BY <1>5, <2>1, EnqueueFacts
    <3>2. CASE k = e.key
      BY <3>1, <3>2
    <3>3. CASE k # e.key
      BY <1>6, <3>1, <3>3 DEF RegistryInv, NoEmptyQueue
    <3> QED BY <3>2, <3>3
  <2>2. CASE e.kind # "List"
    BY <1>5, <2>2, EnqueueFacts DEF RegistryInv, NoEmptyQueue
  <2> QED BY <2>1, <2>2
<1>10. ~collided' => TimerCoversNearest'
  <2> SUFFICES ASSUME ~collided' PROVE TimerCoversNearest'
    OBVIOUS
  <2>1. TimerCoversNearest
    BY DEF insert, RegistryInv
  <2>2. CASE x.deadline = 0
    <3>1. deadline' = deadline /\ timer' = timer
      BY <1>1, <2>2 DEF InsertEffect
    <3> QED BY <2>1, <3>1 DEF TimerCoversNearest
  <2>3. CASE x.deadline > 0
    <3>1. set_timer_fd(deadline', timer)
      BY <1>1, <2>3 DEF InsertEffect
    <3>2. DOMAIN deadline' \subseteq Nat \ {0}
      BY InsertType DEF RegistryTypeOK
    <3>3. timer \in Nat /\ now \in Nat
      BY DEF RegistryTypeOK
    <3>4. \A d \in DOMAIN deadline' : timer' # 0 /\ (timer' <= d \/ timer' <= now + 1)
      BY <3>1, <3>2, <3>3, SetTimerFacts
    <3> QED BY <3>4 DEF TimerCoversNearest
  <2> QED BY <1>3, <2>2, <2>3
<1> QED BY <1>7, <1>8, <1>9, <1>10 DEF RegistryInv

\* remove keeps the registry consistent.  The timer event reads (and so disarms)
\* the timerfd first: then the entry has to be there for it to be set again.
LEMMA RemoveKeepsInv ==
    ASSUME RegistryTypeOK, RegistryInv, NEW t, NEW old \in Nat, remove(t, old),
           now' = now, arrived' = arrived, collided' = collided,
           t \in DOMAIN store \/ old = timer \/ collided
    PROVE  RegistryInv'
<1>1. CASE t \notin DOMAIN store
  <2>1. UNCHANGED <<store, backlog_list, backlog_stream, deadline>> /\ timer' = old
    BY <1>1 DEF remove
  <2>2. ~collided' => TimerCoversNearest'
    BY <1>1, <2>1 DEF RegistryInv, TimerCoversNearest
  <2> QED BY <2>1, <2>2 DEF RegistryInv, StoreIsIndexed, IndexIsLive, NoEmptyQueue
<1>2. CASE t \in DOMAIN store
  <2> DEFINE e == store[t]
  <2>1. /\ store' = Without(store, t)
        /\ Dequeue(e, t)
        /\ deadline' = Without(deadline, e.deadline)
        /\ set_timer_fd(deadline', old)
        /\ e \in RequestEntry
    BY <1>2 DEF remove, RegistryTypeOK
  <2>2. /\ DOMAIN store' = DOMAIN store \ {t}
        /\ \A u \in DOMAIN store' : store'[u] = store[u]
    BY <2>1 DEF Without, Restrict
  <2>3. /\ DOMAIN deadline' = DOMAIN deadline \ {e.deadline}
        /\ \A d \in DOMAIN deadline' : deadline'[d] = deadline[d]
    BY <2>1 DEF Without, Restrict
  <2>4. /\ backlog_stream \ {t} \subseteq backlog_stream'
        /\ backlog_stream' \subseteq backlog_stream
        /\ DOMAIN backlog_list' \subseteq DOMAIN backlog_list
        /\ \A k \in DOMAIN backlog_list' : backlog_list'[k] \subseteq backlog_list[k]
        /\ \A k \in DOMAIN backlog_list : \A a \in backlog_list[k] :
              a.ts # t => k \in DOMAIN backlog_list' /\ a \in backlog_list'[k]
        /\ e.kind = "List" =>
              \A a \in QueueOf(backlog_list', e.key) : a.ts # t
        /\ e.kind # "List" => t \notin backlog_stream'
    <3>1. CASE e.kind = "List"
      <4>1. /\ backlog_stream' = backlog_stream
            /\ DOMAIN backlog_list' \subseteq DOMAIN backlog_list
            /\ \A k \in DOMAIN backlog_list :
                  k # e.key => /\ k \in DOMAIN backlog_list'
                               /\ backlog_list'[k] = backlog_list[k]
            /\ e.key \in DOMAIN backlog_list' => backlog_list'[e.key] = Retained(e.key, t)
            /\ e.key \in DOMAIN backlog_list /\ Retained(e.key, t) # {} =>
                  e.key \in DOMAIN backlog_list'
        BY <2>1, <3>1, DequeueFacts
      <4> HIDE DEF e
      <4> QED BY <3>1, <4>1 DEF Retained, QueueOf
    <3>2. CASE e.kind # "List"
      <4>1. backlog_stream' = backlog_stream \ {t} /\ backlog_list' = backlog_list
        BY <2>1, <3>2, DequeueFacts
      <4> HIDE DEF e
      <4> QED BY <3>2, <4>1
    <3> QED BY <3>1, <3>2
  <2>5. StoreIsIndexed'
    <3> SUFFICES ASSUME NEW u \in DOMAIN store'
                 PROVE  /\ store'[u].deadline > 0 =>
                             /\ store'[u].deadline \in DOMAIN deadline'
                             /\ deadline'[store'[u].deadline] = u
                        /\ store'[u].kind = "Stream" => u \in backlog_stream'
                        /\ store'[u].kind = "List" =>
                             /\ store'[u].key \in DOMAIN backlog_list'
                             /\ [pos |-> store'[u].id, ts |-> u]
                                  \in backlog_list'[store'[u].key]
      BY DEF StoreIsIndexed
    <3>1. u # t /\ u \in DOMAIN store /\ store'[u] = store[u]
      BY <2>2
    <3>2. /\ store[u].deadline > 0 => /\ store[u].deadline \in DOMAIN deadline
                                      /\ deadline[store[u].deadline] = u
          /\ store[u].kind = "Stream" => u \in backlog_stream
          /\ store[u].kind = "List" =>
               /\ store[u].key \in DOMAIN backlog_list
               /\ [pos |-> store[u].id, ts |-> u] \in backlog_list[store[u].key]
      BY <3>1 DEF RegistryInv, StoreIsIndexed
    <3>3. e.deadline > 0 => deadline[e.deadline] = t
      BY <1>2 DEF RegistryInv, StoreIsIndexed
    <3>4. e.deadline \in Nat
      BY <2>1 DEF RequestEntry, ListEntry, StreamEntry
    <3>5. store[u].deadline > 0 => store[u].deadline # e.deadline
      BY <3>1, <3>2, <3>3, <3>4
    <3> QED BY <2>3, <2>4, <3>1, <3>2, <3>5
  <2>6. ~collided' => IndexIsLive'
    <3> SUFFICES ASSUME ~collided' PROVE IndexIsLive'
      OBVIOUS
    <3>1. IndexIsLive
      BY DEF RegistryInv
    <3>2. \A d \in DOMAIN deadline' :
             deadline'[d] \in DOMAIN store' /\ store'[deadline'[d]].deadline = d
      BY <2>2, <2>3, <3>1 DEF IndexIsLive
    <3>3. \A u \in backlog_stream' : u \in DOMAIN store' /\ store'[u].kind = "Stream"
      <4>1. t \notin backlog_stream'
        BY <2>4, <3>1 DEF IndexIsLive
      <4> QED BY <2>2, <2>4, <3>1, <4>1 DEF IndexIsLive
    <3>4. \A k \in DOMAIN backlog_list' : \A a \in backlog_list'[k] :
             /\ a.ts \in DOMAIN store'
             /\ store'[a.ts].kind = "List"
             /\ store'[a.ts].key = k
             /\ store'[a.ts].id = a.pos
      <4> SUFFICES ASSUME NEW k \in DOMAIN backlog_list', NEW a \in backlog_list'[k]
                   PROVE  /\ a.ts \in DOMAIN store'
                          /\ store'[a.ts].kind = "List"
                          /\ store'[a.ts].key = k
                          /\ store'[a.ts].id = a.pos
        OBVIOUS
      <4>1. /\ a.ts \in DOMAIN store
            /\ store[a.ts].kind = "List"
            /\ store[a.ts].key = k
            /\ store[a.ts].id = a.pos
        BY <2>4, <3>1 DEF IndexIsLive
      <4>2. a.ts # t
        BY <2>4, <4>1 DEF QueueOf
      <4> QED BY <2>2, <4>1, <4>2
    <3> QED BY <3>2, <3>3, <3>4 DEF IndexIsLive
  <2>7. NoEmptyQueue'
    <3>1. CASE e.kind = "List"
      <4>1. /\ DOMAIN backlog_list' \subseteq DOMAIN backlog_list
            /\ \A k \in DOMAIN backlog_list :
                  k # e.key => backlog_list'[k] = backlog_list[k]
            /\ e.key \in DOMAIN backlog_list' => backlog_list'[e.key] # {}
        BY <2>1, <3>1, DequeueFacts
      <4> HIDE DEF e
      <4> QED BY <4>1 DEF RegistryInv, NoEmptyQueue
    <3>2. CASE e.kind # "List"
      BY <2>1, <3>2, DequeueFacts DEF RegistryInv, NoEmptyQueue
    <3> QED BY <3>1, <3>2
  <2>8. TimerCoversNearest'
    <3>1. DOMAIN deadline' \subseteq Nat \ {0} /\ now \in Nat
      BY RemoveType DEF RegistryTypeOK
    <3>2. \A d \in DOMAIN deadline' : timer' # 0 /\ (timer' <= d \/ timer' <= now + 1)
      BY <2>1, <3>1, SetTimerFacts
    <3> QED BY <3>2 DEF TimerCoversNearest
  <2> QED BY <2>5, <2>6, <2>7, <2>8 DEF RegistryInv
<1> QED BY <1>1, <1>2

-----------------------------------------------------------------------------
(*****************************************************************************)
(* The server: what waits, what is taken out, what was answered, and where   *)
(* the items are.                                                            *)
(*****************************************************************************)

\* A client is read only during the events phase, and is then no longer in the
\* batch.
ReadInv ==
    /\ cur \notin batch
    /\ phase # "events" => cur = Nobody

\* Tasks exist only while the backlog of their kind is served.
TaskInv ==
    /\ phase \notin {"list", "stream"} => tasks = <<>>
    /\ \A i \in 1..Len(tasks) : tasks[i].kind = ServedKind

-----------------------------------------------------------------------------
\* A command that blocks registers a fresh request and touches neither the
\* tasks nor the answers.
Registers ==
    \E e \in RequestEntry : \E d0 \in Nat :
        /\ e.deadline = 0 /\ e.id = arrived + 1
        /\ insert(e, d0)
        /\ UNCHANGED <<now, tasks, answered>>

\* A step that removes a request: the timer event or one turn of a serve loop.
Removes ==
    \E t : \E old \in Nat :
        /\ remove(t, old)
        /\ UNCHANGED <<now, arrived, collided>>
        /\ t \in DOMAIN store \/ old = timer \/ collided

\* The timer event with an empty tree.
Panics ==
    /\ DOMAIN deadline = {}
    /\ timer' \in Nat
    /\ UNCHANGED <<now, store, backlog_list, backlog_stream, deadline, arrived,
                   collided, tasks, answered>>

\* An entry that a blocking command builds is a request entry.
LEMMA BlpopRegisters ==
    ASSUME TypeOK, NEW k \in Keys, NEW timeout \in Timeouts \cup {NoTimeout},
           cmd_blpop(k, timeout)
    PROVE  Registers \/ UNCHANGED <<now, registry_vars>>
<1>1. CASE is_backlog_list_empty(k) /\ ItemsOf(k) # <<>>
  BY <1>1 DEF cmd_blpop, BlpopNow, CommandFrame
<1>2. CASE ~(is_backlog_list_empty(k) /\ ItemsOf(k) # <<>>)
  <2> DEFINE e == [kind |-> "List", id |-> arrived + 1, client |-> cur,
                   conn |-> conn[cur], deadline |-> 0, key |-> k]
             d0 == get_deadline(timeout)
  <2>1. insert(e, d0) /\ UNCHANGED <<now, tasks, answered>>
    BY <1>2 DEF cmd_blpop, BlpopWait, CommandFrame, serve_vars, reply_vars
  <2>2. cur \in Clients
    BY DEF cmd_blpop, Runs, TypeOK
  <2>3. e \in RequestEntry /\ e.deadline = 0 /\ e.id = arrived + 1
    BY <2>2 DEF TypeOK, RegistryTypeOK, RequestEntry, ListEntry
  <2>4. d0 \in Nat
    BY ServerAssumption DEF get_deadline, TypeOK, RegistryTypeOK, NoTimeout
  <2> HIDE DEF e, d0
  <2> QED BY <2>1, <2>3, <2>4 DEF Registers
<1> QED BY <1>1, <1>2

\* The same for XREAD BLOCK.
LEMMA XreadRegisters ==
    ASSUME TypeOK, NEW key_ts \in SUBSET (Keys \X (0..MaxEntries)),
           NEW timeout \in (Timeouts \ {0}) \cup {NoTimeout},
           cmd_xread(key_ts, timeout)
    PROVE  Registers \/ UNCHANGED <<now, registry_vars>>
<1>1. CASE Readable(key_ts)
  BY <1>1 DEF cmd_xread, CommandFrame
<1>2. CASE ~Readable(key_ts)
  <2> DEFINE e == [kind |-> "Stream", id |-> arrived + 1, client |-> cur,
                   conn |-> conn[cur], deadline |-> 0, key_ts |-> key_ts]
             d0 == get_deadline(timeout)
  <2>1. insert(e, d0) /\ UNCHANGED <<now, tasks, answered>>
    BY <1>2 DEF cmd_xread, CommandFrame, serve_vars, reply_vars
  <2>2. cur \in Clients
    BY DEF cmd_xread, Runs, TypeOK
  <2>3. key_ts \in SUBSET (Keys \X Nat)
    BY ServerAssumption
  <2>4. e \in RequestEntry /\ e.deadline = 0 /\ e.id = arrived + 1
    BY <2>2, <2>3 DEF TypeOK, RegistryTypeOK, RequestEntry, StreamEntry
  <2>5. d0 \in Nat
    BY ServerAssumption DEF get_deadline, TypeOK, RegistryTypeOK, NoTimeout
  <2> HIDE DEF e, d0
  <2> QED BY <2>1, <2>4, <2>5 DEF Registers
<1> QED BY <1>1, <1>2

\* Every step leaves the registry alone, registers, removes, panics or lets
\* time pass.
LEMMA RegistrySteps ==
    ASSUME TypeOK, RegistryInv, [Next]_vars
    PROVE  \/ UNCHANGED <<now, registry_vars>>
           \/ now' = now + 1 /\ UNCHANGED registry_vars
           \/ Registers
           \/ Removes
           \/ Panics
<1>1. CASE UNCHANGED vars
  BY <1>1 DEF vars
<1>2. CASE Tick
  BY <1>2 DEF Tick
<1>3. CASE TimerEvent
  <2> DEFINE left == IF TimerReadable THEN 0 ELSE timer
  <2>1. left \in Nat
    BY DEF TypeOK, RegistryTypeOK
  <2>2. CASE DOMAIN deadline = {}
    BY <1>3, <2>1, <2>2 DEF TimerEvent, Panics, reply_vars, serve_vars
  <2>3. CASE DOMAIN deadline # {}
    <3>1. PICK d \in DOMAIN deadline : remove(deadline[d], left)
      BY <1>3, <2>3 DEF TimerEvent
    <3>2. UNCHANGED <<now, arrived, collided>>
      BY <1>3 DEF TimerEvent
    <3>3. deadline[d] \in DOMAIN store \/ collided
      BY <3>1 DEF RegistryInv, IndexIsLive
    <3> HIDE DEF left
    <3> QED BY <2>1, <3>1, <3>2, <3>3 DEF Removes
  <2> QED BY <2>2, <2>3
<1>4. CASE RemoveDue
  <2>1. PICK a \in todo : remove(a.ts, timer)
    BY <1>4 DEF RemoveDue
  <2>2. UNCHANGED <<now, arrived, collided>> /\ timer \in Nat
    BY <1>4 DEF RemoveDue, TypeOK, RegistryTypeOK
  <2> QED BY <2>1, <2>2 DEF Removes
<1>5. CASE Command
  <2>1. ASSUME NEW k \in Keys, NEW n \in 1..MaxPush,
               cmd_rpush(k, n) \/ cmd_lpush(k, n) \/ cmd_lpop(k, n)
        PROVE  UNCHANGED <<now, registry_vars>>
    BY <2>1 DEF cmd_rpush, cmd_lpush, cmd_lpop, CommandFrame
  <2>2. ASSUME NEW k \in Keys, cmd_set(k) \/ cmd_xadd(k) \/ XaddRefused(k) \/ XaddNotLast(k)
        PROVE  UNCHANGED <<now, registry_vars>>
    BY <2>2 DEF cmd_set, cmd_xadd, XaddRefused, XaddNotLast, CommandFrame
  <2>3. CASE OtherCommand
    BY <2>3 DEF OtherCommand, CommandFrame
  <2> QED BY <1>5, <2>1, <2>2, <2>3, BlpopRegisters, XreadRegisters DEF Command
<1>6. CASE Poll \/ Accept \/ BeginRead \/ EndRead \/ EndOfEvents \/ RunTask
           \/ EndServeList \/ EndServeStream \/ FlushReply \/ EndOfCycle \/ Disconnect
  BY <1>6 DEF Poll, Accept, BeginRead, EndRead, EndOfEvents, RunTask, EndServeList,
              EndServeStream, FlushReply, EndOfCycle, Disconnect
<1> QED BY <1>1, <1>2, <1>3, <1>4, <1>5, <1>6 DEF Next, LoopStep

\* The registry stays well typed and consistent in every step.
LEMMA RegistryStep ==
    ASSUME TypeOK, RegistryInv, [Next]_vars
    PROVE  RegistryTypeOK' /\ RegistryInv'
<1>1. RegistryTypeOK
  BY DEF TypeOK
<1>2. CASE UNCHANGED <<now, registry_vars>>
  BY <1>1, <1>2 DEF registry_vars, RegistryTypeOK, RegistryInv, StoreIsIndexed,
                    IndexIsLive, NoEmptyQueue, TimerCoversNearest
<1>3. CASE now' = now + 1 /\ UNCHANGED registry_vars
  <2>1. RegistryTypeOK'
    BY <1>1, <1>3 DEF registry_vars, RegistryTypeOK
  <2>2. TimerCoversNearest => TimerCoversNearest'
    BY <1>1, <1>3 DEF registry_vars, TimerCoversNearest, RegistryTypeOK
  <2> QED BY <1>3, <2>1, <2>2 DEF registry_vars, RegistryInv, StoreIsIndexed,
                                   IndexIsLive, NoEmptyQueue
<1>4. CASE Registers
  <2>1. PICK e \in RequestEntry, d0 \in Nat :
           e.deadline = 0 /\ e.id = arrived + 1 /\ insert(e, d0) /\ now' = now
    BY <1>4 DEF Registers
  <2> QED BY <1>1, <2>1, InsertType, InsertKeepsInv
<1>5. CASE Removes
  <2>1. PICK t : \E old \in Nat :
           /\ remove(t, old)
           /\ now' = now /\ arrived' = arrived /\ collided' = collided
           /\ t \in DOMAIN store \/ old = timer \/ collided
    BY <1>5 DEF Removes
  <2> QED BY <1>1, <2>1, RemoveType, RemoveKeepsInv
<1>6. CASE Panics
  BY <1>1, <1>6 DEF Panics, RegistryTypeOK, RegistryInv, StoreIsIndexed,
                    IndexIsLive, NoEmptyQueue, TimerCoversNearest
<1> QED BY <1>2, <1>3, <1>4, <1>5, <1>6, RegistrySteps

-----------------------------------------------------------------------------
(***************************************************************************)
(* Typing.                                                                  *)
(***************************************************************************)

\* The part of the state that each kind of step may change.
LoopType ==
    /\ clients \subseteq Clients
    /\ interest \subseteq clients \cup {ListenerFd, TimerFd}
    /\ phase \in {"wait", "events", "list", "stream", "flush"}
    /\ batch \subseteq clients \cup {ListenerFd, TimerFd}
    /\ cur \in clients \cup {Nobody}
    /\ alive \in BOOLEAN
    /\ conns \in Nat
    /\ conn \in [Clients -> Nat]

DataType ==
    /\ DOMAIN data \subseteq Keys
    /\ \A k \in DOMAIN data : data[k] \in StoreValue
    /\ pushed \in Nat
    /\ taken \subseteq Nat
    /\ fed \subseteq Keys

ReplyType ==
    /\ response_queue \in Seq(Response)
    /\ answered \subseteq Nat

ServeType ==
    /\ todo \subseteq Due
    /\ tasks \in Seq(RequestEntry)

FlagType == flag_backlog_list \in BOOLEAN /\ flag_backlog_stream \in BOOLEAN

\* TypeOK is the conjunction of these parts.
LEMMA TypeParts ==
    TypeOK <=> /\ RegistryTypeOK /\ LoopType /\ DataType
               /\ ReplyType /\ ServeType /\ FlagType
BY DEF TypeOK, LoopType, DataType, ReplyType, ServeType, FlagType

\* The loop's own state stays well typed and its reading discipline is kept.
LEMMA LoopTypeStep ==
    ASSUME TypeOK, ReadInv, [Next]_vars
    PROVE  LoopType' /\ ReadInv'
<1> USE DEF LoopType, ReadInv, ListenerFd, TimerFd, Nobody
<1>0. LoopType
  BY TypeParts
<1>a. Clients \subseteq Nat \ {0}
  BY RegistryAssumption
<1>1. CASE UNCHANGED loop_vars
  BY <1>0, <1>1 DEF loop_vars
<1>2. CASE Poll
  <2>1. batch' \subseteq interest
    BY <1>2 DEF Poll
  <2>2. /\ interest' = interest \ batch' /\ phase' = "events"
        /\ UNCHANGED <<clients, cur, alive, conns, conn>>
        /\ cur = Nobody
    BY <1>2 DEF Poll
  <2> QED BY <1>0, <1>a, <2>1, <2>2
<1>3. CASE Accept
  <2>1. PICK c \in Clients \ clients :
           /\ clients' = clients \cup {c}
           /\ interest' = interest \cup {c, ListenerFd}
           /\ conn' = [conn EXCEPT ![c] = conns + 1]
    BY <1>3 DEF Accept
  <2>2. /\ conns' = conns + 1 /\ batch' = batch \ {ListenerFd}
        /\ UNCHANGED <<phase, cur, alive>>
    BY <1>3 DEF Accept
  <2> QED BY <1>0, <2>1, <2>2
<1>4. CASE TimerEvent
  <2>1. /\ batch' = batch \ {TimerFd}
        /\ alive' \in BOOLEAN
        /\ UNCHANGED <<clients, interest, phase, cur, conns, conn>>
    BY <1>0, <1>4 DEF TimerEvent
  <2> QED BY <1>0, <2>1
<1>5. CASE BeginRead
  <2>1. PICK c \in batch \cap clients : cur' = c /\ batch' = batch \ {c}
    BY <1>5 DEF BeginRead
  <2>2. UNCHANGED <<clients, interest, phase, alive, conns, conn>> /\ phase = "events"
    BY <1>5 DEF BeginRead, Processing
  <2> QED BY <1>0, <2>1, <2>2
<1>6. CASE EndRead
  BY <1>0, <1>6, <1>a DEF EndRead
<1>7. CASE Disconnect
  BY <1>0, <1>7, <1>a DEF Disconnect
<1>8. CASE Command
  <2>1. ASSUME NEW k \in Keys, NEW n \in 1..MaxPush,
               cmd_rpush(k, n) \/ cmd_lpush(k, n) \/ cmd_lpop(k, n)
        PROVE  UNCHANGED loop_vars
    BY <2>1 DEF cmd_rpush, cmd_lpush, cmd_lpop, CommandFrame
  <2>2. ASSUME NEW k \in Keys, cmd_set(k) \/ cmd_xadd(k) \/ XaddRefused(k) \/ XaddNotLast(k)
        PROVE  UNCHANGED loop_vars
    BY <2>2 DEF cmd_set, cmd_xadd, XaddRefused, XaddNotLast, CommandFrame
  <2>3. ASSUME NEW k, NEW timeout, cmd_blpop(k, timeout)
        PROVE  UNCHANGED loop_vars
    BY <2>3 DEF cmd_blpop, CommandFrame
  <2>4. ASSUME NEW key_ts, NEW timeout, cmd_xread(key_ts, timeout)
        PROVE  UNCHANGED loop_vars
    BY <2>4 DEF cmd_xread, CommandFrame
  <2>5. CASE OtherCommand
    BY <2>5, <1>1 DEF OtherCommand, CommandFrame
  <2> QED BY <1>1, <1>8, <2>1, <2>2, <2>3, <2>4, <2>5 DEF Command
<1>9. CASE EndOfEvents \/ EndServeList \/ EndServeStream \/ FlushReply \/ EndOfCycle
  <2>1. CASE EndOfEvents
    BY <1>0, <2>1 DEF EndOfEvents, Processing
  <2>2. CASE EndServeList
    BY <1>0, <2>2 DEF EndServeList
  <2>3. CASE EndServeStream
    BY <1>0, <2>3 DEF EndServeStream
  <2>4. CASE FlushReply
    BY <1>0, <2>4 DEF FlushReply
  <2>5. CASE EndOfCycle
    BY <1>0, <2>5 DEF EndOfCycle
  <2> QED BY <1>9, <2>1, <2>2, <2>3, <2>4, <2>5
<1>10. CASE RemoveDue \/ RunTask \/ Tick \/ UNCHANGED vars
  BY <1>1, <1>10 DEF RemoveDue, RunTask, Tick, vars
<1> QED BY <1>2, <1>3, <1>4, <1>5, <1>6, <1>7, <1>8, <1>9, <1>10 DEF Next, LoopStep

\* What ItemsOf and LastOf return.
LEMMA ValueFacts ==
    ASSUME DataType, NEW k
    PROVE  ItemsOf(k) \in Seq(Nat) /\ LastOf(k) \in Nat
<1>1. ASSUME k \in DOMAIN data, data[k].type = "list"
      PROVE  data[k].items \in Seq(Nat)
  BY <1>1 DEF DataType, StoreValue
<1>2. ASSUME k \in DOMAIN data, data[k].type = "stream"
      PROVE  data[k].last \in Nat
  BY <1>2 DEF DataType, StoreValue
<1> QED BY <1>1, <1>2 DEF ItemsOf, LastOf, HasType

\* Binding a key to a value keeps the data well typed.
LEMMA PutData ==
    ASSUME DataType, NEW k \in Keys, NEW v \in StoreValue, data' = Put(data, k, v)
    PROVE  DOMAIN data' \subseteq Keys /\ \A x \in DOMAIN data' : data'[x] \in StoreValue
BY DEF DataType, Put

\* Lists, streams and strings are store values.
LEMMA ValueTypes ==
    /\ \A items \in Seq(Nat) : ListOf(items) \in StoreValue
    /\ \A n \in Nat : StreamOf(n) \in StoreValue
    /\ [type |-> "string"] \in StoreValue
BY DEF ListOf, StreamOf, StoreValue

\* The data stays well typed.
LEMMA DataTypeStep ==
    ASSUME TypeOK, TaskInv, [Next]_vars
    PROVE  DataType'
<1>0. DataType /\ ReplyType /\ ServeType
  BY TypeParts
<1>1. CASE UNCHANGED data_vars
  BY <1>0, <1>1 DEF data_vars, DataType
<1>2. ASSUME NEW k \in Keys, NEW n \in 1..MaxPush, cmd_rpush(k, n) \/ cmd_lpush(k, n)
      PROVE  DataType'
  <2>1. n \in Nat /\ pushed \in Nat /\ ItemsOf(k) \in Seq(Nat)
    BY <1>0, ServerAssumption, ValueFacts DEF DataType
  <2>2. Appended(n) \in Seq(Nat) /\ Prepended(n) \in Seq(Nat)
    <3>1. Appended(n) \in [1..n -> Nat] /\ Prepended(n) \in [1..n -> Nat]
      BY <2>1 DEF Appended, Prepended
    <3> QED BY <2>1, <3>1, SeqDef
  <2>3. \E items \in Seq(Nat) : data' = Put(data, k, ListOf(items))
    <3>1. CASE cmd_rpush(k, n)
      BY <2>1, <2>2, <3>1, ConcatProperties DEF cmd_rpush
    <3>2. CASE cmd_lpush(k, n)
      BY <2>1, <2>2, <3>2, ConcatProperties DEF cmd_lpush
    <3> QED BY <1>2, <3>1, <3>2
  <2>4. pushed' = pushed + n /\ fed' = fed \cup {k} /\ taken' = taken
    BY <1>2 DEF cmd_rpush, cmd_lpush
  <2> QED BY <1>0, <2>1, <2>3, <2>4, PutData, ValueTypes DEF DataType
<1>3. ASSUME NEW k \in Keys, NEW n \in 1..MaxPush, cmd_lpop(k, n)
      PROVE  DataType'
  <2> DEFINE items == ItemsOf(k)
             m == IF n < Len(items) THEN n ELSE Len(items)
  <2>1. n \in Nat /\ items \in Seq(Nat)
    BY <1>0, ServerAssumption, ValueFacts
  <2>2. m \in Nat /\ m <= Len(items)
    BY <2>1
  <2>3. SubSeq(items, m + 1, Len(items)) \in Seq(Nat)
    BY <2>1, <2>2
  <2>4. {items[i] : i \in 1..m} \subseteq Nat
    BY <2>1, <2>2
  <2>5. /\ taken' = taken \cup {items[i] : i \in 1..m}
        /\ \/ data' = Put(data, k, ListOf(SubSeq(items, m + 1, Len(items))))
           \/ data' = data
        /\ pushed' = pushed /\ fed' = fed
    BY <1>3 DEF cmd_lpop
  <2> HIDE DEF items, m
  <2> QED BY <1>0, <2>3, <2>4, <2>5, PutData, ValueTypes DEF DataType
<1>4. ASSUME NEW k \in Keys, cmd_set(k)
      PROVE  DataType'
  <2>1. /\ data' = Put(data, k, [type |-> "string"])
        /\ taken' = taken \cup ItemSet(ItemsOf(k))
        /\ pushed' = pushed /\ fed' = fed
    BY <1>4 DEF cmd_set
  <2>2. ItemSet(ItemsOf(k)) \subseteq Nat
    BY <1>0, ValueFacts DEF ItemSet
  <2> QED BY <1>0, <2>1, <2>2, PutData, ValueTypes DEF DataType
<1>5. ASSUME NEW k \in Keys, NEW timeout, cmd_blpop(k, timeout)
      PROVE  DataType'
  <2>1. CASE is_backlog_list_empty(k) /\ ItemsOf(k) # <<>>
    <3>1. /\ taken' = taken \cup {Head(ItemsOf(k))}
          /\ data' = Put(data, k, ListOf(Tail(ItemsOf(k))))
          /\ pushed' = pushed /\ fed' = fed
      BY <1>5, <2>1 DEF cmd_blpop, BlpopNow
    <3>2. Head(ItemsOf(k)) \in Nat /\ Tail(ItemsOf(k)) \in Seq(Nat)
      BY <1>0, <2>1, ValueFacts
    <3> QED BY <1>0, <3>1, <3>2, PutData, ValueTypes DEF DataType
  <2>2. CASE ~(is_backlog_list_empty(k) /\ ItemsOf(k) # <<>>)
    BY <1>1, <1>5, <2>2 DEF cmd_blpop, BlpopWait
  <2> QED BY <2>1, <2>2
<1>6. ASSUME NEW k \in Keys, cmd_xadd(k) \/ XaddRefused(k) \/ XaddNotLast(k)
      PROVE  DataType'
  <2>1. LastOf(k) + 1 \in Nat
    BY <1>0, ValueFacts
  <2>2. /\ data' = data \/ \E n \in Nat : data' = Put(data, k, StreamOf(n))
        /\ pushed' = pushed /\ taken' = taken
        /\ fed' = fed \/ fed' = fed \cup {k}
    BY <1>6, <2>1 DEF cmd_xadd, XaddRefused, XaddNotLast
  <2> QED BY <1>0, <2>2, PutData, ValueTypes DEF DataType
<1>7. CASE Command
  <2>1. ASSUME NEW key_ts, NEW timeout, cmd_xread(key_ts, timeout)
        PROVE  UNCHANGED data_vars
    BY <2>1 DEF cmd_xread
  <2>2. CASE OtherCommand
    BY <1>1, <2>2 DEF OtherCommand
  <2> QED BY <1>1, <1>2, <1>3, <1>4, <1>5, <1>6, <1>7, <2>1, <2>2 DEF Command
<1>8. CASE RunTask
  <2> DEFINE e == Head(tasks)
  <2>1. tasks # <<>> /\ e \in RequestEntry /\ e = tasks[1] /\ 1 \in 1..Len(tasks)
    BY <1>0, <1>8 DEF RunTask, ServeType
  <2>2. CASE phase = "list" /\ ItemsOf(e.key) # <<>>
    <3>1. e.key \in Keys
      BY <2>1, <2>2 DEF TaskInv, ServedKind, RequestEntry, ListEntry, StreamEntry
    <3>2. /\ data' = Put(data, e.key, ListOf(Tail(ItemsOf(e.key))))
          /\ taken' = taken /\ pushed' = pushed /\ fed' = fed
      BY <1>8, <2>2 DEF RunTask, PopFor
    <3>3. Tail(ItemsOf(e.key)) \in Seq(Nat)
      BY <1>0, <2>2, ValueFacts
    <3> HIDE DEF e
    <3> QED BY <1>0, <3>1, <3>2, <3>3, PutData, ValueTypes DEF DataType
  <2>3. CASE ~(phase = "list" /\ ItemsOf(e.key) # <<>>)
    BY <1>1, <1>8, <2>3 DEF RunTask, PopFor, ReadFor, data_vars
  <2> QED BY <2>2, <2>3
<1>9. CASE FlushReply
  <2>1. response_queue # <<>> /\ Head(response_queue) \in Response
    BY <1>0, <1>9 DEF FlushReply, ReplyType
  <2>2. Head(response_queue).item \in Nat
    BY <2>1 DEF Response
  <2> QED BY <1>0, <1>9, <2>2 DEF FlushReply, DataType
<1>10. CASE EndOfCycle
  BY <1>0, <1>10 DEF EndOfCycle, DataType
<1>11. CASE Poll \/ Accept \/ TimerEvent \/ BeginRead \/ EndRead \/ EndOfEvents
            \/ RemoveDue \/ EndServeList \/ EndServeStream \/ Disconnect \/ Tick
            \/ UNCHANGED vars
  BY <1>1, <1>11 DEF Poll, Accept, TimerEvent, BeginRead, EndRead, EndOfEvents,
       RemoveDue, EndServeList, EndServeStream, Disconnect, Tick, vars
<1> QED BY <1>7, <1>8, <1>9, <1>10, <1>11 DEF Next, LoopStep

\* Flags, replies and the serve loops' work lists stay out of a command's way.
LEMMA CommandEffect ==
    ASSUME Command
    PROVE  UNCHANGED <<now, loop_vars, serve_vars, reply_vars>>
BY DEF Command, cmd_rpush, cmd_lpush, cmd_lpop, cmd_set, cmd_blpop, cmd_xadd,
       XaddRefused, XaddNotLast, cmd_xread, OtherCommand, CommandFrame

\* The flags stay Boolean.
LEMMA FlagTypeStep ==
    ASSUME TypeOK, [Next]_vars
    PROVE  FlagType'
<1>0. FlagType
  BY TypeParts
<1>1. CASE UNCHANGED flags
  BY <1>0, <1>1 DEF flags, FlagType
<1>2. CASE Command
  <2>1. ASSUME NEW k, NEW n, cmd_rpush(k, n) \/ cmd_lpush(k, n) \/ cmd_lpop(k, n)
        PROVE  FlagType'
    BY <2>1 DEF cmd_rpush, cmd_lpush, cmd_lpop, SetFlags, FlagType
  <2>2. ASSUME NEW k, cmd_set(k) \/ cmd_xadd(k) \/ XaddRefused(k) \/ XaddNotLast(k)
        PROVE  FlagType'
    BY <1>1, <2>2 DEF cmd_set, cmd_xadd, XaddRefused, XaddNotLast, SetFlags, FlagType
  <2>3. ASSUME NEW k, NEW timeout, cmd_blpop(k, timeout)
        PROVE  FlagType'
    BY <1>1, <2>3 DEF cmd_blpop, BlpopNow, BlpopWait, SetFlags, FlagType
  <2>4. ASSUME NEW key_ts, NEW timeout, cmd_xread(key_ts, timeout)
        PROVE  FlagType'
    BY <1>1, <2>4 DEF cmd_xread, SetFlags, FlagType
  <2>5. CASE OtherCommand
    BY <2>5 DEF OtherCommand, SetFlags, FlagType
  <2> QED BY <1>2, <2>1, <2>2, <2>3, <2>4, <2>5 DEF Command
<1>3. CASE EndServeList \/ EndServeStream
  BY <1>0, <1>3 DEF EndServeList, EndServeStream, FlagType
<1>4. CASE Poll \/ Accept \/ TimerEvent \/ BeginRead \/ EndRead \/ EndOfEvents
           \/ RemoveDue \/ RunTask \/ FlushReply \/ EndOfCycle \/ Disconnect \/ Tick
           \/ UNCHANGED vars
  BY <1>1, <1>4 DEF Poll, Accept, TimerEvent, BeginRead, EndRead, EndOfEvents,
       RemoveDue, RunTask, FlushReply, EndOfCycle, Disconnect, Tick, vars
<1> QED BY <1>2, <1>3, <1>4 DEF Next, LoopStep

\* What is due is a set of ranked timestamps.
LEMMA DueTypes ==
    ASSUME TypeOK
    PROVE  /\ \A rank \in Injection(DOMAIN backlog_list, 1..Cardinality(Keys)) :
                DueInList(rank) \subseteq Due
           /\ DueInStream \subseteq Due
<1>1. ASSUME NEW rank \in Injection(DOMAIN backlog_list, 1..Cardinality(Keys))
      PROVE  DueInList(rank) \subseteq Due
  <2>1. Cardinality(Keys) \in Nat
    BY RegistryAssumption, FS_CardinalityType
  <2>2. \A k \in DOMAIN backlog_list : rank[k] \in Nat
    BY <2>1 DEF Injection, IsInjective
  <2>3. \A k \in DOMAIN backlog_list : \A a \in backlog_list[k] :
            a.pos \in Nat /\ a.ts \in Nat
    BY DEF TypeOK, RegistryTypeOK, Arrival
  <2>4. ASSUME NEW x \in DueInList(rank)
        PROVE  x \in Due
    <3>1. PICK k \in DOMAIN backlog_list :
             \E a \in Front(backlog_list[k], Len(ItemsOf(k))) :
                 x = [rank |-> rank[k], pos |-> a.pos, ts |-> a.ts]
      BY DEF DueInList
    <3>2. PICK a \in backlog_list[k] : x = [rank |-> rank[k], pos |-> a.pos, ts |-> a.ts]
      BY <3>1 DEF Front
    <3> QED BY <2>2, <2>3, <3>2 DEF Due
  <2> QED BY <2>4
<1>2. DueInStream \subseteq Due
  BY DEF DueInStream, Due, TypeOK, RegistryTypeOK
<1> QED BY <1>1, <1>2

\* The serve loops' work lists stay well typed, and hold only entries of the
\* kind that is being served.
LEMMA ServeTypeStep ==
    ASSUME TypeOK, TaskInv, [Next]_vars
    PROVE  ServeType' /\ TaskInv'
<1>0. ServeType
  BY TypeParts
<1>1. CASE UNCHANGED <<serve_vars, phase>>
  BY <1>0, <1>1 DEF serve_vars, ServeType, TaskInv, ServedKind
<1>2. CASE Poll
  <2>1. phase = "wait" /\ phase' = "events" /\ UNCHANGED serve_vars
    BY <1>2 DEF Poll
  <2> QED BY <1>0, <2>1 DEF serve_vars, ServeType, TaskInv, ServedKind
<1>3. CASE EndOfEvents
  <2>1. phase = "events" /\ phase' = "list" /\ tasks' = tasks /\ tasks = <<>>
    BY <1>3 DEF EndOfEvents, Processing, TaskInv
  <2>2. todo' \subseteq Due
    BY <1>3, DueTypes DEF EndOfEvents
  <2> QED BY <1>0, <2>1, <2>2 DEF ServeType, TaskInv
<1>4. CASE RemoveDue
  <2>1. PICK a \in todo :
           /\ todo' = todo \ {a}
           /\ tasks' = IF a.ts \in DOMAIN store /\ store[a.ts].kind = ServedKind
                       THEN Append(tasks, store[a.ts]) ELSE tasks
    BY <1>4 DEF RemoveDue
  <2>2. phase' = phase /\ phase \in {"list", "stream"}
    BY <1>4 DEF RemoveDue, loop_vars
  <2>3. CASE a.ts \in DOMAIN store /\ store[a.ts].kind = ServedKind
    <3> DEFINE e == store[a.ts]
    <3>1. tasks' = Append(tasks, e) /\ e.kind = ServedKind
      BY <2>1, <2>3
    <3>2. e \in RequestEntry
      BY <2>3 DEF TypeOK, RegistryTypeOK
    <3> HIDE DEF e
    <3>3. tasks' \in Seq(RequestEntry) /\ Len(tasks') = Len(tasks) + 1
      BY <1>0, <3>1, <3>2 DEF ServeType
    <3>4. ASSUME NEW i \in 1..Len(tasks')
          PROVE  tasks'[i].kind = ServedKind
      <4>1. CASE i = Len(tasks) + 1
        BY <1>0, <3>1, <3>2, <4>1 DEF ServeType
      <4>2. CASE i # Len(tasks) + 1
        <5>1. Len(tasks) \in Nat /\ i \in 1..Len(tasks)
          BY <1>0, <3>3, <4>2 DEF ServeType
        <5>2. tasks'[i] = tasks[i]
          BY <1>0, <3>1, <3>2, <5>1 DEF ServeType
        <5> QED BY <5>1, <5>2 DEF TaskInv
      <4> QED BY <4>1, <4>2
    <3> QED BY <1>0, <2>1, <2>2, <3>3, <3>4 DEF ServeType, TaskInv, ServedKind
  <2>4. CASE ~(a.ts \in DOMAIN store /\ store[a.ts].kind = ServedKind)
    <3>1. tasks' = tasks
      BY <2>1, <2>4
    <3> QED BY <1>0, <2>1, <2>2, <3>1 DEF ServeType, TaskInv, ServedKind
  <2> QED BY <2>3, <2>4
<1>5. CASE RunTask
  <2>1. /\ tasks # <<>> /\ tasks' = Tail(tasks) /\ todo' = todo
        /\ phase' = phase /\ phase \in {"list", "stream"}
    BY <1>5 DEF RunTask, loop_vars
  <2>2. tasks' \in Seq(RequestEntry) /\ Len(tasks') = Len(tasks) - 1
    BY <1>0, <2>1 DEF ServeType
  <2>3. ASSUME NEW i \in 1..Len(tasks')
        PROVE  tasks'[i].kind = ServedKind
    <3>1. Len(tasks) \in Nat /\ i + 1 \in 1..Len(tasks)
      BY <1>0, <2>2 DEF ServeType
    <3>2. tasks'[i] = tasks[i + 1]
      BY <1>0, <2>1, <2>2 DEF ServeType
    <3> QED BY <3>1, <3>2 DEF TaskInv
  <2> QED BY <1>0, <2>1, <2>2, <2>3 DEF ServeType, TaskInv, ServedKind
<1>6. CASE EndServeList
  <2>1. tasks' = tasks /\ tasks = <<>> /\ phase' = "stream" /\ todo' \subseteq Due
    BY <1>6, DueTypes DEF EndServeList, ServeDone
  <2> QED BY <1>0, <2>1 DEF ServeType, TaskInv
<1>7. CASE EndServeStream
  <2>1. tasks' = tasks /\ tasks = <<>> /\ phase' = "flush" /\ todo' = todo
    BY <1>7 DEF EndServeStream, ServeDone, serve_vars
  <2> QED BY <1>0, <2>1 DEF ServeType, TaskInv
<1>8. CASE EndOfCycle
  <2>1. tasks' = tasks /\ tasks = <<>> /\ phase' = "wait" /\ todo' = todo
    BY <1>8 DEF EndOfCycle, TaskInv, serve_vars
  <2> QED BY <1>0, <2>1 DEF ServeType, TaskInv
<1>9. CASE Command
  BY <1>1, <1>9, CommandEffect DEF loop_vars
<1>10. CASE Accept \/ TimerEvent \/ BeginRead \/ EndRead \/ FlushReply \/ Disconnect
            \/ Tick \/ UNCHANGED vars
  BY <1>1, <1>10 DEF Accept, TimerEvent, BeginRead, EndRead, FlushReply, Disconnect,
       Tick, vars, loop_vars
<1> QED BY <1>2, <1>3, <1>4, <1>5, <1>6, <1>7, <1>8, <1>9, <1>10 DEF Next, LoopStep

\* The response queue holds replies to clients and only requests are answered.
LEMMA ReplyTypeStep ==
    ASSUME TypeOK, TaskInv, [Next]_vars
    PROVE  ReplyType'
<1>0. ReplyType /\ ServeType /\ DataType
  BY TypeParts
<1>1. CASE UNCHANGED reply_vars
  BY <1>0, <1>1 DEF reply_vars, ReplyType
<1>2. ASSUME NEW e \in RequestEntry, NEW r \in Response,
             response_queue' = Append(response_queue, r),
             answered' = answered \cup {e.id}
      PROVE  ReplyType'
  <2>1. e.id \in Nat
    BY DEF RequestEntry, ListEntry, StreamEntry
  <2>2. response_queue' \in Seq(Response)
    BY <1>0, <1>2, AppendProperties DEF ReplyType
  <2> QED BY <1>0, <1>2, <2>1, <2>2 DEF ReplyType
<1>3. \A e \in RequestEntry :
        e.client \in Clients /\ e.conn \in Nat /\ e.id \in Nat
  BY DEF RequestEntry, ListEntry, StreamEntry
<1>4. CASE TimerEvent
  <2>1. CASE UNCHANGED reply_vars
    BY <1>1, <2>1
  <2>2. CASE ~UNCHANGED reply_vars
    <3>1. PICK d \in DOMAIN deadline :
             /\ deadline[d] \in DOMAIN store
             /\ response_queue' = Append(response_queue, NilReply(store[deadline[d]]))
             /\ answered' = answered \cup {store[deadline[d]].id}
      BY <1>4, <2>2 DEF TimerEvent
    <3>2. store[deadline[d]] \in RequestEntry
      BY <3>1 DEF TypeOK, RegistryTypeOK
    <3>3. NilReply(store[deadline[d]]) \in Response
      BY <1>3, <3>2 DEF NilReply, Response
    <3> QED BY <1>2, <3>1, <3>2, <3>3
  <2> QED BY <2>1, <2>2
<1>5. CASE RunTask
  <2> DEFINE e == Head(tasks)
  <2>1. e \in RequestEntry
    BY <1>0, <1>5 DEF RunTask, ServeType
  <2>2. CASE phase = "list" /\ ItemsOf(e.key) # <<>>
    <3> DEFINE r == [client |-> e.client, conn |-> e.conn, id |-> e.id,
                     what |-> "item", item |-> Head(ItemsOf(e.key))]
    <3>1. response_queue' = Append(response_queue, r)
          /\ answered' = answered \cup {e.id}
      BY <1>5, <2>2 DEF RunTask, PopFor
    <3>2. Head(ItemsOf(e.key)) \in Nat
      BY <1>0, <2>2, ValueFacts
    <3>3. r \in Response
      BY <1>3, <2>1, <3>2 DEF Response
    <3> HIDE DEF e, r
    <3> QED BY <1>2, <2>1, <3>1, <3>3
  <2>3. CASE phase = "list" /\ ItemsOf(e.key) = <<>>
    BY <1>1, <1>5, <2>3 DEF RunTask, PopFor, reply_vars
  <2>4. CASE phase # "list"
    <3> DEFINE r == [client |-> e.client, conn |-> e.conn, id |-> e.id,
                     what |-> IF Readable(e.key_ts) THEN "entries" ELSE "nil",
                     item |-> 0]
    <3>1. response_queue' = Append(response_queue, r)
          /\ answered' = answered \cup {e.id}
      BY <1>5, <2>4 DEF RunTask, ReadFor
    <3>2. r \in Response
      BY <1>3, <2>1 DEF Response
    <3> HIDE DEF e, r
    <3> QED BY <1>2, <2>1, <3>1, <3>2
  <2> QED BY <2>2, <2>3, <2>4
<1>6. CASE FlushReply
  <2>1. response_queue # <<>> /\ response_queue' = Tail(response_queue)
        /\ answered' = answered
    BY <1>6 DEF FlushReply
  <2> QED BY <1>0, <2>1 DEF ReplyType
<1>7. CASE Command
  BY <1>1, <1>7, CommandEffect
<1>8. CASE Poll \/ Accept \/ BeginRead \/ EndRead \/ EndOfEvents \/ RemoveDue
           \/ EndServeList \/ EndServeStream \/ EndOfCycle \/ Disconnect \/ Tick
           \/ UNCHANGED vars
  BY <1>1, <1>8 DEF Poll, Accept, BeginRead, EndRead, EndOfEvents, RemoveDue,
       EndServeList, EndServeStream, EndOfCycle, Disconnect, Tick, vars
<1> QED BY <1>4, <1>5, <1>6, <1>7, <1>8 DEF Next, LoopStep

-----------------------------------------------------------------------------
(***************************************************************************)
(* Request ids.                                                             *)
(***************************************************************************)

\* Ids name the requests registered so far, and a request is in one of three
\* places, once: the store, the tasks to run, the answered requests.
IdInv ==
    /\ answered \subseteq 1..arrived
    /\ \A t \in DOMAIN store : store[t].id \in (1..arrived) \ answered
    /\ \A i \in 1..Len(tasks) : tasks[i].id \in (1..arrived) \ answered
    /\ \A t \in DOMAIN store : \A i \in 1..Len(tasks) : store[t].id # tasks[i].id
    /\ \A i, j \in 1..Len(tasks) : tasks[i].id = tasks[j].id => i = j
    /\ \A t, u \in DOMAIN store : store[t].id = store[u].id => t = u

\* A step that neither registers, nor removes, nor runs a task changes no place
\* an id can be in.
LEMMA OtherSteps ==
    ASSUME TypeOK, [Next]_vars
    PROVE  \/ UNCHANGED <<arrived, store, tasks, answered>>
           \/ Registers \/ TimerEvent \/ RemoveDue \/ RunTask
<1>1. CASE Command
  <2>1. UNCHANGED <<tasks, answered>>
    BY <1>1, CommandEffect DEF serve_vars, reply_vars
  <2>2. ASSUME NEW k \in Keys, NEW n \in 1..MaxPush,
               cmd_rpush(k, n) \/ cmd_lpush(k, n) \/ cmd_lpop(k, n)
        PROVE  UNCHANGED registry_vars
    BY <2>2 DEF cmd_rpush, cmd_lpush, cmd_lpop
  <2>3. ASSUME NEW k \in Keys, cmd_set(k) \/ cmd_xadd(k) \/ XaddRefused(k) \/ XaddNotLast(k)
        PROVE  UNCHANGED registry_vars
    BY <2>3 DEF cmd_set, cmd_xadd, XaddRefused, XaddNotLast
  <2>4. CASE OtherCommand
    BY <2>1, <2>4 DEF OtherCommand, registry_vars
  <2>5. Registers \/ UNCHANGED registry_vars
    BY <1>1, <2>2, <2>3, <2>4, BlpopRegisters, XreadRegisters DEF Command, OtherCommand
  <2> QED BY <2>1, <2>5 DEF registry_vars
<1>2. CASE Poll \/ Accept \/ BeginRead \/ EndRead \/ EndOfEvents \/ EndServeList
           \/ EndServeStream \/ FlushReply \/ EndOfCycle \/ Disconnect \/ Tick
           \/ UNCHANGED vars
  BY <1>2 DEF Poll, Accept, BeginRead, EndRead, EndOfEvents, EndServeList, EndServeStream,
       FlushReply, EndOfCycle, Disconnect, Tick, vars, registry_vars, serve_vars, reply_vars
<1> QED BY <1>1, <1>2 DEF Next, LoopStep

\* No step puts a request in two places, or in one place twice.
LEMMA IdStep ==
    ASSUME TypeOK, IdInv, [Next]_vars
    PROVE  IdInv'
<1>0. arrived \in Nat /\ tasks \in Seq(RequestEntry) /\ Len(tasks) \in Nat
  BY DEF TypeOK, RegistryTypeOK
<1>1. CASE UNCHANGED <<arrived, store, tasks, answered>>
  BY <1>1 DEF IdInv
<1>2. CASE Registers
  <2>1. PICK e \in RequestEntry, d0 \in Nat :
           /\ e.deadline = 0 /\ e.id = arrived + 1 /\ insert(e, d0)
           /\ tasks' = tasks /\ answered' = answered
    BY <1>2 DEF Registers
  <2>2. PICK x \in RequestEntry : InsertEffect(e, x)
    BY <2>1, InsertFacts DEF TypeOK
  <2>3. store' = Put(store, now, x) /\ x.id = arrived + 1
    BY <2>1, <2>2 DEF InsertEffect
  <2>4. arrived' = arrived + 1
    BY <2>1 DEF insert
  <2>5. /\ DOMAIN store' = DOMAIN store \cup {now}
        /\ store'[now] = x
        /\ \A t \in DOMAIN store : t # now => store'[t] = store[t]
    BY <2>3 DEF Put
  <2>6. \A t \in DOMAIN store' :
           \/ t = now /\ store'[t].id = arrived + 1
           \/ t \in DOMAIN store /\ store'[t].id = store[t].id
    BY <2>3, <2>5
  <2>7. 1..arrived \subseteq 1..arrived' /\ arrived + 1 \in 1..arrived'
        /\ arrived + 1 \notin 1..arrived
    BY <1>0, <2>4
  <2>8. answered' \subseteq 1..arrived'
    BY <2>1, <2>7 DEF IdInv
  <2>9. \A t \in DOMAIN store' : store'[t].id \in (1..arrived') \ answered'
    BY <2>1, <2>6, <2>7 DEF IdInv
  <2>10. \A i \in 1..Len(tasks') : tasks'[i].id \in (1..arrived') \ answered'
    BY <2>1, <2>7 DEF IdInv
  <2>11. \A t \in DOMAIN store' : \A i \in 1..Len(tasks') : store'[t].id # tasks'[i].id
    BY <2>1, <2>6, <2>7 DEF IdInv
  <2>12. \A i, j \in 1..Len(tasks') : tasks'[i].id = tasks'[j].id => i = j
    BY <2>1 DEF IdInv
  <2>13. \A t, u \in DOMAIN store' : store'[t].id = store'[u].id => t = u
    BY <2>6, <2>7 DEF IdInv
  <2> QED BY <2>8, <2>9, <2>10, <2>11, <2>12, <2>13 DEF IdInv
<1>3. ASSUME NEW t, NEW old, remove(t, old)
      PROVE  /\ DOMAIN store' = DOMAIN store \ {t}
             /\ \A u \in DOMAIN store' : store'[u] = store[u]
  BY <1>3 DEF remove, Without, Restrict
<1>4. CASE TimerEvent
  <2>1. UNCHANGED <<arrived, tasks>>
    BY <1>4 DEF TimerEvent, serve_vars
  <2>2. CASE DOMAIN deadline = {}
    BY <1>1, <1>4, <2>1, <2>2 DEF TimerEvent, reply_vars
  <2>3. CASE DOMAIN deadline # {}
    <3>1. PICK d \in DOMAIN deadline :
             /\ \E old : remove(deadline[d], old)
             /\ answered' = IF deadline[d] \in DOMAIN store
                            THEN answered \cup {store[deadline[d]].id} ELSE answered
      BY <1>4, <2>3 DEF TimerEvent, reply_vars
    <3>2. /\ DOMAIN store' = DOMAIN store \ {deadline[d]}
          /\ \A u \in DOMAIN store' : store'[u] = store[u]
      BY <1>3, <3>1
    <3>3. CASE deadline[d] \in DOMAIN store
      <4> DEFINE t == deadline[d]
      <4>1. answered' = answered \cup {store[t].id} /\ t \in DOMAIN store
        BY <3>1, <3>3
      <4>2. \A u \in DOMAIN store' :
               u \in DOMAIN store /\ u # t /\ store'[u].id = store[u].id
        BY <3>2
      <4> HIDE DEF t
      <4>3. \A u \in DOMAIN store' : store'[u].id # store[t].id
        BY <4>1, <4>2 DEF IdInv
      <4>4. \A i \in 1..Len(tasks) : tasks[i].id # store[t].id
        BY <4>1 DEF IdInv
      <4>5. store[t].id \in 1..arrived
        BY <4>1 DEF IdInv
      <4>6. answered' \subseteq 1..arrived'
        <5>1. answered \subseteq 1..arrived
          BY DEF IdInv
        <5> QED BY <2>1, <4>1, <4>5, <5>1
      <4>7. \A u \in DOMAIN store' : store'[u].id \in (1..arrived') \ answered'
        BY <2>1, <4>1, <4>2, <4>3 DEF IdInv
      <4>8. \A i \in 1..Len(tasks') : tasks'[i].id \in (1..arrived') \ answered'
        BY <2>1, <4>1, <4>4 DEF IdInv
      <4>9. \A u \in DOMAIN store' : \A i \in 1..Len(tasks') :
               store'[u].id # tasks'[i].id
        BY <2>1, <4>2 DEF IdInv
      <4>10. /\ \A i, j \in 1..Len(tasks') : tasks'[i].id = tasks'[j].id => i = j
             /\ \A u, v \in DOMAIN store' : store'[u].id = store'[v].id => u = v
        BY <2>1, <4>2 DEF IdInv
      <4> QED BY <4>6, <4>7, <4>8, <4>9, <4>10 DEF IdInv
    <3>4. CASE deadline[d] \notin DOMAIN store
      BY <2>1, <3>1, <3>2, <3>4 DEF IdInv
    <3> QED BY <3>3, <3>4
  <2> QED BY <2>2, <2>3
<1>5. CASE RemoveDue
  <2>1. PICK a \in todo :
           /\ remove(a.ts, timer)
           /\ tasks' = IF a.ts \in DOMAIN store /\ store[a.ts].kind = ServedKind
                       THEN Append(tasks, store[a.ts]) ELSE tasks
    BY <1>5 DEF RemoveDue
  <2>2. UNCHANGED <<arrived, answered>>
    BY <1>5 DEF RemoveDue, reply_vars
  <2>3. /\ DOMAIN store' = DOMAIN store \ {a.ts}
        /\ \A u \in DOMAIN store' : store'[u] = store[u]
    BY <1>3, <2>1
  <2>4. CASE tasks' = tasks
    BY <2>2, <2>3, <2>4 DEF IdInv
  <2>5. CASE a.ts \in DOMAIN store /\ tasks' = Append(tasks, store[a.ts])
    <3>1. store[a.ts] \in RequestEntry
      BY <2>5 DEF TypeOK, RegistryTypeOK
    <3>2. /\ Len(tasks') = Len(tasks) + 1
          /\ tasks'[Len(tasks) + 1] = store[a.ts]
          /\ \A i \in 1..Len(tasks) : tasks'[i] = tasks[i]
      BY <1>0, <2>5, <3>1, AppendProperties
    <3>3. \A i \in 1..Len(tasks') :
             \/ i = Len(tasks) + 1 /\ tasks'[i].id = store[a.ts].id
             \/ i \in 1..Len(tasks) /\ tasks'[i].id = tasks[i].id
      BY <1>0, <3>2
    <3>4. \A u \in DOMAIN store' :
             u \in DOMAIN store /\ u # a.ts /\ store'[u].id = store[u].id
      BY <2>3
    <3> QED BY <2>2, <2>5, <3>3, <3>4 DEF IdInv
  <2> QED BY <2>1, <2>4, <2>5
<1>6. CASE RunTask
  <2>1. /\ tasks # <<>> /\ tasks' = Tail(tasks)
        /\ UNCHANGED <<arrived, store>>
        /\ answered' = answered \/ answered' = answered \cup {Head(tasks).id}
    BY <1>6 DEF RunTask, PopFor, ReadFor, registry_vars
  <2>2. /\ Head(tasks) = tasks[1]
        /\ Len(tasks') = Len(tasks) - 1
        /\ \A i \in 1..Len(tasks') : tasks'[i] = tasks[i + 1]
    BY <1>0, <2>1, HeadTailProperties
  <2>3. 1 \in 1..Len(tasks) /\ \A i \in 1..Len(tasks') : i + 1 \in 2..Len(tasks)
    BY <1>0, <2>1, <2>2
  <2>4. \A i \in 1..Len(tasks') :
           /\ i \in Int
           /\ i + 1 \in 1..Len(tasks) /\ i + 1 # 1
           /\ tasks'[i].id = tasks[i + 1].id
    BY <1>0, <2>2, <2>3
  <2>5. \A i, j \in 1..Len(tasks') : i + 1 = j + 1 => i = j
    BY <2>4
  <2>6. tasks[1].id \in (1..arrived) \ answered
    BY <2>3 DEF IdInv
  <2>7. \A i \in 1..Len(tasks') :
           tasks'[i].id \in (1..arrived) \ answered /\ tasks'[i].id # tasks[1].id
    BY <2>3, <2>4 DEF IdInv
  <2>8. \A t \in DOMAIN store :
           store[t].id \in (1..arrived) \ answered /\ store[t].id # tasks[1].id
    BY <2>3 DEF IdInv
  <2>9. answered' \subseteq 1..arrived
    <3>1. answered \subseteq 1..arrived
      BY DEF IdInv
    <3>2. ASSUME NEW r \in answered' PROVE r \in 1..arrived
      <4>1. r \in answered \/ r = tasks[1].id
        BY <2>1, <2>2
      <4> QED BY <2>6, <3>1, <4>1
    <3> QED BY <3>2
  <2>10. \A i, j \in 1..Len(tasks') : tasks'[i].id = tasks'[j].id => i = j
    <3> SUFFICES ASSUME NEW i \in 1..Len(tasks'), NEW j \in 1..Len(tasks'),
                        tasks'[i].id = tasks'[j].id
                 PROVE  i = j
      OBVIOUS
    <3>1. tasks[i + 1].id = tasks[j + 1].id
      BY <2>4
    <3>2. i + 1 = j + 1
      BY <2>4, <3>1 DEF IdInv
    <3> QED BY <2>5, <3>2
  <2>11. \A t \in DOMAIN store : \A i \in 1..Len(tasks') : store[t].id # tasks'[i].id
    BY <2>4 DEF IdInv
  <2>12. answered' \subseteq answered \cup {tasks[1].id}
    BY <2>1, <2>2
  <2>13. \A t, u \in DOMAIN store : store[t].id = store[u].id => t = u
    BY DEF IdInv
  <2> QED BY <2>1, <2>7, <2>8, <2>9, <2>10, <2>11, <2>12, <2>13 DEF IdInv
<1> QED BY <1>1, <1>2, <1>4, <1>5, <1>6, OtherSteps

-----------------------------------------------------------------------------
(***************************************************************************)
(* The inductive invariant and the theorems.                                *)
(***************************************************************************)

IInv == TypeOK /\ RegistryInv /\ ReadInv /\ TaskInv /\ IdInv

\* The initial state satisfies the inductive invariant.
LEMMA InitIInv == Init => IInv
<1> SUFFICES ASSUME Init PROVE IInv
  OBVIOUS
<1>1. RegistryInit
  BY DEF Init
<1>2. /\ DOMAIN store = {} /\ DOMAIN backlog_list = {} /\ DOMAIN deadline = {}
      /\ backlog_stream = {} /\ now = 1 /\ timer = 0 /\ arrived = 0 /\ collided = FALSE
  BY <1>1 DEF RegistryInit
<1>3. DOMAIN data = {} /\ tasks = <<>> /\ response_queue = <<>> /\ conn \in [Clients -> Nat]
  BY DEF Init
<1>4. TypeOK
  <2>1. RegistryTypeOK
    <3>1. collided \in BOOLEAN
      BY <1>2, Zenon
    <3> QED BY <1>2, <3>1 DEF RegistryTypeOK
  <2>2. LoopType
    BY <1>3 DEF Init, LoopType
  <2>3. DataType /\ FlagType
    BY <1>3 DEF Init, DataType, FlagType
  <2>4. ReplyType /\ ServeType
    BY <1>3 DEF Init, ReplyType, ServeType
  <2> QED BY <2>1, <2>2, <2>3, <2>4, TypeParts
<1>5. RegistryInv
  BY <1>2 DEF RegistryInv, StoreIsIndexed, IndexIsLive, NoEmptyQueue, TimerCoversNearest
<1>6. ReadInv /\ TaskInv
  BY <1>3 DEF Init, ReadInv, TaskInv
<1>7. IdInv
  BY <1>2, <1>3 DEF Init, IdInv
<1> QED BY <1>4, <1>5, <1>6, <1>7 DEF IInv

\* Every step preserves the inductive invariant.
LEMMA NextIInv == IInv /\ [Next]_vars => IInv'
<1> SUFFICES ASSUME IInv, [Next]_vars PROVE IInv'
  OBVIOUS
<1>1. RegistryTypeOK' /\ RegistryInv'
  BY RegistryStep DEF IInv
<1>2. LoopType' /\ ReadInv'
  BY LoopTypeStep DEF IInv
<1>3. DataType' /\ FlagType' /\ ReplyType'
  BY DataTypeStep, FlagTypeStep, ReplyTypeStep DEF IInv
<1>4. ServeType' /\ TaskInv'
  BY ServeTypeStep DEF IInv
<1>5. IdInv'
  BY IdStep DEF IInv
<1>6. TypeOK'
  BY <1>1, <1>2, <1>3, <1>4
     DEF TypeOK, LoopType, DataType, ReplyType, ServeType, FlagType
<1> QED BY <1>1, <1>2, <1>4, <1>5, <1>6 DEF IInv

\* The inductive invariant holds in every reachable state of the server.
THEOREM IInvCorrect == Spec => []IInv
BY InitIInv, NextIInv, PTL DEF Spec

\* The server's state is well typed in every reachable state.
THEOREM TypeCorrect == Spec => []TypeOK
<1>1. IInv => TypeOK
  BY DEF IInv
<1> QED BY <1>1, IInvCorrect, PTL

\* No entry of the store is forgotten by the queues or the deadline tree, for
\* any interleaving of commands, expiries, matching and disconnections, and
\* even when two requests share a timestamp.
THEOREM StoreIndexed == Spec => []StoreIsIndexed
<1>1. IInv => StoreIsIndexed
  BY DEF IInv, RegistryInv
<1> QED BY <1>1, IInvCorrect, PTL

\* As long as no two requests share a timestamp, no deadline, queue position or
\* waiting XREAD outlives its request.
THEOREM IndexLive == Spec => []IndexIsLiveUnlessCollided
<1>1. IInv => IndexIsLiveUnlessCollided
  BY DEF IInv, RegistryInv, IndexIsLiveUnlessCollided
<1> QED BY <1>1, IInvCorrect, PTL

\* No empty queue stays in the map, so the immediate branch of BLPOP is never
\* taken.
THEOREM QueuesNotEmpty == Spec => []NoEmptyQueue
<1>1. IInv => NoEmptyQueue
  BY DEF IInv, RegistryInv
<1> QED BY <1>1, IInvCorrect, PTL

\* As long as no two requests share a timestamp, the timerfd is armed no later
\* than the nearest deadline.
THEOREM TimerCovers == Spec => []TimerCoversUnlessCollided
<1>1. IInv => TimerCoversUnlessCollided
  BY DEF IInv, RegistryInv, TimerCoversUnlessCollided
<1> QED BY <1>1, IInvCorrect, PTL

\* No request is answered twice, by its deadline and by its backlog task or
\* twice by either, whatever the interleaving.
THEOREM AnsweredOnce == Spec => []AnsweredAtMostOnce
<1>1. IInv => AnsweredAtMostOnce
  <2> SUFFICES ASSUME IdInv PROVE AnsweredAtMostOnce
    BY DEF IInv
  <2>1. PendingIds \cap TaskIds = {}
    BY DEF IdInv, PendingIds, TaskIds
  <2>2. PendingIds \cap answered = {} /\ TaskIds \cap answered = {}
    BY DEF IdInv, PendingIds, TaskIds
  <2> QED BY <2>1, <2>2 DEF IdInv, AnsweredAtMostOnce
<1> QED BY <1>1, IInvCorrect, PTL

-----------------------------------------------------------------------------
(***************************************************************************)
(* The items of lists.  ItemsAreConserved counts; its inductive form names  *)
(* the place of each item, so that a step can be followed item by item.     *)
(***************************************************************************)

\* Item x is at position i of list k; item x is in the j-th queued reply.
InList(x, k, i) == k \in Keys /\ i \in 1..Len(ItemsOf(k)) /\ ItemsOf(k)[i] = x
InQueue(x, j) ==
    /\ j \in 1..Len(response_queue)
    /\ response_queue[j].what = "item" /\ response_queue[j].item = x

\* Every item pushed is in one place, and only items pushed are anywhere.
PlacesInv ==
    /\ taken \subseteq 1..pushed
    /\ \A x, k, i : InList(x, k, i) => x \in (1..pushed) \ taken
    /\ \A x, j : InQueue(x, j) => x \in (1..pushed) \ taken
UniqueInv ==
    /\ \A x, k, i, l, j : InList(x, k, i) /\ InList(x, l, j) => k = l /\ i = j
    /\ \A x, i, j : InQueue(x, i) /\ InQueue(x, j) => i = j
    /\ \A x, k, i, j : ~(InList(x, k, i) /\ InQueue(x, j))
NoneLost ==
    \A x \in 1..pushed :
        \/ x \in taken
        \/ \E k, i : InList(x, k, i)
        \/ \E j : InQueue(x, j)
ItemInv == PlacesInv /\ UniqueInv /\ NoneLost

\* Storing a list under k changes the items of k only.
LEMMA ItemsAfterPut ==
    ASSUME NEW k, NEW items, data' = Put(data, k, ListOf(items))
    PROVE  /\ ItemsOf(k)' = items
           /\ \A x : x # k => ItemsOf(x)' = ItemsOf(x)
<1>1. /\ k \in DOMAIN data' /\ data'[k].type = "list" /\ data'[k].items = items
      /\ \A x : x # k => (x \in DOMAIN data' <=> x \in DOMAIN data)
      /\ \A x \in DOMAIN data : x # k => data'[x] = data[x]
  BY DEF Put, ListOf
<1> QED BY <1>1 DEF ItemsOf, HasType

\* Storing anything else under k leaves k without items.
LEMMA NoItemsAfterPut ==
    ASSUME NEW k, NEW v, v.type # "list", data' = Put(data, k, v)
    PROVE  /\ ItemsOf(k)' = <<>>
           /\ \A x : x # k => ItemsOf(x)' = ItemsOf(x)
<1>1. /\ k \in DOMAIN data' /\ data'[k] = v
      /\ \A x : x # k => (x \in DOMAIN data' <=> x \in DOMAIN data)
      /\ \A x \in DOMAIN data : x # k => data'[x] = data[x]
  BY DEF Put
<1> QED BY <1>1 DEF ItemsOf, HasType

\* A step that changes no list, no item reply, and takes or pushes nothing.
LEMMA SameItems ==
    ASSUME ItemInv, UNCHANGED <<taken, pushed>>,
           \A k : ItemsOf(k)' = ItemsOf(k),
           \A x, j : InQueue(x, j)' <=> InQueue(x, j)
    PROVE  ItemInv'
<1>1. \A x, k, i : InList(x, k, i)' <=> InList(x, k, i)
  BY DEF InList
<1> QED BY <1>1 DEF ItemInv, PlacesInv, UniqueInv, NoneLost

\* LPOP and SET: the first m items of one list are gone to a client or deleted.
LEMMA TakesItems ==
    ASSUME ItemInv, NEW k \in Keys, NEW s \in Seq(Nat), s = ItemsOf(k),
           NEW m \in 0..Len(s),
           \A i \in 1..Len(ItemsOf(k)') : i + m \in 1..Len(s) /\ ItemsOf(k)'[i] = s[i + m],
           \A i \in 1..Len(s) : i > m => i - m \in 1..Len(ItemsOf(k)'),
           \A x : x # k => ItemsOf(x)' = ItemsOf(x),
           taken' = taken \cup {s[i] : i \in 1..m},
           UNCHANGED <<response_queue, pushed>>
    PROVE  ItemInv'
<1>0. Len(s) \in Nat /\ m \in Nat
  OBVIOUS
<1>1. \A x, j : InQueue(x, j)' <=> InQueue(x, j)
  BY DEF InQueue
<1>2. \A x, l, i : l # k => (InList(x, l, i)' <=> InList(x, l, i))
  BY DEF InList
<1>3. \A x, i : InList(x, k, i)' => InList(x, k, i + m) /\ i \in 1..Len(ItemsOf(k)')
  BY DEF InList
<1>4. \A x, i : InList(x, k, i) /\ i > m => InList(x, k, i - m)'
  <2> SUFFICES ASSUME NEW x, NEW i, InList(x, k, i), i > m
               PROVE  InList(x, k, i - m)'
    OBVIOUS
  <2>1. i \in 1..Len(s) /\ s[i] = x /\ i \in Int
    BY DEF InList
  <2>2. i - m \in 1..Len(ItemsOf(k)') /\ (i - m) + m = i
    BY <1>0, <2>1
  <2>3. ItemsOf(k)'[i - m] = s[(i - m) + m]
    BY <2>2
  <2> QED BY <2>1, <2>2, <2>3 DEF InList
<1>5. \A x : x \in taken' <=> x \in taken \/ \E i \in 1..m : InList(x, k, i)
  BY <1>0 DEF InList
<1>6. \A i \in 1..Len(ItemsOf(k)') : i + m \notin 1..m
  BY <1>0
<1>7. ASSUME NEW x, NEW l, NEW i, InList(x, l, i)'
      PROVE  /\ \E j : InList(x, l, j) /\ (l = k => j = i + m) /\ (l # k => j = i)
             /\ x \notin taken'
  <2>1. CASE l = k
    <3>1. InList(x, k, i + m) /\ i + m \notin 1..m
      BY <1>3, <1>6, <1>7, <2>1
    <3>2. x \notin taken
      BY <3>1 DEF ItemInv, PlacesInv
    <3>3. ~ \E j \in 1..m : InList(x, k, j)
      BY <3>1 DEF ItemInv, UniqueInv
    <3> QED BY <1>5, <2>1, <3>1, <3>2, <3>3
  <2>2. CASE l # k
    <3>1. InList(x, l, i)
      BY <1>2, <1>7, <2>2
    <3>2. x \notin taken /\ ~ \E j : InList(x, k, j)
      BY <2>2, <3>1 DEF ItemInv, PlacesInv, UniqueInv
    <3> QED BY <1>5, <2>2, <3>1, <3>2
  <2> QED BY <2>1, <2>2
<1>8. PlacesInv'
  <2>1. taken' \subseteq 1..pushed'
    BY <1>5 DEF ItemInv, PlacesInv
  <2>2. \A x, l, i : InList(x, l, i)' => x \in (1..pushed') \ taken'
    BY <1>7 DEF ItemInv, PlacesInv
  <2>3. \A x, j : InQueue(x, j)' => x \in (1..pushed') \ taken'
    BY <1>1, <1>5 DEF ItemInv, PlacesInv, UniqueInv
  <2> QED BY <2>1, <2>2, <2>3 DEF PlacesInv
<1>9. UniqueInv'
  <2>1. ASSUME NEW x, NEW l, NEW i, NEW h, NEW j, InList(x, l, i)', InList(x, h, j)'
        PROVE  l = h /\ i = j
    <3>1. PICK a : InList(x, l, a) /\ (l = k => a = i + m) /\ (l # k => a = i)
      BY <1>7, <2>1
    <3>2. PICK b : InList(x, h, b) /\ (h = k => b = j + m) /\ (h # k => b = j)
      BY <1>7, <2>1
    <3>3. l = h /\ a = b
      BY <3>1, <3>2 DEF ItemInv, UniqueInv
    <3>4. i \in Int /\ j \in Int
      BY <2>1 DEF InList
    <3> QED BY <1>0, <3>1, <3>2, <3>3, <3>4
  <2>2. \A x, i, j : InQueue(x, i)' /\ InQueue(x, j)' => i = j
    BY <1>1 DEF ItemInv, UniqueInv
  <2>3. \A x, l, i, j : ~(InList(x, l, i)' /\ InQueue(x, j)')
    BY <1>1, <1>7 DEF ItemInv, UniqueInv
  <2> QED BY <2>1, <2>2, <2>3 DEF UniqueInv
<1>10. NoneLost'
  <2> SUFFICES ASSUME NEW x \in 1..pushed
               PROVE  x \in taken' \/ (\E l, i : InList(x, l, i)') \/ (\E j : InQueue(x, j)')
    BY DEF NoneLost
  <2>1. ASSUME NEW l, NEW i, InList(x, l, i)
        PROVE  x \in taken' \/ \E h, j : InList(x, h, j)'
    <3>1. CASE l # k
      BY <1>2, <2>1, <3>1
    <3>2. CASE l = k /\ i > m
      BY <1>4, <2>1, <3>2
    <3>3. CASE l = k /\ ~(i > m)
      <4>1. i \in 1..m
        BY <1>0, <2>1, <3>3 DEF InList
      <4> QED BY <1>5, <2>1, <3>3, <4>1
    <3> QED BY <3>1, <3>2, <3>3
  <2> QED BY <1>1, <1>5, <2>1 DEF ItemInv, NoneLost
<1> QED BY <1>8, <1>9, <1>10 DEF ItemInv

\* What queueing one more reply does to the items in replies.
LEMMA QueueAppend ==
    ASSUME response_queue \in Seq(Response), NEW r \in Response,
           response_queue' = Append(response_queue, r)
    PROVE  \A x, j : InQueue(x, j)' <=>
              \/ InQueue(x, j)
              \/ j = Len(response_queue) + 1 /\ r.what = "item" /\ r.item = x
<1>1. /\ Len(response_queue) \in Nat
      /\ Len(response_queue') = Len(response_queue) + 1
      /\ response_queue'[Len(response_queue) + 1] = r
      /\ \A j \in 1..Len(response_queue) : response_queue'[j] = response_queue[j]
  BY AppendProperties
<1>2. \A j : j \in 1..Len(response_queue') <=>
               j \in 1..Len(response_queue) \/ j = Len(response_queue) + 1
  BY <1>1
<1>3. Len(response_queue) + 1 \notin 1..Len(response_queue)
  BY <1>1
<1> QED BY <1>1, <1>2, <1>3 DEF InQueue

\* The task of a BLPOP moves the head of a list to a reply.
LEMMA PopsItem ==
    ASSUME ItemInv, response_queue \in Seq(Response), NEW r \in Response,
           NEW k \in Keys, NEW s \in Seq(Nat), s = ItemsOf(k), s # <<>>,
           ItemsOf(k)' = Tail(s),
           \A x : x # k => ItemsOf(x)' = ItemsOf(x),
           response_queue' = Append(response_queue, r),
           r.what = "item", r.item = Head(s),
           UNCHANGED <<taken, pushed>>
    PROVE  ItemInv'
<1>0. /\ Len(s) \in Nat /\ 1 \in 1..Len(s) /\ s[1] = Head(s)
      /\ Len(Tail(s)) = Len(s) - 1
      /\ \A i \in 1..Len(Tail(s)) : Tail(s)[i] = s[i + 1]
  OBVIOUS
<1>1. PICK n : n = Len(response_queue) + 1
  OBVIOUS
<1>2. \A x, j : InQueue(x, j)' <=> InQueue(x, j) \/ (j = n /\ x = s[1])
  BY <1>0, <1>1, QueueAppend
<1>3. \A j : InQueue(s[1], j) => FALSE
  BY <1>0 DEF ItemInv, UniqueInv, InList
<1>4. InList(s[1], k, 1)
  BY <1>0 DEF InList
<1>5. \A x, l, i : l # k => (InList(x, l, i)' <=> InList(x, l, i))
  BY DEF InList
<1>6. \A x, i : InList(x, k, i)' => InList(x, k, i + 1) /\ i + 1 # 1 /\ i \in Int
  BY <1>0 DEF InList
<1>7. \A x, i : InList(x, k, i) /\ i # 1 => InList(x, k, i - 1)'
  <2> SUFFICES ASSUME NEW x, NEW i, InList(x, k, i), i # 1
               PROVE  InList(x, k, i - 1)'
    OBVIOUS
  <2>1. i \in 1..Len(s) /\ s[i] = x
    BY DEF InList
  <2>2. i - 1 \in 1..Len(Tail(s)) /\ (i - 1) + 1 = i
    BY <1>0, <2>1
  <2>3. Tail(s)[i - 1] = x
    BY <1>0, <2>1, <2>2
  <2> QED BY <2>2, <2>3 DEF InList
<1>8. ASSUME NEW x, NEW l, NEW i, InList(x, l, i)'
      PROVE  /\ \E j : InList(x, l, j) /\ (l = k => j = i + 1) /\ (l # k => j = i)
             /\ x # s[1] /\ i \in Int
  <2>1. CASE l = k
    <3>1. InList(x, k, i + 1) /\ i + 1 # 1 /\ i \in Int
      BY <1>6, <1>8, <2>1
    <3>2. x # s[1]
      BY <1>4, <3>1 DEF ItemInv, UniqueInv
    <3> QED BY <2>1, <3>1, <3>2
  <2>2. CASE l # k
    <3>1. InList(x, l, i) /\ i \in Int
      BY <1>5, <1>8, <2>2 DEF InList
    <3>2. x # s[1]
      BY <1>4, <2>2, <3>1 DEF ItemInv, UniqueInv
    <3> QED BY <2>2, <3>1, <3>2
  <2> QED BY <2>1, <2>2
<1>9. PlacesInv'
  <2>1. \A x, l, i : InList(x, l, i)' => x \in (1..pushed') \ taken'
    BY <1>8 DEF ItemInv, PlacesInv
  <2>2. \A x, j : InQueue(x, j)' => x \in (1..pushed') \ taken'
    BY <1>2, <1>4 DEF ItemInv, PlacesInv
  <2> QED BY <2>1, <2>2 DEF ItemInv, PlacesInv
<1>10. UniqueInv'
  <2>1. ASSUME NEW x, NEW l, NEW i, NEW h, NEW j, InList(x, l, i)', InList(x, h, j)'
        PROVE  l = h /\ i = j
    <3>1. PICK a : InList(x, l, a) /\ (l = k => a = i + 1) /\ (l # k => a = i)
      BY <1>8, <2>1
    <3>2. PICK b : InList(x, h, b) /\ (h = k => b = j + 1) /\ (h # k => b = j)
      BY <1>8, <2>1
    <3>3. l = h /\ a = b
      BY <3>1, <3>2 DEF ItemInv, UniqueInv
    <3>4. i \in Int /\ j \in Int
      BY <1>8, <2>1
    <3> QED BY <3>1, <3>2, <3>3, <3>4
  <2>2. \A x, i, j : InQueue(x, i)' /\ InQueue(x, j)' => i = j
    BY <1>2, <1>3 DEF ItemInv, UniqueInv
  <2>3. \A x, l, i, j : ~(InList(x, l, i)' /\ InQueue(x, j)')
    BY <1>2, <1>8 DEF ItemInv, UniqueInv
  <2> QED BY <2>1, <2>2, <2>3 DEF UniqueInv
<1>11. NoneLost'
  <2> SUFFICES ASSUME NEW x \in 1..pushed
               PROVE  x \in taken \/ (\E l, i : InList(x, l, i)') \/ (\E j : InQueue(x, j)')
    BY DEF NoneLost
  <2>1. ASSUME NEW l, NEW i, InList(x, l, i)
        PROVE  (\E h, j : InList(x, h, j)') \/ (\E j : InQueue(x, j)')
    <3>1. CASE l # k
      BY <1>5, <2>1, <3>1
    <3>2. CASE l = k /\ i # 1
      BY <1>7, <2>1, <3>2
    <3>3. CASE l = k /\ i = 1
      <4>1. x = s[1]
        BY <2>1, <3>3 DEF InList
      <4> QED BY <1>2, <4>1
    <3> QED BY <3>1, <3>2, <3>3
  <2> QED BY <1>2, <2>1 DEF ItemInv, NoneLost
<1> QED BY <1>9, <1>10, <1>11 DEF ItemInv

\* RPUSH and LPUSH: the old items of one list move by a, the new ones are at
\* positions b + 1 to b + n, in either order.
Pushes(k, s, u, new, n, a, b) ==
    /\ s = ItemsOf(k) /\ ItemsOf(k)' = u
    /\ new \in [1..n -> (pushed + 1)..(pushed + n)]
    /\ \A i, j \in 1..n : new[i] = new[j] => i = j
    /\ \A x \in (pushed + 1)..(pushed + n) : \E i \in 1..n : new[i] = x
    /\ \A i \in 1..Len(s) : i + a \in 1..Len(u) /\ u[i + a] = s[i]
    /\ \A i \in 1..n : i + b \in 1..Len(u) /\ u[i + b] = new[i]
    /\ \A i \in 1..Len(u) : i - a \in 1..Len(s) \/ i - b \in 1..n
    /\ \A x : x # k => ItemsOf(x)' = ItemsOf(x)
    /\ pushed' = pushed + n
    /\ UNCHANGED <<response_queue, taken>>

\* A push keeps every item in one place.
LEMMA PushesItems ==
    ASSUME ItemInv, pushed \in Nat,
           NEW k \in Keys, NEW s \in Seq(Nat), NEW u \in Seq(Nat), NEW new,
           NEW n \in Nat, NEW a \in Nat, NEW b \in Nat,
           Pushes(k, s, u, new, n, a, b)
    PROVE  ItemInv'
<1> USE DEF Pushes
<1>0. Len(s) \in Nat /\ Len(u) \in Nat
  OBVIOUS
<1>1. \A x, j : InQueue(x, j)' <=> InQueue(x, j)
  BY DEF InQueue
<1>2. \A x, l, i : l # k => (InList(x, l, i)' <=> InList(x, l, i))
  BY DEF InList
<1>3. \A x, i : InList(x, k, i) => InList(x, k, i + a)'
  BY DEF InList
<1>4. \A i \in 1..n : InList(new[i], k, i + b)'
  BY DEF InList
<1>5. ASSUME NEW x, NEW i, InList(x, k, i)'
      PROVE  i \in Int /\ (InList(x, k, i - a) \/ (i - b \in 1..n /\ new[i - b] = x))
  <2>1. i \in 1..Len(u) /\ u[i] = x /\ i \in Int
    BY <1>5 DEF InList
  <2>2. CASE i - a \in 1..Len(s)
    <3>1. u[(i - a) + a] = s[i - a] /\ (i - a) + a = i
      BY <2>1, <2>2
    <3> QED BY <2>1, <2>2, <3>1 DEF InList
  <2>3. CASE i - b \in 1..n
    <3>1. u[(i - b) + b] = new[i - b] /\ (i - b) + b = i
      BY <2>1, <2>3
    <3> QED BY <2>1, <2>3, <3>1
  <2> QED BY <2>1, <2>2, <2>3
<1>6. \A x \in (pushed + 1)..(pushed + n) : x \notin 1..pushed /\ x \in 1..pushed'
  OBVIOUS
<1>7. 1..pushed \subseteq 1..pushed'
  OBVIOUS
<1>8. ASSUME NEW x, NEW l, NEW i, InList(x, l, i)'
      PROVE  /\ i \in Int
             /\ \/ \E j : InList(x, l, j) /\ (l = k => j = i - a) /\ (l # k => j = i)
                \/ l = k /\ i - b \in 1..n /\ new[i - b] = x
  <2>1. CASE l = k
    BY <1>5, <1>8, <2>1
  <2>2. CASE l # k
    <3>1. InList(x, l, i) /\ i \in Int
      BY <1>2, <1>8, <2>2 DEF InList
    <3> QED BY <2>2, <3>1
  <2> QED BY <2>1, <2>2
<1>9. \A x, l, j : InList(x, l, j) => x \in 1..pushed
  BY DEF ItemInv, PlacesInv
<1>10. \A i \in 1..n : new[i] \in 1..pushed' /\ new[i] \notin 1..pushed
  BY <1>6
<1>14. ASSUME NEW x \in 1..pushed, NEW l, NEW i, InList(x, l, i)'
       PROVE  \E j : InList(x, l, j) /\ (l = k => j = i - a) /\ (l # k => j = i)
  <2>1. ~(i - b \in 1..n /\ new[i - b] = x)
    BY <1>10
  <2> QED BY <1>8, <1>14, <2>1
<1>11. PlacesInv'
  <2>1. \A x, l, i : InList(x, l, i)' => x \in (1..pushed') \ taken'
    BY <1>7, <1>8, <1>10 DEF ItemInv, PlacesInv
  <2>2. \A x, j : InQueue(x, j)' => x \in (1..pushed') \ taken'
    BY <1>1, <1>7 DEF ItemInv, PlacesInv
  <2>3. taken' \subseteq 1..pushed'
    BY <1>7 DEF ItemInv, PlacesInv
  <2> QED BY <2>1, <2>2, <2>3 DEF PlacesInv
<1>12. UniqueInv'
  <2>1. ASSUME NEW x, NEW l, NEW i, NEW h, NEW j, InList(x, l, i)', InList(x, h, j)'
        PROVE  l = h /\ i = j
    <3>1. i \in Int /\ j \in Int
      BY <1>8, <2>1
    <3>2. CASE x \in 1..pushed
      <4>1. PICK c : InList(x, l, c) /\ (l = k => c = i - a) /\ (l # k => c = i)
        BY <1>14, <2>1, <3>2
      <4>2. PICK d : InList(x, h, d) /\ (h = k => d = j - a) /\ (h # k => d = j)
        BY <1>14, <2>1, <3>2
      <4>3. l = h /\ c = d
        BY <4>1, <4>2 DEF ItemInv, UniqueInv
      <4> QED BY <3>1, <4>1, <4>2, <4>3
    <3>3. CASE x \notin 1..pushed
      <4>1. l = k /\ i - b \in 1..n /\ new[i - b] = x
        BY <1>8, <1>9, <2>1, <3>3
      <4>2. h = k /\ j - b \in 1..n /\ new[j - b] = x
        BY <1>8, <1>9, <2>1, <3>3
      <4>3. i - b = j - b
        BY <4>1, <4>2
      <4> QED BY <3>1, <4>1, <4>2, <4>3
    <3> QED BY <3>2, <3>3
  <2>2. \A x, i, j : InQueue(x, i)' /\ InQueue(x, j)' => i = j
    BY <1>1 DEF ItemInv, UniqueInv
  <2>3. \A x, l, i, j : ~(InList(x, l, i)' /\ InQueue(x, j)')
    <3> SUFFICES ASSUME NEW x, NEW l, NEW i, NEW j, InList(x, l, i)', InQueue(x, j)
                 PROVE  FALSE
      BY <1>1
    <3>1. x \in 1..pushed
      BY DEF ItemInv, PlacesInv
    <3>2. \E h : InList(x, l, h)
      BY <1>14, <3>1
    <3> QED BY <3>2 DEF ItemInv, UniqueInv
  <2> QED BY <2>1, <2>2, <2>3 DEF UniqueInv
<1>13. NoneLost'
  <2> SUFFICES ASSUME NEW x \in 1..pushed'
               PROVE  x \in taken \/ (\E l, i : InList(x, l, i)') \/ (\E j : InQueue(x, j)')
    BY DEF NoneLost
  <2>1. CASE x \in 1..pushed
    <3>1. \A l, i : InList(x, l, i) => \E j : InList(x, l, j)'
      <4> SUFFICES ASSUME NEW l, NEW i, InList(x, l, i)
                   PROVE  \E j : InList(x, l, j)'
        OBVIOUS
      <4>1. CASE l = k
        BY <1>3, <4>1
      <4>2. CASE l # k
        BY <1>2, <4>2
      <4> QED BY <4>1, <4>2
    <3> QED BY <1>1, <2>1, <3>1 DEF ItemInv, NoneLost
  <2>2. CASE x \notin 1..pushed
    <3>1. x \in (pushed + 1)..(pushed + n)
      BY <2>2
    <3>2. PICK i \in 1..n : new[i] = x
      BY <3>1
    <3> QED BY <1>4, <3>2
  <2> QED BY <2>1, <2>2
<1> QED BY <1>11, <1>12, <1>13 DEF ItemInv

\* The flush hands the item of the first reply to its client.
LEMMA FlushesItem ==
    ASSUME TypeOK, ItemInv, FlushReply
    PROVE  ItemInv'
<1>1. /\ response_queue \in Seq(Response) /\ response_queue # <<>>
      /\ response_queue' = Tail(response_queue)
      /\ UNCHANGED <<data, pushed>>
  BY DEF FlushReply, TypeOK
<1>2. PICK r \in Response : r = Head(response_queue)
  BY <1>1
<1>3. taken' = IF r.what = "item" THEN taken \cup {r.item} ELSE taken
  BY <1>2 DEF FlushReply
<1>4. /\ Len(response_queue) \in Nat /\ 1 \in 1..Len(response_queue)
      /\ response_queue[1] = r
      /\ Len(response_queue') = Len(response_queue) - 1
      /\ \A j \in 1..Len(response_queue') : response_queue'[j] = response_queue[j + 1]
  BY <1>1, <1>2
<1>5. \A x, k, i : InList(x, k, i)' <=> InList(x, k, i)
  BY <1>1 DEF InList, ItemsOf, HasType
<1>6. \A x, j : InQueue(x, j)' => InQueue(x, j + 1) /\ j + 1 # 1 /\ j \in Int
  BY <1>4 DEF InQueue
<1>7. \A x, j : InQueue(x, j) /\ j # 1 => InQueue(x, j - 1)'
  <2> SUFFICES ASSUME NEW x, NEW j, InQueue(x, j), j # 1
               PROVE  InQueue(x, j - 1)'
    OBVIOUS
  <2>1. j - 1 \in 1..Len(response_queue') /\ (j - 1) + 1 = j
    BY <1>4 DEF InQueue
  <2>2. response_queue'[j - 1] = response_queue[j]
    BY <1>4, <2>1
  <2> QED BY <2>1, <2>2 DEF InQueue
<1>8. \A x : x \in taken' <=> x \in taken \/ InQueue(x, 1)
  BY <1>3, <1>4 DEF InQueue
<1>9. PlacesInv'
  <2>1. taken' \subseteq 1..pushed'
    BY <1>1, <1>8 DEF ItemInv, PlacesInv
  <2>2. \A x, k, i : InList(x, k, i)' => x \in (1..pushed') \ taken'
    BY <1>1, <1>5, <1>8 DEF ItemInv, PlacesInv, UniqueInv
  <2>3. \A x, j : InQueue(x, j)' => x \in (1..pushed') \ taken'
    BY <1>1, <1>6, <1>8 DEF ItemInv, PlacesInv, UniqueInv
  <2> QED BY <2>1, <2>2, <2>3 DEF PlacesInv
<1>10. UniqueInv'
  <2>1. ASSUME NEW x, NEW i, NEW j, InQueue(x, i)', InQueue(x, j)'
        PROVE  i = j
    <3>1. i + 1 = j + 1
      BY <1>6, <2>1 DEF ItemInv, UniqueInv
    <3>2. i \in Int /\ j \in Int
      BY <1>6, <2>1
    <3> QED BY <3>1, <3>2
  <2>2. \A x, k, i, l, j : InList(x, k, i)' /\ InList(x, l, j)' => k = l /\ i = j
    BY <1>5 DEF ItemInv, UniqueInv
  <2>3. \A x, k, i, j : ~(InList(x, k, i)' /\ InQueue(x, j)')
    BY <1>5, <1>6 DEF ItemInv, UniqueInv
  <2> QED BY <2>1, <2>2, <2>3 DEF UniqueInv
<1>11. NoneLost'
  <2> SUFFICES ASSUME NEW x \in 1..pushed
               PROVE  x \in taken' \/ (\E k, i : InList(x, k, i)') \/ (\E j : InQueue(x, j)')
    BY <1>1 DEF NoneLost
  <2>1. \A j : InQueue(x, j) => x \in taken' \/ \E i : InQueue(x, i)'
    BY <1>7, <1>8
  <2> QED BY <1>5, <1>8, <2>1 DEF ItemInv, NoneLost
<1> QED BY <1>9, <1>10, <1>11 DEF ItemInv

\* A push puts the next n items into one list.
LEMMA PushKeepsItems ==
    ASSUME TypeOK, ItemInv, NEW k \in Keys, NEW n \in 1..MaxPush,
           cmd_rpush(k, n) \/ cmd_lpush(k, n)
    PROVE  ItemInv'
<1>0. DataType
  BY TypeParts
<1>1. n \in Nat /\ pushed \in Nat
  BY <1>0, ServerAssumption DEF DataType
<1>2. PICK s \in Seq(Nat) : s = ItemsOf(k)
  BY <1>0, ValueFacts
<1>3. pushed' = pushed + n /\ UNCHANGED <<response_queue, taken>>
  BY DEF cmd_rpush, cmd_lpush, CommandFrame, reply_vars
<1>4. CASE cmd_rpush(k, n)
  <2> DEFINE new == [i \in 1..n |-> pushed + i]
  <2>1. new \in Seq(Nat) /\ Len(new) = n
    <3>1. new \in [1..n -> Nat]
      BY <1>1
    <3> QED BY <1>1, <3>1, SeqDef
  <2>2. data' = Put(data, k, ListOf(s \o new))
    BY <1>2, <1>4 DEF cmd_rpush, Appended
  <2>3. PICK u \in Seq(Nat) : u = s \o new
    BY <2>1, ConcatProperties
  <2>4. ItemsOf(k)' = u /\ \A x : x # k => ItemsOf(x)' = ItemsOf(x)
    <3>1. data' = Put(data, k, ListOf(u))
      BY <2>2, <2>3
    <3> QED BY <3>1, ItemsAfterPut
  <2>5. /\ Len(u) = Len(s) + n
        /\ \A i \in 1..Len(u) : u[i] = IF i <= Len(s) THEN s[i] ELSE new[i - Len(s)]
    BY <2>1, <2>3, ConcatProperties
  <2>6. Len(s) \in Nat
    OBVIOUS
  <2>7. new \in [1..n -> (pushed + 1)..(pushed + n)]
    BY <1>1
  <2>8. \A i, j \in 1..n : new[i] = new[j] => i = j
    BY <1>1
  <2>9. ASSUME NEW x \in (pushed + 1)..(pushed + n)
        PROVE  \E i \in 1..n : new[i] = x
    <3>1. x - pushed \in 1..n /\ pushed + (x - pushed) = x
      BY <1>1
    <3> QED BY <3>1
  <2> HIDE DEF new
  <2>10. \A i \in 1..Len(s) : i + 0 \in 1..Len(u) /\ u[i + 0] = s[i]
    BY <1>1, <2>5, <2>6
  <2>11. ASSUME NEW i \in 1..n
         PROVE  i + Len(s) \in 1..Len(u) /\ u[i + Len(s)] = new[i]
    <3>1. i + Len(s) \in 1..Len(u) /\ ~(i + Len(s) <= Len(s)) /\ (i + Len(s)) - Len(s) = i
      BY <1>1, <2>5, <2>6
    <3> QED BY <2>5, <3>1
  <2>12. \A i \in 1..Len(u) : i - 0 \in 1..Len(s) \/ i - Len(s) \in 1..n
    BY <1>1, <2>5, <2>6
  <2>13. PICK a \in Nat : a = 0
    OBVIOUS
  <2>14. PICK b \in Nat : b = Len(s)
    BY <2>6
  <2>15. PICK f \in [1..n -> (pushed + 1)..(pushed + n)] : f = new
    BY <2>7
  <2>16. /\ \A i \in 1..Len(s) : i + a \in 1..Len(u) /\ u[i + a] = s[i]
         /\ \A i \in 1..Len(u) : i - a \in 1..Len(s) \/ i - b \in 1..n
    BY <2>10, <2>12, <2>13, <2>14
  <2>17. /\ \A i \in 1..n : i + b \in 1..Len(u) /\ u[i + b] = f[i]
         /\ \A i, j \in 1..n : f[i] = f[j] => i = j
         /\ \A x \in (pushed + 1)..(pushed + n) : \E i \in 1..n : f[i] = x
    BY <2>8, <2>9, <2>11, <2>14, <2>15
  <2>18. Pushes(k, s, u, f, n, a, b)
    BY <1>2, <1>3, <2>4, <2>15, <2>16, <2>17 DEF Pushes
  <2> QED BY <1>1, <2>18, PushesItems
<1>5. CASE cmd_lpush(k, n)
  <2> DEFINE new == [i \in 1..n |-> pushed + n + 1 - i]
  <2>1. new \in Seq(Nat) /\ Len(new) = n
    <3>1. new \in [1..n -> Nat]
      BY <1>1
    <3> QED BY <1>1, <3>1, SeqDef
  <2>2. data' = Put(data, k, ListOf(new \o s))
    BY <1>2, <1>5 DEF cmd_lpush, Prepended
  <2>3. PICK u \in Seq(Nat) : u = new \o s
    BY <2>1, ConcatProperties
  <2>4. ItemsOf(k)' = u /\ \A x : x # k => ItemsOf(x)' = ItemsOf(x)
    <3>1. data' = Put(data, k, ListOf(u))
      BY <2>2, <2>3
    <3> QED BY <3>1, ItemsAfterPut
  <2>5. /\ Len(u) = n + Len(s)
        /\ \A i \in 1..Len(u) : u[i] = IF i <= n THEN new[i] ELSE s[i - n]
    BY <2>1, <2>3, ConcatProperties
  <2>6. Len(s) \in Nat
    OBVIOUS
  <2>7. new \in [1..n -> (pushed + 1)..(pushed + n)]
    BY <1>1
  <2>8. \A i, j \in 1..n : new[i] = new[j] => i = j
    BY <1>1
  <2>9. ASSUME NEW x \in (pushed + 1)..(pushed + n)
        PROVE  \E i \in 1..n : new[i] = x
    <3>1. (pushed + n + 1) - x \in 1..n /\ pushed + n + 1 - ((pushed + n + 1) - x) = x
      BY <1>1
    <3> QED BY <3>1
  <2> HIDE DEF new
  <2>10. ASSUME NEW i \in 1..Len(s)
         PROVE  i + n \in 1..Len(u) /\ u[i + n] = s[i]
    <3>1. i + n \in 1..Len(u) /\ ~(i + n <= n) /\ (i + n) - n = i
      BY <1>1, <2>5, <2>6, SMTT(30)
    <3> QED BY <2>5, <3>1
  <2>11. \A i \in 1..n : i + 0 \in 1..Len(u) /\ u[i + 0] = new[i]
    BY <1>1, <2>5, <2>6
  <2>12. \A i \in 1..Len(u) : i - n \in 1..Len(s) \/ i - 0 \in 1..n
    BY <1>1, <2>5, <2>6
  <2>13. PICK a \in Nat : a = n
    BY <1>1
  <2>14. PICK b \in Nat : b = 0
    OBVIOUS
  <2>15. PICK f \in [1..n -> (pushed + 1)..(pushed + n)] : f = new
    BY <2>7
  <2>16. /\ \A i \in 1..Len(s) : i + a \in 1..Len(u) /\ u[i + a] = s[i]
         /\ \A i \in 1..Len(u) : i - a \in 1..Len(s) \/ i - b \in 1..n
    BY <2>10, <2>12, <2>13, <2>14
  <2>17. /\ \A i \in 1..n : i + b \in 1..Len(u) /\ u[i + b] = f[i]
         /\ \A i, j \in 1..n : f[i] = f[j] => i = j
         /\ \A x \in (pushed + 1)..(pushed + n) : \E i \in 1..n : f[i] = x
    BY <2>8, <2>9, <2>11, <2>14, <2>15
  <2>18. Pushes(k, s, u, f, n, a, b)
    BY <1>2, <1>3, <2>4, <2>15, <2>16, <2>17 DEF Pushes
  <2> QED BY <1>1, <2>18, PushesItems
<1> QED BY <1>4, <1>5

\* The other commands: LPOP and SET take items, the rest leaves them alone (BLPOP
\* never answers at once: no queue is empty).
LEMMA CommandKeepsItems ==
    ASSUME TypeOK, RegistryInv, ItemInv, Command
    PROVE  ItemInv'
<1>0. DataType /\ response_queue' = response_queue
  BY TypeParts, CommandEffect DEF reply_vars
<1>1. \A x, j : InQueue(x, j)' <=> InQueue(x, j)
  BY <1>0 DEF InQueue
<1>2. CASE UNCHANGED <<data, taken, pushed>>
  BY <1>1, <1>2, SameItems DEF ItemsOf, HasType
<1>3. ASSUME NEW k \in Keys, NEW n \in 1..MaxPush, cmd_lpop(k, n)
      PROVE  ItemInv'
  <2>1. PICK s \in Seq(Nat) : s = ItemsOf(k)
    BY <1>0, ValueFacts
  <2>2. n \in Nat /\ Len(s) \in Nat
    BY ServerAssumption
  <2>3. PICK m \in 0..Len(s) : m = IF n < Len(s) THEN n ELSE Len(s)
    BY <2>2
  <2>4. /\ taken' = taken \cup {s[i] : i \in 1..m} /\ pushed' = pushed
        /\ data' = IF k \in DOMAIN data
                   THEN Put(data, k, ListOf(SubSeq(s, m + 1, Len(s)))) ELSE data
    BY <1>3, <2>1, <2>3 DEF cmd_lpop
  <2>5. CASE k \in DOMAIN data
    <3>0. m \in Nat /\ m + 1 \in 1..Len(s) + 1
      BY <2>2
    <3>6. \A i \in (m + 1)..Len(s) : s[i] \in Nat
      BY <2>2, <3>0
    <3>1. PICK u \in Seq(Nat) : u = SubSeq(s, m + 1, Len(s))
      <4>1. m + 1 \in Int /\ Len(s) \in Int
        BY <2>2, <3>0
      <4> QED BY <3>6, <4>1, SubSeqProperties, Zenon
    <3>2. data' = Put(data, k, ListOf(u))
      BY <2>4, <2>5, <3>1
    <3>3. ItemsOf(k)' = u /\ \A x : x # k => ItemsOf(x)' = ItemsOf(x)
      BY <3>2, ItemsAfterPut
    <3>4. Len(u) = Len(s) - m /\ \A i \in 1..Len(u) : u[i] = s[i + m]
      <4>1. m + 1 \in Int /\ Len(s) \in Int
        BY <2>2, <3>0
      <4>6. Len(SubSeq(s, m + 1, Len(s))) =
                IF m + 1 <= Len(s) THEN Len(s) - (m + 1) + 1 ELSE 0
        BY <3>6, <4>1, SubSeqProperties
      <4>2. \A i \in 1..Len(s) - (m + 1) + 1 :
                SubSeq(s, m + 1, Len(s))[i] = s[m + 1 + i - 1]
        BY <3>6, <4>1, SubSeqProperties
      <4>3. Len(u) = Len(s) - m
        BY <2>2, <3>0, <3>1, <4>6
      <4>4. \A i \in 1..Len(u) : i \in 1..Len(s) - (m + 1) + 1 /\ m + 1 + i - 1 = i + m
        BY <2>2, <3>0, <4>3
      <4>5. \A i \in 1..Len(u) : u[i] = s[m + 1 + i - 1]
        BY <3>1, <4>2, <4>4, Zenon
      <4> QED BY <4>3, <4>4, <4>5
    <3>5. /\ \A i \in 1..Len(u) : i + m \in 1..Len(s)
          /\ \A i \in 1..Len(s) : i > m => i - m \in 1..Len(u)
      BY <2>2, <3>4
    <3> QED BY <1>0, <2>1, <2>3, <2>4, <3>3, <3>4, <3>5, TakesItems
  <2>6. CASE k \notin DOMAIN data
    <3>1. s = <<>> /\ m = 0
      BY <2>1, <2>2, <2>3, <2>6 DEF ItemsOf, HasType
    <3>2. taken' = taken /\ data' = data
      BY <2>4, <2>6, <3>1
    <3> QED BY <1>2, <2>4, <3>2
  <2> QED BY <2>5, <2>6
<1>4. ASSUME NEW k \in Keys, cmd_set(k)
      PROVE  ItemInv'
  <2>1. PICK s \in Seq(Nat) : s = ItemsOf(k)
    BY <1>0, ValueFacts
  <2>2. /\ data' = Put(data, k, [type |-> "string"]) /\ pushed' = pushed
        /\ taken' = taken \cup {s[i] : i \in 1..Len(s)}
    BY <1>4, <2>1 DEF cmd_set, ItemSet
  <2>3. ItemsOf(k)' = <<>> /\ \A x : x # k => ItemsOf(x)' = ItemsOf(x)
    BY <2>2, NoItemsAfterPut
  <2>4. PICK m \in 0..Len(s) : m = Len(s)
    OBVIOUS
  <2>5. /\ \A i \in 1..Len(ItemsOf(k)') : i + m \in 1..Len(s) /\ ItemsOf(k)'[i] = s[i + m]
        /\ \A i \in 1..Len(s) : i > m => i - m \in 1..Len(ItemsOf(k)')
    BY <2>3, <2>4
  <2> QED BY <1>0, <2>1, <2>2, <2>3, <2>4, <2>5, TakesItems
<1>5. ASSUME NEW k \in Keys, NEW timeout, cmd_blpop(k, timeout)
      PROVE  ItemInv'
  <2>1. ~is_backlog_list_empty(k)
    BY DEF RegistryInv, NoEmptyQueue, is_backlog_list_empty
  <2> QED BY <1>2, <1>5, <2>1 DEF cmd_blpop, BlpopWait, data_vars
<1>6. ASSUME NEW k \in Keys, cmd_xadd(k) \/ XaddRefused(k)
      PROVE  ItemInv'
  <2>1. ItemsOf(k) = <<>> /\ UNCHANGED <<taken, pushed>>
    BY <1>6 DEF cmd_xadd, XaddRefused, ItemsOf, HasType, IsStreamOrAbsent
  <2>4. \A n : StreamOf(n).type # "list"
    BY DEF StreamOf
  <2>2. PICK v : data' = Put(data, k, v) /\ v.type # "list"
    BY <1>6, <2>4 DEF cmd_xadd, XaddRefused
  <2>3. \A x : ItemsOf(x)' = ItemsOf(x)
    BY <2>1, <2>2, NoItemsAfterPut
  <2> QED BY <1>1, <2>1, <2>3, SameItems
<1>7. ASSUME NEW k \in Keys, XaddNotLast(k)
      PROVE  ItemInv'
  BY <1>2, <1>7 DEF XaddNotLast
<1>8. ASSUME NEW key_ts, NEW timeout, cmd_xread(key_ts, timeout)
      PROVE  ItemInv'
  BY <1>2, <1>8 DEF cmd_xread, data_vars
<1>9. CASE OtherCommand
  BY <1>2, <1>9 DEF OtherCommand, data_vars
<1> QED BY <1>3, <1>4, <1>5, <1>6, <1>7, <1>8, <1>9, PushKeepsItems DEF Command

\* A queued reply that carries no item leaves the items alone.
LEMMA OtherReply ==
    ASSUME TypeOK, ItemInv, NEW r \in Response, r.what # "item",
           response_queue' = Append(response_queue, r),
           UNCHANGED <<data, taken, pushed>>
    PROVE  ItemInv'
<1>1. \A x, j : InQueue(x, j)' <=> InQueue(x, j)
  BY QueueAppend DEF TypeOK
<1>2. \A k : ItemsOf(k)' = ItemsOf(k)
  BY DEF ItemsOf, HasType
<1> QED BY <1>1, <1>2, SameItems

\* Every step keeps every item in one place.
LEMMA ItemStep ==
    ASSUME IInv, ItemInv, [Next]_vars
    PROVE  ItemInv'
<1>0. /\ TypeOK /\ RegistryInv /\ TaskInv
      /\ DataType /\ ReplyType /\ ServeType
  BY TypeParts DEF IInv
<1>1. CASE UNCHANGED <<data, taken, pushed, response_queue>>
  <2>1. \A x, j : InQueue(x, j)' <=> InQueue(x, j)
    BY <1>1 DEF InQueue
  <2>2. \A k : ItemsOf(k)' = ItemsOf(k)
    BY <1>1 DEF ItemsOf, HasType
  <2> QED BY <1>1, <2>1, <2>2, SameItems
<1>2. CASE Command
  BY <1>0, <1>2, CommandKeepsItems
<1>3. CASE FlushReply
  BY <1>0, <1>3, FlushesItem
<1>4. \A e \in RequestEntry :
        e.client \in Clients /\ e.conn \in Nat /\ e.id \in Nat
  BY DEF RequestEntry, ListEntry, StreamEntry
<1>5. CASE TimerEvent
  <2>1. UNCHANGED <<data, taken, pushed>>
    BY <1>5 DEF TimerEvent, data_vars
  <2>2. CASE UNCHANGED reply_vars
    BY <1>1, <2>1, <2>2 DEF reply_vars
  <2>3. CASE ~UNCHANGED reply_vars
    <3>1. PICK d \in DOMAIN deadline :
             /\ deadline[d] \in DOMAIN store
             /\ response_queue' = Append(response_queue, NilReply(store[deadline[d]]))
      BY <1>5, <2>3 DEF TimerEvent
    <3>2. PICK e \in RequestEntry : e = store[deadline[d]]
      BY <1>0, <3>1 DEF TypeOK, RegistryTypeOK
    <3>3. NilReply(e) \in Response /\ NilReply(e).what # "item"
      BY <1>4, <3>2 DEF NilReply, Response
    <3> QED BY <1>0, <2>1, <3>1, <3>2, <3>3, OtherReply
  <2> QED BY <2>2, <2>3
<1>6. CASE RunTask
  <2>1. PICK e \in RequestEntry : e = Head(tasks) /\ e = tasks[1] /\ 1 \in 1..Len(tasks)
    BY <1>0, <1>6 DEF RunTask, ServeType
  <2>2. pushed' = pushed
    BY <1>6 DEF RunTask
  <2>3. CASE phase = "list" /\ ItemsOf(e.key) = <<>>
    BY <1>1, <1>6, <2>1, <2>2, <2>3 DEF RunTask, PopFor
  <2>4. CASE phase = "list" /\ ItemsOf(e.key) # <<>>
    <3>1. PICK k \in Keys : k = e.key
      BY <1>0, <2>1, <2>4 DEF TaskInv, ServedKind, RequestEntry, ListEntry, StreamEntry
    <3>2. PICK s \in Seq(Nat) : s = ItemsOf(k)
      BY <1>0, ValueFacts
    <3>3. /\ data' = Put(data, k, ListOf(Tail(s))) /\ taken' = taken
          /\ response_queue' = Append(response_queue,
                [client |-> e.client, conn |-> e.conn, id |-> e.id,
                 what |-> "item", item |-> Head(s)])
      BY <1>6, <2>1, <2>4, <3>1, <3>2 DEF RunTask, PopFor
    <3>4. s # <<>> /\ Head(s) \in Nat
      BY <2>4, <3>1, <3>2
    <3>5. PICK r \in Response :
             r = [client |-> e.client, conn |-> e.conn, id |-> e.id,
                  what |-> "item", item |-> Head(s)]
      BY <1>4, <2>1, <3>4 DEF Response
    <3>6. r.what = "item" /\ r.item = Head(s)
      BY <3>5
    <3>7. ItemsOf(k)' = Tail(s) /\ \A x : x # k => ItemsOf(x)' = ItemsOf(x)
      BY <3>3, ItemsAfterPut
    <3> QED BY <1>0, <2>2, <3>2, <3>3, <3>4, <3>5, <3>6, <3>7, PopsItem DEF ReplyType
  <2>5. CASE phase # "list"
    <3>4. PICK what \in {"entries", "nil"} :
             what = IF Readable(e.key_ts) THEN "entries" ELSE "nil"
      OBVIOUS
    <3>1. PICK r \in Response :
             r = [client |-> e.client, conn |-> e.conn, id |-> e.id,
                  what |-> what, item |-> 0]
      BY <1>4, <2>1, <3>4 DEF Response
    <3>2. response_queue' = Append(response_queue, r) /\ UNCHANGED <<data, taken>>
      BY <1>6, <2>1, <2>5, <3>1, <3>4 DEF RunTask, ReadFor
    <3>3. r.what # "item"
      BY <3>1, <3>4
    <3> QED BY <1>0, <2>2, <3>2, <3>3, OtherReply
  <2> QED BY <2>3, <2>4, <2>5
<1>7. CASE Poll \/ Accept \/ BeginRead \/ EndRead \/ EndOfEvents \/ RemoveDue
           \/ EndServeList \/ EndServeStream \/ EndOfCycle \/ Disconnect \/ Tick
           \/ UNCHANGED vars
  BY <1>1, <1>7 DEF Poll, Accept, BeginRead, EndRead, EndOfEvents, RemoveDue,
       EndServeList, EndServeStream, EndOfCycle, Disconnect, Tick, vars, data_vars, reply_vars
<1> QED BY <1>2, <1>3, <1>5, <1>6, <1>7 DEF Next, LoopStep

\* A function that tells the members of S apart by numbers up to n has as many
\* values as S has members.
LEMMA DistinctValues ==
    ASSUME NEW S, NEW n \in Nat, NEW f \in [S -> 1..n],
           \A x, y \in S : f[x] = f[y] => x = y
    PROVE  Cardinality({f[x] : x \in S}) = Cardinality(S)
<1>1. IsFiniteSet(1..n)
  BY FS_Interval
<1>2. f \in Injection(S, 1..n)
  BY DEF Injection, IsInjective
<1>3. IsFiniteSet(S)
  BY <1>1, <1>2, FS_Injection
<1>4. f \in Bijection(S, {f[x] : x \in S})
  BY DEF Bijection, Injection, Surjection, IsInjective
<1>5. ExistsBijection(S, {f[x] : x \in S})
  BY <1>4 DEF ExistsBijection
<1> QED BY <1>3, <1>5, FS_Bijection

\* No item pushed to a list is lost or duplicated: each is at one position of one
\* list, in one queued reply, or gone to a client, through any interleaving of
\* pushes, pops, matching, expiry and flushes.
THEOREM ItemsConserved == Spec => []ItemsAreConserved
<1>1. Init => ItemInv
  <2> SUFFICES ASSUME Init PROVE ItemInv
    OBVIOUS
  <2>1. /\ \A k : ItemsOf(k) = <<>>
        /\ pushed = 0 /\ taken = {} /\ response_queue = <<>>
    BY DEF Init, ItemsOf, HasType
  <2>2. 1..0 = {} /\ Len(<<>>) = 0
    OBVIOUS
  <2>3. \A x, k, i : ~InList(x, k, i)
    BY <2>1, <2>2 DEF InList
  <2>4. \A x, j : ~InQueue(x, j)
    BY <2>1, <2>2 DEF InQueue
  <2> QED BY <2>1, <2>2, <2>3, <2>4 DEF ItemInv, PlacesInv, UniqueInv, NoneLost
<1>2. IInv /\ ItemInv /\ [Next]_vars => ItemInv'
  BY ItemStep
<1>3. IInv /\ ItemInv => ItemsAreConserved
  <2> SUFFICES ASSUME IInv, ItemInv PROVE ItemsAreConserved
    OBVIOUS
  <2>0. DataType /\ pushed \in Nat
    BY TypeParts DEF IInv, DataType
  <2> DEFINE at == [p \in ListPositions |-> data[p[1]].items[p[2]]]
             in == [i \in QueuedItems |-> response_queue[i].item]
             listed == {at[p] : p \in ListPositions}
             queued == {in[i] : i \in QueuedItems}
  <2>1. \A k, i : k \in Keys /\ i \in 1..Len(ItemsOf(k)) => data[k].items = ItemsOf(k)
    BY DEF ItemsOf
  <2>2. \A p : p \in ListPositions <=>
               \E k \in Keys : \E i \in 1..Len(ItemsOf(k)) : p = <<k, i>>
    BY DEF ListPositions, Positions
  <2>3. \A p \in ListPositions : InList(at[p], p[1], p[2]) /\ p = <<p[1], p[2]>>
    BY <2>1, <2>2 DEF InList
  <2>4. \A x, k, i : InList(x, k, i) => <<k, i>> \in ListPositions /\ at[<<k, i>>] = x
    BY <2>1, <2>2 DEF InList
  <2>5. \A i \in QueuedItems : InQueue(in[i], i)
    BY DEF QueuedItems, InQueue
  <2>6. \A x, j : InQueue(x, j) => j \in QueuedItems /\ in[j] = x
    BY DEF QueuedItems, InQueue
  <2>7. at \in [ListPositions -> 1..pushed] /\ in \in [QueuedItems -> 1..pushed]
    BY <2>3, <2>5 DEF ItemInv, PlacesInv
  <2>8. /\ \A p, q \in ListPositions : at[p] = at[q] => p = q
        /\ \A i, j \in QueuedItems : in[i] = in[j] => i = j
    BY <2>3, <2>5 DEF ItemInv, UniqueInv
  <2>9. /\ listed = {data[p[1]].items[p[2]] : p \in ListPositions}
        /\ queued = {response_queue[i].item : i \in QueuedItems}
    OBVIOUS
  <2> HIDE DEF at, in
  <2>10. Cardinality(listed) = Cardinality(ListPositions)
    BY <2>0, <2>7, <2>8, DistinctValues
  <2>11. Cardinality(queued) = Cardinality(QueuedItems)
    BY <2>0, <2>7, <2>8, DistinctValues
  <2>12. /\ \A x : x \in listed <=> \E k, i : InList(x, k, i)
         /\ \A x : x \in queued <=> \E j : InQueue(x, j)
    <3>1. ASSUME NEW x
          PROVE  x \in listed <=> \E k, i : InList(x, k, i)
      <4>1. x \in listed <=> \E p \in ListPositions : at[p] = x
        OBVIOUS
      <4>2. (\E p \in ListPositions : at[p] = x) => \E k, i : InList(x, k, i)
        BY <2>3
      <4>3. ASSUME NEW k, NEW i, InList(x, k, i)
            PROVE  \E p \in ListPositions : at[p] = x
        <5>1. <<k, i>> \in ListPositions /\ at[<<k, i>>] = x
          BY <2>4, <4>3
        <5> QED BY <5>1, Zenon
      <4> QED BY <4>1, <4>2, <4>3
    <3>2. ASSUME NEW x
          PROVE  x \in queued <=> \E j : InQueue(x, j)
      BY <2>5, <2>6
    <3> QED BY <3>1, <3>2
  <2> HIDE DEF listed, queued
  <2>13. 1..pushed = listed \cup queued \cup taken
    BY <2>12 DEF ItemInv, PlacesInv, NoneLost
  <2>14. listed \cap queued = {} /\ listed \cap taken = {} /\ queued \cap taken = {}
    BY <2>12 DEF ItemInv, PlacesInv, UniqueInv
  <2> QED BY <2>9, <2>10, <2>11, <2>13, <2>14 DEF ItemsAreConserved
<1> QED BY <1>1, <1>2, <1>3, IInvCorrect, PTL DEF Spec

-----------------------------------------------------------------------------
(*****************************************************************************)
(* serve_backlog_list and serve_backlog_stream: what a waiter was promised   *)
(* when it was counted is still there when its task runs, the oldest waiter  *)
(* comes first, and the server implements BlockedRequests.                   *)
(*****************************************************************************)

\* Timestamps grow with the ids of the requests.
OrderInv ==
    /\ \A t \in DOMAIN store : t <= now
    /\ ~collided => \A t, u \in DOMAIN store : store[t].id < store[u].id => t < u

IsDue(t) == \E a \in todo : a.ts = t

WaitsOn(t, k) == store[t].kind = "List" /\ store[t].key = k

\* The requests to which an item of list k is promised: those due to be removed
\* from the store and those whose task is to run.
Promised(k) ==
    {r \in 1..arrived :
        \/ \E t \in DOMAIN store : WaitsOn(t, k) /\ IsDue(t) /\ store[t].id = r
        \/ \E i \in 1..Len(tasks) : tasks[i].key = k /\ tasks[i].id = r}

\* What is due in the list phase: entries of the store, the first of their
\* queues, never more than there are items, and only fewer if nobody else waits.
DueEntries ==
    \A a \in todo : a.ts \in DOMAIN store /\ store[a.ts].kind = "List" /\ store[a.ts].id = a.pos
DueRanks ==
    \A a, b \in todo : store[a.ts].key = store[b.ts].key => a.rank = b.rank
DueFirst ==
    \A a \in todo : \A u \in DOMAIN store :
        WaitsOn(u, store[a.ts].key) /\ ~IsDue(u) => a.pos < store[u].id
NotOverPromised ==
    \A k \in Keys : Cardinality(Promised(k)) <= Len(ItemsOf(k))
NotUnderPromised ==
    flag_backlog_list =>
        \A u \in DOMAIN store :
            store[u].kind = "List" /\ ~IsDue(u)
                => Len(ItemsOf(store[u].key)) <= Cardinality(Promised(store[u].key))
ListDueInv == DueEntries /\ DueRanks /\ DueFirst /\ NotOverPromised /\ NotUnderPromised

\* What is due in the stream phase, and the tasks, can be read; what can be
\* read is due.
StreamDueInv ==
    /\ \A a \in todo : /\ a.ts \in DOMAIN store /\ store[a.ts].kind = "Stream"
                       /\ Readable(store[a.ts].key_ts) /\ a.rank = 0 /\ a.pos = 0
    /\ \A i \in 1..Len(tasks) : Readable(tasks[i].key_ts)
    /\ flag_backlog_stream =>
         \A t \in backlog_stream : Readable(store[t].key_ts) => IsDue(t)

DueInv ==
    ~collided => /\ phase = "list" => ListDueInv
                 /\ phase = "stream" => StreamDueInv

-----------------------------------------------------------------------------
(***************************************************************************)
(* The front of a queue.                                                    *)
(***************************************************************************)

\* A non-empty set of naturals has a least element, and a greatest one when it
\* is bounded.
LEMMA LeastExists ==
    ASSUME NEW S, S \subseteq Nat, S # {}
    PROVE  \E m \in S : \A x \in S : m <= x
<1>1. PICK m \in S : \A y \in S : ~ (<<y, m>> \in OpToRel(<, Nat))
  BY NatLessThanWellFounded, WFMin
<1>2. \A y \in S : ~ (y < m)
  BY <1>1 DEF OpToRel
<1>3. \A y \in S : y \in Nat /\ m \in Nat
  OBVIOUS
<1>4. \A y \in S : m <= y
  BY <1>2, <1>3
<1> QED BY <1>4

\* The greatest element of a bounded set.
LEMMA GreatestExists ==
    ASSUME NEW n \in Nat, NEW S, S \subseteq 0..n, S # {}
    PROVE  \E m \in S : \A x \in S : x <= m
<1> DEFINE T == {n - x : x \in S}
<1>1. \A x \in S : x \in Nat /\ n - x \in Nat
  OBVIOUS
<1>6. T \subseteq Nat /\ T # {}
  BY <1>1
<1>2. PICK y \in T : \A z \in T : y <= z
  BY <1>6, LeastExists
<1>3. PICK m \in S : y = n - m
  OBVIOUS
<1>4. \A x \in S : n - m <= n - x
  BY <1>2, <1>3
<1>5. \A x \in S : x <= m
  BY <1>1, <1>4
<1> QED BY <1>5

\* Arrivals ahead of position x, and their positions.
Ahead(q, x) == {b \in q : b.pos < x}
PosAhead(q, x) == {b.pos : b \in Ahead(q, x)}

\* A queue whose positions are distinct has as many arrivals ahead of x as
\* positions.
LEMMA AheadFacts ==
    ASSUME NEW N \in Nat, NEW q, \A a \in q : a.pos \in 1..N,
           \A a, b \in q : a.pos = b.pos => a = b,
           NEW x
    PROVE  /\ IsFiniteSet(Ahead(q, x)) /\ IsFiniteSet(PosAhead(q, x))
           /\ Cardinality(PosAhead(q, x)) = Cardinality(Ahead(q, x))
<1> DEFINE A == Ahead(q, x)
           f == [b \in A |-> b.pos]
<1>1. A \subseteq q
  BY DEF Ahead
<1>2. \A a, b \in A : f[a] = f[b] => a = b
  BY <1>1
<1>3. f \in [A -> 1..N] /\ f \in [A -> PosAhead(q, x)] /\ DOMAIN f = A
  BY <1>1 DEF PosAhead
<1>4. f \in Injection(A, 1..N) /\ f \in Injection(A, PosAhead(q, x))
  BY <1>2, <1>3 DEF Injection, IsInjective
<1>5. \A p \in PosAhead(q, x) : \E b \in A : f[b] = p
  BY DEF PosAhead
<1>6. f \in Surjection(A, PosAhead(q, x))
  BY <1>3, <1>5 DEF Surjection
<1>7. ExistsBijection(A, PosAhead(q, x))
  BY <1>4, <1>6 DEF ExistsBijection, Bijection
<1>8. IsFiniteSet(1..N)
  BY FS_Interval
<1>9. IsFiniteSet(A)
  BY <1>4, <1>8, FS_Injection
<1> QED BY <1>7, <1>9, FS_Bijection

\* The first n arrivals are at most n, come before all others, and are fewer
\* than n only if they are the whole queue.
LEMMA FrontFacts ==
    ASSUME NEW N \in Nat, NEW q, \A a \in q : a.pos \in 1..N,
           \A a, b \in q : a.pos = b.pos => a = b,
           NEW n \in Nat,
           NEW P, P = {a.pos : a \in Front(q, n)}
    PROVE  /\ Cardinality(P) <= n
           /\ \A a \in Front(q, n) : \A b \in q \ Front(q, n) : a.pos < b.pos
           /\ q \ Front(q, n) # {} => n <= Cardinality(P)
<1>1. \A a \in q : a \in Front(q, n) <=> Cardinality(Ahead(q, a.pos)) < n
  BY DEF Front, Ahead
<1>2. \A x : /\ IsFiniteSet(Ahead(q, x)) /\ IsFiniteSet(PosAhead(q, x))
             /\ Cardinality(PosAhead(q, x)) = Cardinality(Ahead(q, x))
             /\ Cardinality(Ahead(q, x)) \in Nat
  BY AheadFacts, FS_CardinalityType
<1>3. Front(q, n) \subseteq q /\ P \subseteq 1..N
  BY DEF Front
<1>4. IsFiniteSet(P) /\ Cardinality(P) \in Nat
  <2>1. IsFiniteSet(1..N)
    BY FS_Interval
  <2> QED BY <1>3, <2>1, FS_Subset, FS_CardinalityType
<1>5. \A a \in Front(q, n) : \A b \in q \ Front(q, n) : a.pos < b.pos
  <2> SUFFICES ASSUME NEW a \in Front(q, n), NEW b \in q \ Front(q, n), ~(a.pos < b.pos)
               PROVE  FALSE
    OBVIOUS
  <2>1. a.pos \in 1..N /\ b.pos \in 1..N /\ \A c \in q : c.pos \in 1..N
    BY <1>3
  <2>2. Ahead(q, b.pos) \subseteq Ahead(q, a.pos)
    BY <2>1 DEF Ahead
  <2>3. Cardinality(Ahead(q, b.pos)) <= Cardinality(Ahead(q, a.pos))
    BY <1>2, <2>2, FS_Subset
  <2>4. Cardinality(Ahead(q, a.pos)) < n /\ ~(Cardinality(Ahead(q, b.pos)) < n)
    BY <1>1, <1>3
  <2> QED BY <1>2, <2>3, <2>4
<1>6. Cardinality(P) <= n
  <2>1. CASE P = {}
    BY <2>1, FS_EmptySet
  <2>2. CASE P # {}
    <3>1. P \subseteq 0..N
      BY <1>3
    <3>2. PICK m \in P : \A x \in P : x <= m
      BY <2>2, <3>1, GreatestExists
    <3>3. PICK a \in Front(q, n) : a.pos = m
      OBVIOUS
    <3>4. ASSUME NEW x \in P \ {m}
          PROVE  x \in PosAhead(q, m)
      <4>1. x \in 1..N /\ m \in 1..N /\ x <= m /\ x # m
        BY <1>3, <3>2
      <4>2. PICK b \in Front(q, n) : b.pos = x
        OBVIOUS
      <4>3. b \in Ahead(q, m)
        BY <1>3, <4>1, <4>2 DEF Ahead
      <4> QED BY <4>2, <4>3 DEF PosAhead
    <3>5. Cardinality(P \ {m}) <= Cardinality(PosAhead(q, m))
      <4>1. P \ {m} \subseteq PosAhead(q, m)
        BY <3>4
      <4> QED BY <1>2, <4>1, FS_Subset
    <3>6. Cardinality(P \ {m}) = Cardinality(P) - 1
      BY <1>4, FS_RemoveElement
    <3>7. Cardinality(PosAhead(q, m)) < n
      BY <1>1, <1>2, <1>3, <3>3
    <3> QED BY <1>2, <1>4, <3>5, <3>6, <3>7
  <2> QED BY <2>1, <2>2
<1>7. ASSUME q \ Front(q, n) # {}
      PROVE  n <= Cardinality(P)
  <2> DEFINE R == {b.pos : b \in q \ Front(q, n)}
  <2>1. R \subseteq Nat /\ R # {}
    BY <1>7
  <2>2. PICK m \in R : \A x \in R : m <= x
    BY <2>1, LeastExists
  <2>3. PICK b \in q \ Front(q, n) : b.pos = m
    OBVIOUS
  <2>4. ASSUME NEW x \in PosAhead(q, m)
        PROVE  x \in P
    <3>1. PICK c \in q : c.pos = x /\ x < m
      BY DEF PosAhead, Ahead
    <3>2. x \in Nat /\ m \in Nat
      BY <2>1, <3>1
    <3>3. x \notin R
      BY <2>2, <3>1, <3>2
    <3> QED BY <3>1, <3>3
  <2>5. Cardinality(PosAhead(q, m)) <= Cardinality(P)
    <3>1. PosAhead(q, m) \subseteq P
      BY <2>4
    <3> QED BY <1>4, <3>1, FS_Subset
  <2>6. ~(Cardinality(PosAhead(q, m)) < n)
    BY <1>1, <1>2, <2>3
  <2> QED BY <1>2, <1>4, <2>5, <2>6
<1> QED BY <1>5, <1>6, <1>7

-----------------------------------------------------------------------------
(***************************************************************************)
(* The order of timestamps.                                                 *)
(***************************************************************************)

\* No step breaks the order of ids and timestamps: the clock does not go back.
LEMMA OrderStep ==
    ASSUME TypeOK, RegistryInv, IdInv, OrderInv, [Next]_vars
    PROVE  OrderInv'
<1>0. /\ arrived \in Nat /\ now \in Nat /\ DOMAIN store \subseteq Nat
      /\ \A t \in DOMAIN store : store[t].id \in Nat /\ store[t].id <= arrived
  BY DEF TypeOK, RegistryTypeOK, IdInv
<1>1. CASE UNCHANGED <<now, registry_vars>> \/ Panics
  BY <1>1 DEF OrderInv, registry_vars, Panics
<1>2. CASE now' = now + 1 /\ UNCHANGED registry_vars
  BY <1>0, <1>2 DEF OrderInv, registry_vars
<1>3. CASE Registers
  <2>1. PICK e \in RequestEntry, d0 \in Nat :
           e.deadline = 0 /\ e.id = arrived + 1 /\ insert(e, d0) /\ now' = now
    BY <1>3 DEF Registers
  <2>2. PICK x \in RequestEntry : InsertEffect(e, x)
    BY <2>1, InsertFacts DEF TypeOK
  <2>3. /\ DOMAIN store' = DOMAIN store \cup {now} /\ store'[now].id = arrived + 1
        /\ \A t \in DOMAIN store : t # now => store'[t] = store[t]
    BY <2>1, <2>2 DEF InsertEffect, Put
  <2>4. \A t \in DOMAIN store' : t <= now'
    BY <1>0, <2>1, <2>3 DEF OrderInv
  <2>5. ASSUME ~collided', NEW t \in DOMAIN store', NEW u \in DOMAIN store',
               store'[t].id < store'[u].id
        PROVE  t < u
    <3>1. ~collided /\ now \notin DOMAIN store
      BY <2>1, <2>5 DEF insert
    <3>2. t # now
      BY <1>0, <2>3, <2>5, <3>1
    <3>3. t \in DOMAIN store /\ store'[t] = store[t]
      BY <2>3, <3>2
    <3>4. CASE u = now
      BY <1>0, <3>2, <3>3, <3>4 DEF OrderInv
    <3>5. CASE u # now
      <4>1. u \in DOMAIN store /\ store'[u] = store[u]
        BY <2>3, <3>5
      <4> QED BY <2>5, <3>1, <3>3, <4>1 DEF OrderInv
    <3> QED BY <3>4, <3>5
  <2> QED BY <2>4, <2>5 DEF OrderInv
<1>4. CASE Removes
  <2>1. PICK t : \E old : remove(t, old)
    BY <1>4 DEF Removes
  <2>2. /\ DOMAIN store' \subseteq DOMAIN store
        /\ \A u \in DOMAIN store' : store'[u] = store[u]
    BY <2>1 DEF remove, Without, Restrict
  <2>3. now' = now /\ collided' = collided
    BY <1>4 DEF Removes
  <2> QED BY <2>2, <2>3 DEF OrderInv
<1> QED BY <1>1, <1>2, <1>3, <1>4, RegistrySteps

-----------------------------------------------------------------------------
(***************************************************************************)
(* What is due.                                                             *)
(***************************************************************************)

\* While waiters are served nothing else touches what they wait for.
LEMMA ServingSteps ==
    ASSUME TypeOK, ReadInv, [Next]_vars, phase' \in {"list", "stream"}
    PROVE  \/ EndOfEvents \/ EndServeList \/ RemoveDue \/ RunTask
           \/ UNCHANGED <<phase, store, backlog_stream, arrived, collided, data,
                          todo, tasks, flag_backlog_list, flag_backlog_stream>>
<1>1. CASE Command
  <2>1. phase' = phase /\ cur # Nobody
    <3>1. phase' = phase
      BY <1>1, CommandEffect DEF loop_vars
    <3>2. cur # Nobody
      BY <1>1 DEF Command, cmd_rpush, cmd_lpush, cmd_lpop, cmd_set, cmd_blpop, cmd_xadd,
                  XaddRefused, XaddNotLast, cmd_xread, OtherCommand, Runs
    <3> QED BY <3>1, <3>2
  <2> QED BY <2>1 DEF ReadInv
<1>2. CASE Poll \/ Accept \/ TimerEvent \/ BeginRead \/ EndRead \/ EndServeStream
           \/ FlushReply \/ EndOfCycle \/ Disconnect
  <2>1. CASE EndRead \/ Disconnect
    BY <2>1 DEF EndRead, Disconnect, ReadInv
  <2>2. CASE Poll \/ Accept \/ TimerEvent \/ BeginRead \/ EndServeStream \/ FlushReply \/ EndOfCycle
    BY <2>2 DEF Poll, Accept, TimerEvent, BeginRead, EndServeStream, FlushReply, EndOfCycle,
                Processing
  <2> QED BY <1>2, <2>1, <2>2
<1>3. CASE Tick \/ UNCHANGED vars
  BY <1>3 DEF Tick, vars, registry_vars, loop_vars, data_vars, serve_vars, flags
<1> QED BY <1>1, <1>2, <1>3 DEF Next, LoopStep

\* The positions of a queue are the ids of live entries of the store, and
\* distinct.
LEMMA QueueFacts ==
    ASSUME TypeOK, RegistryInv, IdInv, ~collided, NEW k \in DOMAIN backlog_list
    PROVE  /\ \A a \in backlog_list[k] :
                /\ a.pos \in 1..arrived /\ a.ts \in DOMAIN store
                /\ WaitsOn(a.ts, k) /\ store[a.ts].id = a.pos
           /\ \A a, b \in backlog_list[k] : a.pos = b.pos => a = b
<1>1. \A a \in backlog_list[k] :
         /\ a.ts \in DOMAIN store /\ store[a.ts].kind = "List"
         /\ store[a.ts].key = k /\ store[a.ts].id = a.pos
  BY DEF RegistryInv, IndexIsLive
<1>2. \A a \in backlog_list[k] : a.pos \in 1..arrived
  BY <1>1 DEF IdInv
<1>3. ASSUME NEW a \in backlog_list[k], NEW b \in backlog_list[k], a.pos = b.pos
      PROVE  a = b
  <2>1. a.ts = b.ts
    BY <1>1, <1>3 DEF IdInv
  <2>2. a \in Arrival /\ b \in Arrival
    BY DEF TypeOK, RegistryTypeOK
  <2> QED BY <1>3, <2>1, <2>2 DEF Arrival
<1> QED BY <1>1, <1>2, <1>3 DEF WaitsOn

\* Counting the waiters: when serve_backlog_list starts, each list has promised
\* its items to the first of its queue.
LEMMA ListBegins ==
    ASSUME TypeOK, RegistryInv, IdInv, TaskInv, ~collided, EndOfEvents
    PROVE  ListDueInv'
<1>0. arrived \in Nat /\ DataType /\ IsFiniteSet({})
  BY TypeParts, FS_EmptySet DEF TypeOK, RegistryTypeOK
<1>1. /\ UNCHANGED <<store, backlog_list, data, tasks, arrived, flag_backlog_list>>
      /\ tasks = <<>>
  BY DEF EndOfEvents, Processing, TaskInv, registry_vars, data_vars, flags
<1>2. \A k : ItemsOf(k)' = ItemsOf(k) /\ ItemsOf(k) \in Seq(Nat) /\ Len(ItemsOf(k)) \in Nat
  BY <1>0, <1>1, ValueFacts DEF ItemsOf, HasType
<1>3. \A k : Promised(k)' = {r \in 1..arrived :
                 \E t \in DOMAIN store : WaitsOn(t, k) /\ IsDue(t)' /\ store[t].id = r}
  BY <1>1 DEF Promised, WaitsOn
<1>4. CASE ~flag_backlog_list
  <2>1. todo' = {}
    BY <1>4 DEF EndOfEvents
  <2>2. \A k : Promised(k)' = {}
    BY <1>3, <2>1 DEF IsDue
  <2>3. NotOverPromised'
    <3> SUFFICES ASSUME NEW k \in Keys
                 PROVE  Cardinality(Promised(k)') <= Len(ItemsOf(k))
      BY <1>2 DEF NotOverPromised
    <3>1. Promised(k)' = {} /\ Len(ItemsOf(k)) \in Nat
      BY <1>2, <2>2
    <3> QED BY <3>1, FS_EmptySet
  <2> QED BY <1>1, <1>4, <2>1, <2>3
          DEF ListDueInv, DueEntries, DueRanks, DueFirst, NotUnderPromised
<1>5. CASE flag_backlog_list
  <2>1. PICK rank \in Injection(DOMAIN backlog_list, 1..Cardinality(Keys)) :
           todo' = DueInList(rank)
    BY <1>5 DEF EndOfEvents
  <2> DEFINE F(k) == Front(backlog_list[k], Len(ItemsOf(k)))
             P(k) == {a.pos : a \in F(k)}
  <2>2. \A x : x \in todo' <=>
           \E k \in DOMAIN backlog_list : \E a \in F(k) :
              x = [rank |-> rank[k], pos |-> a.pos, ts |-> a.ts]
    BY <2>1 DEF DueInList
  <2>3. \A k \in DOMAIN backlog_list :
           /\ Cardinality(P(k)) <= Len(ItemsOf(k))
           /\ \A a \in F(k) : \A b \in backlog_list[k] \ F(k) : a.pos < b.pos
           /\ backlog_list[k] \ F(k) # {} => Len(ItemsOf(k)) <= Cardinality(P(k))
    BY <1>0, <1>2, QueueFacts, FrontFacts
  <2>4. \A k : F(k) \subseteq backlog_list[k]
    BY DEF Front
  <2> HIDE DEF F
  <2>5. \A x \in todo' : \E k \in DOMAIN backlog_list : \E a \in F(k) :
           /\ x.rank = rank[k] /\ x.pos = a.pos /\ x.ts = a.ts
           /\ x.ts \in DOMAIN store /\ WaitsOn(x.ts, k) /\ store[x.ts].id = x.pos
    <3> SUFFICES ASSUME NEW x \in todo'
                 PROVE  \E k \in DOMAIN backlog_list : \E a \in F(k) :
                          /\ x.rank = rank[k] /\ x.pos = a.pos /\ x.ts = a.ts
                          /\ x.ts \in DOMAIN store /\ WaitsOn(x.ts, k)
                          /\ store[x.ts].id = x.pos
      OBVIOUS
    <3>0. PICK k \in DOMAIN backlog_list : \E a \in F(k) :
             x = [rank |-> rank[k], pos |-> a.pos, ts |-> a.ts]
      BY <2>2
    <3>1. PICK a \in F(k) : x = [rank |-> rank[k], pos |-> a.pos, ts |-> a.ts]
      BY <3>0
    <3>2. a \in backlog_list[k]
      BY <2>4
    <3> QED BY <3>1, <3>2, QueueFacts
  \* A waiter that is not due is behind the front of its queue.
  <2>6. ASSUME NEW u \in DOMAIN store, store[u].kind = "List"
        PROVE  \E a \in backlog_list[store[u].key] :
                 /\ store[u].key \in DOMAIN backlog_list
                 /\ a.pos = store[u].id /\ a.ts = u
                 /\ a \in F(store[u].key) => IsDue(u)'
    <3> DEFINE k == store[u].key
               a == [pos |-> store[u].id, ts |-> u]
    <3>1. k \in DOMAIN backlog_list /\ a \in backlog_list[k]
      BY <2>6 DEF RegistryInv, StoreIsIndexed
    <3>2. ASSUME a \in F(k)
          PROVE  IsDue(u)'
      <4>1. [rank |-> rank[k], pos |-> a.pos, ts |-> a.ts] \in todo'
        BY <2>2, <3>1, <3>2
      <4> QED BY <4>1 DEF IsDue
    <3>3. a.pos = store[u].id /\ a.ts = u
      OBVIOUS
    <3> QED BY <3>1, <3>2, <3>3
  <2>7. DueEntries'
    BY <1>1, <2>5 DEF DueEntries, WaitsOn
  <2>8. DueRanks'
    BY <1>1, <2>5 DEF DueRanks, WaitsOn
  <2>9. DueFirst'
    <3> SUFFICES ASSUME NEW x \in todo', NEW u \in DOMAIN store,
                        WaitsOn(u, store[x.ts].key), ~IsDue(u)'
                 PROVE  x.pos < store[u].id
      BY <1>1 DEF DueFirst, WaitsOn
    <3>0. PICK k \in DOMAIN backlog_list : \E a \in F(k) : x.pos = a.pos /\ WaitsOn(x.ts, k)
      BY <2>5
    <3>1. PICK a \in F(k) : x.pos = a.pos /\ WaitsOn(x.ts, k)
      BY <3>0
    <3>2. store[u].kind = "List" /\ store[u].key = k
      BY <3>1 DEF WaitsOn
    <3>3. PICK b \in backlog_list[k] : b.pos = store[u].id /\ b \notin F(k)
      BY <2>6, <3>2
    <3> QED BY <2>3, <3>1, <3>3
  <2>10. \A k \in DOMAIN backlog_list : Promised(k)' = P(k)
    <3> SUFFICES ASSUME NEW k \in DOMAIN backlog_list
                 PROVE  Promised(k)' = P(k)
      OBVIOUS
    <3>1. ASSUME NEW r \in Promised(k)'
          PROVE  r \in P(k)
      <4>1. PICK t \in DOMAIN store : WaitsOn(t, k) /\ IsDue(t)' /\ store[t].id = r
        BY <1>3
      <4>2. PICK x \in todo' : x.ts = t
        BY <4>1 DEF IsDue
      <4>3. PICK l \in DOMAIN backlog_list : \E a \in F(l) :
               x.pos = a.pos /\ WaitsOn(x.ts, l) /\ store[x.ts].id = x.pos
        BY <2>5
      <4>4. l = k
        BY <4>1, <4>2, <4>3 DEF WaitsOn
      <4> QED BY <4>1, <4>2, <4>3, <4>4
    <3>2. ASSUME NEW r \in P(k)
          PROVE  r \in Promised(k)'
      <4>1. PICK a \in F(k) : a.pos = r
        OBVIOUS
      <4>2. a \in backlog_list[k]
        BY <2>4
      <4>3. /\ a.ts \in DOMAIN store /\ WaitsOn(a.ts, k) /\ store[a.ts].id = r
            /\ r \in 1..arrived
        BY <4>1, <4>2, QueueFacts
      <4>4. [rank |-> rank[k], pos |-> a.pos, ts |-> a.ts] \in todo'
        BY <2>2
      <4>5. IsDue(a.ts)'
        BY <4>4 DEF IsDue
      <4> QED BY <1>3, <4>3, <4>5
    <3> QED BY <3>1, <3>2
  <2> HIDE DEF P
  <2>11. NotOverPromised'
    <3> SUFFICES ASSUME NEW k \in Keys
                 PROVE  Cardinality(Promised(k)') <= Len(ItemsOf(k))
      BY <1>2 DEF NotOverPromised
    <3>1. CASE k \in DOMAIN backlog_list
      BY <2>3, <2>10, <3>1
    <3>2. CASE k \notin DOMAIN backlog_list
      <4>1. Promised(k)' = {}
        BY <1>3, <2>6, <3>2 DEF WaitsOn
      <4> QED BY <1>2, <4>1, FS_EmptySet
    <3> QED BY <3>1, <3>2
  <2>12. NotUnderPromised'
    <3> SUFFICES ASSUME NEW u \in DOMAIN store, store[u].kind = "List", ~IsDue(u)'
                 PROVE  Len(ItemsOf(store[u].key)) <= Cardinality(Promised(store[u].key)')
      BY <1>1, <1>2 DEF NotUnderPromised
    <3>1. PICK k \in DOMAIN backlog_list :
             k = store[u].key /\ backlog_list[k] \ F(k) # {}
      BY <2>6
    <3>2. Promised(k)' = P(k) /\ Len(ItemsOf(k)) <= Cardinality(P(k))
      BY <2>3, <2>10, <3>1
    <3>3. Promised(store[u].key)' = P(k)
      <4>1. Promised(store[u].key)' = Promised(k)'
        BY <1>1, <3>1 DEF Promised
      <4> QED BY <3>2, <4>1
    <3> QED BY <3>1, <3>2, <3>3
  <2> QED BY <2>7, <2>8, <2>9, <2>11, <2>12 DEF ListDueInv
<1> QED BY <1>4, <1>5

\* Taking a due request out of the store and into the tasks keeps what was
\* promised.
LEMMA ListRemoves ==
    ASSUME TypeOK, IdInv, TaskInv, ListDueInv, phase = "list", RemoveDue
    PROVE  ListDueInv'
<1>0. tasks \in Seq(RequestEntry) /\ Len(tasks) \in Nat
  BY DEF TypeOK
<1>1. PICK a \in todo :
         /\ todo' = todo \ {a}
         /\ remove(a.ts, timer)
         /\ tasks' = IF a.ts \in DOMAIN store /\ store[a.ts].kind = ServedKind
                     THEN Append(tasks, store[a.ts]) ELSE tasks
  BY DEF RemoveDue
<1>2. UNCHANGED <<arrived, data, flag_backlog_list>>
  BY DEF RemoveDue, data_vars, flags
<1>3. \A k : ItemsOf(k)' = ItemsOf(k)
  BY <1>2 DEF ItemsOf, HasType
<1>4. a.ts \in DOMAIN store /\ store[a.ts].kind = "List" /\ store[a.ts].id = a.pos
  BY DEF ListDueInv, DueEntries
<1>5. /\ DOMAIN store' = DOMAIN store \ {a.ts}
      /\ \A u \in DOMAIN store' : store'[u] = store[u]
  BY <1>1 DEF remove, Without, Restrict
<1>6. tasks' = Append(tasks, store[a.ts]) /\ store[a.ts] \in RequestEntry
  BY <1>1, <1>4 DEF ServedKind, TypeOK, RegistryTypeOK
<1>7. /\ Len(tasks') = Len(tasks) + 1 /\ tasks'[Len(tasks) + 1] = store[a.ts]
      /\ \A i \in 1..Len(tasks) : tasks'[i] = tasks[i]
  BY <1>0, <1>6, AppendProperties
\* No other due record names the same timestamp.
<1>8. \A b \in todo' : b \in todo /\ b.ts # a.ts
  <2> SUFFICES ASSUME NEW b \in todo, b # a, b.ts = a.ts
               PROVE  FALSE
    BY <1>1
  <2>1. b.pos = a.pos
    BY <1>4 DEF ListDueInv, DueEntries
  <2>2. b.rank = a.rank
    BY DEF ListDueInv, DueRanks
  <2>3. a \in Due /\ b \in Due
    BY DEF TypeOK
  <2> QED BY <2>1, <2>2, <2>3 DEF Due
<1>9. \A u \in DOMAIN store' : IsDue(u)' <=> IsDue(u)
  BY <1>1, <1>5, <1>8 DEF IsDue
<1>10. IsDue(a.ts)
  BY DEF IsDue
<1>11. \A k : Promised(k)' = Promised(k)
  <2> SUFFICES ASSUME NEW k, NEW r \in 1..arrived
               PROVE  r \in Promised(k)' <=> r \in Promised(k)
    BY <1>2 DEF Promised
  <2>1. r \in Promised(k)' <=>
           \/ \E t \in DOMAIN store' : WaitsOn(t, k) /\ IsDue(t) /\ store[t].id = r
           \/ \E i \in 1..Len(tasks') : tasks'[i].key = k /\ tasks'[i].id = r
    BY <1>2, <1>5, <1>9 DEF Promised, WaitsOn
  <2>2. (\E t \in DOMAIN store : WaitsOn(t, k) /\ IsDue(t) /\ store[t].id = r) <=>
           \/ \E t \in DOMAIN store' : WaitsOn(t, k) /\ IsDue(t) /\ store[t].id = r
           \/ store[a.ts].key = k /\ store[a.ts].id = r
    BY <1>4, <1>5, <1>10 DEF WaitsOn
  <2>3. (\E i \in 1..Len(tasks') : tasks'[i].key = k /\ tasks'[i].id = r) <=>
           \/ \E i \in 1..Len(tasks) : tasks[i].key = k /\ tasks[i].id = r
           \/ store[a.ts].key = k /\ store[a.ts].id = r
    <3>1. \A i \in 1..Len(tasks') : i = Len(tasks) + 1 \/ i \in 1..Len(tasks)
      BY <1>0, <1>7
    <3>2. /\ Len(tasks) + 1 \in 1..Len(tasks')
          /\ \A i \in 1..Len(tasks) : i \in 1..Len(tasks')
      BY <1>0, <1>7
    <3> QED BY <1>7, <3>1, <3>2
  <2>4. r \in Promised(k) <=>
           \/ \E t \in DOMAIN store : WaitsOn(t, k) /\ IsDue(t) /\ store[t].id = r
           \/ \E i \in 1..Len(tasks) : tasks[i].key = k /\ tasks[i].id = r
    BY DEF Promised
  <2> QED BY <2>1, <2>2, <2>3, <2>4
<1>12. DueEntries'
  BY <1>5, <1>8 DEF ListDueInv, DueEntries
<1>13. DueRanks'
  BY <1>5, <1>8, <1>12 DEF ListDueInv, DueRanks, DueEntries
<1>14. DueFirst'
  BY <1>5, <1>8, <1>9, <1>12 DEF ListDueInv, DueFirst, DueEntries, WaitsOn
<1>15. NotOverPromised'
  <2> SUFFICES ASSUME NEW k \in Keys
               PROVE  Cardinality(Promised(k)') <= Len(ItemsOf(k)')
    BY DEF NotOverPromised
  <2> QED BY <1>3, <1>11 DEF ListDueInv, NotOverPromised
<1>16. NotUnderPromised'
  <2> SUFFICES ASSUME flag_backlog_list, NEW u \in DOMAIN store', store'[u].kind = "List",
                      ~IsDue(u)', NEW k, k = store[u].key
               PROVE  Len(ItemsOf(k)') <= Cardinality(Promised(k)')
    BY <1>2, <1>5 DEF NotUnderPromised
  <2>1. u \in DOMAIN store /\ store[u].kind = "List" /\ ~IsDue(u)
    BY <1>5, <1>9
  <2> QED BY <1>3, <1>11, <2>1 DEF ListDueInv, NotUnderPromised
<1> QED BY <1>12, <1>13, <1>14, <1>15, <1>16 DEF ListDueInv

\* A task was promised an item of its list.
LEMMA TaskIsPromised ==
    ASSUME TypeOK, IdInv, NotOverPromised, NEW i \in 1..Len(tasks), tasks[i].key \in Keys
    PROVE  /\ tasks[i].id \in Promised(tasks[i].key)
           /\ \A k : IsFiniteSet(Promised(k)) /\ Cardinality(Promised(k)) \in Nat
           /\ ItemsOf(tasks[i].key) # <<>>
<1>1. tasks[i].id \in Promised(tasks[i].key)
  BY DEF Promised, IdInv
<1>2. \A k : IsFiniteSet(Promised(k)) /\ Cardinality(Promised(k)) \in Nat
  <2>1. arrived \in Nat
    BY DEF TypeOK, RegistryTypeOK
  <2>2. IsFiniteSet(1..arrived)
    BY <2>1, FS_Interval
  <2>3. \A k : Promised(k) \subseteq 1..arrived
    BY DEF Promised
  <2> QED BY <2>2, <2>3, FS_Subset, FS_CardinalityType
<1>3. Cardinality(Promised(tasks[i].key)) # 0
  BY <1>1, <1>2, FS_EmptySet
<1>4. Cardinality(Promised(tasks[i].key)) <= Len(ItemsOf(tasks[i].key))
  BY DEF NotOverPromised
<1>5. Len(<<>>) = 0
  OBVIOUS
<1>6. ASSUME ItemsOf(tasks[i].key) = <<>>
      PROVE  FALSE
  <2>1. Len(ItemsOf(tasks[i].key)) = 0
    BY <1>5, <1>6
  <2>2. Cardinality(Promised(tasks[i].key)) \in Nat
    BY <1>2
  <2> QED BY <1>3, <1>4, <2>1, <2>2
<1> QED BY <1>1, <1>2, <1>6

\* Running the task of a BLPOP takes one item and one promise.
LEMMA ListRuns ==
    ASSUME TypeOK, IdInv, TaskInv, ListDueInv, phase = "list", RunTask
    PROVE  ListDueInv' /\ ItemsOf(Head(tasks).key) # <<>>
<1>0. tasks \in Seq(RequestEntry) /\ Len(tasks) \in Nat /\ DataType
  BY TypeParts DEF TypeOK
<1>1. /\ todo = {} /\ tasks # <<>> /\ tasks' = Tail(tasks) /\ PopFor(Head(tasks))
      /\ UNCHANGED <<todo, store, arrived, flag_backlog_list>>
  BY DEF RunTask, registry_vars, flags
<1>2. /\ 1 \in 1..Len(tasks) /\ Head(tasks) = tasks[1]
      /\ Len(tasks') = Len(tasks) - 1
      /\ \A i \in 1..Len(tasks') : tasks'[i] = tasks[i + 1]
  BY <1>0, <1>1
<1>16. PICK e \in RequestEntry : e = tasks[1]
  BY <1>0, <1>2
<1> DEFINE key == e.key
<1>3. key \in Keys
  <2>1. e \in RequestEntry /\ e.kind = "List"
    BY <1>2, <1>16 DEF TaskInv, ServedKind
  <2> QED BY <2>1 DEF RequestEntry, ListEntry, StreamEntry
<1>4. /\ e.id \in Promised(key) /\ ItemsOf(key) # <<>>
      /\ \A k : IsFiniteSet(Promised(k)) /\ Cardinality(Promised(k)) \in Nat
  BY <1>2, <1>3, <1>16, TaskIsPromised DEF ListDueInv
<1>5. data' = Put(data, key, ListOf(Tail(ItemsOf(key))))
  BY <1>1, <1>2, <1>4, <1>16 DEF PopFor
<1>6. ItemsOf(key) \in Seq(Nat)
  BY <1>0, ValueFacts
<1>7. /\ ItemsOf(key)' = Tail(ItemsOf(key))
      /\ \A x : x # key => ItemsOf(x)' = ItemsOf(x)
  <2> HIDE DEF key
  <2> QED BY <1>5, ItemsAfterPut
<1>8. Len(ItemsOf(key)') = Len(ItemsOf(key)) - 1 /\ Len(ItemsOf(key)) \in Nat
  BY <1>4, <1>6, <1>7
<1>9. /\ \A k : Promised(k) = {r \in 1..arrived :
                  \E i \in 1..Len(tasks) : tasks[i].key = k /\ tasks[i].id = r}
      /\ \A k : Promised(k)' = {r \in 1..arrived :
                  \E i \in 1..Len(tasks') : tasks'[i].key = k /\ tasks'[i].id = r}
  BY <1>1 DEF Promised, IsDue
<1>10. \A k : Promised(k)' = IF k = key THEN Promised(k) \ {e.id} ELSE Promised(k)
  <2> SUFFICES ASSUME NEW k, NEW r \in 1..arrived
               PROVE  r \in Promised(k)' <=> r \in Promised(k) /\ (k = key => r # e.id)
    <3>1. \A k : Promised(k) \subseteq 1..arrived /\ Promised(k)' \subseteq 1..arrived
      BY <1>9
    <3> HIDE DEF key
    <3> QED BY <3>1
  <2>1. (\E i \in 1..Len(tasks') : tasks'[i].key = k /\ tasks'[i].id = r) <=>
        (\E i \in 1..Len(tasks) : i # 1 /\ tasks[i].key = k /\ tasks[i].id = r)
    <3>1. \A i \in 1..Len(tasks') : i + 1 \in 1..Len(tasks) /\ i + 1 # 1
      BY <1>0, <1>2
    <3>2. \A i \in 1..Len(tasks) : i # 1 => i - 1 \in 1..Len(tasks') /\ (i - 1) + 1 = i
      BY <1>0, <1>2
    <3>3. ASSUME NEW i \in 1..Len(tasks), i # 1 PROVE tasks'[i - 1] = tasks[i]
      <4>1. i - 1 \in 1..Len(tasks') /\ (i - 1) + 1 = i
        BY <3>2, <3>3
      <4> QED BY <1>2, <4>1
    <3>4. ASSUME NEW i \in 1..Len(tasks'), tasks'[i].key = k, tasks'[i].id = r
          PROVE  \E j \in 1..Len(tasks) : j # 1 /\ tasks[j].key = k /\ tasks[j].id = r
      BY <1>2, <3>1, <3>4
    <3>5. ASSUME NEW i \in 1..Len(tasks), i # 1, tasks[i].key = k, tasks[i].id = r
          PROVE  \E j \in 1..Len(tasks') : tasks'[j].key = k /\ tasks'[j].id = r
      BY <3>2, <3>3, <3>5
    <3> QED BY <3>4, <3>5
  <2>2. \A i \in 1..Len(tasks) : i # 1 => tasks[i].id # e.id
    BY <1>2, <1>16 DEF IdInv
  <2>3. r \in Promised(k) <=> \E i \in 1..Len(tasks) : tasks[i].key = k /\ tasks[i].id = r
    BY <1>9
  <2>4. r \in Promised(k)' <=> \E i \in 1..Len(tasks') : tasks'[i].key = k /\ tasks'[i].id = r
    BY <1>9
  <2> QED BY <1>2, <1>16, <2>1, <2>2, <2>3, <2>4
<1>11. Cardinality(Promised(key)') = Cardinality(Promised(key)) - 1
  <2>1. Promised(key)' = Promised(key) \ {e.id}
    BY <1>10
  <2> QED BY <1>4, <2>1, FS_RemoveElement
<1> HIDE DEF key
<1>12. DueEntries' /\ DueRanks' /\ DueFirst'
  BY <1>1 DEF DueEntries, DueRanks, DueFirst
<1>13. NotOverPromised'
  <2> SUFFICES ASSUME NEW k \in Keys
               PROVE  Cardinality(Promised(k)') <= Len(ItemsOf(k)')
    BY DEF NotOverPromised
  <2>1. Cardinality(Promised(k)) <= Len(ItemsOf(k))
    BY DEF ListDueInv, NotOverPromised
  <2>2. CASE k = key
    BY <1>4, <1>8, <1>11, <2>1, <2>2
  <2>3. CASE k # key
    BY <1>7, <1>10, <2>1, <2>3
  <2> QED BY <2>2, <2>3
<1>14. NotUnderPromised'
  <2> SUFFICES ASSUME flag_backlog_list, NEW u \in DOMAIN store, store[u].kind = "List",
                      NEW k, k = store[u].key
               PROVE  Len(ItemsOf(k)') <= Cardinality(Promised(k)')
    BY <1>1 DEF NotUnderPromised
  <2>1. Len(ItemsOf(k)) <= Cardinality(Promised(k))
    BY <1>1 DEF ListDueInv, NotUnderPromised, IsDue
  <2>2. CASE k = key
    BY <1>4, <1>8, <1>11, <2>1, <2>2
  <2>3. CASE k # key
    BY <1>7, <1>10, <2>1, <2>3
  <2> QED BY <2>2, <2>3
<1>15. ItemsOf(Head(tasks).key) # <<>>
  BY <1>2, <1>4, <1>16 DEF key
<1> QED BY <1>12, <1>13, <1>14, <1>15 DEF ListDueInv

\* What can be read depends on the data only.
LEMMA ReadableUnchanged ==
    ASSUME data' = data, NEW key_ts
    PROVE  Readable(key_ts)' <=> Readable(key_ts)
BY DEF Readable, _is_stream_avail, LastOf, HasType

\* When serve_backlog_stream starts, all waiters that can read are due.
LEMMA StreamBegins ==
    ASSUME TypeOK, RegistryInv, ~collided, EndServeList
    PROVE  StreamDueInv'
<1>1. /\ UNCHANGED <<store, backlog_stream, data, tasks, flag_backlog_stream>>
      /\ tasks = <<>>
      /\ todo' = IF flag_backlog_stream THEN DueInStream ELSE {}
  BY DEF EndServeList, ServeDone, registry_vars, data_vars
<1>2. \A a \in todo' : /\ a.ts \in DOMAIN store /\ store[a.ts].kind = "Stream"
                       /\ Readable(store[a.ts].key_ts) /\ a.rank = 0 /\ a.pos = 0
  BY <1>1 DEF DueInStream
<1>3. ASSUME flag_backlog_stream, NEW t \in backlog_stream, Readable(store[t].key_ts)
      PROVE  IsDue(t)'
  <2>1. t \in DOMAIN store /\ store[t].kind = "Stream"
    BY <1>3 DEF RegistryInv, IndexIsLive
  <2>2. [rank |-> 0, pos |-> 0, ts |-> t] \in todo'
    BY <1>1, <1>3, <2>1 DEF DueInStream
  <2> QED BY <2>2 DEF IsDue
<1>4. \A x : Readable(x)' <=> Readable(x)
  BY <1>1, ReadableUnchanged
<1>5. \A a \in todo' : Readable(store[a.ts].key_ts)'
  BY <1>1, <1>2, <1>4
<1>6. flag_backlog_stream' =>
         \A t \in backlog_stream' : Readable(store[t].key_ts)' => IsDue(t)'
  BY <1>1, <1>3, <1>4
<1> QED BY <1>1, <1>2, <1>5, <1>6 DEF StreamDueInv

\* Taking a due XREAD out of the store keeps it readable.
LEMMA StreamRemoves ==
    ASSUME TypeOK, RegistryInv', ~collided', StreamDueInv, phase = "stream", RemoveDue
    PROVE  StreamDueInv'
<1>0. tasks \in Seq(RequestEntry) /\ Len(tasks) \in Nat
  BY DEF TypeOK
<1>1. PICK a \in todo :
         /\ todo' = todo \ {a}
         /\ remove(a.ts, timer)
         /\ tasks' = IF a.ts \in DOMAIN store /\ store[a.ts].kind = ServedKind
                     THEN Append(tasks, store[a.ts]) ELSE tasks
  BY DEF RemoveDue
<1>2. data' = data /\ flag_backlog_stream' = flag_backlog_stream
  BY DEF RemoveDue, data_vars, flags
<1>3. /\ a.ts \in DOMAIN store /\ store[a.ts].kind = "Stream"
      /\ Readable(store[a.ts].key_ts)
  BY DEF StreamDueInv
<1>4. /\ DOMAIN store' = DOMAIN store \ {a.ts}
      /\ \A u \in DOMAIN store' : store'[u] = store[u]
      /\ backlog_stream' = backlog_stream \ {a.ts}
  BY <1>1, <1>3 DEF remove, Dequeue, Without, Restrict
<1>5. tasks' = Append(tasks, store[a.ts]) /\ store[a.ts] \in RequestEntry
  BY <1>1, <1>3 DEF ServedKind, TypeOK, RegistryTypeOK
<1>6. \A i \in 1..Len(tasks') :
         \/ tasks'[i] = store[a.ts]
         \/ i \in 1..Len(tasks) /\ tasks'[i] = tasks[i]
  BY <1>0, <1>5, AppendProperties
<1>7. \A b \in todo' : b \in todo /\ b.ts # a.ts
  <2> SUFFICES ASSUME NEW b \in todo, b # a, b.ts = a.ts
               PROVE  FALSE
    BY <1>1
  <2>1. a.pos = b.pos /\ a.rank = b.rank
    BY DEF StreamDueInv
  <2>2. a \in Due /\ b \in Due
    BY DEF TypeOK
  <2> QED BY <2>1, <2>2 DEF Due
<1>8. \A x : Readable(x)' <=> Readable(x)
  BY <1>2, ReadableUnchanged
<1>9. \A b \in todo' :
         /\ b.ts \in DOMAIN store' /\ store'[b.ts].kind = "Stream"
         /\ Readable(store[b.ts].key_ts)' /\ b.rank = 0 /\ b.pos = 0
  BY <1>4, <1>7, <1>8 DEF StreamDueInv
<1>10. \A i \in 1..Len(tasks') : Readable(tasks[i].key_ts)'
  BY <1>3, <1>6, <1>8 DEF StreamDueInv
<1>11. ASSUME flag_backlog_stream', NEW t \in backlog_stream', Readable(store[t].key_ts)'
       PROVE  IsDue(t)'
  <2>1. t \in DOMAIN store' /\ t # a.ts /\ t \in backlog_stream /\ store'[t] = store[t]
    BY <1>4, <1>11 DEF RegistryInv, IndexIsLive
  <2>2. Readable(store[t].key_ts)
    BY <1>8, <1>11, <2>1
  <2>3. IsDue(t)
    BY <1>2, <1>11, <2>1, <2>2 DEF StreamDueInv
  <2> QED BY <1>1, <2>1, <2>3 DEF IsDue
<1> QED BY <1>9, <1>10, <1>11 DEF StreamDueInv

\* Running the task of an XREAD leaves the streams alone.
LEMMA StreamRuns ==
    ASSUME TypeOK, StreamDueInv, phase = "stream", RunTask
    PROVE  StreamDueInv'
<1>0. tasks \in Seq(RequestEntry) /\ Len(tasks) \in Nat
  BY DEF TypeOK
<1>1. /\ tasks # <<>> /\ tasks' = Tail(tasks)
      /\ UNCHANGED <<todo, store, backlog_stream, data, flag_backlog_stream>>
  BY DEF RunTask, ReadFor, registry_vars, flags
<1>2. \A i \in 1..Len(tasks') : i + 1 \in 1..Len(tasks) /\ tasks'[i] = tasks[i + 1]
  BY <1>0, <1>1
<1>3. \A x : Readable(x)' <=> Readable(x)
  BY <1>1, ReadableUnchanged
<1>4. \A i \in 1..Len(tasks') : Readable(tasks[i].key_ts)'
  BY <1>2, <1>3 DEF StreamDueInv
<1>5. \A a \in todo' : Readable(store[a.ts].key_ts)'
  BY <1>1, <1>3 DEF StreamDueInv
<1>6. flag_backlog_stream' =>
         \A t \in backlog_stream' : Readable(store[t].key_ts)' => IsDue(t)'
  BY <1>1, <1>3 DEF StreamDueInv, IsDue
<1> QED BY <1>1, <1>4, <1>5, <1>6 DEF StreamDueInv

\* Every step keeps what is due in order.
LEMMA DueStep ==
    ASSUME IInv, RegistryInv', DueInv, [Next]_vars
    PROVE  DueInv'
<1> USE DEF IInv
<1> SUFFICES ASSUME ~collided', phase' \in {"list", "stream"}
             PROVE  /\ phase' = "list" => ListDueInv'
                    /\ phase' = "stream" => StreamDueInv'
  BY DEF DueInv
<1>1. CASE EndOfEvents
  <2>1. phase' = "list" /\ ~collided
    BY <1>1 DEF EndOfEvents, registry_vars
  <2> QED BY <1>1, <2>1, ListBegins
<1>2. CASE EndServeList
  <2>1. phase' = "stream" /\ ~collided
    BY <1>2 DEF EndServeList, registry_vars
  <2> QED BY <1>2, <2>1, StreamBegins
<1>3. CASE RemoveDue
  <2>1. phase' = phase /\ ~collided
    BY <1>3 DEF RemoveDue, loop_vars
  <2> QED BY <1>3, <2>1, ListRemoves, StreamRemoves DEF DueInv
<1>4. CASE RunTask
  <2>1. phase' = phase /\ ~collided
    BY <1>4 DEF RunTask, loop_vars, registry_vars
  <2> QED BY <1>4, <2>1, ListRuns, StreamRuns DEF DueInv
<1>5. CASE UNCHANGED <<phase, store, backlog_stream, arrived, collided, data,
                       todo, tasks, flag_backlog_list, flag_backlog_stream>>
  <2>1. \A x : (Readable(x)' <=> Readable(x)) /\ ItemsOf(x)' = ItemsOf(x)
               /\ Promised(x)' = Promised(x) /\ (IsDue(x)' <=> IsDue(x))
    BY <1>5, ReadableUnchanged DEF ItemsOf, HasType, Promised, IsDue, WaitsOn
  <2>2. ListDueInv => ListDueInv'
    BY <1>5, <2>1 DEF ListDueInv, DueEntries, DueRanks, DueFirst, NotOverPromised,
                      NotUnderPromised, WaitsOn
  <2>3. StreamDueInv => StreamDueInv'
    BY <1>5, <2>1 DEF StreamDueInv
  <2> QED BY <1>5, <2>2, <2>3 DEF DueInv
<1> QED BY <1>1, <1>2, <1>3, <1>4, <1>5, ServingSteps

-----------------------------------------------------------------------------
(***************************************************************************)
(* The theorems.                                                            *)
(***************************************************************************)

\* The inductive invariant of the serve loops, on top of the server's.
ServeInv == IInv /\ OrderInv /\ DueInv

\* The inductive invariant of the serve loops holds in every reachable state.
THEOREM ServeInvCorrect == Spec => []ServeInv
<1>1. Init => ServeInv
  <2> SUFFICES ASSUME Init PROVE ServeInv
    OBVIOUS
  <2>1. DOMAIN store = {} /\ phase = "wait"
    BY DEF Init, RegistryInit
  <2> QED BY <2>1, InitIInv DEF ServeInv, OrderInv, DueInv
<1>2. ServeInv /\ [Next]_vars => ServeInv'
  <2> SUFFICES ASSUME ServeInv, [Next]_vars PROVE ServeInv'
    OBVIOUS
  <2>1. IInv'
    BY NextIInv DEF ServeInv
  <2>2. OrderInv'
    BY OrderStep DEF ServeInv, IInv
  <2>3. DueInv'
    BY <2>1, DueStep DEF ServeInv, IInv
  <2> QED BY <2>1, <2>2, <2>3 DEF ServeInv
<1> QED BY <1>1, <1>2, PTL DEF Spec

\* A BLPOP that serve_backlog_list counted finds an item when its task runs, an
\* XREAD that serve_backlog_stream found readable finds an entry: nothing comes
\* between the count and the task.
THEOREM Fulfillable == Spec => []TasksAreFulfillable
<1>1. ServeInv => TasksAreFulfillable
  <2> SUFFICES ASSUME ServeInv, ~collided
               PROVE  /\ phase = "list" =>
                           \A k \in Keys :
                             Cardinality({i \in 1..Len(tasks) : tasks[i].key = k})
                                 <= Len(ItemsOf(k))
                      /\ phase = "stream" =>
                           \A i \in 1..Len(tasks) : Readable(tasks[i].key_ts)
    BY DEF TasksAreFulfillable
  <2>1. ASSUME phase = "list", NEW k \in Keys
        PROVE  Cardinality({i \in 1..Len(tasks) : tasks[i].key = k}) <= Len(ItemsOf(k))
    <3> DEFINE I == {i \in 1..Len(tasks) : tasks[i].key = k}
               f == [i \in I |-> tasks[i].id]
    <3>1. arrived \in Nat /\ DataType /\ NotOverPromised
      BY <2>1, TypeParts DEF ServeInv, IInv, TypeOK, RegistryTypeOK, DueInv, ListDueInv
    <3>2. f \in [I -> Promised(k)] /\ \A i, j \in I : f[i] = f[j] => i = j
      BY DEF ServeInv, IInv, IdInv, Promised
    <3>3. f \in Injection(I, Promised(k))
      BY <3>2 DEF Injection, IsInjective
    <3>4. IsFiniteSet(Promised(k))
      <4>1. IsFiniteSet(1..arrived)
        BY <3>1, FS_Interval
      <4>2. Promised(k) \subseteq 1..arrived
        BY DEF Promised
      <4> QED BY <4>1, <4>2, FS_Subset
    <3>5. /\ IsFiniteSet(I) /\ Cardinality(I) <= Cardinality(Promised(k))
      BY <3>3, <3>4, FS_Injection
    <3>6. Cardinality(I) \in Nat /\ Cardinality(Promised(k)) \in Nat
      BY <3>4, <3>5, FS_CardinalityType
    <3>7. Cardinality(Promised(k)) <= Len(ItemsOf(k)) /\ Len(ItemsOf(k)) \in Nat
      BY <3>1, ValueFacts DEF NotOverPromised
    <3> QED BY <3>5, <3>6, <3>7
  <2>2. phase = "stream" => \A i \in 1..Len(tasks) : Readable(tasks[i].key_ts)
    BY DEF ServeInv, DueInv, StreamDueInv
  <2> QED BY <2>1, <2>2
<1> QED BY <1>1, ServeInvCorrect, PTL

\* When a serve function ends with its flag set, nobody is left waiting for what
\* is there: serve_backlog_list and serve_backlog_stream miss no one.
THEOREM Matched == Spec => []FlaggedMeansMatched
<1>1. ServeInv => FlaggedMeansMatched
  <2> SUFFICES ASSUME ServeInv, ~collided, ServeDone
               PROVE  /\ phase = "list" /\ flag_backlog_list =>
                           \A k \in DOMAIN backlog_list : ItemsOf(k) = <<>>
                      /\ phase = "stream" /\ flag_backlog_stream =>
                           \A t \in backlog_stream : ~Readable(store[t].key_ts)
    BY DEF FlaggedMeansMatched
  <2>0. todo = {} /\ tasks = <<>>
    BY DEF ServeDone
  <2>1. ASSUME phase = "list", flag_backlog_list, NEW k \in DOMAIN backlog_list
        PROVE  ItemsOf(k) = <<>>
    <3>1. PICK a \in backlog_list[k] : TRUE
      BY DEF ServeInv, IInv, RegistryInv, NoEmptyQueue
    <3>2. a.ts \in DOMAIN store /\ store[a.ts].kind = "List" /\ store[a.ts].key = k
      BY DEF ServeInv, IInv, RegistryInv, IndexIsLive
    <3>3. Len(ItemsOf(k)) <= Cardinality(Promised(k))
      BY <2>0, <2>1, <3>2 DEF ServeInv, DueInv, ListDueInv, NotUnderPromised, IsDue
    <3>4. Promised(k) = {}
      BY <2>0 DEF Promised, IsDue
    <3>5. ItemsOf(k) \in Seq(Nat)
      BY TypeParts, ValueFacts DEF ServeInv, IInv
    <3> QED BY <3>3, <3>4, <3>5, FS_EmptySet
  <2>2. ASSUME phase = "stream", flag_backlog_stream, NEW t \in backlog_stream
        PROVE  ~Readable(store[t].key_ts)
    BY <2>0, <2>2 DEF ServeInv, DueInv, StreamDueInv, IsDue
  <2> QED BY <2>1, <2>2
<1> QED BY <1>1, ServeInvCorrect, PTL

\* First come, first served: the BLPOP that is taken out of the store to be served
\* is older than every BLPOP that stays behind on the same list.
THEOREM FirstComeFirstServed == Spec => OldestWaiterFirst
<1> DEFINE Oldest ==
      RemoveDue /\ phase = "list" /\ ~collided =>
         \A t \in DOMAIN store \ DOMAIN store' :
             \A u \in DOMAIN store' :
                 store[u].kind = "List" /\ store[u].key = store[t].key => t < u
<1>1. ServeInv => Oldest
  <2> SUFFICES ASSUME ServeInv, RemoveDue, phase = "list", ~collided,
                      NEW t \in DOMAIN store \ DOMAIN store', NEW u \in DOMAIN store',
                      store[u].kind = "List", store[u].key = store[t].key
               PROVE  t < u
    OBVIOUS
  <2>1. PICK a \in todo : IsFirstDue(a) /\ remove(a.ts, timer)
    BY DEF RemoveDue
  <2>2. t = a.ts /\ u \in DOMAIN store /\ u # t
    BY <2>1 DEF remove, Without, Restrict
  <2>3. ListDueInv /\ store[t].id = a.pos
    BY <2>2 DEF ServeInv, DueInv, ListDueInv, DueEntries
  <2>4. /\ a.pos \in Nat /\ store[u].id \in Nat /\ store[u].id # a.pos
    BY <2>2, <2>3 DEF ServeInv, IInv, IdInv, TypeOK, RegistryTypeOK
  <2>5. CASE IsDue(u)
    <3>1. PICK b \in todo : b.ts = u
      BY <2>5 DEF IsDue
    <3>2. store[u].id = b.pos /\ a.rank = b.rank
      BY <2>2, <2>3, <3>1 DEF ListDueInv, DueEntries, DueRanks
    <3>3. a.rank \in Nat /\ b.rank \in Nat
      BY DEF ServeInv, IInv, TypeOK, Due
    <3>4. a.pos <= b.pos
      BY <2>1, <3>2, <3>3 DEF IsFirstDue
    <3>5. store[t].id < store[u].id
      BY <2>3, <2>4, <3>2, <3>4
    <3> QED BY <2>2, <3>5 DEF ServeInv, OrderInv
  <2>6. CASE ~IsDue(u)
    <3>1. store[t].id < store[u].id
      BY <2>2, <2>3, <2>6 DEF ListDueInv, DueFirst, WaitsOn
    <3> QED BY <2>2, <3>1 DEF ServeInv, OrderInv
  <2> QED BY <2>5, <2>6
<1>2. ServeInv /\ [Next]_vars => [Oldest]_vars
  BY <1>1
<1> QED BY <1>2, ServeInvCorrect, PTL DEF Spec, OldestWaiterFirst

-----------------------------------------------------------------------------
(***************************************************************************)
(* The server implements BlockedRequests.                                   *)
(***************************************************************************)
Waiting == PendingIds \cup TaskIds
blocked_vars == <<Waiting, answered, collided>>

\* Who waits, by id.
LEMMA WaitingFacts ==
    ASSUME NEW r
    PROVE  r \in Waiting <=> \/ \E t \in DOMAIN store : store[t].id = r
                             \/ \E i \in 1..Len(tasks) : tasks[i].id = r
BY DEF Waiting, PendingIds, TaskIds

\* insert registers a new request, or lets it replace the one with its timestamp.
LEMMA RegistersRefines ==
    ASSUME ServeInv, Registers
    PROVE  Blocked!Next
<1>0. arrived \in Nat /\ IdInv
  BY DEF ServeInv, IInv, TypeOK, RegistryTypeOK
<1>1. PICK e \in RequestEntry, d0 \in Nat :
         /\ e.deadline = 0 /\ e.id = arrived + 1 /\ insert(e, d0)
         /\ tasks' = tasks /\ answered' = answered
  BY DEF Registers
<1>2. PICK x \in RequestEntry : InsertEffect(e, x)
  BY <1>1, InsertFacts DEF ServeInv, IInv, TypeOK
<1>3. PICK r : r = arrived + 1
  OBVIOUS
<1>4. /\ DOMAIN store' = DOMAIN store \cup {now} /\ store'[now].id = r
      /\ \A t \in DOMAIN store : t # now => store'[t] = store[t]
  BY <1>1, <1>2, <1>3 DEF InsertEffect, Put
<1>5. r \in 1..MaxRequests /\ r \notin 1..arrived
  BY <1>0, <1>1, <1>3, RegistryAssumption DEF insert
<1>6. r \notin Waiting /\ r \notin answered
  BY <1>0, <1>5 DEF IdInv, Waiting, PendingIds, TaskIds
<1>7. r \in Blocked!New
  BY <1>5, <1>6 DEF Blocked!New, Waiting
<1>8. collided' = (collided \/ now \in DOMAIN store)
  BY <1>1 DEF insert
<1>9. \A y : y \in Waiting' <=> \/ y = r
                                \/ \E t \in DOMAIN store : t # now /\ store[t].id = y
                                \/ \E i \in 1..Len(tasks) : tasks[i].id = y
  <2> SUFFICES ASSUME NEW y
               PROVE  y \in Waiting' <=>
                        \/ y = r
                        \/ \E t \in DOMAIN store : t # now /\ store[t].id = y
                        \/ \E i \in 1..Len(tasks) : tasks[i].id = y
    OBVIOUS
  <2>1. y \in Waiting' <=> \/ \E t \in DOMAIN store' : store'[t].id = y
                           \/ \E i \in 1..Len(tasks) : tasks[i].id = y
    BY <1>1 DEF Waiting, PendingIds, TaskIds
  <2>2. (\E t \in DOMAIN store' : store'[t].id = y) <=>
           \/ y = r
           \/ \E t \in DOMAIN store : t # now /\ store[t].id = y
    BY <1>4
  <2> QED BY <2>1, <2>2
<1>10. CASE now \notin DOMAIN store
  <2>1. Waiting' = Waiting \cup {r}
    BY <1>9, <1>10, WaitingFacts
  <2>2. collided' = collided
    <3>1. collided \in BOOLEAN
      BY DEF ServeInv, IInv, TypeOK, RegistryTypeOK
    <3> QED BY <1>8, <1>10, <3>1
  <2>3. Blocked!Register(r)
    BY <1>1, <2>1, <2>2 DEF Blocked!Register, Waiting
  <2> QED BY <1>7, <2>3 DEF Blocked!Next
<1>11. CASE now \in DOMAIN store
  <2>1. PICK old : old = store[now].id
    OBVIOUS
  <2>2. old \in Waiting
    BY <1>11, <2>1, WaitingFacts
  <2>3. /\ \A t \in DOMAIN store : t # now => store[t].id # old
        /\ \A i \in 1..Len(tasks) : tasks[i].id # old
    BY <1>0, <1>11, <2>1 DEF IdInv
  <2>4. old # r
    BY <1>6, <2>2
  <2>5. ASSUME NEW y
        PROVE  y \in Waiting' <=> y \in (Waiting \ {old}) \cup {r}
    <3>1. y \in Waiting <=> \/ y = old
                            \/ \E t \in DOMAIN store : t # now /\ store[t].id = y
                            \/ \E i \in 1..Len(tasks) : tasks[i].id = y
      BY <1>11, <2>1, WaitingFacts
    <3> QED BY <1>9, <2>3, <2>4, <3>1
  <2>6. Waiting' = (Waiting \ {old}) \cup {r}
    BY <2>5
  <2>7. collided' = TRUE
    BY <1>8, <1>11
  <2>8. Blocked!Replace(old, r)
    BY <1>1, <2>6, <2>7 DEF Blocked!Replace, Waiting
  <2> QED BY <1>7, <2>2, <2>8 DEF Blocked!Next, Waiting
<1> QED BY <1>10, <1>11

\* The timer event answers the request it takes out of the store.
LEMMA TimerRefines ==
    ASSUME ServeInv, TimerEvent
    PROVE  Blocked!Next \/ UNCHANGED blocked_vars
<1>0. IdInv /\ UNCHANGED <<tasks, collided>>
  BY DEF ServeInv, IInv, TimerEvent, serve_vars
<1>1. CASE UNCHANGED <<store, answered>>
  BY <1>0, <1>1 DEF blocked_vars, Waiting, PendingIds, TaskIds
<1>2. CASE ~UNCHANGED <<store, answered>>
  <2>1. PICK d \in DOMAIN deadline :
           /\ \E left : remove(deadline[d], left)
           /\ answered' = IF deadline[d] \in DOMAIN store
                          THEN answered \cup {store[deadline[d]].id} ELSE answered
    BY <1>2 DEF TimerEvent, reply_vars
  <2>2. PICK t : t = deadline[d]
    OBVIOUS
  <2>3. t \in DOMAIN store
    BY <1>2, <2>1, <2>2 DEF remove
  <2>4. /\ DOMAIN store' = DOMAIN store \ {t}
        /\ \A u \in DOMAIN store' : store'[u] = store[u]
    BY <2>1, <2>2 DEF remove, Without, Restrict
  <2>5. PICK r : r = store[t].id
    OBVIOUS
  <2>6. answered' = answered \cup {r}
    BY <2>1, <2>2, <2>3, <2>5
  <2>7. ASSUME NEW y
        PROVE  y \in Waiting' <=> y \in Waiting /\ y # r
    <3>1. y \in Waiting' <=> \/ \E u \in DOMAIN store' : store[u].id = y
                             \/ \E i \in 1..Len(tasks) : tasks[i].id = y
      BY <1>0, <2>4 DEF Waiting, PendingIds, TaskIds
    <3>2. /\ \A u \in DOMAIN store' : u \in DOMAIN store /\ store[u].id # r
          /\ \A i \in 1..Len(tasks) : tasks[i].id # r
      BY <1>0, <2>3, <2>4, <2>5 DEF IdInv
    <3> QED BY <2>4, <2>5, <3>1, <3>2, WaitingFacts
  <2>8. r \in Waiting
    BY <2>3, <2>5, WaitingFacts
  <2>9. Waiting' = Waiting \ {r}
    BY <2>7
  <2>10. Blocked!Answer(r)
    BY <1>0, <2>6, <2>9 DEF Blocked!Answer, Waiting
  <2> QED BY <2>8, <2>10 DEF Blocked!Next, Waiting
<1> QED BY <1>1, <1>2

\* A due request goes from the store to the tasks; it is dropped only if
\* timestamps have collided.
LEMMA RemoveDueRefines ==
    ASSUME ServeInv, RemoveDue
    PROVE  Blocked!Next \/ UNCHANGED blocked_vars
<1>0. IdInv /\ UNCHANGED <<answered, collided>> /\ phase \in {"list", "stream"}
  BY DEF ServeInv, IInv, RemoveDue, reply_vars
<1>5. tasks \in Seq(RequestEntry) /\ Len(tasks) \in Nat
  BY DEF ServeInv, IInv, TypeOK
<1>1. PICK a \in todo :
         /\ remove(a.ts, timer)
         /\ tasks' = IF a.ts \in DOMAIN store /\ store[a.ts].kind = ServedKind
                     THEN Append(tasks, store[a.ts]) ELSE tasks
  BY DEF RemoveDue
<1>2. /\ DOMAIN store' = DOMAIN store \ {a.ts}
      /\ \A u \in DOMAIN store' : store'[u] = store[u]
  BY <1>1 DEF remove, Without, Restrict
<1>3. CASE a.ts \notin DOMAIN store
  <2>1. store' = store /\ tasks' = tasks
    BY <1>1, <1>3 DEF remove
  <2> QED BY <1>0, <2>1 DEF blocked_vars, Waiting, PendingIds, TaskIds
<1>4. CASE a.ts \in DOMAIN store
  <2>1. PICK r : r = store[a.ts].id
    OBVIOUS
  <2>2. /\ \A u \in DOMAIN store' : u \in DOMAIN store /\ store[u].id # r
        /\ \A i \in 1..Len(tasks) : tasks[i].id # r
    BY <1>0, <1>2, <1>4, <2>1 DEF IdInv
  <2>3. r \in Waiting
    BY <1>4, <2>1, WaitingFacts
  <2>4. \A y : y \in Waiting <=> \/ y = r
                                 \/ \E u \in DOMAIN store' : store[u].id = y
                                 \/ \E i \in 1..Len(tasks) : tasks[i].id = y
    BY <1>2, <1>4, <2>1, WaitingFacts
  <2>5. CASE store[a.ts].kind = ServedKind
    <3>1. tasks' = Append(tasks, store[a.ts]) /\ store[a.ts] \in RequestEntry
      BY <1>1, <1>4, <2>5 DEF ServeInv, IInv, TypeOK, RegistryTypeOK
    <3>2. /\ Len(tasks') = Len(tasks) + 1 /\ tasks'[Len(tasks) + 1] = store[a.ts]
          /\ \A i \in 1..Len(tasks) : tasks'[i] = tasks[i]
      BY <1>5, <3>1, AppendProperties
    <3>3. ASSUME NEW y
          PROVE  y \in Waiting' <=> y \in Waiting
      <4>1. y \in Waiting' <=> \/ \E u \in DOMAIN store' : store[u].id = y
                               \/ \E i \in 1..Len(tasks') : tasks'[i].id = y
        BY <1>2 DEF Waiting, PendingIds, TaskIds
      <4>2. (\E i \in 1..Len(tasks') : tasks'[i].id = y) <=>
               \/ y = r
               \/ \E i \in 1..Len(tasks) : tasks[i].id = y
        <5>1. \A i \in 1..Len(tasks') : i = Len(tasks) + 1 \/ i \in 1..Len(tasks)
          BY <1>5, <3>2
        <5>2. /\ Len(tasks) + 1 \in 1..Len(tasks')
              /\ \A i \in 1..Len(tasks) : i \in 1..Len(tasks')
          BY <1>5, <3>2
        <5> QED BY <2>1, <3>2, <5>1, <5>2
      <4> QED BY <2>4, <4>1, <4>2
    <3>4. Waiting' = Waiting
      BY <3>3
    <3> QED BY <1>0, <3>4 DEF blocked_vars
  <2>6. CASE store[a.ts].kind # ServedKind
    <3>1. collided
      BY <1>0, <2>6 DEF ServeInv, DueInv, ListDueInv, DueEntries, StreamDueInv, ServedKind
    <3>2. tasks' = tasks
      BY <1>1, <2>6
    <3>3. ASSUME NEW y
          PROVE  y \in Waiting' <=> y \in Waiting /\ y # r
      <4>1. y \in Waiting' <=> \/ \E u \in DOMAIN store' : store[u].id = y
                               \/ \E i \in 1..Len(tasks) : tasks[i].id = y
        BY <1>2, <3>2 DEF Waiting, PendingIds, TaskIds
      <4> QED BY <2>2, <2>4, <4>1
    <3>4. Waiting' = Waiting \ {r}
      BY <3>3
    <3>5. Blocked!Forget(r)
      BY <1>0, <3>1, <3>4 DEF Blocked!Forget, Waiting
    <3> QED BY <2>3, <3>5 DEF Blocked!Next, Waiting
  <2> QED BY <2>5, <2>6
<1> QED BY <1>3, <1>4

\* A task answers its request; it finds nothing only if timestamps have collided.
LEMMA RunTaskRefines ==
    ASSUME ServeInv, RunTask
    PROVE  Blocked!Next
<1>0. IdInv /\ UNCHANGED <<store, collided>> /\ phase \in {"list", "stream"}
  BY DEF ServeInv, IInv, RunTask, registry_vars
<1>1. tasks \in Seq(RequestEntry) /\ Len(tasks) \in Nat /\ tasks # <<>> /\ tasks' = Tail(tasks)
  BY DEF ServeInv, IInv, TypeOK, RunTask
<1>2. /\ 1 \in 1..Len(tasks) /\ Head(tasks) = tasks[1]
      /\ Len(tasks') = Len(tasks) - 1
      /\ \A i \in 1..Len(tasks') : tasks'[i] = tasks[i + 1]
  BY <1>1
<1>3. PICK r : r = tasks[1].id
  OBVIOUS
<1>4. r \in Waiting
  BY <1>2, <1>3, WaitingFacts
<1>5. ASSUME NEW y
      PROVE  y \in Waiting' <=> y \in Waiting /\ y # r
  <2>1. y \in Waiting' <=> \/ \E u \in DOMAIN store : store[u].id = y
                           \/ \E i \in 1..Len(tasks') : tasks'[i].id = y
    BY <1>0 DEF Waiting, PendingIds, TaskIds
  <2>2. \A i \in 1..Len(tasks') : i + 1 \in 1..Len(tasks) /\ i + 1 # 1
    BY <1>1, <1>2
  <2>3. ASSUME NEW i \in 1..Len(tasks), i # 1
        PROVE  i - 1 \in 1..Len(tasks') /\ tasks'[i - 1] = tasks[i]
    <3>1. i - 1 \in 1..Len(tasks') /\ (i - 1) + 1 = i
      BY <1>1, <1>2, <2>3
    <3> QED BY <1>2, <3>1
  <2>4. /\ \A u \in DOMAIN store : store[u].id # r
        /\ \A i \in 1..Len(tasks) : i # 1 => tasks[i].id # r
    BY <1>0, <1>2, <1>3 DEF IdInv
  <2>5. (\E i \in 1..Len(tasks') : tasks'[i].id = y) <=>
           \E i \in 1..Len(tasks) : i # 1 /\ tasks[i].id = y
    <3>1. ASSUME NEW i \in 1..Len(tasks'), tasks'[i].id = y
          PROVE  \E j \in 1..Len(tasks) : j # 1 /\ tasks[j].id = y
      BY <1>2, <2>2, <3>1
    <3>2. ASSUME NEW i \in 1..Len(tasks), i # 1, tasks[i].id = y
          PROVE  \E j \in 1..Len(tasks') : tasks'[j].id = y
      BY <2>3, <3>2
    <3> QED BY <3>1, <3>2
  <2> QED BY <1>2, <1>3, <2>1, <2>4, <2>5, WaitingFacts
<1>6. Waiting' = Waiting \ {r}
  BY <1>5
<1>7. CASE answered' = answered \cup {r}
  <2>1. Blocked!Answer(r)
    BY <1>0, <1>6, <1>7 DEF Blocked!Answer, Waiting
  <2> QED BY <1>4, <2>1 DEF Blocked!Next, Waiting
<1>8. CASE answered' # answered \cup {r}
  <2>1. answered' = answered /\ phase = "list" /\ ItemsOf(Head(tasks).key) = <<>>
    BY <1>0, <1>2, <1>3, <1>8 DEF RunTask, PopFor, ReadFor
  <2>2. collided
    BY <2>1, ListRuns DEF ServeInv, IInv, DueInv
  <2>3. Blocked!Forget(r)
    BY <1>0, <1>6, <2>1, <2>2 DEF Blocked!Forget, Waiting
  <2> QED BY <1>4, <2>3 DEF Blocked!Next, Waiting
<1> QED BY <1>7, <1>8

\* Every step of the server is a step of BlockedRequests or leaves it alone.
LEMMA StepRefines ==
    ASSUME ServeInv, [Next]_vars
    PROVE  Blocked!Next \/ UNCHANGED blocked_vars
<1>1. CASE Registers
  BY <1>1, RegistersRefines
<1>2. CASE ~Registers
  <2>1. collided' = collided
    BY <1>2, RegistrySteps DEF ServeInv, IInv, registry_vars, Removes, Panics
  <2>2. CASE UNCHANGED <<arrived, store, tasks, answered>>
    BY <2>1, <2>2 DEF blocked_vars, Waiting, PendingIds, TaskIds
  <2> QED BY <1>2, <2>2, OtherSteps, TimerRefines, RemoveDueRefines, RunTaskRefines
          DEF ServeInv, IInv
<1> QED BY <1>1, <1>2

\* The event loop, the registry, the timer and the matching implement
\* BlockedRequests: a request that blocks is answered at most once, and before
\* timestamps collide none is forgotten, in any interleaving.
THEOREM BlockedRefinement == Spec => ImplementsBlockedRequests
<1>1. Init => Blocked!Init
  <2> SUFFICES ASSUME Init PROVE Blocked!Init
    OBVIOUS
  <2>1. DOMAIN store = {} /\ tasks = <<>> /\ answered = {} /\ collided = FALSE
    BY DEF Init, RegistryInit
  <2>2. PendingIds = {} /\ TaskIds = {}
    BY <2>1 DEF PendingIds, TaskIds
  <2> QED BY <2>1, <2>2 DEF Blocked!Init
<1>2. ServeInv /\ [Next]_vars
        => [Blocked!Next]_<<PendingIds \cup TaskIds, answered, collided>>
  BY StepRefines DEF blocked_vars, Waiting
<1> QED BY <1>1, <1>2, ServeInvCorrect, PTL DEF Spec, ImplementsBlockedRequests, Blocked!Spec

=============================================================================
