--------------------------- MODULE ReplicationProofs ---------------------------
(***************************************************************************)
(* Replication for any number of replicas, clients, writes and WAITs and    *)
(* any lengths of a write and of a GETACK: the handshake and the stream of  *)
(* writes, the counting of replicas and the parking of clients.             *)
(***************************************************************************)
EXTENDS Replication, TLAPS, SequenceTheorems, FiniteSetTheorems

-----------------------------------------------------------------------------
(***************************************************************************)
(* Typing, in the parts that different steps change.                        *)
(***************************************************************************)
LinkType ==
    /\ connected \subseteq Replicas /\ slaves \subseteq connected
    /\ response_queue \in [Replicas -> Seq(FromMaster)]
    /\ down \in [Replicas -> Seq(FromMaster)] /\ up \in [Replicas -> Seq(FromReplica)]

ReplicaType ==
    /\ handshake_state \in
         [Replicas -> {"None", "PING", "REPLCONF1", "REPLCONF2", "PSYNC", "Established"}]
    /\ replica_offset \in [Replicas -> Nat]
    /\ applied \in [Replicas -> Seq(Nat)]
    /\ since \in [Replicas -> Nat]
    /\ polled \in [Replicas -> Nat]

WriteType == offset \in Nat /\ written \in Nat /\ commands \in Nat

WaitType ==
    /\ DOMAIN store \subseteq 1..Len(asked)
    /\ \A t \in DOMAIN store : store[t] \in Wait
    /\ DOMAIN backlog_wait \subseteq Clients
    /\ \A c \in DOMAIN backlog_wait : backlog_wait[c] \in DOMAIN store
    /\ backlog_ack \in [Replicas -> [Clients -> Nat]]
    /\ parked \subseteq Clients
    /\ asked \in Seq(Nat)
    /\ counted \subseteq Nat \X Replicas
    /\ overlapped \in BOOLEAN

LoopType == cur \in Clients \cup {Nobody} /\ flushing \in BOOLEAN /\ alive \in BOOLEAN

\* TypeOK is the conjunction of these parts.
LEMMA TypeParts == TypeOK <=> LinkType /\ ReplicaType /\ WriteType /\ WaitType /\ LoopType
BY DEF TypeOK, LinkType, ReplicaType, WriteType, WaitType, LoopType

\* The messages are of the types the sockets carry.
LEMMA MessageTypes ==
    /\ \A kind \in {"PONG", "OK", "FULLRESYNC", "RDB", "GETACK"} : Signal(kind) \in FromMaster
    /\ \A kind \in {"PING", "REPLCONF", "PSYNC"} : Signal(kind) \in FromReplica
    /\ \A n \in Nat : Write(n) \in FromMaster /\ Ack(n) \in FromReplica
    /\ \A m \in FromMaster : m.kind = "write" => m.n \in Nat
    /\ \A m \in FromReplica : m.kind = "ACK" => m.offset \in Nat
BY DEF Signal, Write, Ack, FromMaster, FromReplica

-----------------------------------------------------------------------------
(***************************************************************************)
(* One step of the system, as each part of the state sees it.               *)
(***************************************************************************)

\* Steps of no replica.
LinkUntouched == UNCHANGED <<connected, slaves, since, link_vars, replica_vars>>

\* Every step of the system is one of these.
LEMMA Steps ==
    ASSUME [Next]_vars
    PROVE  \/ \E r \in Replicas :
                \/ StartReplica(r) \/ handshake_to_master(r) \/ ReplicaApplies(r)
                \/ ReplicaAcks(r) \/ MasterPings(r) \/ MasterReplconf(r) \/ cmd_psync(r)
                \/ MasterAck(r) \/ Disconnect(r) \/ Flush(r)
           \/ \E n \in Required, timed \in BOOLEAN : cmd_wait(n, timed)
           \/ \E t \in 1..MaxWaits : Expire(t)
           \/ ExecuteWrite
           \/ /\ LinkUntouched /\ UNCHANGED <<response_queue, wait_vars, write_vars, alive>>
              /\ \/ \E c \in Clients : BeginRead(c)
                 \/ EndRead \/ BeginFlush \/ EndFlush
                 \/ UNCHANGED loop_vars
BY DEF Next, vars, BeginRead, EndRead, BeginFlush, EndFlush, LinkUntouched, loop_vars

\* The sockets and the response queue stay well typed.
LEMMA LinkTypeStep ==
    ASSUME TypeOK, [Next]_vars
    PROVE  LinkType'
<1>0. LinkType /\ ReplicaType /\ WriteType
  BY TypeParts
<1> USE DEF LinkType
<1>1. ASSUME NEW r \in Replicas, StartReplica(r)
      PROVE  LinkType'
  <2>1. <<Signal("PING")>> \in Seq(FromReplica)
    BY MessageTypes
  <2> QED BY <1>0, <1>1, <2>1 DEF StartReplica
<1>2. ASSUME NEW r \in Replicas, NEW kind, Receives(r, kind)
      PROVE  /\ UNCHANGED <<connected, slaves, response_queue>>
             /\ down' \in [Replicas -> Seq(FromMaster)]
  <2>1. Tail(down[r]) \in Seq(FromMaster)
    BY <1>0, <1>2 DEF Receives
  <2> QED BY <1>0, <1>2, <2>1 DEF Receives
<1>3. ASSUME NEW r \in Replicas, NEW msg \in FromReplica, Replies(r, msg)
      PROVE  up' \in [Replicas -> Seq(FromReplica)]
  <2>1. Append(up[r], msg) \in Seq(FromReplica)
    BY <1>0
  <2> QED BY <1>0, <1>3, <2>1 DEF Replies
<1>4. ASSUME NEW r \in Replicas, handshake_to_master(r)
      PROVE  LinkType'
  <2>1. PICK kind : Receives(r, kind)
    BY <1>4 DEF handshake_to_master
  <2>2. up' = up \/ \E k \in {"REPLCONF", "PSYNC"} : Replies(r, Signal(k))
    BY <1>4 DEF handshake_to_master, HandshakeSteps
  <2>3. up' \in [Replicas -> Seq(FromReplica)]
    BY <1>0, <1>3, <2>2, MessageTypes
  <2> QED BY <1>0, <1>2, <2>1, <2>3
<1>5. ASSUME NEW r \in Replicas, ReplicaApplies(r) \/ ReplicaAcks(r)
      PROVE  LinkType'
  <2>1. PICK kind : Receives(r, kind)
    BY <1>5 DEF ReplicaApplies, ReplicaAcks
  <2>2. replica_offset[r] \in Nat
    BY <1>0 DEF ReplicaType
  <2>3. up' = up \/ Replies(r, Ack(replica_offset[r]))
    BY <1>5 DEF ReplicaApplies, ReplicaAcks
  <2>4. up' \in [Replicas -> Seq(FromReplica)]
    BY <1>0, <1>3, <2>2, <2>3, MessageTypes
  <2> QED BY <1>0, <1>2, <2>1, <2>4
<1>6. ASSUME NEW r \in Replicas, NEW kind, ReadsFrom(r, kind)
      PROVE  /\ UNCHANGED <<connected, response_queue>>
             /\ up' \in [Replicas -> Seq(FromReplica)] /\ r \in connected
  <2>1. Tail(up[r]) \in Seq(FromReplica)
    BY <1>0, <1>6 DEF ReadsFrom
  <2> QED BY <1>0, <1>6, <2>1 DEF ReadsFrom
<1>7. ASSUME NEW r \in Replicas, NEW msgs \in Seq(FromMaster), Answers(r, msgs)
      PROVE  down' \in [Replicas -> Seq(FromMaster)]
  <2>1. down[r] \o msgs \in Seq(FromMaster)
    BY <1>0
  <2> QED BY <1>0, <1>7, <2>1 DEF Answers
<1>8. ASSUME NEW r \in Replicas,
             MasterPings(r) \/ MasterReplconf(r) \/ cmd_psync(r) \/ MasterAck(r)
      PROVE  LinkType'
  <2>1. PICK kind : ReadsFrom(r, kind)
    BY <1>8 DEF MasterPings, MasterReplconf, cmd_psync, MasterAck
  <2>2. /\ <<Signal("PONG")>> \in Seq(FromMaster) /\ <<Signal("OK")>> \in Seq(FromMaster)
        /\ <<Signal("FULLRESYNC"), Signal("RDB")>> \in Seq(FromMaster)
    BY MessageTypes
  <2>3. down' = down \/ \E msgs \in Seq(FromMaster) : Answers(r, msgs)
    BY <1>8, <2>2 DEF MasterPings, MasterReplconf, cmd_psync, MasterAck
  <2>4. slaves' = slaves \/ slaves' = slaves \cup {r}
    BY <1>8 DEF MasterPings, MasterReplconf, cmd_psync, MasterAck
  <2> QED BY <1>0, <1>6, <1>7, <2>1, <2>3, <2>4
<1>9. ASSUME NEW r \in Replicas, Disconnect(r)
      PROVE  LinkType'
  BY <1>0, <1>9 DEF Disconnect
<1>10. ASSUME NEW r \in Replicas, Flush(r)
       PROVE  LinkType'
  <2>1. /\ Tail(response_queue[r]) \in Seq(FromMaster)
        /\ Append(down[r], Head(response_queue[r])) \in Seq(FromMaster)
    BY <1>0, <1>10 DEF Flush
  <2> QED BY <1>0, <1>10, <2>1 DEF Flush
<1>11. ASSUME NEW msg \in FromMaster, Broadcast(msg)
       PROVE  response_queue' \in [Replicas -> Seq(FromMaster)]
  <2>1. \A r \in Replicas : Append(response_queue[r], msg) \in Seq(FromMaster)
    BY <1>0
  <2> QED BY <1>0, <1>11, <2>1 DEF Broadcast
<1>12. ASSUME NEW n \in Required, NEW timed \in BOOLEAN, cmd_wait(n, timed)
       PROVE  LinkType'
  BY <1>0, <1>11, <1>12, MessageTypes DEF cmd_wait, link_vars
<1>13. ASSUME NEW i \in 1..MaxWaits, Expire(i)
       PROVE  LinkType'
  BY <1>0, <1>13 DEF Expire, link_vars
<1>14. CASE ExecuteWrite
  <2>1. Write(written + 1) \in FromMaster
    BY <1>0, MessageTypes DEF WriteType
  <2> QED BY <1>0, <1>11, <1>14, <2>1 DEF ExecuteWrite, link_vars
<1>15. CASE LinkUntouched /\ UNCHANGED response_queue
  BY <1>0, <1>15 DEF LinkUntouched, link_vars
<1> QED BY <1>1, <1>4, <1>5, <1>8, <1>9, <1>10, <1>12, <1>13, <1>14, <1>15, Steps

\* The replicas' own state stays well typed.
LEMMA ReplicaTypeStep ==
    ASSUME TypeOK, [Next]_vars
    PROVE  ReplicaType'
<1>0. LinkType /\ ReplicaType /\ WriteType
  BY TypeParts
<1> USE DEF ReplicaType
<1>1. CASE UNCHANGED <<since, replica_vars>>
  BY <1>0, <1>1 DEF replica_vars
<1>2. ASSUME NEW r \in Replicas, StartReplica(r)
      PROVE  ReplicaType'
  BY <1>0, <1>2 DEF StartReplica
<1>3. ASSUME NEW r \in Replicas, handshake_to_master(r)
      PROVE  ReplicaType'
  <2>1. since' = since /\ UNCHANGED <<replica_offset, applied, polled>>
    BY <1>3 DEF handshake_to_master, Receives, replica_vars
  <2>2. \/ handshake_state' = handshake_state
        \/ \E h \in {"REPLCONF1", "REPLCONF2", "PSYNC", "Established"} :
             handshake_state' = [handshake_state EXCEPT ![r] = h]
    BY <1>3 DEF handshake_to_master, HandshakeSteps, replica_vars
  <2> QED BY <1>0, <2>1, <2>2
<1>4. ASSUME NEW r \in Replicas, ReplicaApplies(r)
      PROVE  ReplicaType'
  <2>1. down[r] \in Seq(FromMaster) /\ down[r] # <<>> /\ Head(down[r]).kind = "write"
    BY <1>0, <1>4 DEF LinkType, ReplicaApplies, Receives
  <2>2. Head(down[r]) \in FromMaster
    BY <2>1
  <2>3. Append(applied[r], Head(down[r]).n) \in Seq(Nat)
    BY <1>0, <2>1, <2>2, MessageTypes
  <2>4. replica_offset[r] + WriteBytes \in Nat
    BY <1>0, ReplicationAssumption
  <2> QED BY <1>0, <1>4, <2>3, <2>4 DEF ReplicaApplies, Receives
<1>5. ASSUME NEW r \in Replicas, ReplicaAcks(r)
      PROVE  ReplicaType'
  <2>1. replica_offset[r] + AckBytes \in Nat /\ polled[r] + 1 \in Nat
    BY <1>0, ReplicationAssumption
  <2> QED BY <1>0, <1>5, <2>1 DEF ReplicaAcks, Receives
<1>6. ASSUME NEW r \in Replicas, cmd_psync(r)
      PROVE  ReplicaType'
  BY <1>0, <1>6 DEF cmd_psync, ReadsFrom, replica_vars, WriteType
<1>7. ASSUME NEW r \in Replicas,
             MasterPings(r) \/ MasterReplconf(r) \/ MasterAck(r) \/ Disconnect(r) \/ Flush(r)
      PROVE  UNCHANGED <<since, replica_vars>>
  BY <1>7 DEF MasterPings, MasterReplconf, MasterAck, ReadsFrom, Disconnect, Flush
<1>8. ASSUME NEW n \in Required, NEW timed \in BOOLEAN, cmd_wait(n, timed)
      PROVE  UNCHANGED <<since, replica_vars>>
  BY <1>8 DEF cmd_wait
<1>9. ASSUME NEW i \in 1..MaxWaits, Expire(i)
      PROVE  UNCHANGED <<since, replica_vars>>
  BY <1>9 DEF Expire
<1>10. ExecuteWrite \/ LinkUntouched => UNCHANGED <<since, replica_vars>>
  BY DEF ExecuteWrite, LinkUntouched
<1> QED BY <1>1, <1>2, <1>3, <1>4, <1>5, <1>6, <1>7, <1>8, <1>9, <1>10, Steps

-----------------------------------------------------------------------------
(***************************************************************************)
(* WAIT.  The registry is two maps, a list per slave and the set of parked  *)
(* clients, changed together by WAIT, by an ACK and by an expiry.           *)
(***************************************************************************)
CountedBy(t) == {p \in counted : p[1] = t}

\* A client in backlog_wait has the WAIT it points to.
OwnWait ==
    \A c \in DOMAIN backlog_wait :
        backlog_wait[c] \in DOMAIN store /\ store[backlog_wait[c]].client = c

\* Every WAIT is the one its client points to.
WaitIndexed ==
    \A t \in DOMAIN store :
        store[t].client \in DOMAIN backlog_wait /\ backlog_wait[store[t].client] = t

\* A client is listed by a slave once, for its WAIT, and while that has not counted
\* the slave.
ListedOnce ==
    \A r \in Replicas : \A c \in Clients :
        backlog_ack[r][c] # 0 =>
            /\ backlog_ack[r][c] = 1
            /\ c \in DOMAIN backlog_wait
            /\ r \in store[backlog_wait[c]].slave_ids
            /\ <<backlog_wait[c], r>> \notin counted

\* The count of a WAIT is the number of replicas counted for it.
CountIsExact ==
    \A t \in DOMAIN store :
        /\ IsFiniteSet(CountedBy(t))
        /\ store[t].actual_count = Cardinality(CountedBy(t))

WaitInv ==
    /\ OwnWait
    /\ \A p \in counted : p[1] \in 1..Len(asked)
    /\ ~overlapped => /\ WaitIndexed /\ ListedOnce /\ CountIsExact
                      /\ parked = DOMAIN backlog_wait

\* What an ACK does to the registry: the clients it reaches are counted, those that
\* have enough are removed.
AckEffect(r, reached, over) ==
    /\ reached \subseteq Listed(r) /\ over \subseteq Listed(r)
    /\ \A c \in reached : Head(up[r]).offset >= store[backlog_wait[c]].offset_snapshot
    /\ DOMAIN store' = DOMAIN store \ {backlog_wait[c] : c \in over}
    /\ \A t \in DOMAIN store' :
         /\ store'[t] \in Wait
         /\ store'[t].client = store[t].client
         /\ store'[t].offset_snapshot = store[t].offset_snapshot
         /\ store'[t].slave_ids = store[t].slave_ids
         /\ (\A c \in reached : backlog_wait[c] # t) =>
              store'[t].actual_count = store[t].actual_count
         /\ \A c \in reached : backlog_wait[c] = t =>
              store'[t].actual_count = store[t].actual_count + backlog_ack[r][c]
    /\ backlog_wait' = Restrict(backlog_wait, DOMAIN backlog_wait \ over)
    /\ backlog_ack' = ListsAfter(r, reached, over)
    /\ parked' = parked \ over
    /\ counted' = counted \cup {<<backlog_wait[c], r>> : c \in reached}
    /\ UNCHANGED <<asked, overlapped>>

\* An ACK whose lookups all succeed has this effect.
LEMMA AckHasEffect ==
    ASSUME WaitType, OwnWait, NEW r \in Replicas, MasterAck(r),
           Listed(r) \subseteq DOMAIN backlog_wait
    PROVE  \E reached, over : AckEffect(r, reached, over)
<1> DEFINE n == Head(up[r]).offset
           reached == {c \in Listed(r) : n >= store[backlog_wait[c]].offset_snapshot}
           count(c) == store[backlog_wait[c]].actual_count
                         + (IF c \in reached THEN backlog_ack[r][c] ELSE 0)
           over == {c \in Listed(r) : count(c) >= store[backlog_wait[c]].required_count}
<1>1. /\ store' = [t \in DOMAIN store \ {backlog_wait[c] : c \in over} |->
                     IF \E c \in reached : backlog_wait[c] = t
                     THEN [store[t] EXCEPT !.actual_count = count(store[t].client)]
                     ELSE store[t]]
      /\ backlog_wait' = Restrict(backlog_wait, DOMAIN backlog_wait \ over)
      /\ backlog_ack' = ListsAfter(r, reached, over)
      /\ parked' = parked \ over
      /\ counted' = counted \cup {<<backlog_wait[c], r>> : c \in reached}
      /\ UNCHANGED <<asked, overlapped>>
  BY DEF MasterAck
<1>2. reached \subseteq Listed(r) /\ over \subseteq Listed(r) /\ Listed(r) \subseteq Clients
  BY DEF Listed
<1>3. \A c \in reached : n >= store[backlog_wait[c]].offset_snapshot
  OBVIOUS
<1>4. ASSUME NEW c \in reached
      PROVE  /\ count(c) = store[backlog_wait[c]].actual_count + backlog_ack[r][c]
             /\ backlog_ack[r][c] \in Nat
             /\ backlog_wait[c] \in DOMAIN store /\ store[backlog_wait[c]].client = c
             /\ store[backlog_wait[c]].actual_count \in Nat
  <2>1. c \in Clients /\ c \in DOMAIN backlog_wait
    BY <1>2
  <2>2. backlog_wait[c] \in DOMAIN store /\ store[backlog_wait[c]].client = c
    BY <2>1 DEF OwnWait
  <2>3. store[backlog_wait[c]] \in Wait
    BY <2>2 DEF WaitType
  <2> QED BY <2>1, <2>2, <2>3 DEF WaitType, Wait
<1>5. DOMAIN store' = DOMAIN store \ {backlog_wait[c] : c \in over}
  BY <1>1
<1> HIDE DEF n, reached, over
<1>6. ASSUME NEW t \in DOMAIN store'
      PROVE  /\ store'[t] \in Wait
             /\ store'[t].client = store[t].client
             /\ store'[t].offset_snapshot = store[t].offset_snapshot
             /\ store'[t].slave_ids = store[t].slave_ids
             /\ (\A c \in reached : backlog_wait[c] # t) =>
                  store'[t].actual_count = store[t].actual_count
             /\ \A c \in reached : backlog_wait[c] = t =>
                  store'[t].actual_count = store[t].actual_count + backlog_ack[r][c]
  <2>1. t \in DOMAIN store /\ store[t] \in Wait
    BY <1>5 DEF WaitType
  <2>2. CASE \A c \in reached : backlog_wait[c] # t
    <3>1. store'[t] = store[t]
      BY <1>1, <1>5, <2>2
    <3> QED BY <2>1, <2>2, <3>1
  <2>3. ASSUME NEW c \in reached, backlog_wait[c] = t
        PROVE  store'[t] = [store[t] EXCEPT !.actual_count =
                              store[t].actual_count + backlog_ack[r][c]]
               /\ store[t].actual_count + backlog_ack[r][c] \in Nat
    <3>1. store[t].client = c
      BY <1>4, <2>3
    <3>2. count(c) = store[t].actual_count + backlog_ack[r][c]
      BY <1>4, <2>3
    <3> HIDE DEF count
    <3>3. store'[t] = [store[t] EXCEPT !.actual_count = count(store[t].client)]
      BY <1>1, <1>5, <2>3
    <3> QED BY <1>4, <2>3, <3>1, <3>2, <3>3
  <2>4. ASSUME NEW c \in reached, backlog_wait[c] = t
        PROVE  /\ store'[t] \in Wait
               /\ store'[t].client = store[t].client
               /\ store'[t].offset_snapshot = store[t].offset_snapshot
               /\ store'[t].slave_ids = store[t].slave_ids
               /\ store'[t].actual_count = store[t].actual_count + backlog_ack[r][c]
    BY <2>1, <2>3, <2>4 DEF Wait
  <2> QED BY <2>2, <2>4
<1>7. AckEffect(r, reached, over)
  BY <1>1, <1>2, <1>3, <1>5, <1>6 DEF AckEffect, n
<1> QED BY <1>7

\* An ACK keeps the registry of WAITs consistent.
LEMMA AckKeepsWaits ==
    ASSUME WaitType, WaitInv, NEW r \in Replicas, NEW reached, NEW over,
           AckEffect(r, reached, over), Listed(r) \subseteq DOMAIN backlog_wait
    PROVE  WaitType' /\ WaitInv'
<1>1. /\ reached \subseteq Clients /\ over \subseteq Clients
      /\ reached \subseteq DOMAIN backlog_wait /\ over \subseteq DOMAIN backlog_wait
      /\ reached \subseteq Listed(r) /\ UNCHANGED <<asked, overlapped>>
  BY DEF AckEffect, Listed
<1>2. /\ DOMAIN backlog_wait' = DOMAIN backlog_wait \ over
      /\ \A c \in DOMAIN backlog_wait' : backlog_wait'[c] = backlog_wait[c]
  BY DEF AckEffect, Restrict
<1>3. /\ DOMAIN store' = DOMAIN store \ {backlog_wait[c] : c \in over}
      /\ \A t \in DOMAIN store' : store'[t] \in Wait /\ store'[t].client = store[t].client
                                    /\ store'[t].slave_ids = store[t].slave_ids
  BY DEF AckEffect
<1>4. \A c, d \in DOMAIN backlog_wait : backlog_wait[c] = backlog_wait[d] => c = d
  BY DEF WaitInv, OwnWait
<1>5. \A c \in DOMAIN backlog_wait' :
         backlog_wait'[c] \in DOMAIN store' /\ store'[backlog_wait'[c]].client = c
  BY <1>1, <1>2, <1>3, <1>4 DEF WaitInv, OwnWait
<1>6. counted' = counted \cup {<<backlog_wait[c], r>> : c \in reached}
  BY DEF AckEffect
<1>7. \A c \in reached : backlog_wait[c] \in 1..Len(asked) /\ backlog_wait[c] \in Nat
  BY <1>1 DEF WaitType
<1>8. WaitType'
  <2>1. /\ backlog_ack' \in [Replicas -> [Clients -> Nat]]
        /\ \A s \in Replicas, c \in Clients :
             backlog_ack'[s][c] = IF \/ s = r /\ c \in reached
                                     \/ c \in over /\ s \in store[backlog_wait[c]].slave_ids
                                  THEN 0 ELSE backlog_ack[s][c]
    BY DEF AckEffect, ListsAfter, WaitType
  <2>2. counted' \subseteq Nat \X Replicas
    BY <1>6, <1>7 DEF WaitType
  <2>3. parked' \subseteq Clients
    BY DEF AckEffect, WaitType
  <2>4. DOMAIN backlog_wait' \subseteq Clients /\ DOMAIN store' \subseteq 1..Len(asked')
    BY <1>1, <1>2, <1>3 DEF WaitType
  <2> QED BY <1>1, <1>3, <1>5, <2>1, <2>2, <2>3, <2>4 DEF WaitType
<1>9. \A p \in counted' : p[1] \in 1..Len(asked')
  BY <1>1, <1>6, <1>7 DEF WaitInv
<1>10. ASSUME ~overlapped'
       PROVE  /\ WaitIndexed' /\ ListedOnce' /\ CountIsExact'
              /\ parked' = DOMAIN backlog_wait'
  <2>0. WaitIndexed /\ ListedOnce /\ CountIsExact /\ parked = DOMAIN backlog_wait
    BY <1>1, <1>10 DEF WaitInv
  <2>1. parked' = DOMAIN backlog_wait'
    BY <1>2, <2>0 DEF AckEffect
  <2>2. WaitIndexed'
    <3> SUFFICES ASSUME NEW t \in DOMAIN store'
                 PROVE  /\ store'[t].client \in DOMAIN backlog_wait'
                        /\ backlog_wait'[store'[t].client] = t
      BY DEF WaitIndexed
    <3>1. /\ t \in DOMAIN store /\ store'[t].client = store[t].client
          /\ \A c \in over : backlog_wait[c] # t
      BY <1>3
    <3>2. store[t].client \in DOMAIN backlog_wait /\ backlog_wait[store[t].client] = t
      BY <2>0, <3>1 DEF WaitIndexed
    <3> QED BY <1>2, <3>1, <3>2
  <2>3. ListedOnce'
    <3> SUFFICES ASSUME NEW s \in Replicas, NEW c \in Clients, backlog_ack'[s][c] # 0
                 PROVE  /\ backlog_ack'[s][c] = 1
                        /\ c \in DOMAIN backlog_wait'
                        /\ s \in store'[backlog_wait'[c]].slave_ids
                        /\ <<backlog_wait'[c], s>> \notin counted'
      BY DEF ListedOnce
    <3>1. /\ backlog_ack'[s][c] = backlog_ack[s][c]
          /\ ~(s = r /\ c \in reached)
          /\ ~(c \in over /\ s \in store[backlog_wait[c]].slave_ids)
      BY DEF AckEffect, ListsAfter
    <3>2. /\ backlog_ack[s][c] = 1 /\ c \in DOMAIN backlog_wait
          /\ s \in store[backlog_wait[c]].slave_ids /\ <<backlog_wait[c], s>> \notin counted
      BY <2>0, <3>1 DEF ListedOnce
    <3>3. c \in DOMAIN backlog_wait' /\ backlog_wait'[c] = backlog_wait[c]
      BY <1>2, <3>1, <3>2
    <3>4. s \in store'[backlog_wait'[c]].slave_ids
      BY <1>3, <1>5, <3>2, <3>3
    <3>5. \A d \in reached : <<backlog_wait[d], r>> # <<backlog_wait[c], s>>
      BY <1>1, <1>4, <3>1, <3>2
    <3> QED BY <1>6, <3>1, <3>2, <3>3, <3>4, <3>5
  <2>4. CountIsExact'
    <3> SUFFICES ASSUME NEW t \in DOMAIN store'
                 PROVE  /\ IsFiniteSet(CountedBy(t)')
                        /\ store'[t].actual_count = Cardinality(CountedBy(t)')
      BY DEF CountIsExact
    <3>1. /\ t \in DOMAIN store /\ IsFiniteSet(CountedBy(t))
          /\ store[t].actual_count = Cardinality(CountedBy(t))
      BY <1>3, <2>0 DEF CountIsExact
    <3>2. CASE \A c \in reached : backlog_wait[c] # t
      <4>1. CountedBy(t)' = CountedBy(t)
        BY <1>6, <3>2 DEF CountedBy
      <4> QED BY <3>1, <3>2, <4>1 DEF AckEffect
    <3>3. ASSUME NEW c \in reached, backlog_wait[c] = t
          PROVE  /\ IsFiniteSet(CountedBy(t)')
                 /\ store'[t].actual_count = Cardinality(CountedBy(t)')
      <4>1. c \in Clients /\ backlog_ack[r][c] # 0
        BY <1>1 DEF Listed, WaitType
      <4>2. backlog_ack[r][c] = 1 /\ <<t, r>> \notin CountedBy(t)
        BY <2>0, <3>3, <4>1 DEF ListedOnce, CountedBy
      <4>3. CountedBy(t)' = CountedBy(t) \cup {<<t, r>>}
        BY <1>6, <3>3 DEF CountedBy
      <4>4. store'[t].actual_count = store[t].actual_count + 1
        BY <3>3, <4>2 DEF AckEffect
      <4> QED BY <3>1, <4>2, <4>3, <4>4, FS_AddElement
    <3> QED BY <3>2, <3>3
  <2> QED BY <2>1, <2>2, <2>3, <2>4
<1> QED BY <1>5, <1>8, <1>9, <1>10 DEF WaitInv, OwnWait

\* WAIT registers a fresh request for the client being read.
LEMMA WaitKeepsWaits ==
    ASSUME TypeOK, WaitInv, NEW n \in Required, NEW timed \in BOOLEAN, cmd_wait(n, timed)
    PROVE  WaitType' /\ WaitInv'
<1>0. LinkType /\ WaitType /\ WriteType /\ LoopType
  BY TypeParts
<1>1. PICK c \in Clients : c = cur
  BY <1>0 DEF cmd_wait, LoopType
<1>2. PICK t \in Nat : t = Len(asked) + 1
  BY <1>0 DEF WaitType
<1>3. PICK w \in Wait :
        w = [client |-> c, required_count |-> n, actual_count |-> 0, timed |-> timed,
             offset_snapshot |-> offset, slave_ids |-> slaves]
  BY <1>0, ReplicationAssumption DEF Wait, LinkType, WriteType
<1>4. /\ store' = Put(store, t, w) /\ backlog_wait' = Put(backlog_wait, c, t)
      /\ backlog_ack' = [r \in Replicas |->
           IF r \in slaves THEN [backlog_ack[r] EXCEPT ![c] = @ + 1] ELSE backlog_ack[r]]
      /\ parked' = parked \cup {c} /\ asked' = Append(asked, written)
      /\ counted' = counted
      /\ overlapped' = (overlapped \/ \E u \in DOMAIN store : store[u].client = c)
  BY <1>1, <1>2, <1>3 DEF cmd_wait
<1>5. /\ w.client = c /\ w.actual_count = 0 /\ w.slave_ids = slaves
  BY <1>3
<1>6. /\ DOMAIN store' = DOMAIN store \cup {t} /\ store'[t] = w
      /\ \A u \in DOMAIN store : u # t => store'[u] = store[u]
      /\ DOMAIN backlog_wait' = DOMAIN backlog_wait \cup {c} /\ backlog_wait'[c] = t
      /\ \A d \in DOMAIN backlog_wait : d # c => backlog_wait'[d] = backlog_wait[d]
  BY <1>4 DEF Put
<1>7. /\ asked' \in Seq(Nat) /\ Len(asked') = t /\ Len(asked) \in Nat
      /\ 1..Len(asked) \subseteq 1..t /\ t \in 1..t /\ t \notin 1..Len(asked)
  BY <1>0, <1>2, <1>4 DEF WaitType, WriteType
<1>8. t \notin DOMAIN store /\ \A p \in counted : p[1] # t
  BY <1>0, <1>7 DEF WaitType, WaitInv
<1>9. /\ backlog_ack' \in [Replicas -> [Clients -> Nat]]
      /\ \A r \in Replicas, d \in Clients :
           backlog_ack'[r][d] = IF r \in slaves /\ d = c THEN backlog_ack[r][c] + 1
                                ELSE backlog_ack[r][d]
  BY <1>0, <1>4 DEF WaitType
<1>10. OwnWait'
  BY <1>5, <1>6, <1>8 DEF WaitInv, OwnWait
<1>11. WaitType'
  <2>1. overlapped' \in BOOLEAN
    BY <1>4
  <2>2. DOMAIN store' \subseteq 1..Len(asked') /\ \A u \in DOMAIN store' : store'[u] \in Wait
    BY <1>0, <1>6, <1>7 DEF WaitType
  <2>3. /\ DOMAIN backlog_wait' \subseteq Clients /\ parked' \subseteq Clients
        /\ counted' \subseteq Nat \X Replicas
    BY <1>0, <1>4, <1>6 DEF WaitType
  <2>4. \A d \in DOMAIN backlog_wait' : backlog_wait'[d] \in DOMAIN store'
    BY <1>10 DEF OwnWait
  <2> QED BY <1>7, <1>9, <2>1, <2>2, <2>3, <2>4 DEF WaitType
<1>12. \A p \in counted' : p[1] \in 1..Len(asked')
  BY <1>4, <1>7 DEF WaitInv
<1>13. ASSUME ~overlapped'
       PROVE  /\ WaitIndexed' /\ ListedOnce' /\ CountIsExact'
              /\ parked' = DOMAIN backlog_wait'
  <2>0. /\ ~overlapped /\ \A u \in DOMAIN store : store[u].client # c
        /\ WaitIndexed /\ ListedOnce /\ CountIsExact /\ parked = DOMAIN backlog_wait
    BY <1>4, <1>13 DEF WaitInv
  <2>1. parked' = DOMAIN backlog_wait'
    BY <1>4, <1>6, <2>0
  <2>2. c \notin DOMAIN backlog_wait /\ \A r \in Replicas : backlog_ack[r][c] = 0
    BY <2>0 DEF WaitInv, OwnWait, ListedOnce
  <2>3. WaitIndexed'
    BY <1>5, <1>6, <1>8, <2>0 DEF WaitIndexed
  <2>4. ListedOnce'
    <3> SUFFICES ASSUME NEW r \in Replicas, NEW d \in Clients, backlog_ack'[r][d] # 0
                 PROVE  /\ backlog_ack'[r][d] = 1
                        /\ d \in DOMAIN backlog_wait'
                        /\ r \in store'[backlog_wait'[d]].slave_ids
                        /\ <<backlog_wait'[d], r>> \notin counted'
      BY DEF ListedOnce
    <3>1. CASE d = c
      <4>1. r \in slaves /\ backlog_ack'[r][d] = 1
        BY <1>9, <2>2, <3>1
      <4>2. <<t, r>> \notin counted
        BY <1>8
      <4> QED BY <1>4, <1>5, <1>6, <3>1, <4>1, <4>2
    <3>2. CASE d # c
      <4>1. /\ backlog_ack'[r][d] = 1 /\ d \in DOMAIN backlog_wait
            /\ r \in store[backlog_wait[d]].slave_ids /\ <<backlog_wait[d], r>> \notin counted
        BY <1>9, <2>0, <3>2 DEF ListedOnce
      <4>2. backlog_wait[d] \in DOMAIN store /\ backlog_wait'[d] = backlog_wait[d]
        BY <1>6, <3>2, <4>1 DEF WaitInv, OwnWait
      <4> QED BY <1>4, <1>6, <1>8, <4>1, <4>2
    <3> QED BY <3>1, <3>2
  <2>5. CountIsExact'
    <3>1. \A u : CountedBy(u)' = CountedBy(u)
      BY <1>4 DEF CountedBy
    <3>2. CountedBy(t) = {}
      BY <1>8 DEF CountedBy
    <3>3. IsFiniteSet({}) /\ Cardinality({}) = 0
      BY FS_EmptySet
    <3> QED BY <1>5, <1>6, <2>0, <3>1, <3>2, <3>3 DEF CountIsExact
  <2> QED BY <2>1, <2>3, <2>4, <2>5
<1> QED BY <1>10, <1>11, <1>12, <1>13 DEF WaitInv

\* An expiry removes the WAIT, the client's entry and the client from all lists.
LEMMA ExpireKeepsWaits ==
    ASSUME WaitType, WaitInv, NEW t, Expire(t)
    PROVE  WaitType' /\ WaitInv'
<1>1. t \in DOMAIN store /\ store[t] \in Wait
  BY DEF Expire, WaitType
<1>2. PICK c \in Clients : c = store[t].client
  BY <1>1 DEF Wait
<1>3. /\ store' = Without(store, t) /\ backlog_wait' = Without(backlog_wait, c)
      /\ backlog_ack' = [r \in Replicas |->
           IF r \in store[t].slave_ids THEN [backlog_ack[r] EXCEPT ![c] = 0] ELSE backlog_ack[r]]
      /\ parked' = parked \ {c} /\ UNCHANGED <<asked, counted, overlapped>>
  BY <1>2 DEF Expire, remove
<1>4. /\ DOMAIN store' = DOMAIN store \ {t}
      /\ \A u \in DOMAIN store' : store'[u] = store[u]
      /\ DOMAIN backlog_wait' = DOMAIN backlog_wait \ {c}
      /\ \A d \in DOMAIN backlog_wait' : backlog_wait'[d] = backlog_wait[d]
  BY <1>3 DEF Without, Restrict
<1>5. /\ backlog_ack' \in [Replicas -> [Clients -> Nat]]
      /\ \A r \in Replicas, d \in Clients :
           backlog_ack'[r][d] = IF r \in store[t].slave_ids /\ d = c THEN 0
                                ELSE backlog_ack[r][d]
  BY <1>3 DEF WaitType
<1>6. OwnWait'
  BY <1>2, <1>4 DEF WaitInv, OwnWait
<1>7. WaitType'
  <2>1. DOMAIN store' \subseteq 1..Len(asked') /\ \A u \in DOMAIN store' : store'[u] \in Wait
    BY <1>3, <1>4 DEF WaitType
  <2>2. /\ DOMAIN backlog_wait' \subseteq Clients /\ parked' \subseteq Clients
        /\ counted' \subseteq Nat \X Replicas /\ asked' \in Seq(Nat) /\ overlapped' \in BOOLEAN
    BY <1>3, <1>4 DEF WaitType
  <2>3. \A d \in DOMAIN backlog_wait' : backlog_wait'[d] \in DOMAIN store'
    BY <1>6 DEF OwnWait
  <2> QED BY <1>5, <2>1, <2>2, <2>3 DEF WaitType
<1>8. ASSUME ~overlapped'
      PROVE  /\ WaitIndexed' /\ ListedOnce' /\ CountIsExact'
             /\ parked' = DOMAIN backlog_wait'
  <2>0. WaitIndexed /\ ListedOnce /\ CountIsExact /\ parked = DOMAIN backlog_wait
    BY <1>3, <1>8 DEF WaitInv
  <2>1. c \in DOMAIN backlog_wait /\ backlog_wait[c] = t
    BY <1>1, <1>2, <2>0 DEF WaitIndexed
  <2>2. parked' = DOMAIN backlog_wait'
    BY <1>3, <1>4, <2>0
  <2>3. WaitIndexed'
    BY <1>4, <2>0, <2>1 DEF WaitIndexed
  <2>4. ListedOnce'
    <3> SUFFICES ASSUME NEW r \in Replicas, NEW d \in Clients, backlog_ack'[r][d] # 0
                 PROVE  /\ backlog_ack'[r][d] = 1
                        /\ d \in DOMAIN backlog_wait'
                        /\ r \in store'[backlog_wait'[d]].slave_ids
                        /\ <<backlog_wait'[d], r>> \notin counted'
      BY DEF ListedOnce
    <3>1. /\ backlog_ack'[r][d] = backlog_ack[r][d]
          /\ ~(r \in store[t].slave_ids /\ d = c)
      BY <1>5
    <3>2. /\ backlog_ack[r][d] = 1 /\ d \in DOMAIN backlog_wait
          /\ r \in store[backlog_wait[d]].slave_ids /\ <<backlog_wait[d], r>> \notin counted
      BY <2>0, <3>1 DEF ListedOnce
    <3>3. d \in DOMAIN backlog_wait' /\ backlog_wait'[d] = backlog_wait[d]
      BY <1>4, <2>1, <3>1, <3>2
    <3>4. backlog_wait[d] \in DOMAIN store'
      BY <1>6, <3>3 DEF OwnWait
    <3> QED BY <1>3, <1>4, <3>1, <3>2, <3>3, <3>4
  <2>5. CountIsExact'
    <3>1. \A u : CountedBy(u)' = CountedBy(u)
      BY <1>3 DEF CountedBy
    <3> QED BY <1>4, <2>0, <3>1 DEF CountIsExact
  <2> QED BY <2>2, <2>3, <2>4, <2>5
<1> QED BY <1>3, <1>6, <1>7, <1>8 DEF WaitInv

\* Every step keeps the registry of WAITs consistent.
LEMMA WaitStep ==
    ASSUME TypeOK, WaitInv, [Next]_vars
    PROVE  WaitType' /\ WaitInv'
<1>0. WaitType
  BY TypeParts
<1>1. CASE UNCHANGED wait_vars
  BY <1>0, <1>1 DEF wait_vars, WaitType, WaitInv, OwnWait, WaitIndexed, ListedOnce,
                    CountIsExact, CountedBy
<1>2. ASSUME NEW r \in Replicas, MasterAck(r)
      PROVE  WaitType' /\ WaitInv'
  <2>1. CASE Listed(r) \subseteq DOMAIN backlog_wait
    BY <1>0, <1>2, <2>1, AckHasEffect, AckKeepsWaits DEF WaitInv
  <2>2. CASE ~(Listed(r) \subseteq DOMAIN backlog_wait)
    BY <1>1, <1>2, <2>2 DEF MasterAck
  <2> QED BY <2>1, <2>2
<1>3. ASSUME NEW r \in Replicas,
             \/ StartReplica(r) \/ handshake_to_master(r) \/ ReplicaApplies(r)
             \/ ReplicaAcks(r) \/ MasterPings(r) \/ MasterReplconf(r) \/ cmd_psync(r)
             \/ Disconnect(r) \/ Flush(r)
      PROVE  UNCHANGED wait_vars
  BY <1>3 DEF StartReplica, handshake_to_master, Receives, ReplicaApplies, ReplicaAcks,
              MasterPings, MasterReplconf, cmd_psync, Disconnect, Flush
<1>4. ExecuteWrite => UNCHANGED wait_vars
  BY DEF ExecuteWrite
<1> QED BY <1>0, <1>1, <1>2, <1>3, <1>4, WaitKeepsWaits, ExpireKeepsWaits, Steps

\* The counters and the loop's state stay well typed.
LEMMA LoopTypeStep ==
    ASSUME TypeOK, [Next]_vars
    PROVE  WriteType' /\ LoopType'
<1>0. WriteType /\ LoopType
  BY TypeParts
<1>1. CASE UNCHANGED <<write_vars, loop_vars>>
  BY <1>0, <1>1 DEF write_vars, loop_vars, WriteType, LoopType
<1>2. ASSUME NEW r \in Replicas, MasterAck(r) \/ Flush(r)
      PROVE  UNCHANGED <<write_vars, cur, flushing>> /\ alive' \in BOOLEAN
  <2>1. CASE MasterAck(r)
    <3>1. UNCHANGED <<write_vars, cur, flushing>> /\ (alive' = alive \/ alive' = FALSE)
      BY <2>1 DEF MasterAck, ReadsFrom, loop_vars
    <3> QED BY <1>0, <3>1 DEF LoopType
  <2>2. CASE Flush(r)
    BY <2>2 DEF Flush
  <2> QED BY <1>2, <2>1, <2>2
<1>3. ASSUME NEW r \in Replicas,
             \/ StartReplica(r) \/ handshake_to_master(r) \/ ReplicaApplies(r)
             \/ ReplicaAcks(r) \/ MasterPings(r) \/ MasterReplconf(r) \/ cmd_psync(r)
             \/ Disconnect(r)
      PROVE  UNCHANGED <<write_vars, loop_vars>>
  BY <1>3 DEF StartReplica, handshake_to_master, Receives, ReplicaApplies, ReplicaAcks,
              MasterPings, MasterReplconf, cmd_psync, ReadsFrom, Disconnect
<1>4. ASSUME NEW n \in Required, NEW timed \in BOOLEAN, cmd_wait(n, timed)
      PROVE  UNCHANGED <<write_vars, loop_vars>>
  BY <1>4 DEF cmd_wait
<1>5. ASSUME NEW i \in 1..MaxWaits, Expire(i)
      PROVE  UNCHANGED <<write_vars, loop_vars>>
  BY <1>5 DEF Expire
<1>6. CASE ExecuteWrite
  BY <1>0, <1>6, ReplicationAssumption DEF ExecuteWrite, WriteType, LoopType, loop_vars
<1>7. CASE UNCHANGED <<write_vars, alive>> /\ \E c \in Clients : BeginRead(c)
  BY <1>0, <1>7 DEF BeginRead, WriteType, LoopType, write_vars
<1>8. CASE UNCHANGED <<write_vars, alive>> /\ (EndRead \/ BeginFlush \/ EndFlush)
  BY <1>0, <1>8 DEF EndRead, BeginFlush, EndFlush, WriteType, LoopType, write_vars
<1>9. ASSUME UNCHANGED <<write_vars, cur, flushing>>, alive' \in BOOLEAN
      PROVE  WriteType' /\ LoopType'
  BY <1>0, <1>9 DEF WriteType, LoopType, write_vars
<1> QED BY <1>1, <1>2, <1>3, <1>4, <1>5, <1>6, <1>7, <1>8, <1>9, Steps

-----------------------------------------------------------------------------
(***************************************************************************)
(* The stream of messages to one replica.  The socket and the response      *)
(* queue together are one sequence: a flush does not change it, a broadcast *)
(* extends it and the replica reads it from the front.                      *)
(***************************************************************************)

\* What the messages msgs owe to a replica that has applied a since write s, when w
\* writes were made.
StreamOK(msgs, a, s, w) ==
    /\ a = [i \in 1..Len(a) |-> s + i]
    /\ s + Len(a) <= w
    /\ \A i \in 1..Len(msgs) : msgs[i].kind = "write" => msgs[i].n \in (s + Len(a) + 1)..w
    /\ \A x \in (s + Len(a) + 1)..w :
         \E i \in 1..Len(msgs) : msgs[i].kind = "write" /\ msgs[i].n = x
    /\ \A i, j \in 1..Len(msgs) :
         msgs[i].kind = "write" /\ msgs[j].kind = "write" /\ i < j => msgs[i].n < msgs[j].n

\* A write is appended.
LEMMA StreamGrows ==
    ASSUME NEW msgs \in Seq(FromMaster), NEW a \in Seq(Nat), NEW s \in Nat, NEW w \in Nat,
           StreamOK(msgs, a, s, w)
    PROVE  StreamOK(Append(msgs, Write(w + 1)), a, s, w + 1)
<1> DEFINE new == Append(msgs, Write(w + 1))
           L == Len(msgs)
<1>1. Write(w + 1) \in FromMaster /\ Write(w + 1).kind = "write" /\ Write(w + 1).n = w + 1
  BY MessageTypes DEF Write
<1>2. /\ L \in Nat /\ Len(a) \in Nat /\ Len(new) = L + 1 /\ new[L + 1] = Write(w + 1)
      /\ \A i \in 1..L : new[i] = msgs[i]
  BY <1>1, AppendProperties
<1>3. \A i \in 1..Len(new) : i \in 1..L \/ i = L + 1
  BY <1>2
<1>4. 1..L \subseteq 1..Len(new) /\ L + 1 \in 1..Len(new)
  BY <1>2
<1> HIDE DEF new, L
<1>5. a = [i \in 1..Len(a) |-> s + i] /\ s + Len(a) <= w + 1
  BY <1>2 DEF StreamOK
<1>6. \A i \in 1..L : msgs[i].kind = "write" => msgs[i].n \in (s + Len(a) + 1)..w
  BY DEF StreamOK, L
<1>7. \A i \in 1..Len(new) : new[i].kind = "write" => new[i].n \in (s + Len(a) + 1)..(w + 1)
  <2>1. w + 1 \in (s + Len(a) + 1)..(w + 1)
    BY <1>2 DEF StreamOK
  <2>2. (s + Len(a) + 1)..w \subseteq (s + Len(a) + 1)..(w + 1)
    BY <1>2
  <2> QED BY <1>1, <1>2, <1>3, <1>6, <2>1, <2>2
<1>8. ASSUME NEW x \in (s + Len(a) + 1)..(w + 1)
      PROVE  \E i \in 1..Len(new) : new[i].kind = "write" /\ new[i].n = x
  <2>1. CASE x = w + 1
    BY <1>1, <1>2, <1>4, <2>1
  <2>2. CASE x # w + 1
    <3>1. x \in (s + Len(a) + 1)..w
      BY <1>2, <2>2
    <3>2. PICK i \in 1..L : msgs[i].kind = "write" /\ msgs[i].n = x
      BY <3>1 DEF StreamOK, L
    <3> QED BY <1>2, <1>4, <3>2
  <2> QED BY <2>1, <2>2
<1>9. ASSUME NEW i \in 1..Len(new), NEW j \in 1..Len(new),
             new[i].kind = "write", new[j].kind = "write", i < j
      PROVE  new[i].n < new[j].n
  <2>1. i \in 1..L
    BY <1>2, <1>3, <1>9
  <2>2. CASE j \in 1..L
    BY <1>2, <1>9, <2>1, <2>2 DEF StreamOK, L
  <2>3. CASE j = L + 1
    <3>1. new[j].n = w + 1 /\ new[i].n \in (s + Len(a) + 1)..w
      BY <1>1, <1>2, <1>6, <1>9, <2>1, <2>3
    <3> QED BY <1>2, <3>1
  <2> QED BY <1>3, <2>2, <2>3
<1> QED BY <1>5, <1>7, <1>8, <1>9 DEF StreamOK, new

\* A message that is no write is appended.
LEMMA StreamPolled ==
    ASSUME NEW msgs \in Seq(FromMaster), NEW a \in Seq(Nat), NEW s \in Nat, NEW w \in Nat,
           StreamOK(msgs, a, s, w), NEW m \in FromMaster, m.kind # "write"
    PROVE  StreamOK(Append(msgs, m), a, s, w)
<1> DEFINE new == Append(msgs, m)
<1>1. /\ Len(msgs) \in Nat /\ Len(new) = Len(msgs) + 1 /\ new[Len(msgs) + 1] = m
      /\ \A i \in 1..Len(msgs) : new[i] = msgs[i]
  BY AppendProperties
<1>2. \A i \in 1..Len(new) : i \in 1..Len(msgs) \/ i = Len(msgs) + 1
  BY <1>1
<1>3. 1..Len(msgs) \subseteq 1..Len(new)
  BY <1>1
<1> HIDE DEF new
<1>4. \A i \in 1..Len(new) : new[i].kind = "write" => i \in 1..Len(msgs) /\ new[i] = msgs[i]
  BY <1>1, <1>2
<1>5. \A i \in 1..Len(new) : new[i].kind = "write" => new[i].n \in (s + Len(a) + 1)..w
  BY <1>4 DEF StreamOK
<1>6. \A x \in (s + Len(a) + 1)..w :
        \E i \in 1..Len(new) : new[i].kind = "write" /\ new[i].n = x
  BY <1>1, <1>3 DEF StreamOK
<1>7. \A i, j \in 1..Len(new) :
        new[i].kind = "write" /\ new[j].kind = "write" /\ i < j => new[i].n < new[j].n
  BY <1>4 DEF StreamOK
<1> QED BY <1>5, <1>6, <1>7 DEF StreamOK, new

\* The first message is read: when it is a write, it is the next one.
LEMMA StreamRead ==
    ASSUME NEW msgs \in Seq(FromMaster), NEW a \in Seq(Nat), NEW s \in Nat, NEW w \in Nat,
           StreamOK(msgs, a, s, w), msgs # <<>>
    PROVE  StreamOK(Tail(msgs), IF Head(msgs).kind = "write"
                                THEN Append(a, Head(msgs).n) ELSE a, s, w)
<1> DEFINE new == Tail(msgs)
           L == Len(msgs)
<1>1. /\ L \in Nat /\ 1 \in 1..L /\ Len(a) \in Nat /\ Len(new) = L - 1
      /\ msgs[1] = Head(msgs) /\ \A i \in 1..Len(new) : new[i] = msgs[i + 1]
  OBVIOUS
<1>2. \A i \in 1..Len(new) : i + 1 \in 1..L
  BY <1>1
<1>3. \A i \in 1..L : i # 1 => i - 1 \in 1..Len(new) /\ new[i - 1] = msgs[i]
  <2> SUFFICES ASSUME NEW i \in 1..L, i # 1
               PROVE  i - 1 \in 1..Len(new) /\ new[i - 1] = msgs[i]
    OBVIOUS
  <2>1. i - 1 \in 1..Len(new) /\ (i - 1) + 1 = i
    BY <1>1
  <2> QED BY <1>1, <2>1
<1> HIDE DEF new
<1>4. \A i, j \in 1..Len(new) :
        new[i].kind = "write" /\ new[j].kind = "write" /\ i < j => new[i].n < new[j].n
  <2> SUFFICES ASSUME NEW i \in 1..Len(new), NEW j \in 1..Len(new),
                      new[i].kind = "write", new[j].kind = "write", i < j
               PROVE  new[i].n < new[j].n
    OBVIOUS
  <2>1. i + 1 \in 1..L /\ j + 1 \in 1..L /\ i + 1 < j + 1
    BY <1>1, <1>2
  <2>2. new[i] = msgs[i + 1] /\ new[j] = msgs[j + 1]
    BY <1>1
  <2>3. \A h, k \in 1..L :
          msgs[h].kind = "write" /\ msgs[k].kind = "write" /\ h < k => msgs[h].n < msgs[k].n
    BY DEF StreamOK
  <2> HIDE DEF L
  <2> QED BY <2>1, <2>2, <2>3
<1>5. CASE Head(msgs).kind # "write"
  <2>1. \A i \in 1..Len(new) : new[i].kind = "write" => new[i].n \in (s + Len(a) + 1)..w
    <3>1. \A i \in 1..L : msgs[i].kind = "write" => msgs[i].n \in (s + Len(a) + 1)..w
      BY DEF StreamOK
    <3> HIDE DEF L
    <3> QED BY <1>1, <1>2, <3>1
  <2>2. \A x \in (s + Len(a) + 1)..w :
          \E i \in 1..Len(new) : new[i].kind = "write" /\ new[i].n = x
    <3> SUFFICES ASSUME NEW x \in (s + Len(a) + 1)..w
                 PROVE  \E i \in 1..Len(new) : new[i].kind = "write" /\ new[i].n = x
      OBVIOUS
    <3>1. PICK i \in 1..L : msgs[i].kind = "write" /\ msgs[i].n = x
      BY DEF StreamOK
    <3>2. i # 1
      BY <1>1, <1>5, <3>1
    <3> QED BY <1>3, <3>1, <3>2
  <2> QED BY <1>4, <1>5, <2>1, <2>2 DEF StreamOK, new
<1>6. CASE Head(msgs).kind = "write"
  <2>1. msgs[1].kind = "write" /\ msgs[1].n \in (s + Len(a) + 1)..w
    BY <1>1, <1>6 DEF StreamOK
  <2>2. msgs[1].n = s + Len(a) + 1
    <3>1. s + Len(a) + 1 \in (s + Len(a) + 1)..w
      BY <1>1, <2>1
    <3>2. PICK i \in 1..L : msgs[i].kind = "write" /\ msgs[i].n = s + Len(a) + 1
      BY <3>1 DEF StreamOK
    <3>3. CASE i = 1
      BY <3>2, <3>3
    <3>4. CASE i # 1
      <4>1. 1 < i
        BY <3>4
      <4>2. msgs[1].n < msgs[i].n
        BY <1>1, <2>1, <3>2, <4>1 DEF StreamOK
      <4> QED BY <1>1, <2>1, <3>2, <4>2
    <3> QED BY <3>3, <3>4
  <2>9. PICK next \in Nat : next = Head(msgs).n /\ next = s + Len(a) + 1
    BY <1>1, <2>2
  <2>3. PICK b \in Seq(Nat) : b = Append(a, next)
    BY AppendProperties
  <2>4. /\ Len(b) = Len(a) + 1 /\ b[Len(a) + 1] = s + Len(a) + 1
        /\ \A i \in 1..Len(a) : b[i] = a[i]
    BY <2>3, <2>9, AppendProperties
  <2>5. b = [i \in 1..Len(b) |-> s + i] /\ s + Len(b) <= w
    <3>1. \A i \in 1..Len(a) : a[i] = s + i
      BY DEF StreamOK
    <3>2. \A i \in 1..Len(b) : b[i] = s + i
      <4>1. \A i \in 1..Len(b) : i \in 1..Len(a) \/ i = Len(a) + 1
        BY <1>1, <2>4
      <4>2. b[Len(a) + 1] = s + (Len(a) + 1)
        BY <1>1, <2>4
      <4> QED BY <2>4, <3>1, <4>1, <4>2
    <3>3. s + Len(b) <= w
      BY <1>1, <2>1, <2>2, <2>4
    <3>4. b = [i \in 1..Len(b) |-> b[i]]
      <4>1. b \in [1..Len(b) -> Nat]
        BY LenProperties
      <4> QED BY <4>1
    <3> QED BY <3>2, <3>3, <3>4
  <2>6. \A i \in 1..Len(new) : new[i].kind = "write" => new[i].n \in (s + Len(b) + 1)..w
    <3> SUFFICES ASSUME NEW i \in 1..Len(new), new[i].kind = "write"
                 PROVE  new[i].n \in (s + Len(b) + 1)..w
      OBVIOUS
    <3>1. i + 1 \in 1..L /\ new[i] = msgs[i + 1] /\ 1 < i + 1
      BY <1>1, <1>2
    <3>2. new[i].n \in (s + Len(a) + 1)..w /\ msgs[1].n < new[i].n
      BY <1>1, <2>1, <3>1, ZenonT(60) DEF StreamOK
    <3> QED BY <1>1, <2>2, <2>4, <3>2
  <2>7. \A x \in (s + Len(b) + 1)..w :
          \E i \in 1..Len(new) : new[i].kind = "write" /\ new[i].n = x
    <3> SUFFICES ASSUME NEW x \in (s + Len(b) + 1)..w
                 PROVE  \E i \in 1..Len(new) : new[i].kind = "write" /\ new[i].n = x
      OBVIOUS
    <3>1. x \in (s + Len(a) + 1)..w /\ x # s + Len(a) + 1
      BY <1>1, <2>4
    <3>2. PICK i \in 1..L : msgs[i].kind = "write" /\ msgs[i].n = x
      BY <3>1 DEF StreamOK
    <3>3. i # 1
      BY <2>2, <3>1, <3>2
    <3> QED BY <1>3, <3>2, <3>3
  <2>8. StreamOK(new, b, s, w)
    BY <1>4, <2>5, <2>6, <2>7 DEF StreamOK
  <2> QED BY <1>6, <2>3, <2>8, <2>9 DEF new
<1> QED BY <1>5, <1>6

\* What the three kinds of change do to the pending messages of a replica.
LEMMA PendingFacts ==
    ASSUME LinkType, NEW r \in Replicas
    PROVE  /\ Pending(r) \in Seq(FromMaster)
           /\ \A m \in FromMaster :
                down[r] \o Append(response_queue[r], m) = Append(Pending(r), m)
           /\ down[r] # <<>> =>
                /\ Pending(r) # <<>> /\ Head(Pending(r)) = Head(down[r])
                /\ Tail(down[r]) \o response_queue[r] = Tail(Pending(r))
           /\ response_queue[r] # <<>> =>
                Append(down[r], Head(response_queue[r])) \o Tail(response_queue[r]) = Pending(r)
<1>1. PICK d \in Seq(FromMaster) : d = down[r]
  BY DEF LinkType
<1>2. PICK q \in Seq(FromMaster) : q = response_queue[r]
  BY DEF LinkType
<1>3. d \o q \in Seq(FromMaster)
  OBVIOUS
<1>4. \A m \in FromMaster : d \o Append(q, m) = Append(d \o q, m)
  OBVIOUS
<1>5. d # <<>> => d \o q # <<>> /\ Head(d \o q) = Head(d) /\ Tail(d) \o q = Tail(d \o q)
  OBVIOUS
<1>6. q # <<>> => Append(d, Head(q)) \o Tail(q) = d \o q
  OBVIOUS
<1> QED BY <1>1, <1>2, <1>3, <1>4, <1>5, <1>6 DEF Pending

-----------------------------------------------------------------------------
(***************************************************************************)
(* The handshake.  A connected replica has asked, has its answer on the     *)
(* socket, waits for the answer to PSYNC, or follows the master.            *)
(***************************************************************************)
Questions == {<<"PING", "PING">>, <<"REPLCONF1", "REPLCONF">>,
              <<"REPLCONF2", "REPLCONF">>, <<"PSYNC", "PSYNC">>}

Newcomer(r) == r \notin slaves /\ response_queue[r] = <<>> /\ applied[r] = <<>>

Asks(r) ==
    /\ Newcomer(r) /\ down[r] = <<>>
    /\ \E s \in Questions : handshake_state[r] = s[1] /\ up[r] = <<Signal(s[2])>>

IsAnswered(r) ==
    /\ Newcomer(r) /\ up[r] = <<>>
    /\ \E s \in HandshakeSteps : handshake_state[r] = s[1] /\ down[r] = <<Signal(s[2])>>

Syncs(r) ==
    /\ r \in slaves /\ applied[r] = <<>> /\ up[r] = <<>>
    /\ handshake_state[r] = "PSYNC"
    /\ Len(Pending(r)) >= 2
    /\ Pending(r)[1].kind = "FULLRESYNC" /\ Pending(r)[2].kind = "RDB"
    /\ \A i \in 1..Len(Pending(r)) : i > 2 => Pending(r)[i].kind \in {"write", "GETACK"}

Follows(r) ==
    /\ r \in slaves
    /\ handshake_state[r] = "Established"
    /\ \A i \in 1..Len(up[r]) : up[r][i].kind = "ACK"
    /\ \A i \in 1..Len(Pending(r)) :
         /\ Pending(r)[i].kind \in {"RDB", "write", "GETACK"}
         /\ Pending(r)[i].kind = "RDB" => i = 1 /\ applied[r] = <<>>

ShapeInv(r) ==
    /\ r \notin connected => down[r] = <<>>
    /\ handshake_state[r] = "None" => r \notin connected /\ Newcomer(r)
    /\ r \in connected => Asks(r) \/ IsAnswered(r) \/ Syncs(r) \/ Follows(r)

StreamInv(r) == r \in slaves => StreamOK(Pending(r), applied[r], since[r], written)

LinkInv(r) == ShapeInv(r) /\ StreamInv(r)

\* A replica that a step does not concern.
Unconcerned(q) ==
    /\ q \in connected' <=> q \in connected
    /\ q \in slaves' <=> q \in slaves
    /\ up'[q] = up[q] /\ down'[q] = down[q] /\ response_queue'[q] = response_queue[q]
    /\ handshake_state'[q] = handshake_state[q] /\ applied'[q] = applied[q]
    /\ since'[q] = since[q]

\* Its invariant is kept, if it is no slave or no write is made.
LEMMA UnconcernedKeeps ==
    ASSUME NEW q \in Replicas, LinkInv(q), Unconcerned(q), q \in slaves => written' = written
    PROVE  LinkInv(q)'
<1>1. Pending(q)' = Pending(q)
  BY DEF Pending, Unconcerned
<1>2. Newcomer(q)' = Newcomer(q)
  BY DEF Newcomer, Unconcerned
<1>3. ShapeInv(q)'
  BY <1>1, <1>2 DEF LinkInv, ShapeInv, Asks, IsAnswered, Syncs, Follows, Unconcerned
<1>4. StreamInv(q)'
  BY <1>1 DEF LinkInv, StreamInv, Unconcerned
<1> QED BY <1>3, <1>4 DEF LinkInv

\* The first message of a replica says which state it is in.
LEMMA UpSays ==
    ASSUME LinkType, NEW r \in connected, LinkInv(r), up[r] # <<>>
    PROVE  /\ Head(up[r]).kind # "ACK" =>
                Asks(r) /\ Tail(up[r]) = <<>>
                /\ \E s \in Questions : handshake_state[r] = s[1] /\ Head(up[r]).kind = s[2]
           /\ Head(up[r]).kind = "ACK" => Follows(r)
<1>1. \A kind : Signal(kind).kind = kind
  BY DEF Signal
<1>2. \A m : <<m>> # <<>> /\ Head(<<m>>) = m /\ Tail(<<m>>) = <<>>
  OBVIOUS
<1>3. CASE Asks(r)
  <2>1. PICK s \in Questions : handshake_state[r] = s[1] /\ up[r] = <<Signal(s[2])>>
    BY <1>3 DEF Asks
  <2>2. Head(up[r]).kind = s[2] /\ Tail(up[r]) = <<>>
    BY <1>1, <1>2, <2>1
  <2>3. s[2] # "ACK"
    BY <2>1 DEF Questions
  <2> QED BY <1>3, <2>1, <2>2, <2>3
<1>4. CASE Follows(r)
  <2>1. r \in Replicas /\ up[r] \in Seq(FromReplica)
    BY DEF LinkType
  <2>2. Head(up[r]) = up[r][1] /\ 1 \in 1..Len(up[r])
    BY <2>1
  <2> QED BY <1>4, <2>2 DEF Follows
<1>5. CASE IsAnswered(r) \/ Syncs(r)
  BY <1>5 DEF IsAnswered, Syncs
<1> QED BY <1>3, <1>4, <1>5 DEF LinkInv, ShapeInv

\* So does the first message to it.
LEMMA DownSays ==
    ASSUME LinkType, NEW r \in connected, LinkInv(r), down[r] # <<>>
    PROVE  LET kind == Head(down[r]).kind IN
           \/ IsAnswered(r) /\ Tail(down[r]) = <<>>
                /\ \E s \in HandshakeSteps : handshake_state[r] = s[1] /\ kind = s[2]
           \/ Syncs(r) /\ kind = "FULLRESYNC"
           \/ Follows(r) /\ kind \in {"RDB", "write", "GETACK"}
                /\ (kind = "RDB" => applied[r] = <<>>)
<1>0. r \in Replicas
  BY DEF LinkType
<1>1. \A kind : Signal(kind).kind = kind
  BY DEF Signal
<1>2. \A m : <<m>> # <<>> /\ Head(<<m>>) = m /\ Tail(<<m>>) = <<>>
  OBVIOUS
<1>3. /\ Pending(r) \in Seq(FromMaster) /\ Pending(r) # <<>>
      /\ Head(Pending(r)) = Head(down[r])
  BY <1>0, PendingFacts
<1>4. Pending(r)[1] = Head(down[r]) /\ 1 \in 1..Len(Pending(r))
  BY <1>3
<1>5. CASE IsAnswered(r)
  <2>1. PICK s \in HandshakeSteps : handshake_state[r] = s[1] /\ down[r] = <<Signal(s[2])>>
    BY <1>5 DEF IsAnswered
  <2>2. Head(down[r]).kind = s[2] /\ Tail(down[r]) = <<>>
    BY <1>1, <1>2, <2>1
  <2> QED BY <1>5, <2>1, <2>2
<1>6. CASE Syncs(r)
  BY <1>4, <1>6 DEF Syncs
<1>7. CASE Follows(r)
  BY <1>4, <1>7 DEF Follows
<1>8. ~Asks(r)
  BY DEF Asks
<1> QED BY <1>5, <1>6, <1>7, <1>8 DEF LinkInv, ShapeInv

\* A replica that reads a message keeps its invariant.
LEMMA ReplicaReads ==
    ASSUME TypeOK, NEW r \in Replicas, LinkInv(r),
           handshake_to_master(r) \/ ReplicaApplies(r) \/ ReplicaAcks(r)
    PROVE  LinkInv(r)'
<1>0. LinkType /\ ReplicaType /\ WriteType
  BY TypeParts
<1>1. /\ r \in connected /\ down[r] # <<>> /\ down' = [down EXCEPT ![r] = Tail(@)]
      /\ UNCHANGED <<connected, slaves, since, response_queue, written>>
  BY DEF handshake_to_master, ReplicaApplies, ReplicaAcks, Receives, write_vars
<1>2. PICK p \in Seq(FromMaster) : p = Pending(r)
  BY <1>0, PendingFacts
<1>3. /\ p # <<>> /\ Head(p) = Head(down[r]) /\ Pending(r)' = Tail(p)
      /\ down'[r] = Tail(down[r])
  <2>1. down'[r] = Tail(down[r])
    BY <1>0, <1>1 DEF LinkType
  <2> QED BY <1>0, <1>1, <1>2, <2>1, PendingFacts DEF Pending
<1>4. /\ Len(p) \in Nat /\ Len(Tail(p)) = Len(p) - 1 /\ 1 \in 1..Len(p) /\ p[1] = Head(p)
      /\ \A i \in 1..Len(Tail(p)) : i + 1 \in 1..Len(p) /\ Tail(p)[i] = p[i + 1]
  BY <1>3
<1>5. CASE /\ IsAnswered(r) /\ Tail(down[r]) = <<>>
           /\ \E s \in HandshakeSteps : handshake_state[r] = s[1] /\ Head(down[r]).kind = s[2]
  <2>1. handshake_state[r] \in {"PING", "REPLCONF1", "REPLCONF2"}
    BY <1>5 DEF HandshakeSteps
  <2>2. PICK s \in HandshakeSteps :
          /\ handshake_state' = [handshake_state EXCEPT ![r] = s[3]]
          /\ up' = [up EXCEPT ![r] = Append(@, Signal(s[4]))]
          /\ applied' = applied
    BY <2>1 DEF handshake_to_master, ReplicaApplies, ReplicaAcks, Replies
  <2>3. handshake_state'[r] = s[3] /\ up'[r] = <<Signal(s[4])>> /\ down'[r] = <<>>
    <3>1. up[r] = <<>>
      BY <1>5 DEF IsAnswered
    <3>2. \A m : Append(<<>>, m) = <<m>>
      OBVIOUS
    <3> QED BY <1>0, <1>3, <1>5, <2>2, <3>1, <3>2 DEF LinkType, ReplicaType
  <2>4. <<s[3], s[4]>> \in Questions /\ s[3] # "None"
    BY DEF HandshakeSteps, Questions
  <2>5. Newcomer(r)' /\ Newcomer(r)
    BY <1>1, <1>5, <2>2 DEF IsAnswered, Newcomer
  <2>6. Asks(r)'
    <3>1. PICK z \in Questions : z = <<s[3], s[4]>>
      BY <2>4
    <3>2. handshake_state'[r] = z[1] /\ up'[r] = <<Signal(z[2])>>
      BY <2>3, <3>1
    <3> QED BY <2>3, <2>5, <3>2 DEF Asks
  <2> QED BY <1>1, <2>3, <2>4, <2>5, <2>6 DEF LinkInv, ShapeInv, StreamInv, Newcomer
<1>6. CASE Syncs(r) /\ Head(down[r]).kind = "FULLRESYNC"
  <2>1. /\ handshake_state' = [handshake_state EXCEPT ![r] = "Established"]
        /\ UNCHANGED <<up, applied>>
    BY <1>6 DEF handshake_to_master, ReplicaApplies, ReplicaAcks, Receives, HandshakeSteps,
                Syncs
  <2>2. handshake_state'[r] = "Established"
    BY <1>0, <2>1 DEF ReplicaType
  <2>3. /\ Len(p) >= 2 /\ p[2].kind = "RDB" /\ applied[r] = <<>> /\ up[r] = <<>> /\ r \in slaves
        /\ \A i \in 1..Len(p) : i > 2 => p[i].kind \in {"write", "GETACK"}
    BY <1>2, <1>6 DEF Syncs
  <2>4. \A i \in 1..Len(Tail(p)) :
          /\ Tail(p)[i].kind \in {"RDB", "write", "GETACK"}
          /\ Tail(p)[i].kind = "RDB" => i = 1
    <3> SUFFICES ASSUME NEW i \in 1..Len(Tail(p))
                 PROVE  /\ Tail(p)[i].kind \in {"RDB", "write", "GETACK"}
                        /\ Tail(p)[i].kind = "RDB" => i = 1
      OBVIOUS
    <3>1. CASE i = 1
      BY <1>4, <2>3, <3>1
    <3>2. CASE i # 1
      <4>1. i + 1 \in 1..Len(p) /\ i + 1 > 2 /\ Tail(p)[i] = p[i + 1]
        BY <1>4, <3>2
      <4> QED BY <2>3, <4>1
    <3> QED BY <3>1, <3>2
  <2>5. Follows(r)'
    BY <1>1, <1>3, <2>1, <2>2, <2>3, <2>4 DEF Follows
  <2>6. StreamOK(Tail(p), applied[r], since[r], written)
    <3>1. StreamOK(p, applied[r], since[r], written)
      BY <1>2, <2>3 DEF LinkInv, StreamInv
    <3>2. Head(p).kind # "write"
      BY <1>3, <1>6
    <3>3. applied[r] \in Seq(Nat) /\ since[r] \in Nat /\ written \in Nat
      BY <1>0 DEF ReplicaType, WriteType
    <3> QED BY <1>3, <3>1, <3>2, <3>3, StreamRead
  <2>7. StreamInv(r)'
    BY <1>1, <1>3, <2>1, <2>6 DEF StreamInv
  <2> QED BY <1>1, <2>2, <2>5, <2>7 DEF LinkInv, ShapeInv
<1>7. CASE /\ Follows(r) /\ Head(down[r]).kind \in {"RDB", "write", "GETACK"}
           /\ (Head(down[r]).kind = "RDB" => applied[r] = <<>>)
  <2>1. r \in slaves /\ handshake_state[r] = "Established"
    BY <1>7 DEF Follows
  <2>2. /\ handshake_state'[r] = "Established"
        /\ \/ up'[r] = up[r]
           \/ up'[r] = Append(up[r], Ack(replica_offset[r]))
        /\ applied'[r] = IF Head(p).kind = "write" THEN Append(applied[r], Head(p).n)
                         ELSE applied[r]
    <3>1. CASE handshake_to_master(r)
      <4>1. Head(down[r]).kind = "RDB" /\ UNCHANGED <<up, replica_vars>>
        BY <2>1, <3>1 DEF handshake_to_master, HandshakeSteps, Receives
      <4> QED BY <1>3, <2>1, <4>1 DEF replica_vars
    <3>2. CASE ReplicaApplies(r)
      BY <1>0, <1>3, <2>1, <3>2 DEF ReplicaApplies, Receives, ReplicaType
    <3>3. CASE ReplicaAcks(r)
      BY <1>0, <1>3, <2>1, <3>3 DEF ReplicaAcks, Receives, Replies, LinkType
    <3> QED BY <3>1, <3>2, <3>3
  <2>3. \A i \in 1..Len(up'[r]) : up'[r][i].kind = "ACK"
    <3>1. \A i \in 1..Len(up[r]) : up[r][i].kind = "ACK"
      BY <1>7 DEF Follows
    <3>2. CASE up'[r] = up[r]
      BY <3>1, <3>2
    <3>3. CASE up'[r] = Append(up[r], Ack(replica_offset[r]))
      <4>1. PICK u \in Seq(FromReplica) : u = up[r]
        BY <1>0 DEF LinkType
      <4>2. PICK m \in FromReplica : m = Ack(replica_offset[r])
        BY <1>0, MessageTypes DEF ReplicaType
      <4>3. m.kind = "ACK"
        BY <4>2 DEF Ack
      <4>4. \A i \in 1..Len(Append(u, m)) :
              Append(u, m)[i] = m \/ (i \in 1..Len(u) /\ Append(u, m)[i] = u[i])
        OBVIOUS
      <4> QED BY <3>1, <3>3, <4>1, <4>2, <4>3, <4>4
    <3> QED BY <2>2, <3>2, <3>3
  <2>4. \A i \in 1..Len(Tail(p)) : Tail(p)[i].kind \in {"write", "GETACK"}
    <3> SUFFICES ASSUME NEW i \in 1..Len(Tail(p))
                 PROVE  Tail(p)[i].kind \in {"write", "GETACK"}
      OBVIOUS
    <3>1. i + 1 \in 1..Len(p) /\ i + 1 # 1 /\ Tail(p)[i] = p[i + 1]
      BY <1>4
    <3> QED BY <1>2, <1>7, <3>1 DEF Follows
  <2>5. Follows(r)'
    BY <1>1, <1>3, <2>1, <2>2, <2>3, <2>4 DEF Follows
  <2>6. StreamOK(Tail(p), applied'[r], since[r], written)
    <3>1. StreamOK(p, applied[r], since[r], written)
      BY <1>2, <2>1 DEF LinkInv, StreamInv
    <3>2. applied[r] \in Seq(Nat) /\ since[r] \in Nat /\ written \in Nat
      BY <1>0 DEF ReplicaType, WriteType
    <3> QED BY <1>3, <2>2, <3>1, <3>2, StreamRead
  <2>7. StreamInv(r)'
    BY <1>1, <1>3, <2>6 DEF StreamInv
  <2> QED BY <1>1, <2>2, <2>5, <2>7 DEF LinkInv, ShapeInv
<1> QED BY <1>0, <1>1, <1>5, <1>6, <1>7, DownSays

\* A replica whose message the master reads keeps its invariant.
LEMMA MasterReads ==
    ASSUME TypeOK, NEW r \in Replicas, LinkInv(r),
           MasterPings(r) \/ MasterReplconf(r) \/ cmd_psync(r) \/ MasterAck(r)
    PROVE  LinkInv(r)'
<1>0. LinkType /\ ReplicaType /\ WriteType
  BY TypeParts
<1>1. /\ r \in connected /\ up[r] # <<>> /\ up' = [up EXCEPT ![r] = Tail(@)]
      /\ UNCHANGED <<connected, response_queue, written, handshake_state, applied>>
  BY DEF MasterPings, MasterReplconf, cmd_psync, MasterAck, ReadsFrom, write_vars, replica_vars
<1>2. up'[r] = Tail(up[r])
  BY <1>0, <1>1 DEF LinkType
<1>3. \A m : <<>> \o m = m
  OBVIOUS
<1>4. ASSUME NEW answer, Head(up[r]).kind # "ACK",
             down' = [down EXCEPT ![r] = @ \o <<Signal(answer)>>], slaves' = slaves,
             \A s \in Questions : Head(up[r]).kind = s[2] =>
                 \E z \in HandshakeSteps : z[1] = s[1] /\ z[2] = answer
      PROVE  LinkInv(r)'
  <2>1. /\ Asks(r) /\ Tail(up[r]) = <<>>
        /\ \E s \in Questions : handshake_state[r] = s[1] /\ Head(up[r]).kind = s[2]
    BY <1>0, <1>1, <1>4, UpSays
  <2>2. Newcomer(r) /\ Newcomer(r)' /\ down[r] = <<>>
    BY <1>1, <1>4, <2>1 DEF Asks, Newcomer
  <2>3. down'[r] = <<Signal(answer)>>
    <3>1. down'[r] = down[r] \o <<Signal(answer)>>
      BY <1>0, <1>4 DEF LinkType
    <3> QED BY <2>2, <3>1
  <2>4. \E z \in HandshakeSteps : handshake_state'[r] = z[1] /\ down'[r] = <<Signal(z[2])>>
    BY <1>1, <1>4, <2>1, <2>3
  <2>5. IsAnswered(r)'
    BY <1>2, <2>1, <2>2, <2>4 DEF IsAnswered
  <2>6. handshake_state'[r] # "None"
    BY <2>4 DEF HandshakeSteps
  <2> QED BY <1>1, <2>2, <2>5, <2>6 DEF LinkInv, ShapeInv, StreamInv, Newcomer
<1>5. CASE MasterPings(r)
  <2>1. \A s \in Questions : s[2] = "PING" => \E z \in HandshakeSteps : z[1] = s[1] /\ z[2] = "PONG"
    BY DEF Questions, HandshakeSteps
  <2> QED BY <1>4, <1>5, <2>1, ZenonT(60) DEF MasterPings, ReadsFrom, Answers
<1>6. CASE MasterReplconf(r)
  <2>1. \A s \in Questions : s[2] = "REPLCONF" => \E z \in HandshakeSteps : z[1] = s[1] /\ z[2] = "OK"
    BY DEF Questions, HandshakeSteps
  <2> QED BY <1>4, <1>6, <2>1, ZenonT(60) DEF MasterReplconf, ReadsFrom, Answers
<1>7. CASE cmd_psync(r)
  <2>1. /\ Asks(r) /\ Tail(up[r]) = <<>>
        /\ \E s \in Questions : handshake_state[r] = s[1] /\ s[2] = "PSYNC"
    BY <1>0, <1>1, <1>7, UpSays DEF cmd_psync, ReadsFrom
  <2>2. /\ down[r] = <<>> /\ response_queue[r] = <<>> /\ applied[r] = <<>>
        /\ handshake_state[r] = "PSYNC"
    BY <2>1 DEF Asks, Newcomer, Questions
  <2>3. PICK a \in FromMaster : a = Signal("FULLRESYNC") /\ a.kind = "FULLRESYNC"
    BY MessageTypes DEF Signal
  <2>4. PICK b \in FromMaster : b = Signal("RDB") /\ b.kind = "RDB"
    BY MessageTypes DEF Signal
  <2>5. /\ slaves' = slaves \cup {r} /\ since'[r] = written
        /\ down'[r] = down[r] \o <<a, b>>
    BY <1>0, <1>7, <2>3, <2>4 DEF cmd_psync, Answers, LinkType, ReplicaType
  <2>6. <<>> \o <<a, b>> = <<a, b>> /\ <<a, b>> \o <<>> = <<a, b>>
    OBVIOUS
  <2>7. Pending(r)' = <<a, b>>
    BY <1>1, <2>2, <2>5, <2>6 DEF Pending
  <2>8. /\ Len(<<a, b>>) = 2 /\ <<a, b>>[1] = a /\ <<a, b>>[2] = b
        /\ \A i \in 1..2 : ~(i > 2) /\ (i = 1 \/ i = 2)
    OBVIOUS
  <2>9. Syncs(r)'
    <3>1. /\ r \in slaves' /\ applied'[r] = <<>> /\ up'[r] = <<>>
          /\ handshake_state'[r] = "PSYNC"
      BY <1>1, <1>2, <2>1, <2>2, <2>5
    <3>2. PICK p : p = <<a, b>>
      OBVIOUS
    <3>3. /\ Len(p) >= 2 /\ p[1].kind = "FULLRESYNC" /\ p[2].kind = "RDB"
          /\ \A i \in 1..Len(p) : i > 2 => p[i].kind \in {"write", "GETACK"}
      BY <2>3, <2>4, <2>8, <3>2
    <3>4. Pending(r)' = p
      BY <2>7, <3>2
    <3> QED BY <3>1, <3>3, <3>4 DEF Syncs
  <2>10. StreamOK(<<a, b>>, <<>>, written, written)
    <3>1. written \in Nat /\ Len(<<>>) = 0
      BY <1>0 DEF WriteType
    <3>2. (written + Len(<<>>) + 1)..written = {} /\ written + Len(<<>>) <= written
      BY <3>1
    <3>3. <<>> = [i \in 1..Len(<<>>) |-> written + i]
      BY <3>1
    <3>4. \A i \in 1..Len(<<a, b>>) : <<a, b>>[i].kind # "write"
      BY <2>3, <2>4, <2>8
    <3> QED BY <3>2, <3>3, <3>4 DEF StreamOK
  <2>11. StreamInv(r)'
    BY <1>1, <2>2, <2>5, <2>7, <2>10 DEF StreamInv
  <2> QED BY <1>1, <2>2, <2>9, <2>11 DEF LinkInv, ShapeInv
<1>8. CASE MasterAck(r)
  <2>1. UNCHANGED <<slaves, since, down>> /\ Head(up[r]).kind = "ACK"
    BY <1>8 DEF MasterAck, ReadsFrom
  <2>2. Follows(r)
    BY <1>0, <1>1, <2>1, UpSays
  <2>3. \A i \in 1..Len(up'[r]) : up'[r][i].kind = "ACK"
    <3>1. PICK u \in Seq(FromReplica) : u = up[r]
      BY <1>0 DEF LinkType
    <3>2. \A i \in 1..Len(Tail(u)) : i + 1 \in 1..Len(u) /\ Tail(u)[i] = u[i + 1]
      BY <1>1, <3>1
    <3> QED BY <1>2, <2>2, <3>1, <3>2 DEF Follows
  <2>4. Pending(r)' = Pending(r)
    BY <1>1, <2>1 DEF Pending
  <2>5. Follows(r)'
    BY <1>1, <2>1, <2>2, <2>3, <2>4 DEF Follows
  <2>6. handshake_state'[r] # "None"
    BY <1>1, <2>2 DEF Follows
  <2> QED BY <1>1, <2>1, <2>4, <2>5, <2>6 DEF LinkInv, ShapeInv, StreamInv
<1> QED BY <1>5, <1>6, <1>7, <1>8

\* A new replica and one whose connection ends.
LEMMA ComesOrGoes ==
    ASSUME TypeOK, NEW r \in Replicas, LinkInv(r), StartReplica(r) \/ Disconnect(r)
    PROVE  LinkInv(r)'
<1>0. LinkType /\ ReplicaType
  BY TypeParts
<1>1. CASE StartReplica(r)
  <2>1. Newcomer(r) /\ r \notin connected /\ down[r] = <<>>
    BY <1>1 DEF StartReplica, LinkInv, ShapeInv
  <2>2. /\ handshake_state'[r] = "PING" /\ up'[r] = <<Signal("PING")>>
        /\ UNCHANGED <<slaves, since, response_queue, down, applied, written>>
        /\ connected' = connected \cup {r}
    BY <1>0, <1>1 DEF StartReplica, write_vars, LinkType, ReplicaType
  <2>3. Newcomer(r)'
    BY <2>1, <2>2 DEF Newcomer
  <2>4. PICK s \in Questions : s = <<"PING", "PING">>
    BY DEF Questions
  <2>5. Asks(r)'
    BY <2>1, <2>2, <2>3, <2>4 DEF Asks
  <2> QED BY <2>1, <2>2, <2>3, <2>5 DEF LinkInv, ShapeInv, StreamInv, Newcomer
<1>2. CASE Disconnect(r)
  <2>1. /\ r \in connected /\ r \notin connected' /\ r \notin slaves' /\ down'[r] = <<>>
        /\ handshake_state' = handshake_state
    BY <1>0, <1>2 DEF Disconnect, LinkType, replica_vars
  <2>2. handshake_state[r] # "None"
    BY <2>1 DEF LinkInv, ShapeInv
  <2> QED BY <2>1, <2>2 DEF LinkInv, ShapeInv, StreamInv
<1> QED BY <1>1, <1>2

\* A flush moves a message from the queue to the socket; the stream stays.
LEMMA FlushKeepsLink ==
    ASSUME TypeOK, NEW r \in Replicas, LinkInv(r), Flush(r)
    PROVE  LinkInv(r)'
<1>0. LinkType
  BY TypeParts
<1>1. /\ response_queue[r] # <<>> /\ response_queue'[r] = Tail(response_queue[r])
      /\ down'[r] = IF r \in connected THEN Append(down[r], Head(response_queue[r]))
                    ELSE down[r]
      /\ UNCHANGED <<connected, slaves, since, up, handshake_state, applied, written>>
  BY <1>0 DEF Flush, LinkType, replica_vars, write_vars
<1>2. ~Newcomer(r)
  BY <1>1 DEF Newcomer
<1>3. CASE r \notin connected
  <2>1. r \notin slaves
    BY <1>0, <1>3 DEF LinkType
  <2> QED BY <1>1, <1>2, <1>3, <2>1 DEF LinkInv, ShapeInv, StreamInv
<1>4. CASE r \in connected
  <2>1. Pending(r)' = Pending(r)
    BY <1>0, <1>1, <1>4, PendingFacts DEF Pending
  <2>2. Syncs(r) \/ Follows(r)
    BY <1>2, <1>4 DEF LinkInv, ShapeInv, Asks, IsAnswered
  <2>3. Syncs(r)' \/ Follows(r)'
    BY <1>1, <2>1, <2>2 DEF Syncs, Follows
  <2> QED BY <1>1, <1>2, <1>4, <2>1, <2>3 DEF LinkInv, ShapeInv, StreamInv
<1> QED BY <1>3, <1>4

\* A broadcast extends the stream of every slave, by a write or by a GETACK.
LEMMA BroadcastKeepsLink ==
    ASSUME TypeOK, NEW r \in Replicas, LinkInv(r), LinkUntouched, NEW m \in FromMaster,
           Broadcast(m),
           \/ m = Write(written + 1) /\ written' = written + 1
           \/ m.kind = "GETACK" /\ written' = written
    PROVE  LinkInv(r)'
<1>0. LinkType /\ ReplicaType /\ WriteType
  BY TypeParts
<1>1. UNCHANGED <<connected, slaves, since, up, down, handshake_state, applied>>
  BY DEF LinkUntouched, link_vars, replica_vars
<1>2. CASE r \notin slaves
  <2>1. response_queue'[r] = response_queue[r]
    BY <1>2 DEF Broadcast
  <2>2. Unconcerned(r)
    BY <1>1, <2>1 DEF Unconcerned
  <2> QED BY <1>2, <2>2, UnconcernedKeeps
<1>3. CASE r \in slaves
  <2>1. PICK p \in Seq(FromMaster) : p = Pending(r)
    BY <1>0, PendingFacts
  <2>2. Pending(r)' = Append(p, m)
    <3>1. response_queue'[r] = Append(response_queue[r], m)
      BY <1>3 DEF Broadcast
    <3> QED BY <1>0, <1>1, <2>1, <3>1, PendingFacts DEF Pending
  <2>3. m.kind \in {"write", "GETACK"}
    BY DEF Write
  <2>4. /\ Len(p) \in Nat /\ Len(Append(p, m)) = Len(p) + 1
        /\ \A i \in 1..Len(p) : i \in 1..Len(Append(p, m)) /\ Append(p, m)[i] = p[i]
        /\ \A i \in 1..Len(Append(p, m)) : i \in 1..Len(p) \/ Append(p, m)[i] = m
    OBVIOUS
  <2>5. r \in connected /\ ~Newcomer(r)
    BY <1>0, <1>3 DEF LinkType, Newcomer
  <2>6. ASSUME Syncs(r) PROVE Syncs(r)'
    <3>1. /\ Len(p) >= 2 /\ p[1].kind = "FULLRESYNC" /\ p[2].kind = "RDB"
          /\ \A i \in 1..Len(p) : i > 2 => p[i].kind \in {"write", "GETACK"}
      BY <2>1, <2>6 DEF Syncs
    <3>2. /\ Append(p, m)[1] = p[1] /\ Append(p, m)[2] = p[2] /\ Len(Append(p, m)) >= 2
      BY <2>4, <3>1
    <3>3. \A i \in 1..Len(Append(p, m)) :
             i > 2 => Append(p, m)[i].kind \in {"write", "GETACK"}
      BY <2>3, <2>4, <3>1
    <3>4. PICK q : q = Append(p, m)
      OBVIOUS
    <3> QED BY <1>1, <2>2, <2>6, <3>1, <3>2, <3>3, <3>4 DEF Syncs
  <2>7. ASSUME Follows(r) PROVE Follows(r)'
    <3>1. \A i \in 1..Len(Append(p, m)) :
             /\ Append(p, m)[i].kind \in {"RDB", "write", "GETACK"}
             /\ Append(p, m)[i].kind = "RDB" => i = 1 /\ applied[r] = <<>>
      BY <2>1, <2>3, <2>4, <2>7 DEF Follows
    <3>2. PICK q : q = Append(p, m)
      OBVIOUS
    <3> QED BY <1>1, <2>2, <2>7, <3>1, <3>2 DEF Follows
  <2>8. ShapeInv(r)'
    BY <1>1, <2>5, <2>6, <2>7 DEF LinkInv, ShapeInv, Asks, IsAnswered
  <2>9. StreamInv(r)'
    <3>1. StreamOK(p, applied[r], since[r], written)
      BY <1>3, <2>1 DEF LinkInv, StreamInv
    <3>2. applied[r] \in Seq(Nat) /\ since[r] \in Nat /\ written \in Nat
      BY <1>0 DEF ReplicaType, WriteType
    <3>3. StreamOK(Append(p, m), applied[r], since[r], written')
      BY <3>1, <3>2, StreamGrows, StreamPolled
    <3> QED BY <1>1, <2>2, <3>3 DEF StreamInv
  <2> QED BY <2>8, <2>9 DEF LinkInv
<1> QED BY <1>2, <1>3

\* Every step keeps the handshake and the stream of every replica.
LEMMA LinkStep ==
    ASSUME TypeOK, \A r \in Replicas : LinkInv(r), [Next]_vars
    PROVE  \A r \in Replicas : LinkInv(r)'
<1>0. LinkType /\ ReplicaType /\ WriteType
  BY TypeParts
<1>1. ASSUME NEW r \in Replicas, NEW q \in Replicas, q # r,
             \/ StartReplica(r) \/ handshake_to_master(r) \/ ReplicaApplies(r)
             \/ ReplicaAcks(r) \/ MasterPings(r) \/ MasterReplconf(r) \/ cmd_psync(r)
             \/ MasterAck(r) \/ Disconnect(r) \/ Flush(r)
      PROVE  LinkInv(q)'
  <2>1. written' = written
    BY <1>1 DEF StartReplica, handshake_to_master, Receives, ReplicaApplies, ReplicaAcks,
                MasterPings, MasterReplconf, cmd_psync, MasterAck, ReadsFrom, Disconnect, Flush,
                write_vars
  <2>2. Unconcerned(q)
    <3> USE DEF Unconcerned, LinkType, ReplicaType, replica_vars, link_vars
    <3>1. CASE StartReplica(r) \/ Disconnect(r) \/ Flush(r)
      BY <1>0, <1>1, <3>1 DEF StartReplica, Disconnect, Flush
    <3>2. CASE handshake_to_master(r) \/ ReplicaApplies(r) \/ ReplicaAcks(r)
      BY <1>0, <1>1, <3>2 DEF handshake_to_master, ReplicaApplies, ReplicaAcks, Receives,
                              Replies
    <3>3. CASE MasterPings(r) \/ MasterReplconf(r) \/ cmd_psync(r) \/ MasterAck(r)
      BY <1>0, <1>1, <3>3 DEF MasterPings, MasterReplconf, cmd_psync, MasterAck, ReadsFrom,
                              Answers
    <3> QED BY <1>1, <3>1, <3>2, <3>3
  <2> QED BY <2>1, <2>2, UnconcernedKeeps
<1>2. ASSUME NEW r \in Replicas,
             \/ StartReplica(r) \/ handshake_to_master(r) \/ ReplicaApplies(r)
             \/ ReplicaAcks(r) \/ MasterPings(r) \/ MasterReplconf(r) \/ cmd_psync(r)
             \/ MasterAck(r) \/ Disconnect(r) \/ Flush(r)
      PROVE  \A q \in Replicas : LinkInv(q)'
  <2>1. LinkInv(r)'
    BY <1>2, ReplicaReads, MasterReads, ComesOrGoes, FlushKeepsLink
  <2> QED BY <1>1, <1>2, <2>1
<1>3. ASSUME LinkUntouched, UNCHANGED <<response_queue, written>>, NEW q \in Replicas
      PROVE  LinkInv(q)'
  <2>1. Unconcerned(q)
    BY <1>3 DEF LinkUntouched, link_vars, replica_vars, Unconcerned
  <2> QED BY <1>3, <2>1, UnconcernedKeeps
<1>4. ASSUME NEW n \in Required, NEW timed \in BOOLEAN, cmd_wait(n, timed), NEW q \in Replicas
      PROVE  LinkInv(q)'
  <2>1. PICK m \in FromMaster : m = Signal("GETACK") /\ m.kind = "GETACK"
    BY MessageTypes DEF Signal
  <2>2. LinkUntouched /\ Broadcast(m) /\ written' = written
    BY <1>4, <2>1 DEF cmd_wait, LinkUntouched, write_vars
  <2> QED BY <2>1, <2>2, BroadcastKeepsLink
<1>5. ASSUME NEW i \in 1..MaxWaits, Expire(i), NEW q \in Replicas
      PROVE  LinkInv(q)'
  BY <1>3, <1>5 DEF Expire, LinkUntouched, write_vars
<1>6. ASSUME ExecuteWrite, NEW q \in Replicas
      PROVE  LinkInv(q)'
  <2>1. LinkUntouched
    BY <1>6 DEF ExecuteWrite, LinkUntouched
  <2>2. CASE written' = written + 1 /\ Broadcast(Write(written + 1))
    <3>1. PICK m \in FromMaster : m = Write(written + 1)
      BY <1>0, MessageTypes DEF WriteType
    <3> QED BY <2>1, <2>2, <3>1, BroadcastKeepsLink
  <2>3. CASE UNCHANGED <<written, response_queue>>
    BY <1>3, <2>1, <2>3
  <2> QED BY <1>6, <2>2, <2>3 DEF ExecuteWrite
<1>7. ASSUME LinkUntouched, UNCHANGED <<response_queue, write_vars>>, NEW q \in Replicas
      PROVE  LinkInv(q)'
  BY <1>3, <1>7 DEF write_vars
<1> QED BY <1>2, <1>4, <1>5, <1>6, <1>7, Steps

-----------------------------------------------------------------------------
(***************************************************************************)
(* The byte counts.  The master counts at least the bytes of the writes it  *)
(* propagates, a replica exactly those of the writes it has applied, until  *)
(* it has answered a first GETACK.                                          *)
(***************************************************************************)
Bytes(n) == WriteBytes * n

\* The bytes of n writes, by n.
LEMMA BytesFacts ==
    /\ Bytes(0) = 0
    /\ \A n \in Nat : Bytes(n) \in Nat /\ Bytes(n + 1) = Bytes(n) + WriteBytes
    /\ \A m, n \in Nat : Bytes(m) >= Bytes(n) => m >= n
<1>0. WriteBytes \in Nat /\ WriteBytes >= 1
  BY ReplicationAssumption
<1>1. Bytes(0) = 0
  BY <1>0 DEF Bytes
<1>2. \A n \in Nat : Bytes(n) \in Nat /\ Bytes(n + 1) = Bytes(n) + WriteBytes
  BY <1>0 DEF Bytes
<1>3. ASSUME NEW m \in Nat, NEW n \in Nat, Bytes(m) >= Bytes(n)
      PROVE  m >= n
  <2> SUFFICES ASSUME m < n PROVE FALSE
    OBVIOUS
  <2>1. PICK d \in Nat : n = m + d /\ d >= 1
    <3>1. n - m \in Nat /\ n = m + (n - m) /\ n - m >= 1
      OBVIOUS
    <3> QED BY <3>1
  <2>2. WriteBytes * (m + d) = WriteBytes * m + WriteBytes * d
    BY <1>0
  <2>3. WriteBytes * d >= 1 /\ WriteBytes * d \in Nat
    BY <1>0, <2>1
  <2> QED BY <1>0, <1>2, <1>3, <2>1, <2>2, <2>3 DEF Bytes
<1> QED BY <1>1, <1>2, <1>3

\* The master's count and the snapshots taken of it.
MasterCounts ==
    /\ offset >= Bytes(written)
    /\ \A t \in DOMAIN store : store[t].offset_snapshot >= Bytes(asked[t])

\* The count of a replica, and of the first ACK while it is on its way.
ReplicaCounts(r) ==
    /\ since[r] <= written
    /\ polled[r] = 0 => replica_offset[r] = Bytes(Len(applied[r]))
    /\ \A i \in 1..Len(up[r]) : up[r][i].kind = "ACK" =>
         /\ polled[r] # 0
         /\ polled[r] = 1 => up[r][i].offset <= Bytes(Len(applied[r]))

CountInv ==
    /\ MasterCounts
    /\ \A r \in Replicas : ReplicaCounts(r)
    /\ CountedHasReached

\* A step of the system that makes no WAIT, no ACK, no expiry and no write.
OfNoWait(r) ==
    \/ StartReplica(r) \/ handshake_to_master(r) \/ ReplicaApplies(r) \/ ReplicaAcks(r)
    \/ MasterPings(r) \/ MasterReplconf(r) \/ cmd_psync(r) \/ Disconnect(r) \/ Flush(r)

\* It leaves the registry and the master's count alone.
LEMMA OfNoWaitKeeps ==
    ASSUME NEW r \in Replicas, OfNoWait(r)
    PROVE  UNCHANGED <<wait_vars, write_vars>>
BY DEF OfNoWait, StartReplica, handshake_to_master, Receives, ReplicaApplies, ReplicaAcks,
       MasterPings, MasterReplconf, cmd_psync, ReadsFrom, Disconnect, Flush

\* An ACK changes no snapshot.
LEMMA AckKeepsSnapshots ==
    ASSUME WaitType, WaitInv, NEW r \in Replicas, MasterAck(r)
    PROVE  /\ DOMAIN store' \subseteq DOMAIN store /\ UNCHANGED <<asked, write_vars>>
           /\ \A t \in DOMAIN store' : store'[t].offset_snapshot = store[t].offset_snapshot
<1>1. UNCHANGED write_vars
  BY DEF MasterAck, ReadsFrom
<1>2. CASE Listed(r) \subseteq DOMAIN backlog_wait
  <2>1. PICK reached, over : AckEffect(r, reached, over)
    BY <1>2, AckHasEffect DEF WaitInv
  <2> QED BY <1>1, <2>1 DEF AckEffect
<1>3. CASE ~(Listed(r) \subseteq DOMAIN backlog_wait)
  BY <1>1, <1>3 DEF MasterAck, wait_vars
<1> QED BY <1>2, <1>3

\* The master's count stays ahead of the bytes it has propagated.
LEMMA MasterCountsStep ==
    ASSUME TypeOK, WaitInv, MasterCounts, [Next]_vars
    PROVE  MasterCounts'
<1>0. WaitType /\ WriteType
  BY TypeParts
<1>1. CASE UNCHANGED <<wait_vars, write_vars>>
  BY <1>1 DEF wait_vars, write_vars, MasterCounts, Bytes
<1>2. ASSUME NEW r \in Replicas, MasterAck(r)
      PROVE  MasterCounts'
  <2>1. /\ DOMAIN store' \subseteq DOMAIN store /\ UNCHANGED <<asked, offset, written>>
        /\ \A t \in DOMAIN store' : store'[t].offset_snapshot = store[t].offset_snapshot
    BY <1>0, <1>2, AckKeepsSnapshots DEF write_vars
  <2> QED BY <2>1 DEF MasterCounts, Bytes
<1>3. ASSUME NEW n \in Required, NEW timed \in BOOLEAN, cmd_wait(n, timed)
      PROVE  MasterCounts'
  <2>1. PICK t \in Nat : t = Len(asked) + 1
    BY <1>0 DEF WaitType
  <2>2. /\ DOMAIN store' = DOMAIN store \cup {t} /\ store'[t].offset_snapshot = offset
        /\ \A u \in DOMAIN store : u # t => store'[u] = store[u]
        /\ asked' = Append(asked, written) /\ UNCHANGED <<offset, written>>
    BY <1>3, <2>1 DEF cmd_wait, Put, write_vars
  <2>3. asked'[t] = written /\ \A u \in 1..Len(asked) : asked'[u] = asked[u] /\ u # t
    BY <1>0, <2>1, <2>2 DEF WaitType, WriteType
  <2>4. DOMAIN store \subseteq 1..Len(asked)
    BY <1>0 DEF WaitType
  <2>5. offset >= Bytes(written) /\ \A u \in DOMAIN store : store[u].offset_snapshot >= Bytes(asked[u])
    BY DEF MasterCounts
  <2>6. \A u \in DOMAIN store' : store'[u].offset_snapshot >= Bytes(asked'[u])
    BY <2>2, <2>3, <2>4, <2>5
  <2> QED BY <2>2, <2>5, <2>6 DEF MasterCounts, Bytes
<1>4. ASSUME NEW i \in 1..MaxWaits, Expire(i)
      PROVE  MasterCounts'
  <2>1. /\ DOMAIN store' \subseteq DOMAIN store /\ UNCHANGED <<asked, offset, written>>
        /\ \A t \in DOMAIN store' : store'[t] = store[t]
    BY <1>4 DEF Expire, remove, Without, Restrict, write_vars
  <2> QED BY <2>1 DEF MasterCounts, Bytes
<1>5. CASE ExecuteWrite
  <2>1. /\ UNCHANGED <<store, asked>> /\ offset' = offset + WriteBytes
        /\ written' = written \/ written' = written + 1
    BY <1>5 DEF ExecuteWrite, wait_vars
  <2>2. offset' >= Bytes(written')
    <3>1. /\ Bytes(written) \in Nat /\ Bytes(written + 1) = Bytes(written) + WriteBytes
          /\ offset >= Bytes(written) /\ offset \in Nat
      BY <1>0, BytesFacts DEF WriteType, MasterCounts
    <3> QED BY <2>1, <3>1, ReplicationAssumption
  <2> QED BY <2>1, <2>2 DEF MasterCounts, Bytes
<1> QED BY <1>1, <1>2, <1>3, <1>4, <1>5, OfNoWaitKeeps, Steps DEF OfNoWait

\* The ACKs that q has on its socket after a step were there before.
NoNewAck(q) ==
    \A i \in 1..Len(up'[q]) : up'[q][i].kind = "ACK" =>
        \E j \in 1..Len(up[q]) : up[q][j] = up'[q][i]

\* A step that makes no ACK and applies no write keeps the count of q.
LEMMA CountsKept ==
    ASSUME NEW q \in Replicas, ReplicaCounts(q), NoNewAck(q), WriteType, ReplicaType,
           written' \in Nat, written' >= written, since'[q] \in {since[q], written},
           polled'[q] = polled[q], replica_offset'[q] = replica_offset[q],
           applied'[q] = applied[q]
    PROVE  ReplicaCounts(q)'
<1>1. since'[q] <= written'
  BY DEF ReplicaCounts, WriteType, ReplicaType
<1>2. polled'[q] = 0 => replica_offset'[q] = Bytes(Len(applied'[q]))
  BY DEF ReplicaCounts
<1>3. ASSUME NEW i \in 1..Len(up'[q]), up'[q][i].kind = "ACK"
      PROVE  /\ polled'[q] # 0
             /\ polled'[q] = 1 => up'[q][i].offset <= Bytes(Len(applied'[q]))
  <2>1. PICK j \in 1..Len(up[q]) : up[q][j] = up'[q][i]
    BY <1>3 DEF NoNewAck
  <2> QED BY <1>3, <2>1 DEF ReplicaCounts
<1> QED BY <1>1, <1>2, <1>3 DEF ReplicaCounts, Bytes

\* A replica that applies a write or answers a GETACK counts its bytes.
LEMMA ReplicaCountsItsOwn ==
    ASSUME TypeOK, NEW r \in Replicas, ReplicaCounts(r), ReplicaApplies(r) \/ ReplicaAcks(r)
    PROVE  ReplicaCounts(r)'
<1>0. LinkType /\ ReplicaType /\ WriteType
  BY TypeParts
<1>1. UNCHANGED <<since, written>>
  BY DEF ReplicaApplies, ReplicaAcks, Receives, write_vars
<1>2. /\ polled[r] \in Nat /\ replica_offset[r] \in Nat /\ applied[r] \in Seq(Nat)
      /\ Len(applied[r]) \in Nat /\ up[r] \in Seq(FromReplica)
  BY <1>0 DEF ReplicaType, LinkType
<1>3. /\ Bytes(Len(applied[r])) \in Nat
      /\ Bytes(Len(applied[r]) + 1) = Bytes(Len(applied[r])) + WriteBytes
  BY <1>2, BytesFacts
<1>4. CASE ReplicaApplies(r)
  <2>1. /\ applied'[r] = Append(applied[r], Head(down[r]).n)
        /\ replica_offset'[r] = replica_offset[r] + WriteBytes
        /\ UNCHANGED <<up, polled>>
    BY <1>0, <1>4 DEF ReplicaApplies, ReplicaType
  <2>2. Len(applied'[r]) = Len(applied[r]) + 1
    BY <1>2, <2>1
  <2>3. polled'[r] = 0 => replica_offset'[r] = Bytes(Len(applied'[r]))
    BY <1>3, <2>1, <2>2 DEF ReplicaCounts
  <2>4. ASSUME NEW i \in 1..Len(up[r]), up[r][i].kind = "ACK"
        PROVE  /\ polled[r] # 0
               /\ polled[r] = 1 => up[r][i].offset <= Bytes(Len(applied'[r]))
    <3>1. up[r][i] \in FromReplica
      BY <1>2
    <3>2. up[r][i].offset \in Nat
      BY <2>4, <3>1, MessageTypes
    <3>3. /\ polled[r] # 0
          /\ polled[r] = 1 => up[r][i].offset <= Bytes(Len(applied[r]))
      BY <2>4 DEF ReplicaCounts
    <3> QED BY <1>3, <2>2, <3>2, <3>3, ReplicationAssumption
  <2> QED BY <1>1, <2>1, <2>3, <2>4 DEF ReplicaCounts, Bytes
<1>5. CASE ReplicaAcks(r)
  <2>1. PICK m \in FromReplica : m = Ack(replica_offset[r])
    BY <1>2, MessageTypes
  <2>2. PICK u \in Seq(FromReplica) : u = up[r]
    BY <1>2
  <2>3. /\ polled'[r] = polled[r] + 1 /\ applied' = applied
        /\ up'[r] = Append(u, m)
    BY <1>0, <1>5, <2>1, <2>2 DEF ReplicaAcks, Replies, ReplicaType, LinkType
  <2>4. polled'[r] # 0 /\ (polled'[r] = 1 => polled[r] = 0)
    BY <1>2, <2>3
  <2>5. \A i \in 1..Len(Append(u, m)) :
          Append(u, m)[i] = m \/ (i \in 1..Len(u) /\ Append(u, m)[i] = u[i])
    OBVIOUS
  <2>6. ASSUME NEW i \in 1..Len(up'[r]), up'[r][i].kind = "ACK", polled'[r] = 1
        PROVE  up'[r][i].offset <= Bytes(Len(applied[r]))
    <3>1. polled[r] = 0 /\ replica_offset[r] = Bytes(Len(applied[r]))
      BY <2>4, <2>6 DEF ReplicaCounts
    <3>2. up'[r][i] = m
      BY <2>2, <2>3, <2>5, <2>6, <3>1 DEF ReplicaCounts
    <3>3. m.offset = replica_offset[r]
      BY <2>1 DEF Ack
    <3> QED BY <1>2, <1>3, <3>1, <3>2, <3>3
  <2>7. since'[r] <= written'
    BY <1>1 DEF ReplicaCounts
  <2> QED BY <2>3, <2>4, <2>6, <2>7 DEF ReplicaCounts, Bytes
<1> QED BY <1>4, <1>5

\* Every step keeps the counts of every replica.
LEMMA ReplicaCountsStep ==
    ASSUME TypeOK, \A r \in Replicas : ReplicaCounts(r), [Next]_vars, NEW q \in Replicas
    PROVE  ReplicaCounts(q)'
<1>0. LinkType /\ ReplicaType /\ WriteType
  BY TypeParts
<1>1. up[q] \in Seq(FromReplica) /\ written \in Nat /\ written >= written
  BY <1>0 DEF LinkType, WriteType
<1>2. up'[q] = up[q] => NoNewAck(q)
  BY DEF NoNewAck
<1>3. ASSUME UNCHANGED <<up, replica_vars, since>>, written' \in {written, written + 1}
      PROVE  ReplicaCounts(q)'
  <2>1. written' \in Nat /\ written' >= written
    BY <1>1, <1>3
  <2> QED BY <1>0, <1>2, <1>3, <2>1, CountsKept DEF replica_vars
<1>4. ASSUME NEW r \in Replicas, StartReplica(r) \/ Disconnect(r)
      PROVE  ReplicaCounts(q)'
  <2>1. UNCHANGED <<replica_offset, applied, polled, since, written>>
    BY <1>4 DEF StartReplica, Disconnect, replica_vars, write_vars
  <2>2. up'[q] \in {up[q], <<>>, <<Signal("PING")>>}
    BY <1>0, <1>4 DEF StartReplica, Disconnect, LinkType
  <2>3. Len(<<>>) = 0 /\ 1..0 = {} /\ \A m : \A i \in 1..Len(<<m>>) : <<m>>[i] = m
    OBVIOUS
  <2>4. Signal("PING").kind # "ACK"
    BY DEF Signal
  <2>5. NoNewAck(q)
    <3>1. CASE up'[q] = <<>>
      BY <2>3, <3>1 DEF NoNewAck
    <3>2. CASE up'[q] = <<Signal("PING")>>
      <4>1. PICK m : m = Signal("PING")
        OBVIOUS
      <4> QED BY <2>3, <2>4, <3>2, <4>1 DEF NoNewAck
    <3> QED BY <1>2, <2>2, <3>1, <3>2
  <2> QED BY <1>0, <1>1, <2>1, <2>5, CountsKept
<1>5. ASSUME NEW r \in Replicas, handshake_to_master(r)
      PROVE  ReplicaCounts(q)'
  <2>1. UNCHANGED <<replica_offset, applied, polled, since, written>>
    BY <1>5 DEF handshake_to_master, Receives, replica_vars, write_vars
  <2>2. up' = up \/ \E k \in {"REPLCONF", "PSYNC"} : Replies(r, Signal(k))
    BY <1>5 DEF handshake_to_master, HandshakeSteps
  <2>3. ASSUME NEW k \in {"REPLCONF", "PSYNC"}, Replies(r, Signal(k)), q = r
        PROVE  NoNewAck(q)
    <3>1. PICK m \in FromReplica : m = Signal(k) /\ m.kind # "ACK"
      BY MessageTypes DEF Signal
    <3>2. PICK u \in Seq(FromReplica) : u = up[q]
      BY <1>1
    <3>3. up'[q] = Append(u, m)
      BY <1>0, <2>3, <3>1, <3>2 DEF Replies, LinkType
    <3>4. \A i \in 1..Len(Append(u, m)) :
            Append(u, m)[i] = m \/ (i \in 1..Len(u) /\ Append(u, m)[i] = u[i])
      OBVIOUS
    <3> QED BY <3>1, <3>2, <3>3, <3>4 DEF NoNewAck
  <2>4. NoNewAck(q)
    BY <1>0, <1>2, <2>2, <2>3 DEF Replies, LinkType
  <2> QED BY <1>0, <1>1, <2>1, <2>4, CountsKept
<1>6. ASSUME NEW r \in Replicas, ReplicaApplies(r) \/ ReplicaAcks(r)
      PROVE  ReplicaCounts(q)'
  <2>1. CASE q = r
    BY <1>6, <2>1, ReplicaCountsItsOwn
  <2>2. CASE q # r
    <3>1. /\ UNCHANGED <<since, written>>
          /\ up'[q] = up[q] /\ polled'[q] = polled[q] /\ applied'[q] = applied[q]
          /\ replica_offset'[q] = replica_offset[q]
      BY <1>0, <1>6, <2>2 DEF ReplicaApplies, ReplicaAcks, Receives, Replies, write_vars,
                              LinkType, ReplicaType
    <3> QED BY <1>0, <1>1, <1>2, <3>1, CountsKept
  <2> QED BY <2>1, <2>2
<1>7. ASSUME NEW r \in Replicas,
             MasterPings(r) \/ MasterReplconf(r) \/ cmd_psync(r) \/ MasterAck(r)
      PROVE  ReplicaCounts(q)'
  <2>1. /\ UNCHANGED <<replica_offset, applied, polled, written>>
        /\ up' = [up EXCEPT ![r] = Tail(@)] /\ up[r] # <<>>
    BY <1>7 DEF MasterPings, MasterReplconf, cmd_psync, MasterAck, ReadsFrom, replica_vars,
                write_vars
  <2>2. since'[q] \in {since[q], written}
    BY <1>0, <1>7 DEF MasterPings, MasterReplconf, cmd_psync, MasterAck, ReplicaType
  <2>3. NoNewAck(q)
    <3>1. CASE q = r
      <4>1. PICK u \in Seq(FromReplica) : u = up[q]
        BY <1>1
      <4>2. \A i \in 1..Len(Tail(u)) : i + 1 \in 1..Len(u) /\ Tail(u)[i] = u[i + 1]
        BY <2>1, <3>1, <4>1
      <4>3. up'[q] = Tail(u)
        BY <1>0, <2>1, <3>1, <4>1 DEF LinkType
      <4> QED BY <4>1, <4>2, <4>3 DEF NoNewAck
    <3> QED BY <1>0, <1>2, <2>1, <3>1 DEF LinkType
  <2> QED BY <1>0, <1>1, <2>1, <2>2, <2>3, CountsKept
<1>8. ASSUME NEW r \in Replicas, Flush(r)
      PROVE  ReplicaCounts(q)'
  BY <1>3, <1>8 DEF Flush, write_vars
<1>9. ASSUME NEW n \in Required, NEW timed \in BOOLEAN, cmd_wait(n, timed)
      PROVE  ReplicaCounts(q)'
  BY <1>3, <1>9 DEF cmd_wait, write_vars, link_vars
<1>10. ASSUME NEW i \in 1..MaxWaits, Expire(i)
       PROVE  ReplicaCounts(q)'
  BY <1>3, <1>10 DEF Expire, write_vars, link_vars
<1>11. CASE ExecuteWrite
  BY <1>3, <1>11 DEF ExecuteWrite, link_vars
<1>12. CASE LinkUntouched /\ UNCHANGED write_vars
  BY <1>3, <1>12 DEF LinkUntouched, link_vars, write_vars
<1> QED BY <1>4, <1>5, <1>6, <1>7, <1>8, <1>9, <1>10, <1>11, <1>12, Steps

\* What a replica has reached it does not lose, and its PSYNC starts it further on.
LEMMA Progress ==
    ASSUME TypeOK, CountInv, [Next]_vars, NEW q \in Replicas
    PROVE  /\ since'[q] >= since[q] /\ Len(applied'[q]) >= Len(applied[q])
           /\ polled'[q] >= polled[q]
<1>0. ReplicaType /\ WriteType
  BY TypeParts
<1>1. /\ since[q] \in Nat /\ polled[q] \in Nat /\ written \in Nat /\ since[q] <= written
      /\ applied[q] \in Seq(Nat) /\ Len(applied[q]) \in Nat
  BY <1>0 DEF ReplicaType, WriteType, CountInv, ReplicaCounts
<1>2. CASE UNCHANGED <<since, applied, polled>>
  BY <1>1, <1>2
<1>3. ASSUME NEW r \in Replicas, ReplicaApplies(r)
      PROVE  UNCHANGED <<since, polled>> /\ Len(applied'[q]) >= Len(applied[q])
  <2>1. CASE q = r
    <3>1. applied'[q] = Append(applied[q], Head(down[r]).n)
      BY <1>0, <1>3, <2>1 DEF ReplicaApplies, ReplicaType
    <3>2. Len(applied'[q]) = Len(applied[q]) + 1
      BY <1>1, <3>1
    <3> QED BY <1>1, <1>3, <3>2 DEF ReplicaApplies, Receives
  <2>2. CASE q # r
    BY <1>0, <1>1, <1>3, <2>2 DEF ReplicaApplies, Receives, ReplicaType
  <2> QED BY <2>1, <2>2
<1>4. ASSUME NEW r \in Replicas, ReplicaAcks(r)
      PROVE  UNCHANGED <<since, applied>> /\ polled'[q] >= polled[q]
  BY <1>0, <1>1, <1>4 DEF ReplicaAcks, Receives, ReplicaType
<1>5. ASSUME NEW r \in Replicas, cmd_psync(r)
      PROVE  UNCHANGED <<applied, polled>> /\ since'[q] >= since[q]
  BY <1>0, <1>1, <1>5 DEF cmd_psync, ReadsFrom, replica_vars, ReplicaType
<1>6. ASSUME NEW r \in Replicas,
             \/ StartReplica(r) \/ handshake_to_master(r) \/ MasterPings(r)
             \/ MasterReplconf(r) \/ MasterAck(r) \/ Disconnect(r) \/ Flush(r)
      PROVE  UNCHANGED <<since, applied, polled>>
  BY <1>6 DEF StartReplica, handshake_to_master, Receives, MasterPings, MasterReplconf,
              MasterAck, ReadsFrom, Disconnect, Flush, replica_vars
<1>7. ASSUME NEW n \in Required, NEW timed \in BOOLEAN, cmd_wait(n, timed)
      PROVE  UNCHANGED <<since, applied, polled>>
  BY <1>7 DEF cmd_wait, replica_vars
<1>8. ASSUME NEW i \in 1..MaxWaits, Expire(i)
      PROVE  UNCHANGED <<since, applied, polled>>
  BY <1>8 DEF Expire, replica_vars
<1>9. ExecuteWrite \/ LinkUntouched => UNCHANGED <<since, applied, polled>>
  BY DEF ExecuteWrite, LinkUntouched, replica_vars
<1>10. since[q] >= since[q] /\ Len(applied[q]) >= Len(applied[q]) /\ polled[q] >= polled[q]
  BY <1>1
<1> QED BY <1>2, <1>3, <1>4, <1>5, <1>6, <1>7, <1>8, <1>9, <1>10, Steps

\* The WAITs made stay as they were.
LEMMA AskedStays ==
    ASSUME TypeOK, [Next]_vars
    PROVE  \A t \in 1..Len(asked) : asked'[t] = asked[t]
<1>0. WaitType /\ WriteType
  BY TypeParts
<1>1. CASE asked' = asked
  BY <1>1
<1>2. ASSUME NEW r \in Replicas, MasterAck(r)
      PROVE  asked' = asked
  BY <1>2 DEF MasterAck, wait_vars
<1>3. ASSUME NEW n \in Required, NEW timed \in BOOLEAN, cmd_wait(n, timed)
      PROVE  \A t \in 1..Len(asked) : asked'[t] = asked[t]
  <2>1. asked' = Append(asked, written) /\ asked \in Seq(Nat) /\ written \in Nat
    BY <1>0, <1>3 DEF cmd_wait, WaitType, WriteType
  <2> QED BY <2>1
<1>4. ASSUME NEW i \in 1..MaxWaits, Expire(i)
      PROVE  asked' = asked
  BY <1>4 DEF Expire
<1>5. ExecuteWrite => asked' = asked
  BY DEF ExecuteWrite, wait_vars
<1>6. UNCHANGED wait_vars => asked' = asked
  BY DEF wait_vars
<1> QED BY <1>1, <1>2, <1>3, <1>4, <1>5, <1>6, OfNoWaitKeeps, Steps DEF OfNoWait

\* Whom a step counts has reached the WAIT it is counted for.
LEMMA NewlyCounted ==
    ASSUME TypeOK, WaitInv, CountInv, [Next]_vars, NEW p \in counted', p \notin counted
    PROVE  /\ p[1] \in 1..Len(asked) /\ p[2] \in Replicas
           /\ HasReached(p[2], p[1]) \/ polled[p[2]] > 1
<1>0. LinkType /\ ReplicaType /\ WaitType
  BY TypeParts
<1>1. PICK r \in Replicas : MasterAck(r)
  <2>1. ASSUME NEW n \in Required, NEW timed \in BOOLEAN, cmd_wait(n, timed)
        PROVE  counted' = counted
    BY <2>1 DEF cmd_wait
  <2>2. ASSUME NEW i \in 1..MaxWaits, Expire(i)
        PROVE  counted' = counted
    BY <2>2 DEF Expire
  <2>3. ExecuteWrite => counted' = counted
    BY DEF ExecuteWrite, wait_vars
  <2>4. UNCHANGED wait_vars => counted' = counted
    BY DEF wait_vars
  <2> QED BY <2>1, <2>2, <2>3, <2>4, OfNoWaitKeeps, Steps DEF OfNoWait
<1>2. Listed(r) \subseteq DOMAIN backlog_wait
  BY <1>1 DEF MasterAck, wait_vars
<1>3. PICK reached, over : AckEffect(r, reached, over)
  BY <1>0, <1>1, <1>2, AckHasEffect DEF WaitInv
<1>4. PICK c \in reached : p = <<backlog_wait[c], r>>
  BY <1>3 DEF AckEffect
<1>5. PICK w \in DOMAIN store : w = backlog_wait[c]
  BY <1>0, <1>2, <1>3 DEF AckEffect, WaitType
<1>6. p[1] = w /\ p[2] = r
  BY <1>4, <1>5
<1>7. /\ w \in 1..Len(asked) /\ asked[w] \in Nat /\ store[w].offset_snapshot \in Nat
      /\ store[w].offset_snapshot >= Bytes(asked[w])
  BY <1>0, <1>5 DEF WaitType, Wait, CountInv, MasterCounts
<1>8. /\ up[r] \in Seq(FromReplica) /\ up[r] # <<>> /\ Head(up[r]).kind = "ACK"
  BY <1>0, <1>1 DEF LinkType, MasterAck, ReadsFrom
<1>9. Head(up[r]) = up[r][1] /\ 1 \in 1..Len(up[r]) /\ Head(up[r]) \in FromReplica
  BY <1>8
<1>10. Head(up[r]).offset \in Nat /\ Head(up[r]).offset >= store[w].offset_snapshot
  BY <1>3, <1>4, <1>5, <1>8, <1>9, MessageTypes DEF AckEffect
<1>11. /\ polled[r] # 0 /\ polled[r] \in Nat
       /\ polled[r] = 1 => Head(up[r]).offset <= Bytes(Len(applied[r]))
  BY <1>0, <1>8, <1>9 DEF CountInv, ReplicaCounts, ReplicaType
<1>12. CASE polled[r] = 1
  <2>1. Len(applied[r]) \in Nat /\ since[r] \in Nat
    BY <1>0 DEF ReplicaType
  <2>2. Bytes(Len(applied[r])) \in Nat /\ Bytes(asked[w]) \in Nat
    BY <1>7, <2>1, BytesFacts
  <2>3. Bytes(Len(applied[r])) >= Bytes(asked[w])
    BY <1>7, <1>10, <1>11, <1>12, <2>2
  <2>4. Len(applied[r]) >= asked[w]
    BY <1>7, <2>1, <2>3, BytesFacts
  <2>5. HasReached(r, w)
    BY <1>7, <2>1, <2>4 DEF HasReached
  <2> QED BY <1>6, <1>7, <2>5
<1>13. CASE polled[r] # 1
  BY <1>6, <1>7, <1>11, <1>13
<1> QED BY <1>12, <1>13

\* Every step keeps the byte counts in line with the writes.
LEMMA CountStep ==
    ASSUME TypeOK, WaitInv, CountInv, [Next]_vars, ReplicaType'
    PROVE  CountInv'
<1>0. ReplicaType /\ WaitType
  BY TypeParts
<1>1. MasterCounts' /\ \A q \in Replicas : ReplicaCounts(q)'
  BY MasterCountsStep, ReplicaCountsStep DEF CountInv
<1>2. ASSUME NEW p \in counted'
      PROVE  HasReached(p[2], p[1])' \/ polled'[p[2]] > 1
  <2>1. PICK t, r : t = p[1] /\ r = p[2]
    OBVIOUS
  <2>2. t \in 1..Len(asked) /\ r \in Replicas /\ (HasReached(r, t) \/ polled[r] > 1)
    <3>1. CASE p \in counted
      <4>1. p[2] \in Replicas
        BY <1>0, <3>1 DEF WaitType
      <4> QED BY <2>1, <3>1, <4>1 DEF CountInv, CountedHasReached, WaitInv
    <3>2. CASE p \notin counted
      BY <2>1, <3>2, NewlyCounted
    <3> QED BY <3>1, <3>2
  <2>3. /\ since'[r] >= since[r] /\ Len(applied'[r]) >= Len(applied[r])
        /\ polled'[r] >= polled[r] /\ asked'[t] = asked[t]
    BY <2>2, Progress, AskedStays
  <2>4. /\ since[r] \in Nat /\ since'[r] \in Nat /\ polled[r] \in Nat /\ polled'[r] \in Nat
        /\ Len(applied[r]) \in Nat /\ Len(applied'[r]) \in Nat /\ asked[t] \in Nat
    BY <1>0, <2>2 DEF ReplicaType, WaitType
  <2>5. since'[r] + Len(applied'[r]) >= asked'[t] \/ polled'[r] > 1
    BY <2>2, <2>3, <2>4, SMTT(60) DEF HasReached
  <2> QED BY <2>1, <2>5 DEF HasReached
<1>3. CountedHasReached'
  BY <1>2 DEF CountedHasReached, HasReached
<1> QED BY <1>1, <1>3 DEF CountInv

-----------------------------------------------------------------------------
(***************************************************************************)
(* The invariant and what it implies.                                       *)
(***************************************************************************)
IInv == TypeOK /\ WaitInv /\ CountInv /\ \A r \in Replicas : LinkInv(r)

\* The state after start satisfies the invariant.
LEMMA InitIInv == Init => IInv
<1> SUFFICES ASSUME Init PROVE IInv
  OBVIOUS
<1>1. <<>> \in Seq(Nat) /\ Len(<<>>) = 0 /\ 1..0 = {}
      /\ <<>> \in Seq(FromMaster) /\ <<>> \in Seq(FromReplica)
  OBVIOUS
<1>2. TypeOK
  <2>1. flushing \in BOOLEAN /\ alive \in BOOLEAN /\ overlapped \in BOOLEAN
    BY DEF Init
  <2> QED BY <1>1, <2>1 DEF Init, TypeOK, EmptyMap
<1>3. WaitInv
  BY DEF Init, WaitInv, OwnWait, WaitIndexed, ListedOnce, CountIsExact, EmptyMap
<1>4. CountInv
  <2>1. MasterCounts
    BY BytesFacts DEF Init, MasterCounts, EmptyMap
  <2>2. ASSUME NEW r \in Replicas PROVE ReplicaCounts(r)
    <3>1. /\ since[r] = 0 /\ written = 0 /\ replica_offset[r] = 0 /\ Len(applied[r]) = 0
          /\ Len(up[r]) = 0
      BY <1>1 DEF Init
    <3> QED BY <1>1, <3>1, BytesFacts DEF ReplicaCounts
  <2>3. CountedHasReached
    BY DEF Init, CountedHasReached
  <2> QED BY <2>1, <2>2, <2>3 DEF CountInv
<1>5. ASSUME NEW r \in Replicas PROVE LinkInv(r)
  BY <1>5 DEF Init, LinkInv, ShapeInv, StreamInv, Newcomer
<1> QED BY <1>2, <1>3, <1>4, <1>5 DEF IInv

\* Every step keeps it.
LEMMA NextIInv == IInv /\ [Next]_vars => IInv'
<1> SUFFICES ASSUME IInv, [Next]_vars PROVE IInv'
  OBVIOUS
<1>1. TypeOK /\ WaitInv /\ CountInv /\ \A r \in Replicas : LinkInv(r)
  BY DEF IInv
<1>2. LinkType' /\ ReplicaType' /\ WriteType' /\ LoopType'
  BY <1>1, LinkTypeStep, ReplicaTypeStep, LoopTypeStep
<1>3. WaitType' /\ WaitInv'
  BY <1>1, WaitStep
<1>4. TypeOK'
  BY <1>2, <1>3 DEF TypeOK, LinkType, ReplicaType, WriteType, WaitType, LoopType
<1>5. CountInv'
  BY <1>1, <1>2, CountStep
<1>6. \A r \in Replicas : LinkInv(r)'
  BY <1>1, LinkStep
<1> QED BY <1>3, <1>4, <1>5, <1>6 DEF IInv

\* The inductive invariant of master, sockets and replicas holds for any constants:
\* typing, the registry of WAITs, the byte counts and each replica's link.
THEOREM ReplicationInvCorrect == Spec => []IInv
BY InitIInv, NextIInv, PTL DEF Spec

\* Propagation through the response queue and the socket neither loses, repeats nor
\* reorders a write for a slave, from its PSYNC on (to_be_broadcast of handle, and the
\* flush of the response queue in main.rs).
THEOREM Propagation == Spec => []StreamIsComplete
<1>1. IInv => StreamIsComplete
  <2> SUFFICES ASSUME IInv, NEW r \in slaves
               PROVE  /\ applied[r] = [i \in 1..Len(applied[r]) |-> since[r] + i]
                      /\ {Pending(r)[i].n : i \in PendingWrites(r)}
                             = (since[r] + Len(applied[r]) + 1)..written
                      /\ \A i, j \in PendingWrites(r) :
                           i < j => Pending(r)[i].n < Pending(r)[j].n
    BY DEF StreamIsComplete
  <2>1. r \in Replicas
    BY DEF IInv, TypeOK
  <2>2. StreamOK(Pending(r), applied[r], since[r], written)
    BY <2>1 DEF IInv, LinkInv, StreamInv
  <2>3. {Pending(r)[i].n : i \in PendingWrites(r)} = (since[r] + Len(applied[r]) + 1)..written
    BY <2>2 DEF StreamOK, PendingWrites
  <2> QED BY <2>2, <2>3 DEF StreamOK, PendingWrites
<1> QED BY <1>1, ReplicationInvCorrect, PTL

\* A replica never receives what handshake_to_master does not expect in its state.
THEOREM Handshake == Spec => []ReceivesAsExpected
<1>1. IInv => ReceivesAsExpected
  <2> SUFFICES ASSUME IInv, NEW r \in Replicas, down[r] # <<>>
               PROVE  \/ \E s \in HandshakeSteps :
                           s[1] = handshake_state[r] /\ s[2] = Head(down[r]).kind
                      \/ handshake_state[r] = "PSYNC" /\ Head(down[r]).kind = "FULLRESYNC"
                      \/ /\ handshake_state[r] = "Established"
                         /\ Head(down[r]).kind \in {"RDB", "write", "GETACK"}
                         /\ Head(down[r]).kind = "RDB" => applied[r] = <<>>
    BY DEF ReceivesAsExpected
  <2>1. LinkType /\ LinkInv(r)
    BY TypeParts DEF IInv
  <2>2. r \in connected
    BY <2>1 DEF LinkInv, ShapeInv
  <2> QED BY <2>1, <2>2, DownSays DEF Syncs, Follows
<1> QED BY <1>1, ReplicationInvCorrect, PTL

\* A replica that cmd_replconf counts for a WAIT has applied the writes before that
\* WAIT, unless it has answered more than one GETACK.
THEOREM CountingIsSound == Spec => []CountedHasReached
<1>1. IInv => CountedHasReached
  BY DEF IInv, CountInv
<1> QED BY <1>1, ReplicationInvCorrect, PTL

\* cmd_replconf counts a replica at most once for a WAIT of a client that does not
\* send a second WAIT before the answer.
THEOREM CountingIsExact == Spec => []CountedOnce
<1>1. IInv => CountedOnce
  <2> SUFFICES ASSUME IInv, ~overlapped
               PROVE  /\ \A t \in DOMAIN store :
                           store[t].actual_count = Cardinality({p \in counted : p[1] = t})
                      /\ \A r \in Replicas : \A c \in Listed(r) :
                           /\ backlog_ack[r][c] = 1
                           /\ <<backlog_wait[c], r>> \notin counted
    BY DEF CountedOnce
  <2>1. ListedOnce /\ CountIsExact
    BY DEF IInv, WaitInv
  <2>2. \A r \in Replicas : \A c \in Listed(r) : c \in Clients /\ backlog_ack[r][c] # 0
    BY DEF Listed, IInv, TypeOK
  <2>3. \A t \in DOMAIN store :
          store[t].actual_count = Cardinality({p \in counted : p[1] = t})
    BY <2>1 DEF CountIsExact, CountedBy
  <2> QED BY <2>1, <2>2, <2>3 DEF ListedOnce
<1> QED BY <1>1, ReplicationInvCorrect, PTL

\* A client is out of the epoll set exactly while it has a WAIT, and the lookup that
\* cmd_replconf unwraps succeeds, as long as no client sends a WAIT before the answer
\* to its last one.
THEOREM Parking == Spec => []WaitingIsParked
<1>1. IInv => WaitingIsParked
  <2> SUFFICES ASSUME IInv, ~overlapped
               PROVE  /\ \A r \in Replicas : Listed(r) \subseteq DOMAIN backlog_wait
                      /\ DOMAIN backlog_wait = parked
                      /\ DOMAIN store = {backlog_wait[c] : c \in DOMAIN backlog_wait}
    BY DEF WaitingIsParked
  <2>1. OwnWait /\ WaitIndexed /\ ListedOnce /\ parked = DOMAIN backlog_wait
    BY DEF IInv, WaitInv
  <2>2. \A r \in Replicas : \A c \in Listed(r) : c \in Clients /\ backlog_ack[r][c] # 0
    BY DEF Listed, IInv, TypeOK
  <2>3. \A r \in Replicas : Listed(r) \subseteq DOMAIN backlog_wait
    BY <2>1, <2>2 DEF ListedOnce
  <2>4. DOMAIN store = {backlog_wait[c] : c \in DOMAIN backlog_wait}
    BY <2>1 DEF OwnWait, WaitIndexed
  <2> QED BY <2>1, <2>3, <2>4
<1> QED BY <1>1, ReplicationInvCorrect, PTL

=============================================================================
