----------------------------- MODULE Replication -----------------------------
(***************************************************************************)
(* A master, its replicas and the clients that write and WAIT: the          *)
(* handshake of client.rs, PSYNC, REPLCONF and WAIT of cmd_handler.rs, the  *)
(* byte offsets of app_state.rs, and the propagation of writes through the  *)
(* response queue at the end of a cycle.                                    *)
(*                                                                          *)
(* A write is its number.  Messages of the master to different replicas do  *)
(* not depend on each other, so the response queue is kept per replica.     *)
(* Timestamps of WAITs are distinct and a timed WAIT may expire at any      *)
(* event; Registry models both.                                             *)
(***************************************************************************)
EXTENDS HashMaps, Naturals, Sequences, FiniteSets

CONSTANTS Clients, Replicas,
          WriteBytes,   \* length of a propagated command
          AckBytes,     \* length of REPLCONF GETACK *
          Required,     \* the counts WAIT is sent with
          MaxWrites,    \* bound: commands that count as writes
          MaxWaits      \* bound: WAITs that are registered

ASSUME ReplicationAssumption ==
    /\ WriteBytes \in Nat \ {0} /\ AckBytes \in Nat \ {0}
    /\ Required \subseteq Nat
    /\ MaxWrites \in Nat /\ MaxWaits \in Nat

VARIABLES
    connected,      \* replicas in the master's client map
    slaves,         \* ClientTable::slaves
    offset,         \* the master's replication offset
    store,          \* timestamp -> WAIT
    backlog_wait,   \* client -> timestamp of its WAIT
    backlog_ack,    \* how often a client is in the list of a slave
    parked,         \* clients taken out of the epoll set
    cur,            \* the client being read, or Nobody
    response_queue, \* messages for each replica
    flushing,       \* the end of the cycle is being processed
    alive,          \* FALSE once the master has panicked
    down, up,       \* bytes on the sockets to and from each replica
    handshake_state, replica_offset, applied,   \* of each replica
    written,        \* number of writes propagated
    commands,       \* number of commands that count as writes
    since,          \* history: writes before the replica's PSYNC
    asked,          \* history: writes before each WAIT, in order of the WAITs
    counted,        \* history: pairs of a WAIT and a replica it counted
    polled,         \* history: GETACKs the replica has answered
    overlapped      \* history: a client sent WAIT while it had one pending

link_vars == <<down, up>>
replica_vars == <<handshake_state, replica_offset, applied, polled>>
wait_vars == <<store, backlog_wait, backlog_ack, parked, asked, counted, overlapped>>
write_vars == <<offset, written, commands>>
loop_vars == <<cur, flushing, alive>>
vars == <<connected, slaves, since, response_queue, link_vars, replica_vars, wait_vars,
          write_vars, loop_vars>>

Nobody == "nobody"

Write(n) == [kind |-> "write", n |-> n]
Signal(kind) == [kind |-> kind]
Ack(n) == [kind |-> "ACK", offset |-> n]

FromMaster == [kind: {"PONG", "OK", "FULLRESYNC", "RDB", "GETACK"}]
                \cup [kind: {"write"}, n: Nat]
FromReplica == [kind: {"PING", "REPLCONF", "PSYNC"}] \cup [kind: {"ACK"}, offset: Nat]

Wait == [client: Clients, required_count: Nat, actual_count: Nat, timed: BOOLEAN,
         offset_snapshot: Nat, slave_ids: SUBSET Replicas]

\* The types of the master's, the sockets' and the replicas' state.
TypeOK ==
    /\ connected \subseteq Replicas /\ slaves \subseteq connected
    /\ offset \in Nat
    /\ DOMAIN store \subseteq 1..Len(asked)
    /\ \A t \in DOMAIN store : store[t] \in Wait
    /\ DOMAIN backlog_wait \subseteq Clients
    /\ \A c \in DOMAIN backlog_wait : backlog_wait[c] \in DOMAIN store
    /\ backlog_ack \in [Replicas -> [Clients -> Nat]]
    /\ parked \subseteq Clients
    /\ cur \in Clients \cup {Nobody}
    /\ response_queue \in [Replicas -> Seq(FromMaster)]
    /\ flushing \in BOOLEAN /\ alive \in BOOLEAN
    /\ down \in [Replicas -> Seq(FromMaster)] /\ up \in [Replicas -> Seq(FromReplica)]
    /\ handshake_state \in
         [Replicas -> {"None", "PING", "REPLCONF1", "REPLCONF2", "PSYNC", "Established"}]
    /\ replica_offset \in [Replicas -> Nat]
    /\ applied \in [Replicas -> Seq(Nat)]
    /\ written \in Nat /\ commands \in Nat
    /\ since \in [Replicas -> Nat]
    /\ asked \in Seq(Nat)
    /\ counted \subseteq Nat \X Replicas
    /\ polled \in [Replicas -> Nat]
    /\ overlapped \in BOOLEAN

\* AppStates::init starts the count of every server at 0, a replica's too.
Init ==
    /\ connected = {} /\ slaves = {}
    /\ offset = 0
    /\ store = EmptyMap /\ backlog_wait = EmptyMap
    /\ backlog_ack = [r \in Replicas |-> [c \in Clients |-> 0]]
    /\ parked = {}
    /\ cur = Nobody
    /\ response_queue = [r \in Replicas |-> <<>>]
    /\ flushing = FALSE /\ alive = TRUE
    /\ down = [r \in Replicas |-> <<>>] /\ up = [r \in Replicas |-> <<>>]
    /\ handshake_state = [r \in Replicas |-> "None"]
    /\ replica_offset = [r \in Replicas |-> 0]
    /\ applied = [r \in Replicas |-> <<>>]
    /\ written = 0 /\ commands = 0
    /\ since = [r \in Replicas |-> 0]
    /\ asked = <<>> /\ counted = {}
    /\ polled = [r \in Replicas |-> 0]
    /\ overlapped = FALSE

-----------------------------------------------------------------------------
\* The replica's side.

\* A replica starts, connects to its master and sends PING (init_handshake).
StartReplica(r) ==
    /\ alive /\ ~flushing /\ cur = Nobody
    /\ handshake_state[r] = "None"
    /\ handshake_state' = [handshake_state EXCEPT ![r] = "PING"]
    /\ connected' = connected \cup {r}
    /\ up' = [up EXCEPT ![r] = <<Signal("PING")>>]
    /\ UNCHANGED <<slaves, since, response_queue, down, replica_offset, applied, polled,
                   wait_vars, write_vars, loop_vars>>

\* The next message from the master is of this kind and the replica reads it.
Receives(r, kind) ==
    /\ r \in connected
    /\ down[r] # <<>> /\ Head(down[r]).kind = kind
    /\ down' = [down EXCEPT ![r] = Tail(@)]
    /\ UNCHANGED <<connected, slaves, since, response_queue, wait_vars, write_vars, loop_vars>>

Replies(r, msg) == up' = [up EXCEPT ![r] = Append(@, msg)]

\* The answers of the handshake: what is received in which state, the next
\* state, and what is sent.
HandshakeSteps ==
    {<<"PING", "PONG", "REPLCONF1", "REPLCONF">>,
     <<"REPLCONF1", "OK", "REPLCONF2", "REPLCONF">>,
     <<"REPLCONF2", "OK", "PSYNC", "PSYNC">>}

handshake_to_master(r) ==
    \/ \E s \in HandshakeSteps :
         /\ handshake_state[r] = s[1] /\ Receives(r, s[2])
         /\ handshake_state' = [handshake_state EXCEPT ![r] = s[3]]
         /\ Replies(r, Signal(s[4]))
         /\ UNCHANGED <<replica_offset, applied, polled>>
    \/ /\ handshake_state[r] = "PSYNC" /\ Receives(r, "FULLRESYNC")
       /\ handshake_state' = [handshake_state EXCEPT ![r] = "Established"]
       /\ UNCHANGED <<up, replica_offset, applied, polled>>
    \* The RDB is not loaded; the byte count has started long ago.
    \/ /\ handshake_state[r] = "Established" /\ Receives(r, "RDB")
       /\ UNCHANGED <<up, replica_vars>>

\* A write from the master is executed and its bytes are counted.
ReplicaApplies(r) ==
    /\ handshake_state[r] = "Established" /\ Receives(r, "write")
    /\ applied' = [applied EXCEPT ![r] = Append(@, Head(down[r]).n)]
    /\ replica_offset' = [replica_offset EXCEPT ![r] = @ + WriteBytes]
    /\ UNCHANGED <<up, handshake_state, polled>>

\* A fault to detect: the bytes of GETACK are counted before the answer is made.
CountThenAck(r) ==
    /\ handshake_state[r] = "Established" /\ Receives(r, "GETACK")
    /\ Replies(r, Ack(replica_offset[r] + AckBytes))
    /\ replica_offset' = [replica_offset EXCEPT ![r] = @ + AckBytes]
    /\ polled' = [polled EXCEPT ![r] = @ + 1]
    /\ UNCHANGED <<handshake_state, applied>>

\* REPLCONF GETACK is answered with the offset, then its own bytes are counted.
ReplicaAcks(r) ==
    /\ handshake_state[r] = "Established" /\ Receives(r, "GETACK")
    /\ Replies(r, Ack(replica_offset[r]))
    /\ replica_offset' = [replica_offset EXCEPT ![r] = @ + AckBytes]
    /\ polled' = [polled EXCEPT ![r] = @ + 1]
    /\ UNCHANGED <<handshake_state, applied>>

-----------------------------------------------------------------------------
\* The master's side: messages of a replica.

Idle == alive /\ ~flushing /\ cur = Nobody

\* The next message of the replica is of this kind and the master reads it.
ReadsFrom(r, kind) ==
    /\ Idle /\ r \in connected
    /\ up[r] # <<>> /\ Head(up[r]).kind = kind
    /\ up' = [up EXCEPT ![r] = Tail(@)]
    /\ UNCHANGED <<connected, response_queue, replica_vars, write_vars>>

\* Answers of read_socket go to the socket at once, not through the queue.
Answers(r, msgs) == down' = [down EXCEPT ![r] = @ \o msgs]

MasterPings(r) ==
    /\ ReadsFrom(r, "PING")
    /\ Answers(r, <<Signal("PONG")>>)
    /\ UNCHANGED <<slaves, since, wait_vars, loop_vars>>

\* A fault to detect: a replica is made a slave when it tells its port.
ReplconfMakesSlave(r) ==
    /\ ReadsFrom(r, "REPLCONF")
    /\ Answers(r, <<Signal("OK")>>)
    /\ slaves' = slaves \cup {r}
    /\ since' = [since EXCEPT ![r] = written]
    /\ UNCHANGED <<wait_vars, loop_vars>>

\* REPLCONF listening-port and capa.
MasterReplconf(r) ==
    /\ ReadsFrom(r, "REPLCONF")
    /\ Answers(r, <<Signal("OK")>>)
    /\ UNCHANGED <<slaves, since, wait_vars, loop_vars>>

\* PSYNC ? -1: the answer is an RDB without data; the client is a slave from now on.
cmd_psync(r) ==
    /\ ReadsFrom(r, "PSYNC")
    /\ Answers(r, <<Signal("FULLRESYNC"), Signal("RDB")>>)
    /\ slaves' = slaves \cup {r}
    /\ since' = [since EXCEPT ![r] = written]
    /\ UNCHANGED <<wait_vars, loop_vars>>

\* Clients that wait for an ACK of slave r.
Listed(r) == {c \in Clients : backlog_ack[r][c] > 0}

\* A fault to detect: the slave stays in the lists it has fulfilled.
ListsKept(r, reached, over) ==
    [s \in Replicas |-> [c \in Clients |->
        IF c \in over /\ s \in store[backlog_wait[c]].slave_ids
        THEN 0 ELSE backlog_ack[s][c]]]

\* The lists after an ACK of r: without r's clients that it has reached, and
\* without the clients that are served (remove).
ListsAfter(r, reached, over) ==
    [s \in Replicas |-> [c \in Clients |->
        IF \/ s = r /\ c \in reached
           \/ c \in over /\ s \in store[backlog_wait[c]].slave_ids
        THEN 0 ELSE backlog_ack[s][c]]]

\* REPLCONF ACK: counts the slave for every listed client whose snapshot it has
\* reached, as often as the client is listed, and serves those that have enough.
\* The lookup of a listed client in backlog_wait is unwrapped.
MasterAck(r) ==
    /\ ReadsFrom(r, "ACK")
    /\ LET n == Head(up[r]).offset
           reached == {c \in Listed(r) : n >= store[backlog_wait[c]].offset_snapshot}
           count(c) == store[backlog_wait[c]].actual_count
                         + (IF c \in reached THEN backlog_ack[r][c] ELSE 0)
           over == {c \in Listed(r) : count(c) >= store[backlog_wait[c]].required_count}
       IN IF Listed(r) \subseteq DOMAIN backlog_wait
          THEN /\ store' = [t \in DOMAIN store \ {backlog_wait[c] : c \in over} |->
                     IF \E c \in reached : backlog_wait[c] = t
                     THEN [store[t] EXCEPT !.actual_count = count(store[t].client)]
                     ELSE store[t]]
               /\ backlog_wait' = Restrict(backlog_wait, DOMAIN backlog_wait \ over)
               /\ backlog_ack' = ListsAfter(r, reached, over)
               /\ parked' = parked \ over
               /\ counted' = counted \cup {<<backlog_wait[c], r>> : c \in reached}
               /\ UNCHANGED <<asked, overlapped, loop_vars>>
          ELSE /\ alive' = FALSE
               /\ UNCHANGED <<wait_vars, cur, flushing>>
    /\ UNCHANGED <<slaves, since, down>>

\* The connection of a replica ends.
Disconnect(r) ==
    /\ Idle /\ r \in connected
    /\ connected' = connected \ {r}
    /\ slaves' = slaves \ {r}
    /\ down' = [down EXCEPT ![r] = <<>>] /\ up' = [up EXCEPT ![r] = <<>>]
    /\ UNCHANGED <<since, response_queue, replica_vars, wait_vars, write_vars, loop_vars>>

-----------------------------------------------------------------------------
\* The master's side: commands of a client, the timer and the end of the cycle.

\* read_socket of a client that is registered with epoll; it handles all the
\* commands that the client has sent, also those behind a WAIT.
BeginRead(c) ==
    /\ Idle /\ c \notin parked
    /\ cur' = c
    /\ UNCHANGED <<connected, slaves, since, response_queue, link_vars, replica_vars,
                   wait_vars, write_vars, flushing, alive>>

EndRead ==
    /\ cur # Nobody
    /\ cur' = Nobody
    /\ UNCHANGED <<connected, slaves, since, response_queue, link_vars, replica_vars,
                   wait_vars, write_vars, flushing, alive>>

\* A message for every slave is put into the response queue.
Broadcast(msg) ==
    response_queue' = [r \in Replicas |->
        IF r \in slaves THEN Append(response_queue[r], msg) ELSE response_queue[r]]

\* A command that to_be_broadcast names: its bytes count, also when it is refused
\* or blocks; only when it has an answer it is propagated.
ExecuteWrite ==
    /\ cur # Nobody /\ commands < MaxWrites
    /\ commands' = commands + 1
    /\ offset' = offset + WriteBytes
    /\ \/ written' = written + 1 /\ Broadcast(Write(written + 1))
       \/ UNCHANGED <<written, response_queue>>
    /\ UNCHANGED <<connected, slaves, since, link_vars, replica_vars, wait_vars, loop_vars>>

\* WAIT of n slaves.  WAIT 0, and any WAIT at offset 0, is answered at once and
\* changes nothing.
cmd_wait(n, timed) ==
    /\ cur # Nobody /\ n # 0 /\ offset # 0
    /\ Len(asked) < MaxWaits
    /\ LET t == Len(asked) + 1 IN
         /\ store' = Put(store, t,
              [client |-> cur, required_count |-> n, actual_count |-> 0, timed |-> timed,
               offset_snapshot |-> offset, slave_ids |-> slaves])
         /\ backlog_wait' = Put(backlog_wait, cur, t)
    /\ backlog_ack' = [r \in Replicas |->
         IF r \in slaves THEN [backlog_ack[r] EXCEPT ![cur] = @ + 1] ELSE backlog_ack[r]]
    /\ Broadcast(Signal("GETACK"))
    /\ parked' = parked \cup {cur}
    /\ asked' = Append(asked, written)
    /\ overlapped' = (overlapped \/ \E t \in DOMAIN store : store[t].client = cur)
    /\ UNCHANGED <<connected, slaves, since, link_vars, replica_vars, counted, write_vars,
                   loop_vars>>

\* A fault to detect: the slaves' lists keep the client.
RemoveKeepingLists(t) ==
    /\ store' = Without(store, t)
    /\ backlog_wait' = Without(backlog_wait, store[t].client)
    /\ UNCHANGED backlog_ack

\* RequestRegistry::remove of a WAIT.
remove(t) ==
    /\ store' = Without(store, t)
    /\ backlog_wait' = Without(backlog_wait, store[t].client)
    /\ backlog_ack' = [r \in Replicas |->
         IF r \in store[t].slave_ids
         THEN [backlog_ack[r] EXCEPT ![store[t].client] = 0] ELSE backlog_ack[r]]

\* The deadline of a WAIT: the count so far is the answer.
Expire(t) ==
    /\ Idle /\ t \in DOMAIN store /\ store[t].timed
    /\ remove(t)
    /\ parked' = parked \ {store[t].client}
    /\ UNCHANGED <<connected, slaves, since, response_queue, link_vars, replica_vars, asked,
                   counted, overlapped, write_vars, loop_vars>>

\* The end of a cycle: the queue is written to the sockets.
BeginFlush ==
    /\ Idle
    /\ \E r \in Replicas : response_queue[r] # <<>>
    /\ flushing' = TRUE
    /\ UNCHANGED <<connected, slaves, since, response_queue, link_vars, replica_vars,
                   wait_vars, write_vars, cur, alive>>

\* A fault to detect: the queue is popped from its end.
FlushNewest(r) ==
    /\ alive /\ flushing /\ response_queue[r] # <<>>
    /\ response_queue' = [response_queue EXCEPT ![r] = SubSeq(@, 1, Len(@) - 1)]
    /\ down' = IF r \in connected
               THEN [down EXCEPT ![r] = Append(@, response_queue[r][Len(response_queue[r])])]
               ELSE down
    /\ alive' = (r \in connected)
    /\ UNCHANGED <<connected, slaves, since, up, replica_vars, wait_vars, write_vars, cur,
                   flushing>>

\* The client of a message is unwrapped.
Flush(r) ==
    /\ alive /\ flushing /\ response_queue[r] # <<>>
    /\ response_queue' = [response_queue EXCEPT ![r] = Tail(@)]
    /\ down' = IF r \in connected
               THEN [down EXCEPT ![r] = Append(@, Head(response_queue[r]))] ELSE down
    /\ alive' = (r \in connected)
    /\ UNCHANGED <<connected, slaves, since, up, replica_vars, wait_vars, write_vars, cur,
                   flushing>>

EndFlush ==
    /\ alive /\ flushing
    /\ \A r \in Replicas : response_queue[r] = <<>>
    /\ flushing' = FALSE
    /\ UNCHANGED <<connected, slaves, since, response_queue, link_vars, replica_vars,
                   wait_vars, write_vars, cur, alive>>

Next ==
    \/ \E r \in Replicas :
         \/ StartReplica(r) \/ handshake_to_master(r) \/ ReplicaApplies(r) \/ ReplicaAcks(r)
         \/ MasterPings(r) \/ MasterReplconf(r) \/ cmd_psync(r) \/ MasterAck(r)
         \/ Disconnect(r) \/ Flush(r)
    \/ \E c \in Clients : BeginRead(c)
    \/ \E n \in Required, timed \in BOOLEAN : cmd_wait(n, timed)
    \/ \E t \in 1..MaxWaits : Expire(t)
    \/ ExecuteWrite \/ EndRead \/ BeginFlush \/ EndFlush

Spec == Init /\ [][Next]_vars

-----------------------------------------------------------------------------
\* The messages that a replica has still to read: on its socket, then in the queue.
Pending(r) == down[r] \o response_queue[r]
PendingWrites(r) == {i \in 1..Len(Pending(r)) : Pending(r)[i].kind = "write"}

\* Propagation: what a slave has executed are the first writes since its PSYNC, and
\* what it has on its socket and in the response queue are all the others, once and
\* in order.
StreamIsComplete ==
    \A r \in slaves :
        /\ applied[r] = [i \in 1..Len(applied[r]) |-> since[r] + i]
        /\ {Pending(r)[i].n : i \in PendingWrites(r)}
               = (since[r] + Len(applied[r]) + 1)..written
        /\ \A i, j \in PendingWrites(r) : i < j => Pending(r)[i].n < Pending(r)[j].n

\* The handshake: whatever a replica receives next is what handshake_to_master
\* expects in its state; no write comes before FULLRESYNC and RDB, although these
\* bypass the response queue.
ReceivesAsExpected ==
    \A r \in Replicas : down[r] # <<>> =>
        \/ \E s \in HandshakeSteps :
             s[1] = handshake_state[r] /\ s[2] = Head(down[r]).kind
        \/ handshake_state[r] = "PSYNC" /\ Head(down[r]).kind = "FULLRESYNC"
        \/ /\ handshake_state[r] = "Established"
           /\ Head(down[r]).kind \in {"RDB", "write", "GETACK"}
           /\ Head(down[r]).kind = "RDB" => applied[r] = <<>>

HasReached(r, t) == since[r] + Len(applied[r]) >= asked[t]

\* A replica that a WAIT counts has executed the writes before the WAIT, as long
\* as it has answered one GETACK only (replica_offset grows with each of them).
CountedHasReached ==
    \A p \in counted : HasReached(p[2], p[1]) \/ polled[p[2]] > 1

\* A WAIT counts a replica once, however many ACKs it sends for other WAITs: its
\* count is the number of replicas counted, and none of them is still listed.
CountedOnce ==
    ~overlapped =>
        /\ \A t \in DOMAIN store :
             store[t].actual_count = Cardinality({p \in counted : p[1] = t})
        /\ \A r \in Replicas : \A c \in Listed(r) :
             /\ backlog_ack[r][c] = 1
             /\ <<backlog_wait[c], r>> \notin counted

\* A client that a slave's list names has its WAIT (cmd_replconf unwraps it), and
\* a client waits exactly while it is out of the epoll set: none is left parked and
\* none is read again before its answer.
WaitingIsParked ==
    ~overlapped =>
        /\ \A r \in Replicas : Listed(r) \subseteq DOMAIN backlog_wait
        /\ DOMAIN backlog_wait = parked
        /\ DOMAIN store = {backlog_wait[c] : c \in DOMAIN backlog_wait}

\* cmd_wait: "Return the RESP integer nbr of slaves catching up".
WaitCountsCaughtUp == \A p \in counted : HasReached(p[2], p[1])

\* main asserts that the client of every queued message is in the client map.
SlaveIsConnected ==
    flushing => \A r \in Replicas : response_queue[r] # <<>> => r \in connected

\* cmd_replconf: "that way slave was certainly registered in backlog_wait".
ListedHasWait == \A r \in Replicas : Listed(r) \subseteq DOMAIN backlog_wait

=============================================================================
