-------------------------------- MODULE PubSub --------------------------------
(***************************************************************************)
(* SUBSCRIBE, UNSUBSCRIBE and PUBLISH of cmd_handler.rs: the set of clients *)
(* in subscriber mode, the members of each channel, and the messages that   *)
(* wait in the response queue for the end of the cycle.                     *)
(*                                                                          *)
(* The counts told to a client are the strong count of one Rc, shared by    *)
(* the subscriber set and every channel the client is in.  own is the       *)
(* subscription as the connection sees it, from its own commands alone;     *)
(* the properties compare it with what the server keeps.                    *)
(***************************************************************************)
EXTENDS Connections, SequencesExt

CONSTANTS Channels,
          Subscriptions,  \* the lists of channels SUBSCRIBE is sent with
          MaxMessages     \* bound: messages published in a behaviour

ASSUME PubSubAssumption ==
    /\ Subscriptions \subseteq Seq(Channels)
    /\ MaxMessages \in Nat

VARIABLES
    subscribers,     \* clients in subscriber mode
    channels,        \* channel -> its members
    response_queue,  \* messages to write at the end of the cycle
    flushing,        \* the end of the cycle is being processed
    alive,           \* FALSE once the process has panicked
    published,       \* number of messages published
    told,            \* history: the count the client was told last
    own,             \* history: channels the connection has subscribed to
    due, inbox,      \* history: messages a connection must get, has got
    inherited        \* history: descriptors reused while in subscriber mode

server_vars == <<subscribers, channels>>
queue_vars == <<response_queue, flushing, alive, published>>
vars == <<conn_vars, server_vars, queue_vars, told, own, due, inbox, inherited>>

Message == [client: Clients, msg: Nat]

\* The types of the channels, the response queue and the history.
TypeOK ==
    /\ ConnTypeOK
    /\ subscribers \subseteq Clients
    /\ DOMAIN channels \subseteq Channels
    /\ \A ch \in DOMAIN channels : channels[ch] \subseteq Clients
    /\ response_queue \in Seq(Message)
    /\ flushing \in BOOLEAN /\ alive \in BOOLEAN
    /\ published \in Nat
    /\ told \in [Clients -> Nat]
    /\ own \in [Clients -> SUBSET Channels]
    /\ due \in [Clients -> Seq(Nat)] /\ inbox \in [Clients -> Seq(Nat)]
    /\ inherited \subseteq Clients

Init ==
    /\ ConnInit
    /\ subscribers = {} /\ channels = EmptyMap
    /\ response_queue = <<>> /\ flushing = FALSE /\ alive = TRUE /\ published = 0
    /\ told = [c \in Clients |-> 0]
    /\ own = [c \in Clients |-> {}]
    /\ due = [c \in Clients |-> <<>>] /\ inbox = [c \in Clients |-> <<>>]
    /\ inherited = {}

-----------------------------------------------------------------------------
MembersOf(ch) == IF ch \in DOMAIN channels THEN channels[ch] ELSE {}

ChannelsOf(c) == {ch \in DOMAIN channels : c \in channels[ch]}

is_subscriber(c) == c \in subscribers

\* The thread is free to run the next command of client c.
Reads(c) == alive /\ ~flushing /\ c \in clients

\* A fault to detect: the local reference is counted.
CountWithLocal(c, keys) ==
    IF is_subscriber(c)
    THEN Cardinality(ChannelsOf(c) \cup ToSet(keys))
    ELSE 2 + Cardinality(ToSet(SubSeq(keys, 1, Len(keys) - 1)))

\* The count in the last of SUBSCRIBE's replies.  A client that is a subscriber
\* is counted after it joined the channel; a new one before it joined, when the
\* local Rc and the subscriber set hold one reference each.
SubscribeCount(c, keys) ==
    IF is_subscriber(c)
    THEN Cardinality(ChannelsOf(c) \cup ToSet(keys))
    ELSE 1 + Cardinality(ToSet(SubSeq(keys, 1, Len(keys) - 1)))

\* SUBSCRIBE to a list of channels, which may be empty.
cmd_subscribe(c, keys) ==
    /\ Reads(c)
    /\ subscribers' = subscribers \cup {c}
    /\ channels' = [ch \in DOMAIN channels \cup ToSet(keys) |->
                      IF ch \in ToSet(keys) THEN MembersOf(ch) \cup {c} ELSE channels[ch]]
    /\ told' = IF keys = <<>> THEN told
               ELSE [told EXCEPT ![c] = SubscribeCount(c, keys)]
    /\ own' = [own EXCEPT ![c] = @ \cup ToSet(keys)]
    /\ UNCHANGED <<conn_vars, queue_vars, due, inbox, inherited>>

\* UNSUBSCRIBE: the client leaves subscriber mode when the channel exists and
\* the client is left with none.  For a client that is not in the mode nothing
\* happens, not even a reply.
cmd_unsubscribe(c, ch) ==
    /\ Reads(c) /\ is_subscriber(c)
    /\ LET rest == ChannelsOf(c) \ {ch} IN
         /\ channels' = IF ch \in DOMAIN channels
                        THEN [channels EXCEPT ![ch] = @ \ {c}] ELSE channels
         /\ subscribers' = IF ch \in DOMAIN channels /\ rest = {}
                           THEN subscribers \ {c} ELSE subscribers
         /\ told' = [told EXCEPT ![c] = Cardinality(rest)]
    /\ own' = [own EXCEPT ![c] = @ \ {ch}]
    /\ UNCHANGED <<conn_vars, queue_vars, due, inbox, inherited>>

\* A fault to detect: the message goes to every subscriber.
PublishToAll(c, ch) ==
    /\ Reads(c) /\ ~is_subscriber(c) /\ published < MaxMessages
    /\ published' = published + 1
    /\ \E order \in SetToSeqs(subscribers) :
         response_queue' = response_queue \o
             [i \in 1..Len(order) |-> [client |-> order[i], msg |-> published + 1]]
    /\ due' = [x \in Clients |->
                 IF x \in clients /\ ch \in own[x]
                 THEN Append(due[x], published + 1) ELSE due[x]]
    /\ UNCHANGED <<conn_vars, server_vars, flushing, alive, told, own, inbox, inherited>>

\* PUBLISH, refused in subscriber mode: one queued message for each member, in
\* any order of the members.
cmd_publish(c, ch) ==
    /\ Reads(c) /\ ~is_subscriber(c) /\ published < MaxMessages
    /\ published' = published + 1
    /\ \E order \in SetToSeqs(MembersOf(ch)) :
         response_queue' = response_queue \o
             [i \in 1..Len(order) |-> [client |-> order[i], msg |-> published + 1]]
    /\ due' = [x \in Clients |->
                 IF x \in clients /\ ch \in own[x]
                 THEN Append(due[x], published + 1) ELSE due[x]]
    /\ UNCHANGED <<conn_vars, server_vars, flushing, alive, told, own, inbox, inherited>>

\* The end of a cycle: every queued message is written; the unwrap() panics on
\* a client that is gone.
BeginFlush ==
    /\ alive /\ ~flushing /\ response_queue # <<>>
    /\ flushing' = TRUE
    /\ UNCHANGED <<conn_vars, server_vars, response_queue, alive, published, told, own,
                   due, inbox, inherited>>

FlushReply ==
    /\ alive /\ flushing
    /\ LET r == Head(response_queue) IN
         /\ alive' = (r.client \in clients)
         /\ inbox' = IF r.client \in clients
                     THEN [inbox EXCEPT ![r.client] = Append(@, r.msg)] ELSE inbox
    /\ response_queue' = Tail(response_queue)
    /\ flushing' = (Len(response_queue) > 1)
    /\ UNCHANGED <<conn_vars, server_vars, published, told, own, due, inherited>>

\* A new connection gets whatever subscription its descriptor has, and whatever
\* is still queued for it.
Accept(c) ==
    /\ alive /\ ~flushing /\ Connect(c)
    /\ inherited' = IF is_subscriber(c)
                       \/ \E i \in 1..Len(response_queue) : response_queue[i].client = c
                    THEN inherited \cup {c} ELSE inherited
    /\ own' = [own EXCEPT ![c] = {}]
    /\ due' = [due EXCEPT ![c] = <<>>] /\ inbox' = [inbox EXCEPT ![c] = <<>>]
    /\ UNCHANGED <<server_vars, queue_vars, told>>

\* A disconnection leaves subscribers and channels alone.
Disconnect(c) ==
    /\ alive /\ ~flushing /\ Drop(c)
    /\ UNCHANGED <<server_vars, queue_vars, told, own, due, inbox, inherited>>

Next ==
    \/ \E c \in Clients :
         \/ Accept(c) \/ Disconnect(c)
         \/ \E keys \in Subscriptions : cmd_subscribe(c, keys)
         \/ \E ch \in Channels : cmd_unsubscribe(c, ch) \/ cmd_publish(c, ch)
    \/ BeginFlush \/ FlushReply

Spec == Init /\ [][Next]_vars

-----------------------------------------------------------------------------
\* Who is in a channel is in subscriber mode, and knows in how many channels it
\* is: the count told last stays the truth, whatever others do.  (The lists of
\* Subscriptions name no channel twice, as a comment in cmd_subscribe asks.)
CountIsTruthful ==
    /\ \A ch \in DOMAIN channels : channels[ch] \subseteq subscribers
    /\ \A c \in subscribers : told[c] = Cardinality(ChannelsOf(c))

QueuedFor(c) == {i \in 1..Len(response_queue) : response_queue[i].client = c}

\* Every connection gets each message published to a channel it is subscribed
\* to, once, in the order of publication, also when it leaves the channel before
\* the end of the cycle - unless its descriptor came with a subscription of an
\* earlier connection: it has got the first of the messages due to it, and the queue
\* has the others for it, in their order.  (Messages are numbered as they are
\* published, and due is in that order.)
MessagesReachSubscribers ==
    alive => \A c \in clients \ inherited :
        /\ IsPrefix(inbox[c], due[c])
        /\ {response_queue[i].msg : i \in QueuedFor(c)}
               = {due[c][k] : k \in (Len(inbox[c]) + 1)..Len(due[c])}
        /\ \A i, j \in QueuedFor(c) :
             i < j => response_queue[i].msg < response_queue[j].msg

\* main.rs unwraps the client of each queued message: it is connected.
MessageHasAReader ==
    flushing => \A i \in 1..Len(response_queue) : response_queue[i].client \in clients

\* is_subscriber: "To check whether the client is a subscriber": a connection in
\* subscriber mode has subscribed.
SubscriberHasSubscribed == \A c \in clients \cap subscribers : own[c] # {}

=============================================================================
