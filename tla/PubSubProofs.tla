----------------------------- MODULE PubSubProofs -----------------------------
(***************************************************************************)
(* PubSub for any number of descriptors, channels and messages: what a      *)
(* client is told of its channels, and the delivery of messages.  Auth, on  *)
(* the same table of clients, for any passwords.                            *)
(***************************************************************************)
EXTENDS PubSub, Auth, TLAPS, SequenceTheorems, FiniteSetTheorems

-----------------------------------------------------------------------------
(***************************************************************************)
(* Channels and counts.                                                     *)
(***************************************************************************)

\* "This count only work if the vec does not include duplicated names".
NoDuplicates == \A keys \in Subscriptions : IsInjective(keys)

ChannelInv ==
    /\ IsFiniteSet(DOMAIN channels)
    /\ \A ch \in DOMAIN channels : IsFiniteSet(channels[ch]) /\ channels[ch] \subseteq subscribers

\* What every descriptor was told last, also one that is in no channel.
ToldInv == \A c \in Clients : told[c] = Cardinality(ChannelsOf(c))

\* The connections that have only their own subscriptions.
OwnInv == \A c \in clients \ inherited : own[c] = ChannelsOf(c)

\* The channels a client is in are finitely many.
LEMMA ChannelsFinite ==
    ASSUME ChannelInv, NEW c
    PROVE  IsFiniteSet(ChannelsOf(c)) /\ Cardinality(ChannelsOf(c)) \in Nat
<1>1. ChannelsOf(c) \in SUBSET DOMAIN channels
  BY DEF ChannelsOf
<1>2. IsFiniteSet(ChannelsOf(c))
  BY <1>1, FS_Subset DEF ChannelInv
<1> QED BY <1>2, FS_CardinalityType

\* The elements of a list are finitely many.
LEMMA ToSetFinite ==
    ASSUME NEW S, NEW s \in Seq(S)
    PROVE  IsFiniteSet(ToSet(s)) /\ ToSet(s) \subseteq S
<1>1. Len(s) \in Nat /\ DOMAIN s = 1..Len(s) /\ s \in [1..Len(s) -> S]
  BY LenProperties
<1>2. IsFiniteSet(1..Len(s))
  BY <1>1, FS_Interval
<1>3. s \in [1..Len(s) -> ToSet(s)]
  BY <1>1 DEF ToSet
<1>4. s \in Surjection(1..Len(s), ToSet(s))
  BY <1>1, <1>3 DEF ToSet, Surjection
<1>5. IsFiniteSet(ToSet(s))
  BY <1>2, <1>4, FS_Surjection
<1> QED BY <1>1, <1>5 DEF ToSet

\* A list without repetition has one element more than the list without its last.
LEMMA LastCounts ==
    ASSUME NEW S, NEW s \in Seq(S), s # <<>>, IsInjective(s)
    PROVE  Cardinality(ToSet(s)) = 1 + Cardinality(ToSet(SubSeq(s, 1, Len(s) - 1)))
<1>1. Len(s) \in Nat /\ Len(s) >= 1 /\ DOMAIN s = 1..Len(s)
  BY LenProperties
<1>2. PICK f \in Seq(S) :
        /\ f = SubSeq(s, 1, Len(s) - 1) /\ Len(f) = Len(s) - 1
        /\ \A i \in 1..(Len(s) - 1) : f[i] = s[i]
  <2>1. Len(s) - 1 \in Nat /\ \A i \in 1..(Len(s) - 1) : i \in 1..Len(s)
    BY <1>1
  <2>2. /\ SubSeq(s, 1, Len(s) - 1) \in Seq(S) /\ Len(SubSeq(s, 1, Len(s) - 1)) = Len(s) - 1
        /\ \A i \in 1..(Len(s) - 1) : SubSeq(s, 1, Len(s) - 1)[i] = s[i]
    BY <1>1, <2>1, SMTT(30)
  <2> QED BY <2>2
<1>3. DOMAIN f = 1..(Len(s) - 1)
  BY <1>2, LenProperties
<1>4. 1..Len(s) = 1..(Len(s) - 1) \cup {Len(s)} /\ Len(s) \notin 1..(Len(s) - 1)
  BY <1>1
<1>5. ToSet(s) = ToSet(f) \cup {s[Len(s)]}
  BY <1>1, <1>2, <1>3, <1>4 DEF ToSet
<1>6. s[Len(s)] \notin ToSet(f)
  BY <1>1, <1>2, <1>3, <1>4 DEF ToSet, IsInjective
<1>7. IsFiniteSet(ToSet(f)) /\ Cardinality(ToSet(f)) \in Nat
  BY ToSetFinite, FS_CardinalityType
<1>8. Cardinality(ToSet(f) \cup {s[Len(s)]}) = Cardinality(ToSet(f)) + 1
  BY <1>6, <1>7, FS_AddElement
<1> QED BY <1>2, <1>5, <1>7, <1>8

\* SUBSCRIBE puts the client into the channels of the list and changes no other
\* membership.
LEMMA SubscribeMembers ==
    ASSUME TypeOK, NEW c \in Clients, NEW keys \in Subscriptions, cmd_subscribe(c, keys)
    PROVE  /\ ChannelsOf(c)' = ChannelsOf(c) \cup ToSet(keys)
           /\ \A d : d # c => ChannelsOf(d)' = ChannelsOf(d)
           /\ DOMAIN channels' = DOMAIN channels \cup ToSet(keys)
           /\ \A ch \in DOMAIN channels' : channels'[ch] \in {MembersOf(ch), MembersOf(ch) \cup {c}}
<1>1. channels' = [ch \in DOMAIN channels \cup ToSet(keys) |->
                      IF ch \in ToSet(keys) THEN MembersOf(ch) \cup {c} ELSE channels[ch]]
  BY DEF cmd_subscribe
<1>2. \A ch \in DOMAIN channels : MembersOf(ch) = channels[ch]
  BY DEF MembersOf
<1>3. \A ch : ch \notin DOMAIN channels => MembersOf(ch) = {}
  BY DEF MembersOf
<1>4. ChannelsOf(c)' = ChannelsOf(c) \cup ToSet(keys)
  BY <1>1, <1>2, <1>3 DEF ChannelsOf
<1>5. \A d : d # c => ChannelsOf(d)' = ChannelsOf(d)
  BY <1>1, <1>2, <1>3 DEF ChannelsOf
<1> QED BY <1>1, <1>2, <1>4, <1>5

\* UNSUBSCRIBE takes the client out of one channel and changes no other membership.
LEMMA UnsubscribeMembers ==
    ASSUME TypeOK, NEW c \in Clients, NEW ch \in Channels, cmd_unsubscribe(c, ch)
    PROVE  /\ ChannelsOf(c)' = ChannelsOf(c) \ {ch}
           /\ \A d : d # c => ChannelsOf(d)' = ChannelsOf(d)
           /\ DOMAIN channels' = DOMAIN channels
           /\ \A x \in DOMAIN channels : channels'[x] \in {channels[x], channels[x] \ {c}}
           /\ ch \in DOMAIN channels => c \notin channels'[ch]
<1>1. channels' = IF ch \in DOMAIN channels
                  THEN [channels EXCEPT ![ch] = @ \ {c}] ELSE channels
  BY DEF cmd_unsubscribe
<1>2. CASE ch \in DOMAIN channels
  <2>1. /\ DOMAIN channels' = DOMAIN channels /\ channels'[ch] = channels[ch] \ {c}
        /\ \A x \in DOMAIN channels : x # ch => channels'[x] = channels[x]
    BY <1>1, <1>2
  <2> QED BY <2>1 DEF ChannelsOf
<1>3. CASE ch \notin DOMAIN channels
  BY <1>1, <1>3 DEF ChannelsOf
<1> QED BY <1>2, <1>3

\* The channels stay finite, with subscribers only.
LEMMA ChannelStep ==
    ASSUME TypeOK, ChannelInv, [Next]_vars
    PROVE  ChannelInv'
<1>1. CASE UNCHANGED server_vars
  BY <1>1 DEF server_vars, ChannelInv
<1>2. ASSUME NEW c \in Clients, NEW keys \in Subscriptions, cmd_subscribe(c, keys)
      PROVE  ChannelInv'
  <2>1. /\ DOMAIN channels' = DOMAIN channels \cup ToSet(keys)
        /\ \A ch \in DOMAIN channels' : channels'[ch] \in {MembersOf(ch), MembersOf(ch) \cup {c}}
        /\ subscribers' = subscribers \cup {c}
    BY <1>2, SubscribeMembers DEF cmd_subscribe
  <2>2. IsFiniteSet(ToSet(keys))
    BY PubSubAssumption, ToSetFinite
  <2>3. IsFiniteSet(DOMAIN channels')
    <3>1. PICK D : D = DOMAIN channels /\ IsFiniteSet(D)
      BY DEF ChannelInv
    <3>2. IsFiniteSet(D \cup ToSet(keys))
      BY <2>2, <3>1, FS_Union
    <3> QED BY <2>1, <3>1, <3>2
  <2>4. ASSUME NEW ch
        PROVE  /\ IsFiniteSet(MembersOf(ch)) /\ MembersOf(ch) \subseteq subscribers
               /\ IsFiniteSet(MembersOf(ch) \cup {c})
    <3>1. IsFiniteSet(MembersOf(ch)) /\ MembersOf(ch) \subseteq subscribers
      BY FS_EmptySet DEF MembersOf, ChannelInv
    <3> QED BY <3>1, FS_AddElement
  <2>5. \A ch \in DOMAIN channels' :
          IsFiniteSet(channels'[ch]) /\ channels'[ch] \subseteq subscribers'
    BY <2>1, <2>4
  <2> QED BY <2>3, <2>5 DEF ChannelInv
<1>3. ASSUME NEW c \in Clients, NEW ch \in Channels, cmd_unsubscribe(c, ch)
      PROVE  ChannelInv'
  <2>1. /\ DOMAIN channels' = DOMAIN channels
        /\ \A x \in DOMAIN channels : channels'[x] \in {channels[x], channels[x] \ {c}}
        /\ ChannelsOf(c)' = ChannelsOf(c) \ {ch}
    BY <1>3, UnsubscribeMembers
  <2>2. \/ subscribers' = subscribers
        \/ subscribers' = subscribers \ {c} /\ ChannelsOf(c) \ {ch} = {}
    BY <1>3 DEF cmd_unsubscribe
  <2>3. \A x \in DOMAIN channels : IsFiniteSet(channels[x] \ {c})
    BY FS_RemoveElement DEF ChannelInv
  <2>4. \A x \in DOMAIN channels : IsFiniteSet(channels'[x]) /\ channels'[x] \subseteq subscribers
    BY <2>1, <2>3 DEF ChannelInv
  <2>5. \A x \in DOMAIN channels : channels'[x] \subseteq subscribers'
    <3>1. CASE subscribers' = subscribers
      BY <2>4, <3>1
    <3>2. CASE subscribers' = subscribers \ {c} /\ ChannelsOf(c) \ {ch} = {}
      <4>1. \A x \in DOMAIN channels : c \notin channels'[x]
        BY <2>1, <3>2 DEF ChannelsOf
      <4> QED BY <2>4, <3>2, <4>1
    <3> QED BY <2>2, <3>1, <3>2
  <2> QED BY <2>1, <2>4, <2>5 DEF ChannelInv
<1>4. ASSUME NEW c \in Clients,
             \/ Accept(c) \/ Disconnect(c) \/ \E ch \in Channels : cmd_publish(c, ch)
      PROVE  UNCHANGED server_vars
  BY <1>4 DEF Accept, Disconnect, cmd_publish
<1>5. BeginFlush \/ FlushReply \/ UNCHANGED vars => UNCHANGED server_vars
  BY DEF BeginFlush, FlushReply, vars
<1> QED BY <1>1, <1>2, <1>3, <1>4, <1>5 DEF Next

\* The count told last stays the number of channels.
LEMMA ToldStep ==
    ASSUME NoDuplicates, TypeOK, ChannelInv, ToldInv, [Next]_vars
    PROVE  ToldInv'
<1>1. CASE UNCHANGED <<server_vars, told>>
  BY <1>1 DEF server_vars, ToldInv, ChannelsOf
<1>2. ASSUME NEW c \in Clients, NEW keys \in Subscriptions, cmd_subscribe(c, keys)
      PROVE  ToldInv'
  <2>1. /\ ChannelsOf(c)' = ChannelsOf(c) \cup ToSet(keys)
        /\ \A d : d # c => ChannelsOf(d)' = ChannelsOf(d)
    BY <1>2, SubscribeMembers
  <2>2. told' = IF keys = <<>> THEN told ELSE [told EXCEPT ![c] = SubscribeCount(c, keys)]
    BY <1>2 DEF cmd_subscribe
  <2>3. told \in [Clients -> Nat] /\ keys \in Seq(Channels) /\ IsInjective(keys)
    BY PubSubAssumption DEF TypeOK, NoDuplicates
  <2>4. \A d \in Clients : d # c => told'[d] = told[d]
    BY <2>2, <2>3
  <2>5. told'[c] = Cardinality(ChannelsOf(c) \cup ToSet(keys))
    <3>1. CASE keys = <<>>
      <4>1. ToSet(<<>>) = {}
        BY DEF ToSet
      <4>2. told' = told /\ ChannelsOf(c) \cup ToSet(keys) = ChannelsOf(c)
        BY <2>2, <3>1, <4>1
      <4> QED BY <4>2 DEF ToldInv
    <3>2. CASE keys # <<>> /\ is_subscriber(c)
      BY <2>2, <2>3, <3>2 DEF SubscribeCount
    <3>3. CASE keys # <<>> /\ ~is_subscriber(c)
      <4>1. ChannelsOf(c) = {}
        BY <3>3 DEF ChannelsOf, ChannelInv, is_subscriber
      <4>2. told'[c] = 1 + Cardinality(ToSet(SubSeq(keys, 1, Len(keys) - 1)))
        BY <2>2, <2>3, <3>3 DEF SubscribeCount
      <4>3. told'[c] = Cardinality(ToSet(keys))
        BY <2>3, <3>3, <4>2, LastCounts
      <4>4. ChannelsOf(c) \cup ToSet(keys) = ToSet(keys)
        BY <4>1
      <4> QED BY <4>3, <4>4
    <3> QED BY <3>1, <3>2, <3>3
  <2>6. \A d \in Clients : told'[d] = Cardinality(ChannelsOf(d)')
    BY <2>1, <2>4, <2>5 DEF ToldInv
  <2> QED BY <2>6 DEF ToldInv
<1>3. ASSUME NEW c \in Clients, NEW ch \in Channels, cmd_unsubscribe(c, ch)
      PROVE  ToldInv'
  <2>1. /\ ChannelsOf(c)' = ChannelsOf(c) \ {ch}
        /\ \A d : d # c => ChannelsOf(d)' = ChannelsOf(d)
    BY <1>3, UnsubscribeMembers
  <2>2. told' = [told EXCEPT ![c] = Cardinality(ChannelsOf(c) \ {ch})]
    BY <1>3 DEF cmd_unsubscribe
  <2>3. \A d \in Clients : told'[d] = Cardinality(ChannelsOf(d)')
    BY <2>1, <2>2 DEF ToldInv, TypeOK
  <2> QED BY <2>3 DEF ToldInv
<1>4. ASSUME NEW c \in Clients,
             \/ Accept(c) \/ Disconnect(c) \/ \E ch \in Channels : cmd_publish(c, ch)
      PROVE  UNCHANGED <<server_vars, told>>
  BY <1>4 DEF Accept, Disconnect, cmd_publish
<1>5. BeginFlush \/ FlushReply \/ UNCHANGED vars => UNCHANGED <<server_vars, told>>
  BY DEF BeginFlush, FlushReply, vars
<1> QED BY <1>1, <1>2, <1>3, <1>4, <1>5 DEF Next

\* A connection's own subscriptions stay those the server has for it.
LEMMA OwnStep ==
    ASSUME TypeOK, ChannelInv, OwnInv, [Next]_vars
    PROVE  OwnInv'
<1>0. own \in [Clients -> SUBSET Channels] /\ clients \subseteq Clients
  BY DEF TypeOK, ConnTypeOK
<1>1. CASE UNCHANGED <<server_vars, own, clients, inherited>>
  BY <1>1 DEF server_vars, OwnInv, ChannelsOf
<1>2. ASSUME NEW c \in Clients, NEW keys \in Subscriptions, cmd_subscribe(c, keys)
      PROVE  OwnInv'
  <2>1. /\ ChannelsOf(c)' = ChannelsOf(c) \cup ToSet(keys)
        /\ \A d : d # c => ChannelsOf(d)' = ChannelsOf(d)
    BY <1>2, SubscribeMembers
  <2>2. UNCHANGED <<clients, inherited>> /\ own' = [own EXCEPT ![c] = @ \cup ToSet(keys)]
    BY <1>2 DEF cmd_subscribe, conn_vars
  <2>3. \A d \in clients \ inherited : own'[d] = ChannelsOf(d)'
    BY <1>0, <2>1, <2>2 DEF OwnInv
  <2> QED BY <2>2, <2>3 DEF OwnInv
<1>3. ASSUME NEW c \in Clients, NEW ch \in Channels, cmd_unsubscribe(c, ch)
      PROVE  OwnInv'
  <2>1. /\ ChannelsOf(c)' = ChannelsOf(c) \ {ch}
        /\ \A d : d # c => ChannelsOf(d)' = ChannelsOf(d)
    BY <1>3, UnsubscribeMembers
  <2>2. UNCHANGED <<clients, inherited>> /\ own' = [own EXCEPT ![c] = @ \ {ch}]
    BY <1>3 DEF cmd_unsubscribe, conn_vars
  <2>3. \A d \in clients \ inherited : own'[d] = ChannelsOf(d)'
    BY <1>0, <2>1, <2>2 DEF OwnInv
  <2> QED BY <2>2, <2>3 DEF OwnInv
<1>4. ASSUME NEW c \in Clients, Accept(c)
      PROVE  OwnInv'
  <2>1. /\ clients' = clients \cup {c} /\ own' = [own EXCEPT ![c] = {}]
        /\ inherited \subseteq inherited' /\ (c \notin inherited' => c \notin subscribers)
        /\ UNCHANGED channels
    BY <1>4 DEF Accept, Connect, is_subscriber, server_vars
  <2>2. c \notin subscribers => ChannelsOf(c) = {}
    BY DEF ChannelsOf, ChannelInv
  <2>3. \A d : ChannelsOf(d)' = ChannelsOf(d)
    BY <2>1 DEF ChannelsOf
  <2>4. \A d \in clients' \ inherited' : own'[d] = ChannelsOf(d)
    BY <1>0, <2>1, <2>2 DEF OwnInv
  <2> QED BY <2>3, <2>4 DEF OwnInv
<1>5. ASSUME NEW c \in Clients, Disconnect(c)
      PROVE  OwnInv'
  BY <1>5 DEF Disconnect, Drop, server_vars, OwnInv, ChannelsOf
<1>6. ASSUME NEW c \in Clients, NEW ch \in Channels, cmd_publish(c, ch)
      PROVE  OwnInv'
  BY <1>1, <1>6 DEF cmd_publish, conn_vars
<1>7. BeginFlush \/ FlushReply \/ UNCHANGED vars => UNCHANGED <<server_vars, own, clients, inherited>>
  BY DEF BeginFlush, FlushReply, vars, conn_vars
<1> QED BY <1>1, <1>2, <1>3, <1>4, <1>5, <1>6, <1>7 DEF Next

-----------------------------------------------------------------------------
(***************************************************************************)
(* Delivery.  A message is put into the queue once for each member, in some *)
(* order of the members, and leaves it at the front.                        *)
(***************************************************************************)

\* What PUBLISH appends for the members ms: the message n for each of them, once.
BatchOK(b, ms, n) ==
    /\ \A i \in 1..Len(b) : b[i].client \in ms /\ b[i].msg = n
    /\ \A m \in ms : \E i \in 1..Len(b) : b[i].client = m
    /\ \A i, j \in 1..Len(b) : b[i].client = b[j].client => i = j

\* Every order of a finite set has each element once.
LEMMA OrderIsComplete ==
    ASSUME NEW S, IsFiniteSet(S), NEW order \in SetToSeqs(S)
    PROVE  /\ order \in Seq(S)
           /\ \A m \in S : \E i \in 1..Len(order) : order[i] = m
           /\ \A i, j \in 1..Len(order) : order[i] = order[j] => i = j
<1>1. PICK n \in Nat : n = Cardinality(S)
  BY FS_CardinalityType
<1>2. order \in [1..n -> S] /\ \A i, j \in 1..n : i # j => order[i] # order[j]
  BY <1>1 DEF SetToSeqs
<1>3. order \in Seq(S) /\ Len(order) = n
  BY <1>2
<1>4. order \in Injection(1..n, S)
  BY <1>2 DEF Injection, IsInjective
<1>5. Cardinality(1..n) = n
  BY FS_Interval
<1>6. order \in Surjection(1..n, S)
  BY <1>1, <1>4, <1>5, FS_Injection
<1> QED BY <1>2, <1>3, <1>6 DEF Surjection

\* PUBLISH appends such a batch.
LEMMA PublishAppends ==
    ASSUME TypeOK, ChannelInv, NEW c \in Clients, NEW ch \in Channels, cmd_publish(c, ch)
    PROVE  \E b \in Seq(Message) : /\ response_queue' = response_queue \o b
                                   /\ BatchOK(b, MembersOf(ch), published + 1)
<1>1. IsFiniteSet(MembersOf(ch)) /\ MembersOf(ch) \subseteq Clients
  BY FS_EmptySet DEF MembersOf, ChannelInv, TypeOK
<1>2. PICK order \in SetToSeqs(MembersOf(ch)) :
        response_queue' = response_queue \o
            [i \in 1..Len(order) |-> [client |-> order[i], msg |-> published + 1]]
  BY DEF cmd_publish
<1>3. /\ order \in Seq(MembersOf(ch))
      /\ \A m \in MembersOf(ch) : \E i \in 1..Len(order) : order[i] = m
      /\ \A i, j \in 1..Len(order) : order[i] = order[j] => i = j
  BY <1>1, OrderIsComplete
<1>4. PICK n \in Nat : n = Len(order)
  BY <1>3
<1>5. PICK b : b = [i \in 1..n |-> [client |-> order[i], msg |-> published + 1]]
  OBVIOUS
<1>6. /\ published + 1 \in Nat
      /\ \A i \in 1..n : order[i] \in MembersOf(ch)
  BY <1>3, <1>4 DEF TypeOK
<1>7. \A i \in 1..n : b[i] \in Message
  BY <1>1, <1>5, <1>6 DEF Message
<1>8. b \in Seq(Message) /\ Len(b) = n
  <2>1. b \in [1..n -> Message]
    BY <1>5, <1>7
  <2> QED BY <2>1
<1>9. \A i \in 1..n : b[i].client = order[i] /\ b[i].msg = published + 1
  BY <1>5
<1>10. BatchOK(b, MembersOf(ch), published + 1)
  BY <1>3, <1>4, <1>6, <1>8, <1>9 DEF BatchOK
<1> QED BY <1>2, <1>4, <1>5, <1>8, <1>10

\* The state stays well typed.
LEMMA TypeStep ==
    ASSUME TypeOK, ChannelInv, flushing => response_queue # <<>>, [Next]_vars
    PROVE  TypeOK'
<1>a. ASSUME NEW c \in Clients, NEW keys \in Subscriptions, cmd_subscribe(c, keys)
      PROVE  /\ DOMAIN channels' = DOMAIN channels \cup ToSet(keys)
             /\ \A ch \in DOMAIN channels' :
                  channels'[ch] = MembersOf(ch) \/ channels'[ch] = MembersOf(ch) \cup {c}
  BY <1>a, SubscribeMembers
<1>b. ASSUME NEW c \in Clients, NEW ch \in Channels, cmd_unsubscribe(c, ch)
      PROVE  /\ DOMAIN channels' = DOMAIN channels
             /\ \A x \in DOMAIN channels :
                  channels'[x] = channels[x] \/ channels'[x] = channels[x] \ {c}
  BY <1>b, UnsubscribeMembers
<1> USE DEF TypeOK
<1>0. flushing \in BOOLEAN /\ alive \in BOOLEAN
  OBVIOUS
<1>1. ASSUME NEW c \in Clients, NEW keys \in Subscriptions, cmd_subscribe(c, keys)
      PROVE  TypeOK'
  <2>1. /\ UNCHANGED <<clients, conns, response_queue, flushing, alive, published, due,
                        inbox, inherited>>
        /\ subscribers' = subscribers \cup {c}
        /\ own' = [own EXCEPT ![c] = @ \cup ToSet(keys)]
        /\ told' = IF keys = <<>> THEN told ELSE [told EXCEPT ![c] = SubscribeCount(c, keys)]
    BY <1>1 DEF cmd_subscribe, conn_vars, queue_vars
  <2>2. keys \in Seq(Channels) /\ ToSet(keys) \subseteq Channels /\ IsFiniteSet(ToSet(keys))
    BY PubSubAssumption, ToSetFinite
  <2>3. SubscribeCount(c, keys) \in Nat
    <3>1. Cardinality(ChannelsOf(c) \cup ToSet(keys)) \in Nat
      BY <2>2, ChannelsFinite, FS_Union, FS_CardinalityType
    <3>2. CASE keys = <<>>
      <4>1. SubSeq(keys, 1, Len(keys) - 1) = <<>> /\ ToSet(<<>>) = {}
        BY <3>2 DEF ToSet
      <4>2. 1 + Cardinality({}) \in Nat
        BY FS_EmptySet
      <4> QED BY <3>1, <4>1, <4>2 DEF SubscribeCount
    <3>3. CASE keys # <<>>
      <4>1. SubSeq(keys, 1, Len(keys) - 1) \in Seq(Channels)
        BY <2>2, <3>3
      <4>2. IsFiniteSet(ToSet(SubSeq(keys, 1, Len(keys) - 1)))
        BY <4>1, ToSetFinite
      <4>3. Cardinality(ToSet(SubSeq(keys, 1, Len(keys) - 1))) \in Nat
        BY <4>2, FS_CardinalityType
      <4>4. 1 + Cardinality(ToSet(SubSeq(keys, 1, Len(keys) - 1))) \in Nat
        BY <4>3
      <4> QED BY <3>1, <4>4 DEF SubscribeCount
    <3> QED BY <3>2, <3>3
  <2>4. /\ DOMAIN channels' \subseteq Channels
        /\ \A ch \in DOMAIN channels' : channels'[ch] \subseteq Clients
    <3>1. \A ch : MembersOf(ch) \subseteq Clients
      BY DEF MembersOf
    <3>2. /\ DOMAIN channels' = DOMAIN channels \cup ToSet(keys)
          /\ \A ch \in DOMAIN channels' :
               channels'[ch] = MembersOf(ch) \/ channels'[ch] = MembersOf(ch) \cup {c}
      BY <1>a, <1>1
    <3>3. DOMAIN channels' \subseteq Channels
      BY <2>2, <3>2
    <3>4. ASSUME NEW ch \in DOMAIN channels' PROVE channels'[ch] \subseteq Clients
      <4>1. MembersOf(ch) \subseteq Clients /\ MembersOf(ch) \cup {c} \subseteq Clients
        BY <3>1
      <4> QED BY <3>2, <4>1
    <3> QED BY <3>3, <3>4
  <2>5. told' \in [Clients -> Nat] /\ own' \in [Clients -> SUBSET Channels]
    BY <2>1, <2>2, <2>3
  <2>6. flushing' \in BOOLEAN /\ alive' \in BOOLEAN
    BY <1>0, <2>1
  <2> QED BY <2>1, <2>4, <2>5, <2>6 DEF ConnTypeOK
<1>2. ASSUME NEW c \in Clients, NEW ch \in Channels, cmd_unsubscribe(c, ch)
      PROVE  TypeOK'
  <2>1. /\ UNCHANGED <<clients, conns, response_queue, flushing, alive, published, due,
                        inbox, inherited>>
        /\ subscribers' \subseteq subscribers
        /\ own' = [own EXCEPT ![c] = @ \ {ch}]
        /\ told' = [told EXCEPT ![c] = Cardinality(ChannelsOf(c) \ {ch})]
    BY <1>2 DEF cmd_unsubscribe, conn_vars, queue_vars
  <2>2. Cardinality(ChannelsOf(c) \ {ch}) \in Nat
    BY ChannelsFinite, FS_RemoveElement, FS_CardinalityType
  <2>3. /\ DOMAIN channels' \subseteq Channels
        /\ \A x \in DOMAIN channels' : channels'[x] \subseteq Clients
    BY <1>b, <1>2
  <2>4. told' \in [Clients -> Nat] /\ own' \in [Clients -> SUBSET Channels]
    BY <2>1, <2>2
  <2>5. flushing' \in BOOLEAN /\ alive' \in BOOLEAN
    BY <1>0, <2>1
  <2> QED BY <2>1, <2>3, <2>4, <2>5 DEF ConnTypeOK
<1>3. ASSUME NEW c \in Clients, NEW ch \in Channels, cmd_publish(c, ch)
      PROVE  TypeOK'
  <2>1. PICK b \in Seq(Message) : response_queue' = response_queue \o b
    BY <1>3, PublishAppends
  <2>2. response_queue' \in Seq(Message)
    BY <2>1
  <2>3. published' = published + 1 /\ published' \in Nat
    BY <1>3 DEF cmd_publish
  <2>4. due' \in [Clients -> Seq(Nat)]
    <3>1. \A x \in Clients : Append(due[x], published + 1) \in Seq(Nat) /\ due[x] \in Seq(Nat)
      BY <2>3
    <3> QED BY <1>3, <3>1 DEF cmd_publish
  <2>5. UNCHANGED <<clients, conns, subscribers, channels, flushing, alive, told, own, inbox,
                    inherited>>
    BY <1>3 DEF cmd_publish, conn_vars, server_vars
  <2>6. flushing' \in BOOLEAN /\ alive' \in BOOLEAN
    BY <1>0, <2>5
  <2> QED BY <2>2, <2>3, <2>4, <2>5, <2>6 DEF ConnTypeOK
<1>4. ASSUME NEW c \in Clients, Accept(c)
      PROVE  TypeOK'
  <2>1. /\ clients' = clients \cup {c} /\ conns' = conns + 1
        /\ inherited' \subseteq inherited \cup {c}
        /\ own' = [own EXCEPT ![c] = {}]
        /\ due' = [due EXCEPT ![c] = <<>>] /\ inbox' = [inbox EXCEPT ![c] = <<>>]
        /\ UNCHANGED <<subscribers, channels, response_queue, flushing, alive, published, told>>
    BY <1>4 DEF Accept, Connect, server_vars, queue_vars
  <2>2. /\ own' \in [Clients -> SUBSET Channels]
        /\ due' \in [Clients -> Seq(Nat)] /\ inbox' \in [Clients -> Seq(Nat)]
    BY <2>1
  <2>3. flushing' \in BOOLEAN /\ alive' \in BOOLEAN
    BY <1>0, <2>1
  <2> QED BY <2>1, <2>2, <2>3 DEF ConnTypeOK
<1>5. ASSUME UNCHANGED <<subscribers, channels, response_queue, alive, published, told, own,
                         due, inbox, inherited, conns>>,
             clients' \subseteq clients, flushing' \in BOOLEAN
      PROVE  TypeOK'
  <2>1. alive' \in BOOLEAN
    BY <1>0, <1>5
  <2> QED BY <1>5, <2>1 DEF ConnTypeOK
<1>6. ASSUME NEW c \in Clients, Disconnect(c)
      PROVE  TypeOK'
  <2>1. flushing' \in BOOLEAN
    BY <1>0, <1>6 DEF Disconnect, queue_vars
  <2> QED BY <1>5, <1>6, <2>1 DEF Disconnect, Drop, server_vars, queue_vars
<1>7. CASE BeginFlush
  <2>1. flushing' \in BOOLEAN
    BY <1>7 DEF BeginFlush
  <2> QED BY <1>5, <1>7, <2>1 DEF BeginFlush, server_vars, conn_vars
<1>8. CASE FlushReply
  <2>1. /\ flushing' = (Len(response_queue) > 1)
        /\ alive' = (Head(response_queue).client \in clients)
        /\ response_queue' = Tail(response_queue)
        /\ inbox' = IF Head(response_queue).client \in clients
                     THEN [inbox EXCEPT ![Head(response_queue).client] =
                             Append(@, Head(response_queue).msg)] ELSE inbox
        /\ UNCHANGED <<clients, conns, subscribers, channels, published, told, own, due,
                        inherited>>
    BY <1>8 DEF FlushReply, conn_vars, server_vars
  <2>2. flushing' \in BOOLEAN /\ alive' \in BOOLEAN
    BY <2>1
  <2>3. response_queue # <<>> /\ response_queue \in Seq(Message)
    BY <1>8 DEF FlushReply
  <2>4. Head(response_queue) \in Message /\ Tail(response_queue) \in Seq(Message)
    BY <2>3
  <2>5. inbox' \in [Clients -> Seq(Nat)]
    <3>1. PICK d \in Clients : d = Head(response_queue).client
      BY <2>4 DEF Message
    <3>2. Append(inbox[d], Head(response_queue).msg) \in Seq(Nat)
      BY <2>4, SMTT(30) DEF Message
    <3> QED BY <2>1, <3>1, <3>2
  <2> QED BY <2>1, <2>2, <2>4, <2>5 DEF ConnTypeOK
<1>9. CASE UNCHANGED vars
  <2>1. flushing' \in BOOLEAN
    BY <1>0, <1>9 DEF vars, queue_vars
  <2> QED BY <1>5, <1>9, <2>1 DEF vars, conn_vars, server_vars, queue_vars
<1> QED BY <1>1, <1>2, <1>3, <1>4, <1>6, <1>7, <1>8, <1>9 DEF Next

\* What connection c has got (inb), of what is due to it (d), and what the queue q
\* has for it, when n messages were published.
DeliveryOK(c, inb, d, q, n) ==
    /\ Len(inb) <= Len(d) /\ \A i \in 1..Len(inb) : inb[i] = d[i]
    /\ \A i \in 1..Len(q) : q[i].client = c =>
         \E k \in (Len(inb) + 1)..Len(d) : d[k] = q[i].msg
    /\ \A k \in (Len(inb) + 1)..Len(d) :
         \E i \in 1..Len(q) : q[i].client = c /\ q[i].msg = d[k]
    /\ \A i, j \in 1..Len(q) :
         q[i].client = c /\ q[j].client = c /\ i < j => q[i].msg < q[j].msg
    /\ \A i, j \in 1..Len(d) : i < j => d[i] < d[j]
    /\ \A i \in 1..Len(d) : d[i] <= n

\* A batch for the members of a channel that c is not in.
LEMMA BatchForOthers ==
    ASSUME NEW c, NEW inb \in Seq(Nat), NEW d \in Seq(Nat), NEW q \in Seq(Message),
           NEW n \in Nat, DeliveryOK(c, inb, d, q, n),
           NEW b \in Seq(Message), NEW ms, BatchOK(b, ms, n + 1), c \notin ms
    PROVE  DeliveryOK(c, inb, d, q \o b, n + 1)
<1>1. PICK r \in Seq(Message) : r = q \o b
  BY ConcatProperties
<1>2. /\ Len(q) \in Nat /\ Len(b) \in Nat /\ Len(r) = Len(q) + Len(b)
      /\ \A i \in 1..Len(q) : i \in 1..Len(r) /\ r[i] = q[i]
      /\ \A i \in 1..Len(r) : i \in 1..Len(q) \/ (i - Len(q) \in 1..Len(b) /\ r[i] = b[i - Len(q)])
  BY <1>1
<1>3. \A i \in 1..Len(r) : r[i].client = c => i \in 1..Len(q) /\ r[i] = q[i]
  <2>1. \A i \in 1..Len(b) : b[i].client # c
    BY DEF BatchOK
  <2> QED BY <1>2, <2>1
<1>4. \A i \in 1..Len(r) : r[i].client = c =>
        \E k \in (Len(inb) + 1)..Len(d) : d[k] = r[i].msg
  BY <1>3 DEF DeliveryOK
<1>5. \A k \in (Len(inb) + 1)..Len(d) :
        \E i \in 1..Len(r) : r[i].client = c /\ r[i].msg = d[k]
  BY <1>2, ZenonT(60) DEF DeliveryOK
<1>6. \A i, j \in 1..Len(r) :
        r[i].client = c /\ r[j].client = c /\ i < j => r[i].msg < r[j].msg
  BY <1>3 DEF DeliveryOK
<1>7. \A i \in 1..Len(d) : d[i] <= n + 1
  <2>1. \A i \in 1..Len(d) : d[i] \in Nat /\ d[i] <= n
    BY DEF DeliveryOK
  <2> QED BY <2>1
<1> QED BY <1>1, <1>4, <1>5, <1>6, <1>7 DEF DeliveryOK

\* A batch for the members of a channel that c is in.
LEMMA BatchForMember ==
    ASSUME NEW c, NEW inb \in Seq(Nat), NEW d \in Seq(Nat), NEW q \in Seq(Message),
           NEW n \in Nat, DeliveryOK(c, inb, d, q, n),
           NEW b \in Seq(Message), NEW ms, BatchOK(b, ms, n + 1), c \in ms
    PROVE  DeliveryOK(c, inb, Append(d, n + 1), q \o b, n + 1)
<1>0. \A v \in Nat : v <= n => v < n + 1
  OBVIOUS
<1>1. PICK r \in Seq(Message) : r = q \o b
  BY ConcatProperties
<1>2. /\ Len(q) \in Nat /\ Len(b) \in Nat /\ Len(r) = Len(q) + Len(b)
      /\ \A i \in 1..Len(q) : i \in 1..Len(r) /\ r[i] = q[i]
      /\ \A i \in 1..Len(r) : i \in 1..Len(q) \/ (i - Len(q) \in 1..Len(b) /\ r[i] = b[i - Len(q)])
      /\ \A i \in 1..Len(b) : Len(q) + i \in 1..Len(r) /\ r[Len(q) + i] = b[i]
  BY <1>1
<1>3. PICK e \in Seq(Nat) : e = Append(d, n + 1)
  <2>1. n + 1 \in Nat
    OBVIOUS
  <2> QED BY <2>1, AppendProperties
<1>4. /\ Len(d) \in Nat /\ Len(inb) \in Nat /\ Len(e) = Len(d) + 1 /\ e[Len(d) + 1] = n + 1
      /\ \A i \in 1..Len(d) : e[i] = d[i]
  BY <1>3
<1>5. PICK m \in 1..Len(b) : b[m].client = c
  BY DEF BatchOK
<1>6. PICK last \in 1..Len(r) : last = Len(q) + m /\ r[last].client = c /\ r[last].msg = n + 1
  <2>1. b[m].msg = n + 1
    BY DEF BatchOK
  <2> QED BY <1>2, <1>5, <2>1, ZenonT(60)
<1>7. \A i \in 1..Len(r) : r[i].client = c => (i \in 1..Len(q) /\ r[i] = q[i]) \/ i = last
  <2> SUFFICES ASSUME NEW i \in 1..Len(r), r[i].client = c, i \notin 1..Len(q)
               PROVE  i = last
    BY <1>2
  <2>1. i - Len(q) \in 1..Len(b) /\ b[i - Len(q)].client = b[m].client
    BY <1>2, <1>5
  <2>2. i - Len(q) = m
    BY <2>1 DEF BatchOK
  <2> QED BY <1>2, <1>6, <2>2
<1>8. Len(inb) <= Len(e) /\ \A i \in 1..Len(inb) : inb[i] = e[i]
  <2>1. Len(inb) <= Len(d) /\ \A i \in 1..Len(inb) : inb[i] = d[i]
    BY DEF DeliveryOK
  <2>2. 1..Len(inb) \subseteq 1..Len(d)
    BY <1>4, <2>1
  <2> QED BY <1>4, <2>1, <2>2
<1>9. /\ (Len(inb) + 1)..Len(e) = (Len(inb) + 1)..Len(d) \cup {Len(d) + 1}
      /\ \A k \in (Len(inb) + 1)..Len(d) : k \in 1..Len(d) /\ e[k] = d[k]
  <2>1. Len(inb) <= Len(d)
    BY DEF DeliveryOK
  <2>2. (Len(inb) + 1)..Len(e) = (Len(inb) + 1)..Len(d) \cup {Len(d) + 1}
    BY <1>4, <2>1
  <2>3. \A k \in (Len(inb) + 1)..Len(d) : k \in 1..Len(d)
    BY <1>4
  <2> QED BY <1>4, <2>2, <2>3
<1>10. \A i \in 1..Len(r) : r[i].client = c =>
         \E k \in (Len(inb) + 1)..Len(e) : e[k] = r[i].msg
  <2> SUFFICES ASSUME NEW i \in 1..Len(r), r[i].client = c
               PROVE  \E k \in (Len(inb) + 1)..Len(e) : e[k] = r[i].msg
    OBVIOUS
  <2>1. CASE i \in 1..Len(q) /\ r[i] = q[i]
    <3>1. PICK k \in (Len(inb) + 1)..Len(d) : d[k] = r[i].msg
      BY <2>1 DEF DeliveryOK
    <3> QED BY <1>9, <3>1
  <2>2. CASE i = last
    BY <1>4, <1>6, <1>9, <2>2
  <2> QED BY <1>7, <2>1, <2>2
<1>11. \A k \in (Len(inb) + 1)..Len(e) :
         \E i \in 1..Len(r) : r[i].client = c /\ r[i].msg = e[k]
  <2> SUFFICES ASSUME NEW k \in (Len(inb) + 1)..Len(e)
               PROVE  \E i \in 1..Len(r) : r[i].client = c /\ r[i].msg = e[k]
    OBVIOUS
  <2>1. CASE k \in (Len(inb) + 1)..Len(d)
    <3>1. PICK i \in 1..Len(q) : q[i].client = c /\ q[i].msg = d[k]
      BY <2>1 DEF DeliveryOK
    <3> QED BY <1>2, <1>9, <2>1, <3>1
  <2>2. CASE k = Len(d) + 1
    BY <1>4, <1>6, <2>2
  <2> QED BY <1>9, <2>1, <2>2
<1>14. \A i \in 1..Len(d) : d[i] \in Nat /\ d[i] <= n
  <2>1. \A i \in 1..Len(d) : d[i] \in Nat
    BY ElementOfSeq
  <2>2. \A i \in 1..Len(d) : d[i] <= n
    BY DEF DeliveryOK
  <2> QED BY <2>1, <2>2
<1>12. \A i, j \in 1..Len(r) :
         r[i].client = c /\ r[j].client = c /\ i < j => r[i].msg < r[j].msg
  <2> SUFFICES ASSUME NEW i \in 1..Len(r), NEW j \in 1..Len(r),
                      r[i].client = c, r[j].client = c, i < j
               PROVE  r[i].msg < r[j].msg
    OBVIOUS
  <2>1. i \in 1..Len(q) /\ r[i] = q[i]
    <3>1. j \in 1..Len(q) \/ j = last
      BY <1>7
    <3>2. last > Len(q)
      BY <1>2, <1>6
    <3>3. i # last
      BY <1>2, <3>1, <3>2
    <3> QED BY <1>7, <3>3
  <2>2. CASE j \in 1..Len(q) /\ r[j] = q[j]
    BY <2>1, <2>2 DEF DeliveryOK
  <2>3. CASE j = last
    <3>1. PICK k \in (Len(inb) + 1)..Len(d) : d[k] = r[i].msg
      BY <2>1 DEF DeliveryOK
    <3>2. k \in 1..Len(d)
      BY <1>9, <3>1
    <3>3. PICK v \in Nat : v = d[k] /\ v <= n
      BY <1>14, <3>2
    <3>4. r[i].msg = v /\ r[j].msg = n + 1
      BY <1>6, <2>3, <3>1, <3>3
    <3>5. v < n + 1
      BY <1>0, <3>3
    <3> QED BY <3>4, <3>5
  <2> QED BY <1>7, <2>2, <2>3
<1>13. \A i \in 1..Len(e) : i \in 1..Len(d) \/ i = Len(d) + 1
  BY <1>4
<1>15. \A i, j \in 1..Len(e) : i < j => e[i] < e[j]
  <2> SUFFICES ASSUME NEW i \in 1..Len(e), NEW j \in 1..Len(e), i < j
               PROVE  e[i] < e[j]
    OBVIOUS
  <2>1. i \in 1..Len(d)
    BY <1>4, <1>13
  <2>2. CASE j \in 1..Len(d)
    BY <1>4, <2>1, <2>2 DEF DeliveryOK
  <2>3. CASE j = Len(d) + 1
    <3>1. e[j] = n + 1 /\ e[i] = d[i] /\ d[i] \in Nat /\ d[i] <= n
      BY <1>4, <1>14, <2>1, <2>3
    <3> QED BY <3>1
  <2> QED BY <1>13, <2>2, <2>3
<1>16. \A i \in 1..Len(e) : e[i] <= n + 1
  <2>1. \A v \in Nat : v <= n => v <= n + 1
    OBVIOUS
  <2>2. n + 1 <= n + 1
    OBVIOUS
  <2> QED BY <1>4, <1>13, <1>14, <2>1, <2>2
<1>17. DeliveryOK(c, inb, e, r, n + 1)
  BY <1>8, <1>10, <1>11, <1>12, <1>15, <1>16 DEF DeliveryOK
<1> QED BY <1>1, <1>3, <1>17

\* The first message of the queue goes to another connection.
LEMMA OthersMessage ==
    ASSUME NEW c, NEW inb \in Seq(Nat), NEW d \in Seq(Nat), NEW q \in Seq(Message),
           NEW n \in Nat, DeliveryOK(c, inb, d, q, n), q # <<>>, Head(q).client # c
    PROVE  DeliveryOK(c, inb, d, Tail(q), n)
<1>1. PICK r \in Seq(Message) : r = Tail(q)
  <2>1. Tail(q) \in Seq(Message)
    BY HeadTailProperties
  <2> QED BY <2>1
<1>2. /\ Len(q) \in Nat /\ Len(r) = Len(q) - 1 /\ q[1] = Head(q)
      /\ \A i \in 1..Len(r) : i + 1 \in 1..Len(q) /\ r[i] = q[i + 1]
  BY <1>1
<1>3. \A i \in 1..Len(q) : q[i].client = c =>
        \E j \in 1..Len(r) : r[j] = q[i]
  <2> SUFFICES ASSUME NEW i \in 1..Len(q), q[i].client = c
               PROVE  \E j \in 1..Len(r) : r[j] = q[i]
    OBVIOUS
  <2>1. i # 1
    BY <1>2
  <2>2. i - 1 \in 1..Len(r) /\ (i - 1) + 1 = i
    BY <1>2, <2>1
  <2>3. r[i - 1] = q[i]
    BY <1>2, <2>2
  <2> QED BY <2>2, <2>3
<1>4. \A i \in 1..Len(r) : r[i].client = c =>
        \E k \in (Len(inb) + 1)..Len(d) : d[k] = r[i].msg
  <2>1. \A i \in 1..Len(q) : q[i].client = c =>
          \E k \in (Len(inb) + 1)..Len(d) : d[k] = q[i].msg
    BY DEF DeliveryOK
  <2> QED BY <1>2, <2>1
<1>5. ASSUME NEW k \in (Len(inb) + 1)..Len(d)
      PROVE  \E i \in 1..Len(r) : r[i].client = c /\ r[i].msg = d[k]
  <2>1. PICK i \in 1..Len(q) : q[i].client = c /\ q[i].msg = d[k]
    BY DEF DeliveryOK
  <2> QED BY <1>3, <2>1
<1>6. ASSUME NEW i \in 1..Len(r), NEW j \in 1..Len(r),
             r[i].client = c, r[j].client = c, i < j
      PROVE  r[i].msg < r[j].msg
  <2>1. PICK x \in 1..Len(q) : x = i + 1 /\ r[i] = q[x]
    BY <1>2
  <2>2. PICK y \in 1..Len(q) : y = j + 1 /\ r[j] = q[y]
    BY <1>2
  <2>3. x < y
    BY <1>2, <1>6, <2>1, <2>2
  <2>4. \A h, k \in 1..Len(q) :
          q[h].client = c /\ q[k].client = c /\ h < k => q[h].msg < q[k].msg
    BY DEF DeliveryOK
  <2> QED BY <1>6, <2>1, <2>2, <2>3, <2>4
<1> QED BY <1>1, <1>4, <1>5, <1>6 DEF DeliveryOK

\* It goes to c: it is the next one that is due.
LEMMA OwnMessage ==
    ASSUME NEW c, NEW inb \in Seq(Nat), NEW d \in Seq(Nat), NEW q \in Seq(Message),
           NEW n \in Nat, DeliveryOK(c, inb, d, q, n), q # <<>>, Head(q).client = c
    PROVE  DeliveryOK(c, Append(inb, Head(q).msg), d, Tail(q), n)
<1>1. PICK r \in Seq(Message) : r = Tail(q)
  <2>1. Tail(q) \in Seq(Message)
    BY HeadTailProperties
  <2> QED BY <2>1
<1>2. /\ Len(q) \in Nat /\ 1 \in 1..Len(q) /\ Len(r) = Len(q) - 1 /\ q[1] = Head(q)
      /\ \A i \in 1..Len(r) : i + 1 \in 1..Len(q) /\ r[i] = q[i + 1]
  BY <1>1
<1>3. PICK L \in Nat : L = Len(inb)
  OBVIOUS
<1>4. Len(d) \in Nat /\ L <= Len(d) /\ \A i \in 1..Len(d) : d[i] \in Nat
  <2>1. \A i \in 1..Len(d) : d[i] \in Nat
    BY ElementOfSeq
  <2> QED BY <1>3, <2>1 DEF DeliveryOK
<1>5. \A i, j \in 1..Len(d) : i < j => d[i] < d[j]
  BY DEF DeliveryOK
<1>6. \A i, j \in 1..Len(q) :
        q[i].client = c /\ q[j].client = c /\ i < j => q[i].msg < q[j].msg
  BY DEF DeliveryOK
<1>7. PICK k \in (L + 1)..Len(d) : d[k] = q[1].msg
  BY <1>2, <1>3 DEF DeliveryOK
<1>8. L + 1 \in (L + 1)..Len(d) /\ L + 1 \in 1..Len(d) /\ k \in 1..Len(d)
  BY <1>4, <1>7
<1>9. k = L + 1
  <2> SUFFICES ASSUME k # L + 1 PROVE FALSE
    OBVIOUS
  <2>1. d[L + 1] < d[k]
    <3>1. L + 1 < k
      BY <1>7
    <3> QED BY <1>5, <1>8, <3>1
  <2>2. PICK i \in 1..Len(q) : q[i].client = c /\ q[i].msg = d[L + 1]
    BY <1>3, <1>8 DEF DeliveryOK
  <2>3. i # 1
    BY <1>4, <1>7, <1>8, <2>1, <2>2
  <2>4. 1 < i
    BY <1>2, <2>3
  <2>5. q[1].msg < q[i].msg
    BY <1>2, <1>6, <2>2, <2>4
  <2>6. d[k] < d[L + 1]
    BY <1>7, <2>2, <2>5
  <2> QED BY <1>4, <1>8, <2>1, <2>6, SMTT(30)
<1>10. PICK m \in Nat : m = Head(q).msg /\ m = d[L + 1]
  BY <1>2, <1>4, <1>7, <1>8, <1>9
<1>11. PICK s \in Seq(Nat) : s = Append(inb, m)
  BY AppendProperties
<1>12. Len(s) = L + 1 /\ s[L + 1] = m /\ \A i \in 1..L : s[i] = inb[i]
  BY <1>3, <1>11
<1>13. Len(s) <= Len(d) /\ \A i \in 1..Len(s) : s[i] = d[i]
  <2>1. \A i \in 1..L : inb[i] = d[i]
    BY <1>3 DEF DeliveryOK
  <2>2. \A i \in 1..(L + 1) : i \in 1..L \/ i = L + 1
    OBVIOUS
  <2>3. L + 1 <= Len(d)
    BY <1>4, <1>8
  <2> QED BY <1>10, <1>12, <2>1, <2>2, <2>3
<1>14. \A i \in 1..Len(r) : r[i].client = c =>
         \E j \in (Len(s) + 1)..Len(d) : d[j] = r[i].msg
  <2> SUFFICES ASSUME NEW i \in 1..Len(r), r[i].client = c
               PROVE  \E j \in (Len(s) + 1)..Len(d) : d[j] = r[i].msg
    OBVIOUS
  <2>1. PICK x \in 1..Len(q) : x = i + 1 /\ r[i] = q[x] /\ 1 < x
    <3>1. 1 < i + 1
      BY <1>2
    <3> QED BY <1>2, <3>1
  <2>2. q[1].msg < r[i].msg
    BY <1>2, <1>6, <2>1
  <2>3. PICK j \in (L + 1)..Len(d) : d[j] = r[i].msg
    BY <1>3, <2>1, ZenonT(60) DEF DeliveryOK
  <2>4. j # L + 1
    BY <1>4, <1>7, <1>8, <1>9, <2>2, <2>3, SMTT(30)
  <2>5. j \in (Len(s) + 1)..Len(d)
    BY <1>4, <1>12, <2>3, <2>4
  <2> QED BY <2>3, <2>5
<1>15. ASSUME NEW j \in (Len(s) + 1)..Len(d)
       PROVE  \E i \in 1..Len(r) : r[i].client = c /\ r[i].msg = d[j]
  <2>1. j \in (L + 1)..Len(d) /\ j \in 1..Len(d) /\ L + 1 < j
    BY <1>4, <1>12
  <2>2. d[L + 1] < d[j]
    BY <1>5, <1>8, <2>1
  <2>3. PICK i \in 1..Len(q) : q[i].client = c /\ q[i].msg = d[j]
    BY <1>3, <2>1 DEF DeliveryOK
  <2>4. i # 1
    BY <1>4, <1>7, <1>8, <1>9, <2>1, <2>2, <2>3, SMTT(30)
  <2>5. i - 1 \in 1..Len(r) /\ (i - 1) + 1 = i
    BY <1>2, <2>4
  <2>6. r[i - 1] = q[i]
    BY <1>2, <2>5
  <2> QED BY <2>3, <2>5, <2>6
<1>16. ASSUME NEW i \in 1..Len(r), NEW j \in 1..Len(r),
              r[i].client = c, r[j].client = c, i < j
       PROVE  r[i].msg < r[j].msg
  <2>1. PICK x \in 1..Len(q) : x = i + 1 /\ r[i] = q[x]
    BY <1>2
  <2>2. PICK y \in 1..Len(q) : y = j + 1 /\ r[j] = q[y]
    BY <1>2
  <2>3. x < y
    BY <1>2, <1>16, <2>1, <2>2
  <2> QED BY <1>6, <1>16, <2>1, <2>2, <2>3
<1>17. \A i \in 1..Len(d) : d[i] <= n
  BY DEF DeliveryOK
<1>18. DeliveryOK(c, s, d, r, n)
  BY <1>5, <1>13, <1>14, <1>15, <1>16, <1>17 DEF DeliveryOK
<1> QED BY <1>1, <1>10, <1>11, <1>18

DeliveryInv ==
    alive => \A c \in clients \ inherited :
                 DeliveryOK(c, inbox[c], due[c], response_queue, published)

FlushInv == flushing => response_queue # <<>>

\* A flush ends with the last message.
LEMMA FlushStep ==
    ASSUME TypeOK, FlushInv, [Next]_vars
    PROVE  FlushInv'
<1>0. response_queue \in Seq(Message)
  BY DEF TypeOK
<1>1. CASE UNCHANGED <<response_queue, flushing>>
  BY <1>1 DEF FlushInv
<1>2. CASE ~flushing /\ flushing' = flushing
  BY <1>2 DEF FlushInv
<1>3. CASE BeginFlush
  BY <1>3 DEF BeginFlush, FlushInv
<1>4. CASE FlushReply
  <2>1. flushing' = (Len(response_queue) > 1) /\ response_queue' = Tail(response_queue)
    BY <1>4 DEF FlushReply
  <2>2. ASSUME Len(response_queue) > 1 PROVE Tail(response_queue) # <<>>
    <3>1. PICK q \in Seq(Message) : q = response_queue
      BY <1>0
    <3>2. PICK n \in Nat : n = Len(q) /\ n > 1
      BY <2>2, <3>1
    <3>3. q # <<>>
      BY <3>2, EmptySeq
    <3>4. Len(Tail(q)) = n - 1 /\ n - 1 # 0
      BY <3>2, <3>3, HeadTailProperties, SMTT(30)
    <3>5. Tail(q) # <<>>
      BY <3>4, EmptySeq
    <3> QED BY <3>1, <3>5
  <2> QED BY <2>1, <2>2 DEF FlushInv
<1>5. ASSUME NEW c \in Clients,
             \/ Accept(c) \/ Disconnect(c)
             \/ \E keys \in Subscriptions : cmd_subscribe(c, keys)
             \/ \E ch \in Channels : cmd_unsubscribe(c, ch) \/ cmd_publish(c, ch)
      PROVE  ~flushing /\ flushing' = flushing
  BY <1>5 DEF Accept, Disconnect, cmd_subscribe, cmd_unsubscribe, cmd_publish, Reads, queue_vars
<1>6. CASE UNCHANGED vars
  BY <1>1, <1>6 DEF vars, queue_vars
<1> QED BY <1>2, <1>3, <1>4, <1>5, <1>6 DEF Next

\* PUBLISH: the message is due to those who get it.
LEMMA PublishDelivers ==
    ASSUME TypeOK, ChannelInv, OwnInv, DeliveryInv, NEW c \in Clients, NEW ch \in Channels,
           cmd_publish(c, ch), NEW x \in clients \ inherited
    PROVE  DeliveryOK(x, inbox'[x], due'[x], response_queue', published')
<1>1. PICK b \in Seq(Message) : /\ response_queue' = response_queue \o b
                                /\ BatchOK(b, MembersOf(ch), published + 1)
  BY PublishAppends
<1>2. /\ alive /\ published' = published + 1 /\ inbox' = inbox
      /\ due' = [y \in Clients |-> IF y \in clients /\ ch \in own[y]
                                   THEN Append(due[y], published + 1) ELSE due[y]]
  BY DEF cmd_publish, Reads
<1>3. /\ x \in Clients /\ inbox[x] \in Seq(Nat) /\ due[x] \in Seq(Nat)
      /\ response_queue \in Seq(Message) /\ published \in Nat
  BY DEF TypeOK, ConnTypeOK
<1>4. DeliveryOK(x, inbox[x], due[x], response_queue, published)
  BY <1>2 DEF DeliveryInv
<1>5. ch \in own[x] <=> x \in MembersOf(ch)
  <2>1. own[x] = ChannelsOf(x)
    BY DEF OwnInv
  <2> QED BY <2>1 DEF ChannelsOf, MembersOf
<1>6. CASE x \in MembersOf(ch)
  <2>1. due'[x] = Append(due[x], published + 1)
    BY <1>2, <1>3, <1>5, <1>6
  <2>2. DeliveryOK(x, inbox[x], Append(due[x], published + 1), response_queue \o b, published + 1)
    BY <1>1, <1>3, <1>4, <1>6, BatchForMember
  <2> QED BY <1>1, <1>2, <2>1, <2>2
<1>7. CASE x \notin MembersOf(ch)
  <2>1. due'[x] = due[x]
    BY <1>2, <1>3, <1>5, <1>7
  <2>2. DeliveryOK(x, inbox[x], due[x], response_queue \o b, published + 1)
    BY <1>1, <1>3, <1>4, <1>7, BatchForOthers
  <2> QED BY <1>1, <1>2, <2>1, <2>2
<1> QED BY <1>6, <1>7

\* The end of the cycle: a message is written to its connection.
LEMMA FlushDelivers ==
    ASSUME TypeOK, FlushInv, DeliveryInv, FlushReply, alive', NEW x \in clients \ inherited
    PROVE  DeliveryOK(x, inbox'[x], due[x], response_queue', published)
<1>1. PICK q \in Seq(Message) : q = response_queue /\ q # <<>>
  BY DEF TypeOK, FlushInv, FlushReply
<1>2. /\ alive /\ response_queue' = Tail(q) /\ Head(q).client \in clients
      /\ inbox' = [inbox EXCEPT ![Head(q).client] = Append(@, Head(q).msg)]
  BY <1>1 DEF FlushReply
<1>3. /\ x \in Clients /\ inbox \in [Clients -> Seq(Nat)] /\ inbox[x] \in Seq(Nat)
      /\ due[x] \in Seq(Nat) /\ published \in Nat
  BY DEF TypeOK, ConnTypeOK
<1>4. DeliveryOK(x, inbox[x], due[x], q, published)
  BY <1>1, <1>2 DEF DeliveryInv
<1>5. CASE Head(q).client = x
  <2>1. inbox'[x] = Append(inbox[x], Head(q).msg)
    BY <1>2, <1>3, <1>5
  <2>2. DeliveryOK(x, Append(inbox[x], Head(q).msg), due[x], Tail(q), published)
    BY <1>1, <1>3, <1>4, <1>5, OwnMessage
  <2> QED BY <1>2, <2>1, <2>2
<1>6. CASE Head(q).client # x
  <2>1. inbox'[x] = inbox[x]
    BY <1>2, <1>3, <1>6
  <2>2. DeliveryOK(x, inbox[x], due[x], Tail(q), published)
    BY <1>1, <1>3, <1>4, <1>6, OthersMessage
  <2> QED BY <1>2, <2>1, <2>2
<1> QED BY <1>5, <1>6

\* Every step keeps the delivery of every connection.
LEMMA DeliveryStep ==
    ASSUME TypeOK, ChannelInv, OwnInv, FlushInv, DeliveryInv, [Next]_vars
    PROVE  DeliveryInv'
<1>1. ASSUME UNCHANGED <<alive, inherited, inbox, due, response_queue, published>>,
             clients' \subseteq clients
      PROVE  DeliveryInv'
  BY <1>1 DEF DeliveryInv
<1>2. ASSUME NEW c \in Clients,
             \/ Disconnect(c)
             \/ \E keys \in Subscriptions : cmd_subscribe(c, keys)
             \/ \E ch \in Channels : cmd_unsubscribe(c, ch)
      PROVE  DeliveryInv'
  BY <1>1, <1>2 DEF Disconnect, Drop, cmd_subscribe, cmd_unsubscribe, conn_vars, queue_vars
<1>3. ASSUME NEW c \in Clients, NEW ch \in Channels, cmd_publish(c, ch)
      PROVE  DeliveryInv'
  <2>1. UNCHANGED <<clients, inherited>>
    BY <1>3 DEF cmd_publish, conn_vars
  <2>2. \A x \in clients \ inherited :
          DeliveryOK(x, inbox'[x], due'[x], response_queue', published')
    BY <1>3, PublishDelivers
  <2> QED BY <2>1, <2>2 DEF DeliveryInv
<1>4. CASE FlushReply
  <2>1. UNCHANGED <<clients, inherited, due, published>>
    BY <1>4 DEF FlushReply, conn_vars
  <2>2. alive' => \A x \in clients \ inherited :
                     DeliveryOK(x, inbox'[x], due[x], response_queue', published)
    BY <1>4, FlushDelivers
  <2> QED BY <2>1, <2>2 DEF DeliveryInv
<1>5. ASSUME NEW c \in Clients, Accept(c)
      PROVE  DeliveryInv'
  <2>1. /\ alive /\ clients' = clients \cup {c} /\ c \notin clients
        /\ inherited \subseteq inherited'
        /\ c \notin inherited' =>
             \A i \in 1..Len(response_queue) : response_queue[i].client # c
        /\ due' = [due EXCEPT ![c] = <<>>] /\ inbox' = [inbox EXCEPT ![c] = <<>>]
        /\ UNCHANGED <<response_queue, published>>
    BY <1>5 DEF Accept, Connect, queue_vars
  <2>2. due'[c] = <<>> /\ inbox'[c] = <<>>
    BY <2>1 DEF TypeOK
  <2>3. \A x \in clients : due'[x] = due[x] /\ inbox'[x] = inbox[x]
    BY <2>1 DEF TypeOK, ConnTypeOK
  <2>4. ASSUME \A i \in 1..Len(response_queue) : response_queue[i].client # c
        PROVE  DeliveryOK(c, <<>>, <<>>, response_queue, published)
    <3>1. Len(<<>>) = 0 /\ 1..0 = {} /\ (0 + 1)..0 = {} /\ 0 <= 0
      OBVIOUS
    <3> QED BY <2>4, <3>1 DEF DeliveryOK
  <2>5. \A x \in clients \ inherited : DeliveryOK(x, inbox[x], due[x], response_queue, published)
    BY <2>1 DEF DeliveryInv
  <2>6. ASSUME NEW x \in clients' \ inherited'
        PROVE  DeliveryOK(x, inbox'[x], due'[x], response_queue, published)
    <3>1. CASE x = c
      BY <2>1, <2>2, <2>4, <3>1
    <3>2. CASE x # c
      BY <2>1, <2>3, <2>5, <3>2
    <3> QED BY <3>1, <3>2
  <2> QED BY <2>1, <2>6 DEF DeliveryInv
<1>6. CASE BeginFlush
  BY <1>1, <1>6 DEF BeginFlush, conn_vars
<1>7. CASE UNCHANGED vars
  BY <1>1, <1>7 DEF vars, conn_vars, queue_vars
<1> QED BY <1>2, <1>3, <1>4, <1>5, <1>6, <1>7 DEF Next

-----------------------------------------------------------------------------
(***************************************************************************)
(* The invariant and what it implies.                                       *)
(***************************************************************************)
PubSubInv == TypeOK /\ ChannelInv /\ OwnInv /\ FlushInv /\ DeliveryInv

\* The state after start satisfies the invariant, and has told nobody anything.
LEMMA InitPubSub == Init => PubSubInv /\ ToldInv
<1> SUFFICES ASSUME Init PROVE PubSubInv /\ ToldInv
  OBVIOUS
<1>1. TypeOK
  <2>1. flushing \in BOOLEAN /\ alive \in BOOLEAN
    BY DEF Init
  <2>2. <<>> \in Seq(Message) /\ <<>> \in Seq(Nat)
    OBVIOUS
  <2> QED BY <2>1, <2>2 DEF Init, ConnInit, TypeOK, ConnTypeOK, EmptyMap
<1>2. DOMAIN channels = {}
  BY DEF Init, EmptyMap
<1>3. ChannelInv
  BY <1>2, FS_EmptySet DEF ChannelInv
<1>4. OwnInv /\ DeliveryInv
  BY DEF Init, ConnInit, OwnInv, DeliveryInv
<1>5. FlushInv
  BY DEF Init, FlushInv
<1>6. ToldInv
  <2>1. \A c : ChannelsOf(c) = {}
    BY <1>2 DEF ChannelsOf
  <2> QED BY <2>1, FS_EmptySet DEF Init, ToldInv
<1> QED BY <1>1, <1>3, <1>4, <1>5, <1>6 DEF PubSubInv

\* Every step keeps it.
LEMMA NextPubSub == PubSubInv /\ [Next]_vars => PubSubInv'
<1> SUFFICES ASSUME PubSubInv, [Next]_vars PROVE PubSubInv'
  OBVIOUS
<1>1. TypeOK /\ ChannelInv /\ OwnInv /\ FlushInv /\ DeliveryInv
  BY DEF PubSubInv
<1>2. TypeOK'
  BY <1>1, TypeStep DEF FlushInv
<1>3. ChannelInv' /\ OwnInv' /\ FlushInv' /\ DeliveryInv'
  BY <1>1, ChannelStep, OwnStep, FlushStep, DeliveryStep
<1> QED BY <1>2, <1>3 DEF PubSubInv

\* The invariant of channels, queue and connections holds for any constants.
THEOREM PubSubInvCorrect == Spec => []PubSubInv
BY InitPubSub, NextPubSub, PTL DEF Spec

\* cmd_publish and the flush of main.rs deliver every message once and in order to
\* each connection that is subscribed when it is published, however subscriptions,
\* disconnections and publications of others interleave.
THEOREM Delivery == Spec => []MessagesReachSubscribers
<1>1. PubSubInv => MessagesReachSubscribers
  <2> SUFFICES ASSUME PubSubInv, alive, NEW c \in clients \ inherited
               PROVE  /\ IsPrefix(inbox[c], due[c])
                      /\ {response_queue[i].msg : i \in QueuedFor(c)}
                             = {due[c][k] : k \in (Len(inbox[c]) + 1)..Len(due[c])}
                      /\ \A i, j \in QueuedFor(c) :
                           i < j => response_queue[i].msg < response_queue[j].msg
    BY DEF MessagesReachSubscribers
  <2>1. DeliveryOK(c, inbox[c], due[c], response_queue, published)
    BY DEF PubSubInv, DeliveryInv
  <2>2. PICK s \in Seq(Nat) : s = inbox[c]
    BY DEF PubSubInv, TypeOK, ConnTypeOK
  <2>3. PICK d \in Seq(Nat) : d = due[c]
    BY DEF PubSubInv, TypeOK, ConnTypeOK
  <2>4. IsPrefix(s, d)
    <3>1. Len(s) \in Nat /\ Len(d) \in Nat /\ Len(s) <= Len(d) /\ \A i \in 1..Len(s) : s[i] = d[i]
      BY <2>1, <2>2, <2>3 DEF DeliveryOK
    <3>2. SubSeq(s, 1, Len(s)) = SubSeq(d, 1, Len(s))
      BY <3>1
    <3> QED BY <3>1, <3>2 DEF IsPrefix
  <2>5. {response_queue[i].msg : i \in QueuedFor(c)}
            = {due[c][k] : k \in (Len(inbox[c]) + 1)..Len(due[c])}
    <3>1. \A i \in QueuedFor(c) :
            \E k \in (Len(inbox[c]) + 1)..Len(due[c]) : due[c][k] = response_queue[i].msg
      BY <2>1 DEF DeliveryOK, QueuedFor
    <3>2. \A k \in (Len(inbox[c]) + 1)..Len(due[c]) :
            \E i \in QueuedFor(c) : response_queue[i].msg = due[c][k]
      BY <2>1 DEF DeliveryOK, QueuedFor
    <3>3. PICK A, B : A = {response_queue[i].msg : i \in QueuedFor(c)}
                      /\ B = {due[c][k] : k \in (Len(inbox[c]) + 1)..Len(due[c])}
      OBVIOUS
    <3>4. A \subseteq B
      BY <3>1, <3>3, Zenon
    <3>5. B \subseteq A
      BY <3>2, <3>3, Zenon
    <3>6. A = B
      BY <3>4, <3>5
    <3> QED BY <3>3, <3>6
  <2>6. \A i, j \in QueuedFor(c) : i < j => response_queue[i].msg < response_queue[j].msg
    BY <2>1 DEF DeliveryOK, QueuedFor
  <2> QED BY <2>2, <2>3, <2>4, <2>5, <2>6
<1> QED BY <1>1, PubSubInvCorrect, PTL

\* The counts that cmd_subscribe and cmd_unsubscribe take from an Rc are the numbers
\* of channels the client is in, when no SUBSCRIBE names a channel twice (which the
\* comment in cmd_subscribe asks for).
THEOREM Counts == NoDuplicates => (Spec => []CountIsTruthful)
<1> SUFFICES ASSUME NoDuplicates PROVE Spec => []CountIsTruthful
  OBVIOUS
<1>1. PubSubInv /\ ToldInv => CountIsTruthful
  BY DEF PubSubInv, ChannelInv, ToldInv, CountIsTruthful, TypeOK
<1>2. PubSubInv /\ ToldInv /\ [Next]_vars => ToldInv'
  BY ToldStep DEF PubSubInv
<1> QED BY <1>1, <1>2, InitPubSub, NextPubSub, PTL DEF Spec

-----------------------------------------------------------------------------
(***************************************************************************)
(* Authentication keeps its state by the descriptors of the same table of   *)
(* clients: Auth, for any passwords.                                        *)
(***************************************************************************)
\* Logins and connections by descriptor.
LoginTypes ==
    /\ conns \in Nat
    /\ conn \in [Clients -> Nat]
    /\ login \in [Clients -> [conn: Nat, by: Passwords \cup {NoPass}]]

\* A login is of a client in the table, which is what a disconnection must keep.
LoginInv == LoginTypes /\ auth \subseteq Clients /\ LoginIsOwn

\* A client enters the table of logins as the connection that its descriptor is.
LEMMA EnterKeeps ==
    ASSUME LoginTypes, auth \subseteq Clients, NEW c \in Clients, NEW id \in Nat,
           NEW by \in Passwords \cup {NoPass},
           Enter(c, id, by)
    PROVE  /\ auth' = auth \cup {c}
           /\ login' \in [Clients -> [conn: Nat, by: Passwords \cup {NoPass}]]
           /\ login'[c].conn = id /\ login'[c].by = by
           /\ \A x \in Clients \ {c} : login'[x] = login[x]
BY DEF LoginTypes, Enter

\* Whoever is connected under the descriptor of an earlier client has its own login or
\* none, with a password of the user or because none was asked for.
THEOREM LoginsAreOwn == AuthSpec => []LoginIsOwn
<1>1. AuthInit => LoginInv
  BY DEF AuthInit, ConnInit, LoginInv, LoginTypes, LoginIsOwn
<1>2. ASSUME LoginInv, [AuthNext]_auth_vars PROVE LoginInv'
  <2> USE <1>2 DEF LoginInv
  <2>1. ASSUME NEW c \in Clients, AuthAccept(c) PROVE LoginInv'
    <3>1. /\ conns' = conns + 1 /\ clients' = clients \cup {c} /\ c \notin clients
          /\ conn' = [conn EXCEPT ![c] = conns + 1] /\ UNCHANGED passwords
      BY <2>1 DEF AuthAccept, Connect
    <3>2. /\ conns' \in Nat /\ conn' \in [Clients -> Nat] /\ conn'[c] = conns + 1
          /\ \A x \in Clients \ {c} : conn'[x] = conn[x]
      BY <3>1 DEF LoginTypes
    <3>3. CASE nopass
      <4>1. Enter(c, conns + 1, NoPass)
        BY <2>1, <3>3 DEF AuthAccept
      <4>2. /\ auth' = auth \cup {c}
            /\ login' \in [Clients -> [conn: Nat, by: Passwords \cup {NoPass}]]
            /\ login'[c].conn = conns + 1 /\ login'[c].by = NoPass
            /\ \A x \in Clients \ {c} : login'[x] = login[x]
        BY <3>2, <4>1, EnterKeeps DEF LoginTypes
      <4> QED BY <3>1, <3>2, <4>2 DEF LoginTypes, LoginIsOwn
    <3>4. CASE ~nopass
      <4>1. UNCHANGED <<auth, login>>
        BY <2>1, <3>4 DEF AuthAccept
      <4> QED BY <3>1, <3>2, <4>1 DEF LoginTypes, LoginIsOwn
    <3> QED BY <3>3, <3>4
  <2>2. ASSUME NEW c \in Clients, AuthDisconnect(c) PROVE LoginInv'
    BY <2>2 DEF AuthDisconnect, Drop, LoginTypes, LoginIsOwn
  <2>3. ASSUME NEW c \in Clients, NEW user, NEW password \in Passwords, cmd_auth(c, user, password)
        PROVE  LoginInv'
    <3>1. /\ c \in clients /\ password \in passwords /\ Enter(c, conn[c], password)
          /\ UNCHANGED <<clients, conns, passwords, conn>>
      BY <2>3 DEF cmd_auth, conn_vars
    <3>2. /\ auth' = auth \cup {c}
          /\ login' \in [Clients -> [conn: Nat, by: Passwords \cup {NoPass}]]
          /\ login'[c].conn = conn[c] /\ login'[c].by = password
          /\ \A x \in Clients \ {c} : login'[x] = login[x]
      BY <3>1, EnterKeeps DEF LoginTypes
    <3> QED BY <3>1, <3>2 DEF LoginTypes, LoginIsOwn
  <2>4. ASSUME NEW c \in Clients, NEW user, NEW rule, cmd_acl_setuser(c, user, rule)
        PROVE  LoginInv'
    <3>1. passwords \subseteq passwords' /\ UNCHANGED <<clients, conns, auth, conn, login>>
      BY <2>4 DEF cmd_acl_setuser, ApplyRule, conn_vars
    <3> QED BY <3>1 DEF LoginTypes, LoginIsOwn
  <2>5. CASE UNCHANGED auth_vars
    BY <2>5 DEF auth_vars, conn_vars, LoginTypes, LoginIsOwn
  <2> QED BY <2>1, <2>2, <2>3, <2>4, <2>5 DEF AuthNext
<1> QED BY <1>1, <1>2, PTL DEF LoginInv, AuthSpec

=============================================================================
