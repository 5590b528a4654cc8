-------------------------- MODULE TransactionsProofs --------------------------
(***************************************************************************)
(* Optimistic locking and the queues of transactions: proofs for any number *)
(* of clients, connections, keys and queued commands and any interleaving.  *)
(***************************************************************************)
EXTENDS Transactions, SequenceTheorems, TLAPS

\* The queue of an open transaction is what its connection has sent since MULTI,
\* and while EXEC runs the drained commands have taken its place.
QueueInv ==
    /\ exec = Nobody => ran = <<>>
    /\ exec # Nobody =>
         /\ exec \in DOMAIN backlog_txn
         /\ exec \notin inherited => ran \o left = sent[exec]
    /\ \A c \in (clients \cap DOMAIN backlog_txn) \ inherited :
         c # exec => backlog_txn[c] = sent[c]

\* Only a watcher of a key has a history of it, and a key that someone watches
\* without a mark is not about to be popped for a waiting BLPOP, unless it was when
\* that client watched it.
WatchInv ==
    /\ \A x \in changed : x[2] \in DOMAIN watchlist[x[3]]
    /\ \A k \in Keys : \A c \in DOMAIN watchlist[k] :
         ~watchlist[k][c] /\ IsDue(k) => <<c, k>> \in due

MarksInv == DirtyWhenChanged /\ WatchInv

IInv == TypeOK /\ MarksInv /\ QueueInv

-----------------------------------------------------------------------------
\* HashMap::remove.
LEMMA WithoutFacts ==
    ASSUME NEW f, NEW x
    PROVE  /\ DOMAIN Without(f, x) = DOMAIN f \ {x}
           /\ \A y \in DOMAIN f \ {x} : Without(f, x)[y] = f[y]
BY DEF Without, Restrict

\* A command that names a key names one of Keys.
LEMMA CommandKey ==
    ASSUME NEW cmd \in Command, cmd.op \in KeyOps
    PROVE  cmd.key \in Keys
BY DEF Command, KeyOps, PlainOps

-----------------------------------------------------------------------------
(***************************************************************************)
(* What the steps do to the watchlist.                                      *)
(***************************************************************************)
WatchType(list) ==
    /\ DOMAIN list = Keys
    /\ \A k \in Keys : /\ DOMAIN list[k] \subseteq Clients
                       /\ \A c \in DOMAIN list[k] : list[k][c] \in BOOLEAN

\* set_dirty marks every watcher of the command's key, if it lists the command, and
\* leaves the other keys alone.
LEMMA SetDirtyFacts ==
    ASSUME WatchType(watchlist), NEW cmd, cmd.key \in Keys, set_dirty(cmd)
    PROVE  /\ WatchType(watchlist')
           /\ \A k \in Keys : DOMAIN watchlist'[k] = DOMAIN watchlist[k]
           /\ cmd.op \in Listed => \A c \in DOMAIN watchlist[cmd.key] : watchlist'[cmd.key][c]
           /\ \A k \in Keys \ {cmd.key} : watchlist'[k] = watchlist[k]
           /\ cmd.op \notin Listed => watchlist' = watchlist
<1>1. CASE cmd.op \in Listed
  <2> DEFINE k == cmd.key
  <2>1. /\ DOMAIN watchlist' = Keys
        /\ watchlist'[k] = [c \in DOMAIN watchlist[k] |-> TRUE]
        /\ \A x \in Keys \ {k} : watchlist'[x] = watchlist[x]
    BY <1>1 DEF set_dirty, WatchType
  <2>2. /\ DOMAIN watchlist'[k] = DOMAIN watchlist[k]
        /\ \A c \in DOMAIN watchlist[k] : watchlist'[k][c] = TRUE
    BY <2>1
  <2>3. WatchType(watchlist')
    BY <2>1, <2>2 DEF WatchType
  <2> QED BY <1>1, <2>1, <2>2, <2>3
<1>2. CASE cmd.op \notin Listed
  BY <1>2 DEF set_dirty
<1> QED BY <1>1, <1>2

\* unwatch_all takes the client out of every map of watchers, and its history with it.
LEMMA UnwatchFacts ==
    ASSUME WatchType(watchlist), NEW c, unwatch_all(c)
    PROVE  /\ WatchType(watchlist')
           /\ \A k \in Keys :
                /\ DOMAIN watchlist'[k] = DOMAIN watchlist[k] \ {c}
                /\ \A x \in DOMAIN watchlist'[k] : watchlist'[k][x] = watchlist[k][x]
           /\ changed' = {x \in changed : x[2] # c}
           /\ due' = {x \in due : x[1] # c}
<1>1. watchlist' = [k \in Keys |-> Without(watchlist[k], c)]
  BY DEF unwatch_all
<1>2. \A k \in Keys :
        /\ DOMAIN watchlist'[k] = DOMAIN watchlist[k] \ {c}
        /\ \A x \in DOMAIN watchlist'[k] : watchlist'[k][x] = watchlist[k][x]
  <2> SUFFICES ASSUME NEW k \in Keys
               PROVE  /\ DOMAIN watchlist'[k] = DOMAIN watchlist[k] \ {c}
                      /\ \A x \in DOMAIN watchlist'[k] : watchlist'[k][x] = watchlist[k][x]
    OBVIOUS
  <2>1. watchlist'[k] = Without(watchlist[k], c)
    BY <1>1
  <2> QED BY <2>1 DEF Without, Restrict
<1>3. WatchType(watchlist')
  <2>1. DOMAIN watchlist' = Keys
    BY <1>1
  <2> QED BY <1>2, <2>1 DEF WatchType
<1> QED BY <1>2, <1>3 DEF unwatch_all

-----------------------------------------------------------------------------
(***************************************************************************)
(* What the steps do to the keys.                                           *)
(***************************************************************************)
\* The types of the keys and of what is recorded of them.
KeyType ==
    /\ type \in [Keys -> {"none", "list", "zset", "other"}]
    /\ items \in [Keys -> Nat] /\ waiting \in [Keys -> Nat]
    /\ flag_backlog_list \in BOOLEAN
    /\ changed \subseteq Changes \X Clients \X Keys
    /\ due \subseteq Clients \X Keys

DataType == KeyType /\ WatchType(watchlist)

\* A key gets a type and a number of items; the others keep theirs.
LEMMA HoldFacts ==
    ASSUME KeyType, NEW k \in Keys, NEW t \in {"none", "list", "zset", "other"},
           NEW n \in Nat, Hold(k, t, n)
    PROVE  /\ type' \in [Keys -> {"none", "list", "zset", "other"}]
           /\ items' \in [Keys -> Nat]
           /\ items'[k] = n
           /\ \A x \in Keys \ {k} : items'[x] = items[x]
BY DEF KeyType, Hold

\* A change of a key is recorded for its watchers.
LEMMA RecordFacts ==
    ASSUME DataType, NEW k \in Keys, NEW how \in Changes, Record(how, k)
    PROVE  /\ changed' \subseteq Changes \X Clients \X Keys
           /\ \A x \in changed' : x \in changed \/ (x[1] = how /\ x[2] \in DOMAIN watchlist[k] /\ x[3] = k)
<1>1. DOMAIN watchlist[k] \subseteq Clients
  BY DEF DataType, WatchType
<1>2. changed' = changed \cup {<<how, c, k>> : c \in DOMAIN watchlist[k]}
  BY DEF Record
<1>3. \A c \in DOMAIN watchlist[k] : <<how, c, k>> \in Changes \X Clients \X Keys
  BY <1>1
<1> QED BY <1>2, <1>3 DEF DataType, KeyType

\* A command changes its own key only, and records that change only.
LEMMA KeyCommandFacts ==
    ASSUME DataType, NEW k \in Keys, UNCHANGED due,
           \/ Push(k) \/ Pop(k) \/ Write(k) \/ Refused(k) \/ Blpop(k)
    PROVE  /\ KeyType'
           /\ \A x \in Keys \ {k} : items'[x] = items[x] /\ waiting'[x] = waiting[x]
           /\ \A x \in changed' : x \in changed \/ (x[2] \in DOMAIN watchlist[k] /\ x[3] = k)
<1>0. /\ "listed" \in Changes
      /\ type[k] \in {"none", "list", "zset", "other"} /\ items[k] \in Nat
  BY DEF Changes, DataType, KeyType
<1>1. CASE Push(k)
  <2>1. PICK n \in items[k] + 1 .. MaxItems : Hold(k, "list", n)
    BY <1>1 DEF Push
  <2>2. n \in Nat
    BY <1>0, TransactionsAssumption
  <2> QED BY <1>0, <1>1, <2>1, <2>2, HoldFacts, RecordFacts DEF Push, DataType, KeyType
<1>2. CASE Pop(k)
  <2>1. PICK n \in 0 .. items[k] : Hold(k, type[k], n)
    BY <1>2 DEF Pop
  <2>2. n \in Nat
    BY <1>0
  <2>3. /\ type' \in [Keys -> {"none", "list", "zset", "other"}]
        /\ items' \in [Keys -> Nat] /\ \A x \in Keys \ {k} : items'[x] = items[x]
    BY <1>0, <2>1, <2>2, HoldFacts DEF DataType
  <2> QED BY <1>0, <1>2, <2>3, RecordFacts DEF Pop, DataType, KeyType
<1>3. CASE Write(k)
  <2>1. PICK t \in {"other", "none"} : Hold(k, t, 0)
    BY <1>3 DEF Write
  <2>2. t \in {"none", "list", "zset", "other"} /\ 0 \in Nat
    OBVIOUS
  <2>3. /\ type' \in [Keys -> {"none", "list", "zset", "other"}]
        /\ items' \in [Keys -> Nat] /\ \A x \in Keys \ {k} : items'[x] = items[x]
    BY <2>1, <2>2, HoldFacts DEF DataType
  <2> QED BY <1>0, <1>3, <2>3, RecordFacts DEF Write, DataType, KeyType
<1>4. CASE Refused(k)
  <2>1. CASE UNCHANGED <<type, items, changed>>
    <3>1. UNCHANGED <<type, items, waiting, flag_backlog_list, changed>>
      BY <1>4, <2>1 DEF Refused
    <3>2. KeyType'
      BY <3>1 DEF DataType, KeyType
    <3> QED BY <3>1, <3>2
  <2>2. CASE Hold(k, "other", 0) /\ Record("listed", k)
    BY <1>0, <1>4, <2>2, HoldFacts, RecordFacts DEF Refused, DataType, KeyType
  <2> QED BY <1>4, <2>1, <2>2 DEF Refused
<1>5. CASE Blpop(k)
  <2>1. /\ UNCHANGED <<type, items, flag_backlog_list, changed>>
        /\ waiting' = [waiting EXCEPT ![k] = waiting[k] + 1]
    BY <1>5 DEF Blpop
  <2>2. waiting' \in [Keys -> Nat] /\ \A x \in Keys \ {k} : waiting'[x] = waiting[x]
    BY <2>1 DEF DataType, KeyType
  <2>3. KeyType'
    BY <2>1, <2>2 DEF DataType, KeyType
  <2> QED BY <2>1, <2>2, <2>3
<1> QED BY <1>1, <1>2, <1>3, <1>4, <1>5

\* ZADD, ZREM and GEOADD leave no list behind.
LEMMA ZwriteFacts ==
    ASSUME DataType, NEW k \in Keys, UNCHANGED due, Zwrite(k)
    PROVE  /\ KeyType' /\ ~IsDue(k)'
           /\ \A x \in Keys \ {k} : items'[x] = items[x] /\ waiting'[x] = waiting[x]
           /\ \A x \in changed' :
                x \in changed \/ (x[1] = "zset" /\ x[2] \in DOMAIN watchlist[k] /\ x[3] = k)
<1>1. "zset" \in Changes
  BY DEF Changes
<1>2. Hold(k, "zset", 0) /\ Record("zset", k) /\ UNCHANGED waiting /\ flag_backlog_list' \in BOOLEAN
  BY DEF Zwrite, DataType, KeyType
<1>3. items'[k] = 0 /\ items' \in [Keys -> Nat] /\ \A x \in Keys \ {k} : items'[x] = items[x]
  BY <1>2, HoldFacts DEF DataType
<1>4. type' \in [Keys -> {"none", "list", "zset", "other"}]
  BY <1>2, HoldFacts DEF DataType
<1>5. KeyType'
  BY <1>1, <1>2, <1>3, <1>4, RecordFacts DEF DataType, KeyType
<1> QED BY <1>1, <1>2, <1>3, <1>5, RecordFacts DEF IsDue

-----------------------------------------------------------------------------
(***************************************************************************)
(* The marks.                                                               *)
(***************************************************************************)
\* What MarksInv says of one watcher without a mark.
Clean(c, k) == c \in DOMAIN watchlist[k] /\ ~watchlist[k][c]

LEMMA CleanFacts ==
    MarksInv <=> /\ \A x \in changed : x[2] \in DOMAIN watchlist[x[3]]
                 /\ \A k \in Keys : \A c : Clean(c, k) =>
                      /\ Unnoticed(c, k)
                      /\ IsDue(k) => <<c, k>> \in due
BY DEF MarksInv, DirtyWhenChanged, WatchInv, Clean

\* A client that stays without a mark on a key keeps what is known of it.
LEMMA CleanStays ==
    ASSUME MarksInv, NEW c, NEW k \in Keys, Clean(c, k),
           <<c, k>> \in due => <<c, k>> \in due',
           \A how \in Changes : <<how, c, k>> \in changed' => <<how, c, k>> \in changed,
           IsDue(k)' => IsDue(k)
    PROVE  Unnoticed(c, k)' /\ (IsDue(k)' => <<c, k>> \in due')
<1>1. Unnoticed(c, k) /\ (IsDue(k) => <<c, k>> \in due)
  BY CleanFacts
<1> QED BY <1>1 DEF Unnoticed

\* Who stays in the watchlist keeps what it saw.
LEMMA UnwatchKeepsMarks ==
    ASSUME DataType, MarksInv, NEW c, unwatch_all(c), UNCHANGED <<items, waiting>>
    PROVE  MarksInv'
<1>1. \A x \in changed' : x[2] \in DOMAIN watchlist'[x[3]]
  <2> SUFFICES ASSUME NEW x \in changed' PROVE x[2] \in DOMAIN watchlist'[x[3]]
    OBVIOUS
  <2>1. x \in changed /\ x[2] # c /\ x[3] \in Keys
    BY UnwatchFacts DEF DataType, KeyType
  <2> QED BY <2>1, UnwatchFacts, CleanFacts DEF DataType
<1>2. ASSUME NEW k \in Keys, NEW d, Clean(d, k)'
      PROVE  Unnoticed(d, k)' /\ (IsDue(k)' => <<d, k>> \in due')
  <2>1. Clean(d, k) /\ d # c
    BY <1>2, UnwatchFacts DEF Clean, DataType
  <2>2. <<d, k>> \in due => <<d, k>> \in due'
    BY <2>1, UnwatchFacts DEF DataType
  <2>3. \A how \in Changes : <<how, d, k>> \in changed' => <<how, d, k>> \in changed
    BY UnwatchFacts DEF DataType
  <2>4. IsDue(k)' => IsDue(k)
    BY DEF IsDue
  <2> QED BY <2>1, <2>2, <2>3, <2>4, CleanStays
<1> QED BY <1>1, <1>2 DEF MarksInv, DirtyWhenChanged, WatchInv, Clean

\* A command with a key keeps the types and the marks.
LEMMA KeyCommandKeepsMarks ==
    ASSUME DataType, MarksInv, NEW cmd, cmd.key \in Keys, set_dirty(cmd), UNCHANGED due,
           \/ cmd.op = "push" /\ Push(cmd.key)
           \/ cmd.op = "pop" /\ Pop(cmd.key)
           \/ cmd.op = "write" /\ Write(cmd.key)
           \/ cmd.op = "refused" /\ Refused(cmd.key)
           \/ cmd.op = "blpop" /\ Blpop(cmd.key)
           \/ cmd.op = "zwrite" /\ Zwrite(cmd.key)
    PROVE  DataType' /\ MarksInv'
<1> DEFINE k == cmd.key
<1>1. /\ WatchType(watchlist')
      /\ \A x \in Keys : DOMAIN watchlist'[x] = DOMAIN watchlist[x]
      /\ \A x \in Keys \ {k} : watchlist'[x] = watchlist[x]
  BY SetDirtyFacts DEF DataType
<1>2. KeyType' /\ \A x \in Keys \ {k} : items'[x] = items[x] /\ waiting'[x] = waiting[x]
  BY KeyCommandFacts, ZwriteFacts
<1>3. \A x \in changed' : x \in changed \/ (x[2] \in DOMAIN watchlist[k] /\ x[3] = k)
  BY KeyCommandFacts, ZwriteFacts
<1>4. \A x \in changed' : x[2] \in DOMAIN watchlist'[x[3]]
  <2> SUFFICES ASSUME NEW x \in changed' PROVE x[2] \in DOMAIN watchlist'[x[3]]
    OBVIOUS
  <2>1. CASE x \in changed
    <3>1. x[2] \in DOMAIN watchlist[x[3]] /\ x[3] \in Keys
      BY <2>1, CleanFacts DEF DataType, KeyType
    <3> QED BY <1>1, <3>1
  <2>2. CASE x[2] \in DOMAIN watchlist[k] /\ x[3] = k
    BY <1>1, <2>2
  <2> QED BY <1>3, <2>1, <2>2
<1>5. ASSUME NEW y \in Keys, NEW c, Clean(c, y)'
      PROVE  Unnoticed(c, y)' /\ (IsDue(y)' => <<c, y>> \in due')
  <2>1. CASE y # k
    <3>1. Clean(c, y)
      BY <1>1, <1>5, <2>1 DEF Clean
    <3>2. \A how \in Changes : <<how, c, y>> \in changed' => <<how, c, y>> \in changed
      BY <1>3, <2>1
    <3>3. IsDue(y)' => IsDue(y)
      BY <1>2, <2>1 DEF IsDue
    <3> QED BY <3>1, <3>2, <3>3, CleanStays
  <2>2. CASE y = k /\ cmd.op \in Listed
    BY <1>1, <1>5, <2>2, SetDirtyFacts DEF Clean, DataType
  <2>3. CASE y = k /\ cmd.op \notin Listed
    <3>1. cmd.op = "zwrite" /\ Zwrite(k)
      BY <2>3 DEF Listed
    <3>2. watchlist' = watchlist /\ ~IsDue(k)'
      BY <2>3, <3>1, SetDirtyFacts, ZwriteFacts DEF DataType
    <3>3. Unnoticed(c, k)
      BY <1>5, <2>3, <3>2, CleanFacts DEF Clean
    <3>4. \A how \in Changes : <<how, c, k>> \in changed' => <<how, c, k>> \in changed \/ how = "zset"
      BY <3>1, ZwriteFacts
    <3> QED BY <2>3, <3>2, <3>3, <3>4 DEF Unnoticed
  <2> QED BY <2>1, <2>2, <2>3
<1>6. MarksInv'
  BY <1>4, <1>5 DEF MarksInv, DirtyWhenChanged, WatchInv, Clean
<1> QED BY <1>1, <1>2, <1>6 DEF DataType

\* A command keeps the types and the marks, and either opens a transaction that
\* was not open or leaves the queues alone.
LEMMA ExecuteFacts ==
    ASSUME DataType, MarksInv, NEW c \in Clients, NEW cmd \in Command,
           _execute_cmd(c, cmd)
    PROVE  /\ DataType' /\ MarksInv'
           /\ \/ UNCHANGED <<backlog_txn, sent>>
              \/ /\ c \notin DOMAIN backlog_txn
                 /\ backlog_txn' = Put(backlog_txn, c, <<>>)
                 /\ sent' = [sent EXCEPT ![c] = <<>>]
<1>1. CASE /\ \/ cmd.op = "push" /\ Push(cmd.key)
              \/ cmd.op = "pop" /\ Pop(cmd.key)
              \/ cmd.op = "write" /\ Write(cmd.key)
              \/ cmd.op = "refused" /\ Refused(cmd.key)
              \/ cmd.op = "blpop" /\ Blpop(cmd.key)
              \/ cmd.op = "zwrite" /\ Zwrite(cmd.key)
           /\ set_dirty(cmd)
           /\ UNCHANGED <<due, backlog_txn, sent>>
  <2>1. cmd.key \in Keys
    BY <1>1, CommandKey DEF KeyOps
  <2>2. DataType' /\ MarksInv'
    BY <1>1, <2>1, KeyCommandKeepsMarks
  <2> QED BY <1>1, <2>2
<1>2. CASE cmd.op = "unwatch" /\ unwatch_all(c) /\ flag_backlog_list' = FALSE
           /\ UNCHANGED <<type, items, waiting, backlog_txn, sent>>
  <2>1. DataType'
    BY <1>2, UnwatchFacts DEF DataType, KeyType
  <2>2. MarksInv'
    BY <1>2, UnwatchKeepsMarks
  <2> QED BY <1>2, <2>1, <2>2
<1>3. CASE /\ UNCHANGED <<type, items, waiting, watchlist, watch_history>>
           /\ flag_backlog_list' \in BOOLEAN
           /\ \/ UNCHANGED <<backlog_txn, sent>>
              \/ /\ ~is_transation(c)
                 /\ backlog_txn' = Put(backlog_txn, c, <<>>)
                 /\ sent' = [sent EXCEPT ![c] = <<>>]
  <2>1. DataType'
    BY <1>3 DEF DataType, KeyType, watch_history
  <2>2. MarksInv'
    BY <1>3 DEF MarksInv, DirtyWhenChanged, WatchInv, Unnoticed, IsDue, watch_history
  <2> QED BY <1>3, <2>1, <2>2 DEF is_transation
<1>4. flag_backlog_list \in BOOLEAN
  BY DEF DataType, KeyType
<1> QED BY <1>1, <1>2, <1>3, <1>4 DEF _execute_cmd

\* The types of the queues and of what EXEC runs.
QueueType ==
    /\ clients \subseteq Clients /\ conns \in Nat
    /\ DOMAIN backlog_txn \subseteq Clients
    /\ \A c \in DOMAIN backlog_txn : backlog_txn[c] \in Seq(Command)
    /\ exec \in clients \cup {Nobody}
    /\ left \in Seq(Command)
    /\ sent \in [Clients -> Seq(Command)]
    /\ ran \in Seq(Command)
    /\ inherited \subseteq Clients

\* TypeOK is the conjunction of these parts.
LEMMA TypeParts == TypeOK <=> DataType /\ QueueType
BY DEF TypeOK, ConnTypeOK, DataType, KeyType, WatchType, QueueType

\* EXEC runs the next command of a client.
LEMMA ExecStepFacts ==
    ASSUME QueueType, ExecStep
    PROVE  exec \in Clients /\ Head(left) \in Command /\ left # <<>>
BY DEF QueueType, ExecStep

\* A WATCH begins with a key as it is.
LEMMA WatchKeepsMarks ==
    ASSUME DataType, MarksInv, NEW c \in Clients, NEW keys \in SUBSET Keys,
           cmd_watch(c, keys)
    PROVE  DataType' /\ MarksInv'
<1>1. /\ watchlist' = [k \in Keys |->
            IF k \in keys /\ c \notin DOMAIN watchlist[k]
            THEN Put(watchlist[k], c, FALSE) ELSE watchlist[k]]
      /\ due' = due \cup {<<c, k>> : k \in {x \in keys \ Watches(c) : IsDue(x)}}
      /\ flag_backlog_list' = FALSE
      /\ UNCHANGED <<type, items, waiting, changed>>
  BY DEF cmd_watch, watch
<1>2. ASSUME NEW k \in Keys
      PROVE  /\ DOMAIN watchlist[k] \subseteq DOMAIN watchlist'[k]
             /\ DOMAIN watchlist'[k] \subseteq DOMAIN watchlist[k] \cup {c}
             /\ \A x \in DOMAIN watchlist[k] : watchlist'[k][x] = watchlist[k][x]
             /\ \A x \in DOMAIN watchlist'[k] \ DOMAIN watchlist[k] :
                  x = c /\ k \in keys \ Watches(c) /\ watchlist'[k][x] = FALSE
  <2>1. CASE k \in keys /\ c \notin DOMAIN watchlist[k]
    <3>1. watchlist'[k] = Put(watchlist[k], c, FALSE)
      BY <1>1, <2>1
    <3>2. k \in keys \ Watches(c)
      BY <2>1 DEF Watches
    <3> QED BY <2>1, <3>1, <3>2 DEF Put
  <2>2. CASE ~(k \in keys /\ c \notin DOMAIN watchlist[k])
    <3>1. watchlist'[k] = watchlist[k]
      BY <1>1, <2>2
    <3> QED BY <3>1
  <2> QED BY <2>1, <2>2
<1>3. WatchType(watchlist')
  <2>1. DOMAIN watchlist' = Keys
    BY <1>1
  <2>2. ASSUME NEW k \in Keys PROVE DOMAIN watchlist'[k] \subseteq Clients
    <3>1. DOMAIN watchlist[k] \subseteq Clients
      BY DEF DataType, WatchType
    <3>2. DOMAIN watchlist'[k] \subseteq DOMAIN watchlist[k] \cup {c}
      BY <1>2
    <3> QED BY <3>1, <3>2
  <2>3. ASSUME NEW k \in Keys, NEW x \in DOMAIN watchlist'[k]
        PROVE  watchlist'[k][x] \in BOOLEAN
    <3>1. CASE x \in DOMAIN watchlist[k]
      <4>1. watchlist'[k][x] = watchlist[k][x]
        BY <1>2, <3>1
      <4> QED BY <3>1, <4>1 DEF DataType, WatchType
    <3>2. CASE x \notin DOMAIN watchlist[k]
      BY <1>2, <3>2
    <3> QED BY <3>1, <3>2
  <2> QED BY <2>1, <2>2, <2>3 DEF WatchType
<1>4. DataType'
  <2>1. due' \subseteq Clients \X Keys
    BY <1>1 DEF DataType, KeyType
  <2> QED BY <1>1, <1>3, <2>1 DEF DataType, KeyType
<1>5. \A x \in changed' : x[2] \in DOMAIN watchlist'[x[3]]
  <2> SUFFICES ASSUME NEW x \in changed PROVE x[2] \in DOMAIN watchlist'[x[3]]
    BY <1>1
  <2>1. x[2] \in DOMAIN watchlist[x[3]] /\ x[3] \in Keys
    BY CleanFacts DEF DataType, KeyType
  <2> QED BY <1>2, <2>1
<1>6. ASSUME NEW k \in Keys, NEW d, Clean(d, k)'
      PROVE  Unnoticed(d, k)' /\ (IsDue(k)' => <<d, k>> \in due')
  <2>1. CASE d \in DOMAIN watchlist[k]
    <3>1. Clean(d, k)
      BY <1>2, <1>6, <2>1 DEF Clean
    <3>2. IsDue(k)' => IsDue(k)
      BY <1>1 DEF IsDue
    <3> QED BY <1>1, <3>1, <3>2, CleanStays
  <2>2. CASE d \notin DOMAIN watchlist[k]
    <3>1. d = c /\ k \in keys \ Watches(c)
      BY <1>2, <1>6, <2>2 DEF Clean
    <3>2. \A how \in Changes : <<how, d, k>> \notin changed'
      BY <1>1, <2>2, CleanFacts
    <3>3. IsDue(k)' => <<d, k>> \in due'
      <4>1. IsDue(k)' => IsDue(k)
        BY <1>1 DEF IsDue
      <4> QED BY <1>1, <3>1, <4>1
    <3> QED BY <3>2, <3>3 DEF Unnoticed
  <2> QED BY <2>1, <2>2
<1>7. MarksInv'
  BY <1>5, <1>6 DEF MarksInv, DirtyWhenChanged, WatchInv, Clean
<1> QED BY <1>4, <1>7

\* What is popped for waiting BLPOPs at the end of a cycle was due, so whoever
\* watches it is marked, or watches it since then.
LEMMA ServeKeepsMarks ==
    ASSUME DataType, MarksInv, serve_backlog_list
    PROVE  DataType' /\ MarksInv'
<1> DEFINE Served(k) == IF items[k] < waiting[k] THEN items[k] ELSE waiting[k]
           Pairs == {q \in Clients \X Keys : IsDue(q[2]) /\ q[2] \in Watches(q[1])}
<1>1. /\ items' = [k \in Keys |-> items[k] - Served(k)]
      /\ waiting' = [k \in Keys |-> waiting[k] - Served(k)]
      /\ changed' = changed \cup {<<"served", p[1], p[2]>> : p \in Pairs}
      /\ flag_backlog_list' = FALSE
      /\ UNCHANGED <<type, watchlist, due>>
  BY DEF serve_backlog_list, txn_vars
<1>2. ASSUME NEW k \in Keys
      PROVE  items'[k] \in Nat /\ waiting'[k] \in Nat /\ ~IsDue(k)'
  <2>1. items[k] \in Nat /\ waiting[k] \in Nat
    BY DEF DataType, KeyType
  <2>2. items'[k] = items[k] - Served(k) /\ waiting'[k] = waiting[k] - Served(k)
    BY <1>1
  <2> QED BY <2>1, <2>2 DEF IsDue
<1>3. items' \in [Keys -> Nat] /\ waiting' \in [Keys -> Nat]
  BY <1>1, <1>2
<1>4. \A x \in changed' : \/ x \in changed
                          \/ /\ x \in Changes \X Clients \X Keys
                             /\ x[1] = "served" /\ IsDue(x[3]) /\ x[2] \in DOMAIN watchlist[x[3]]
  <2> SUFFICES ASSUME NEW p \in Pairs
               PROVE  /\ <<"served", p[1], p[2]>> \in Changes \X Clients \X Keys
                      /\ IsDue(p[2]) /\ p[1] \in DOMAIN watchlist[p[2]]
    BY <1>1
  <2>1. p[1] \in Clients /\ p[2] \in Keys /\ IsDue(p[2]) /\ p[2] \in Watches(p[1])
    OBVIOUS
  <2> QED BY <2>1 DEF Watches, Changes
<1>5. changed' \subseteq Changes \X Clients \X Keys
  BY <1>4 DEF DataType, KeyType
<1>6. DataType'
  BY <1>1, <1>3, <1>5 DEF DataType, KeyType
<1>7. \A x \in changed' : x[2] \in DOMAIN watchlist'[x[3]]
  BY <1>1, <1>4, CleanFacts
<1>8. ASSUME NEW k \in Keys, NEW c, Clean(c, k)'
      PROVE  Unnoticed(c, k)' /\ (IsDue(k)' => <<c, k>> \in due')
  <2>1. Clean(c, k)
    BY <1>1, <1>8 DEF Clean
  <2>2. Unnoticed(c, k) /\ (IsDue(k) => <<c, k>> \in due)
    BY <2>1, CleanFacts
  <2>3. \A how \in Changes : <<how, c, k>> \in changed' =>
          <<how, c, k>> \in changed \/ (how = "served" /\ IsDue(k))
    BY <1>4
  <2>4. Unnoticed(c, k)'
    BY <1>1, <2>2, <2>3 DEF Unnoticed
  <2> QED BY <1>2, <2>4
<1>9. MarksInv'
  BY <1>7, <1>8 DEF MarksInv, DirtyWhenChanged, WatchInv, Clean
<1> QED BY <1>6, <1>9

\* A BLPOP that times out leaves its key less due than before.
LEMMA ExpiryKeepsMarks ==
    ASSUME DataType, MarksInv, NEW y \in Keys, callback_deadline_expire(y)
    PROVE  DataType' /\ MarksInv'
<1>1. /\ waiting[y] > 0 /\ waiting' = [waiting EXCEPT ![y] = waiting[y] - 1]
      /\ UNCHANGED <<type, items, flag_backlog_list, watchlist, changed, due>>
  BY DEF callback_deadline_expire, txn_vars, watch_history
<1>2. waiting' \in [Keys -> Nat] /\ \A k \in Keys : waiting'[k] > 0 => waiting[k] > 0
  BY <1>1 DEF DataType, KeyType
<1>3. DataType'
  BY <1>1, <1>2 DEF DataType, KeyType
<1>4. \A k \in Keys : IsDue(k)' => IsDue(k)
  BY <1>1, <1>2 DEF IsDue
<1>5. MarksInv'
  BY <1>1, <1>4 DEF MarksInv, DirtyWhenChanged, WatchInv, Unnoticed
<1> QED BY <1>3, <1>5

\* Every step keeps the types and the marks of the watchlist.
LEMMA DataStep ==
    ASSUME TypeOK, MarksInv, [Next]_vars
    PROVE  DataType' /\ MarksInv'
<1>0. DataType /\ QueueType
  BY TypeParts
<1>1. CASE UNCHANGED <<store_vars, watchlist, watch_history>>
  <2>1. UNCHANGED <<type, items, waiting, flag_backlog_list, watchlist, changed, due>>
    BY <1>1 DEF store_vars, watch_history
  <2>2. DataType'
    BY <1>0, <2>1 DEF DataType, KeyType
  <2> QED BY <2>1, <2>2 DEF MarksInv, DirtyWhenChanged, WatchInv, Unnoticed, IsDue
<1>2. ASSUME NEW c \in Clients, unwatch_all(c), UNCHANGED store_vars
      PROVE  DataType' /\ MarksInv'
  <2>1. DataType'
    BY <1>0, <1>2, UnwatchFacts DEF DataType, KeyType, store_vars
  <2> QED BY <1>0, <1>2, <2>1, UnwatchKeepsMarks DEF store_vars
<1>3. ASSUME NEW c \in Clients, NEW keys \in SUBSET Keys, cmd_watch(c, keys)
      PROVE  DataType' /\ MarksInv'
  BY <1>0, <1>3, WatchKeepsMarks
<1>4. ASSUME NEW c \in Clients, NEW cmd \in Command, Execute(c, cmd)
      PROVE  DataType' /\ MarksInv'
  BY <1>0, <1>4, ExecuteFacts DEF Execute
<1>5. CASE ExecStep
  BY <1>0, <1>5, ExecStepFacts, ExecuteFacts DEF ExecStep
<1>6. CASE ExecEnd
  <2>1. exec \in Clients
    BY <1>0, <1>6 DEF ExecEnd, QueueType
  <2> QED BY <1>2, <1>6, <2>1 DEF ExecEnd
<1>7. ASSUME NEW c \in Clients, cmd_discard(c) \/ ExecAborted(c)
      PROVE  DataType' /\ MarksInv'
  BY <1>2, <1>7 DEF cmd_discard, ExecAborted
<1>8. ASSUME NEW c \in Clients, NEW cmd,
             Accept(c) \/ Disconnect(c) \/ ExecBegin(c) \/ add_to_txn(c, cmd)
      PROVE  DataType' /\ MarksInv'
  BY <1>1, <1>8 DEF Accept, Disconnect, ExecBegin, add_to_txn, txn_vars
<1>9. CASE UNCHANGED vars
  BY <1>1, <1>9 DEF vars, txn_vars
<1>10. CASE serve_backlog_list
  BY <1>0, <1>10, ServeKeepsMarks
<1>11. ASSUME NEW k \in Keys, callback_deadline_expire(k)
       PROVE  DataType' /\ MarksInv'
  BY <1>0, <1>11, ExpiryKeepsMarks
<1>12. SUBSET Watched \subseteq SUBSET Keys
  BY TransactionsAssumption
<1> QED BY <1>3, <1>4, <1>5, <1>6, <1>7, <1>8, <1>9, <1>10, <1>11, <1>12 DEF Next

-----------------------------------------------------------------------------
(***************************************************************************)
(* The queues.                                                              *)
(***************************************************************************)

\* What a running EXEC has run and has left changes in step with each command.
LEMMA ShiftsOne ==
    ASSUME NEW S, NEW r \in Seq(S), NEW l \in Seq(S), l # <<>>
    PROVE  /\ Append(r, Head(l)) \in Seq(S) /\ Tail(l) \in Seq(S)
           /\ Append(r, Head(l)) \o Tail(l) = r \o l
<1>1. Head(l) \in S /\ Tail(l) \in Seq(S) /\ l = <<Head(l)>> \o Tail(l)
  OBVIOUS
<1>2. Append(r, Head(l)) = r \o <<Head(l)>> /\ <<Head(l)>> \in Seq(S)
  BY <1>1, AppendIsConcat
<1>3. (r \o <<Head(l)>>) \o Tail(l) = r \o (<<Head(l)>> \o Tail(l))
  BY <1>1, <1>2, ConcatAssociative
<1> QED BY <1>1, <1>2, <1>3, AppendProperties

\* Every step keeps the queues well typed and equal to what was sent.
LEMMA QueueStep ==
    ASSUME TypeOK, QueueInv, MarksInv, [Next]_vars
    PROVE  QueueType' /\ QueueInv'
<1>0. DataType /\ QueueType
  BY TypeParts
<1>a. Nobody \notin Clients /\ clients \subseteq Clients /\ <<>> \in Seq(Command)
  BY <1>0, ConnectionsAssumption DEF Nobody, QueueType
<1>1. CASE UNCHANGED <<conn_vars, backlog_txn, exec, left, sent, ran, inherited>>
  BY <1>0, <1>1 DEF conn_vars, QueueType, QueueInv
<1>2. ASSUME NEW c \in Clients, Accept(c)
      PROVE  QueueType' /\ QueueInv'
  <2>1. /\ exec = Nobody /\ c \notin clients
        /\ clients' = clients \cup {c} /\ conns' = conns + 1
        /\ UNCHANGED <<backlog_txn, exec, left, ran>>
        /\ sent' = [sent EXCEPT ![c] = <<>>]
        /\ inherited' = IF is_transation(c) \/ Watches(c) # {}
                        THEN inherited \cup {c} ELSE inherited
    BY <1>2 DEF Accept, Connect, txn_vars
  <2>2. QueueType'
    BY <1>0, <1>a, <2>1 DEF QueueType
  <2>3. ASSUME NEW x \in (clients' \cap DOMAIN backlog_txn) \ inherited'
        PROVE  backlog_txn[x] = sent'[x]
    <3>1. x # c
      BY <2>1 DEF is_transation
    <3>2. x \in (clients \cap DOMAIN backlog_txn) \ inherited /\ x # exec
      BY <1>a, <2>1, <3>1
    <3> QED BY <1>0, <1>a, <2>1, <3>1, <3>2 DEF QueueInv, QueueType
  <2> QED BY <1>0, <2>1, <2>2, <2>3 DEF QueueInv
<1>3. ASSUME NEW c \in Clients, Disconnect(c)
      PROVE  QueueType' /\ QueueInv'
  <2>1. /\ exec = Nobody /\ clients' = clients \ {c} /\ conns' = conns
        /\ UNCHANGED <<backlog_txn, exec, left, sent, ran, inherited>>
    BY <1>3 DEF Disconnect, Drop, txn_vars, exec_history
  <2> QED BY <1>0, <2>1 DEF QueueType, QueueInv
<1>4. ASSUME NEW c \in Clients, exec = Nobody,
             backlog_txn' = Without(backlog_txn, c),
             sent' = [sent EXCEPT ![c] = <<>>],
             UNCHANGED <<conn_vars, exec, left, ran, inherited>>
      PROVE  QueueType' /\ QueueInv'
  <2>1. DOMAIN backlog_txn' = DOMAIN backlog_txn \ {c}
        /\ \A x \in DOMAIN backlog_txn' : backlog_txn'[x] = backlog_txn[x]
    BY <1>4, WithoutFacts
  <2>2. \A x \in Clients \ {c} : sent'[x] = sent[x]
    BY <1>0, <1>4 DEF QueueType
  <2>3. sent' \in [Clients -> Seq(Command)]
    BY <1>0, <1>a, <1>4 DEF QueueType
  <2>4. QueueType'
    BY <1>0, <1>4, <2>1, <2>3 DEF QueueType, conn_vars
  <2> QED BY <1>0, <1>a, <1>4, <2>1, <2>2, <2>4 DEF QueueInv, QueueType, conn_vars
<1>5. ASSUME NEW c \in Clients, cmd_discard(c) \/ ExecAborted(c)
      PROVE  QueueType' /\ QueueInv'
  BY <1>4, <1>5 DEF cmd_discard, ExecAborted, Reads
<1>6. ASSUME NEW c \in Clients, ExecBegin(c)
      PROVE  QueueType' /\ QueueInv'
  <2>1. /\ exec = Nobody /\ c \in clients /\ c \in DOMAIN backlog_txn
        /\ exec' = c /\ left' = backlog_txn[c]
        /\ backlog_txn' = [backlog_txn EXCEPT ![c] = <<>>]
        /\ UNCHANGED <<conn_vars, sent, ran, inherited>>
    BY <1>6 DEF ExecBegin, Reads, is_transation, exec_history
  <2>2. /\ DOMAIN backlog_txn' = DOMAIN backlog_txn /\ backlog_txn'[c] = <<>>
        /\ \A x \in DOMAIN backlog_txn : x # c => backlog_txn'[x] = backlog_txn[x]
    BY <2>1
  <2>3. QueueType'
    BY <1>0, <1>a, <2>1, <2>2 DEF QueueType, conn_vars
  <2>4. ran = <<>> /\ backlog_txn[c] \in Seq(Command)
    BY <1>0, <2>1 DEF QueueInv, QueueType
  <2>5. c \notin inherited => ran' \o left' = sent'[c]
    BY <1>a, <2>1, <2>4, ConcatEmptySeq DEF QueueInv
  <2> QED BY <1>0, <1>a, <2>1, <2>2, <2>3, <2>5 DEF QueueInv, conn_vars
<1>7. ASSUME NEW c \in Clients, NEW cmd \in Command, add_to_txn(c, cmd)
      PROVE  QueueType' /\ QueueInv'
  <2>1. /\ exec = Nobody /\ c \in clients /\ c \in DOMAIN backlog_txn
        /\ backlog_txn' = [backlog_txn EXCEPT ![c] = Append(backlog_txn[c], cmd)]
        /\ sent' = [sent EXCEPT ![c] = Append(sent[c], cmd)]
        /\ UNCHANGED <<conn_vars, exec, left, ran, inherited>>
    BY <1>7 DEF add_to_txn, Reads, is_transation
  <2>2. /\ DOMAIN backlog_txn' = DOMAIN backlog_txn
        /\ backlog_txn'[c] = Append(backlog_txn[c], cmd)
        /\ \A x \in DOMAIN backlog_txn : x # c => backlog_txn'[x] = backlog_txn[x]
    BY <2>1
  <2>3. /\ sent'[c] = Append(sent[c], cmd)
        /\ \A x \in Clients : x # c => sent'[x] = sent[x]
        /\ sent' \in [Clients -> Seq(Command)]
    BY <1>0, <2>1, AppendProperties DEF QueueType
  <2>4. QueueType'
    BY <1>0, <2>1, <2>2, <2>3, AppendProperties DEF QueueType, conn_vars
  <2> QED BY <1>0, <1>a, <2>1, <2>2, <2>3, <2>4 DEF QueueInv, QueueType, conn_vars
<1>8. ASSUME NEW c \in Clients, NEW cmd \in Command, Execute(c, cmd)
      PROVE  QueueType' /\ QueueInv'
  <2>1. /\ exec = Nobody /\ c \in clients
        /\ UNCHANGED <<conn_vars, exec, left, ran, inherited>>
    BY <1>8 DEF Execute, Reads
  <2>2. CASE UNCHANGED <<backlog_txn, sent>>
    BY <1>1, <2>1, <2>2
  <2>3. CASE /\ backlog_txn' = Put(backlog_txn, c, <<>>)
             /\ sent' = [sent EXCEPT ![c] = <<>>]
    <3>1. /\ DOMAIN backlog_txn' = DOMAIN backlog_txn \cup {c} /\ backlog_txn'[c] = <<>>
          /\ \A x \in DOMAIN backlog_txn : x # c => backlog_txn'[x] = backlog_txn[x]
      <4>1. backlog_txn' = [y \in DOMAIN backlog_txn \cup {c} |->
                              IF y = c THEN <<>> ELSE backlog_txn[y]]
        BY <2>3 DEF Put
      <4> QED BY <4>1
    <3>2. /\ sent'[c] = <<>> /\ \A x \in Clients : x # c => sent'[x] = sent[x]
          /\ sent' \in [Clients -> Seq(Command)]
      BY <1>0, <1>a, <2>3 DEF QueueType
    <3>3. QueueType'
      BY <1>0, <1>a, <2>1, <3>1, <3>2 DEF QueueType, conn_vars
    <3> QED BY <1>0, <1>a, <2>1, <3>1, <3>2, <3>3 DEF QueueInv, QueueType, conn_vars
  <2> QED BY <1>0, <1>8, <2>2, <2>3, ExecuteFacts DEF Execute
<1>9. CASE ExecStep
  <2>1. /\ exec \in Clients /\ exec # Nobody /\ left # <<>>
        /\ exec \in DOMAIN backlog_txn /\ Head(left) \in Command
    BY <1>0, <1>a, <1>9, ExecStepFacts DEF QueueInv
  <2>2. UNCHANGED <<backlog_txn, sent>>
    BY <1>0, <1>9, <2>1, ExecuteFacts DEF ExecStep
  <2>3. /\ left' = Tail(left) /\ ran' = Append(ran, Head(left))
        /\ UNCHANGED <<conn_vars, exec, inherited>>
    BY <1>9 DEF ExecStep
  <2>4. ran' \in Seq(Command) /\ left' \in Seq(Command) /\ ran' \o left' = ran \o left
    BY <1>0, <2>1, <2>3, ShiftsOne, ZenonT(60) DEF QueueType
  <2> QED BY <1>0, <2>1, <2>2, <2>3, <2>4 DEF QueueType, QueueInv, conn_vars
<1>10. CASE ExecEnd
  <2>1. /\ exec \in Clients /\ exec # Nobody /\ exec' = Nobody
        /\ backlog_txn' = Without(backlog_txn, exec)
        /\ ran' = <<>> /\ sent' = [sent EXCEPT ![exec] = <<>>]
        /\ UNCHANGED <<conn_vars, left, inherited>>
    BY <1>0, <1>10 DEF ExecEnd, QueueType
  <2>2. DOMAIN backlog_txn' = DOMAIN backlog_txn \ {exec}
        /\ \A x \in DOMAIN backlog_txn' : backlog_txn'[x] = backlog_txn[x]
    BY <2>1, WithoutFacts
  <2>3. /\ \A x \in Clients : x # exec => sent'[x] = sent[x]
        /\ sent' \in [Clients -> Seq(Command)]
    BY <1>0, <1>a, <2>1 DEF QueueType
  <2>4. QueueType'
    BY <1>0, <1>a, <2>1, <2>2, <2>3 DEF QueueType, conn_vars
  <2> QED BY <1>0, <1>a, <2>1, <2>2, <2>3, <2>4 DEF QueueInv, QueueType, conn_vars
<1>11. ASSUME NEW c \in Clients, NEW keys, cmd_watch(c, keys)
       PROVE  QueueType' /\ QueueInv'
  BY <1>1, <1>11 DEF cmd_watch, exec_history
<1>12. CASE serve_backlog_list \/ (\E k \in Keys : callback_deadline_expire(k)) \/ UNCHANGED vars
  BY <1>1, <1>12 DEF serve_backlog_list, callback_deadline_expire, vars, txn_vars, exec_history
<1> QED BY <1>2, <1>3, <1>5, <1>6, <1>7, <1>8, <1>9, <1>10, <1>11, <1>12 DEF Next

-----------------------------------------------------------------------------
(***************************************************************************)
(* The theorems.                                                            *)
(***************************************************************************)
\* The initial state satisfies the inductive invariant.
LEMMA InitIInv == Init => IInv
<1> SUFFICES ASSUME Init PROVE IInv
  OBVIOUS
<1>1. /\ clients = {} /\ conns = 0 /\ exec = Nobody /\ ran = <<>> /\ left = <<>>
      /\ DOMAIN backlog_txn = {} /\ inherited = {} /\ changed = {} /\ due = {}
      /\ sent = [c \in Clients |-> <<>>]
  BY DEF Init, ConnInit, EmptyMap
<1>2. /\ type = [k \in Keys |-> "none"] /\ items = [k \in Keys |-> 0]
      /\ waiting = [k \in Keys |-> 0] /\ flag_backlog_list = FALSE
      /\ DOMAIN watchlist = Keys /\ \A k \in Keys : DOMAIN watchlist[k] = {}
  BY DEF Init, EmptyMap
<1>3. QueueType
  BY <1>1 DEF QueueType
<1>4. DataType
  BY <1>1, <1>2 DEF DataType, KeyType, WatchType
<1>5. MarksInv /\ QueueInv
  BY <1>1, <1>2 DEF MarksInv, DirtyWhenChanged, WatchInv, QueueInv
<1> QED BY <1>3, <1>4, <1>5, TypeParts DEF IInv

\* Every step preserves the inductive invariant.
LEMMA NextIInv == IInv /\ [Next]_vars => IInv'
<1> SUFFICES ASSUME IInv, [Next]_vars PROVE IInv'
  OBVIOUS
<1>1. DataType' /\ MarksInv'
  BY DataStep DEF IInv
<1>2. QueueType' /\ QueueInv'
  BY QueueStep DEF IInv
<1>3. TypeOK'
  BY <1>1, <1>2 DEF TypeOK, ConnTypeOK, DataType, KeyType, WatchType, QueueType
<1> QED BY <1>1, <1>2, <1>3 DEF IInv

\* The inductive invariant of transactions holds in every reachable state.
THEOREM IInvCorrect == Spec => []IInv
BY InitIInv, NextIInv, PTL DEF Spec

\* Every change of a watched key marks all its watchers dirty, for any number of
\* clients, keys and waiting BLPOPs, whether a command, an EXEC or serve_backlog_list
\* makes it - ZADD, ZREM and GEOADD apart, and apart from a pop for a BLPOP that was
\* due already when the key was watched.
THEOREM MarksAreComplete == Spec => []DirtyWhenChanged
<1>1. IInv => DirtyWhenChanged
  BY DEF IInv, MarksInv
<1> QED BY <1>1, IInvCorrect, PTL

\* An EXEC runs what its connection sent since MULTI, all of it and in order, and
\* its transaction is open as long as it runs.
THEOREM ExecRunsTheQueue == Spec => []ExecRunsWhatWasSent
<1>1. IInv => ExecRunsWhatWasSent
  BY DEF IInv, QueueInv, ExecRunsWhatWasSent, is_transation
<1> QED BY <1>1, IInvCorrect, PTL

\* Optimistic locking: cmd_exec starts to run a queue only if no key that its client
\* watches has changed since its WATCH, by a command that set_dirty lists or by a pop
\* for a waiting BLPOP that was not due already at the WATCH.
THEOREM OptimisticLocking == Spec => ExecOnlyIfUnchanged
<1> DEFINE Unchanged == \A c \in Clients : ExecBegin(c) =>
             \A k \in Watches(c) : Unnoticed(c, k)
<1>1. IInv => Unchanged
  <2> SUFFICES ASSUME IInv, NEW c \in Clients, ExecBegin(c), NEW k \in Watches(c)
               PROVE  Unnoticed(c, k)
    OBVIOUS
  <2>1. k \in Keys /\ c \in DOMAIN watchlist[k]
    BY DEF Watches
  <2>2. ~watchlist[k][c]
    BY DEF ExecBegin, is_any_dirty
  <2> QED BY <2>1, <2>2 DEF IInv, MarksInv, DirtyWhenChanged
<1>2. IInv /\ [Next]_vars => [Unchanged]_vars
  BY <1>1
<1> QED BY <1>2, IInvCorrect, PTL DEF Spec, ExecOnlyIfUnchanged

=============================================================================
