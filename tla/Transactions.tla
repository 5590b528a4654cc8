----------------------------- MODULE Transactions -----------------------------
(***************************************************************************)
(* MULTI, EXEC, DISCARD, WATCH and UNWATCH: handle() of cmd_handler.rs, the *)
(* queue of each open transaction (backlog_txn), the watchlist, its dirty   *)
(* marks, and what changes a watched key: commands, and the end of a cycle, *)
(* when lists are popped for waiting BLPOPs.                                *)
(*                                                                          *)
(* A key has the type of its value and, if it is a list, its length.  A     *)
(* queued or executed command is a record with its kind op, and its key if  *)
(* op is one of KeyOps:                                                     *)
(*   push     LPUSH or RPUSH                                                *)
(*   pop      LPOP                                                          *)
(*   write    SET, INCR, XADD, SETBIT or BITOP                              *)
(*   refused  one of these or BLPOP, failing                                *)
(*   blpop    BLPOP of a list or of no key: it always waits (it pops at     *)
(*            once only beside an empty queue of the registry, and there is *)
(*            none: NoEmptyQueue of BlockingServer)                         *)
(*   zwrite   ZADD, ZREM or GEOADD                                          *)
(*   read     a command that changes nothing                                *)
(*   multi    MULTI                                                         *)
(*   unwatch  UNWATCH                                                       *)
(* EXEC runs its queue in the one thread: while exec is a client nothing    *)
(* else happens.  Waiting BLPOPs are counted; their order, identities and   *)
(* replies are in BlockingServer.  An expired value stays in the store      *)
(* (cmd_get hides it), so expiry is no change of a key.                     *)
(***************************************************************************)
EXTENDS Connections, Sequences

CONSTANTS Keys,
          Watched,     \* bound: the keys that clients watch
          Ops,         \* the kinds of command that clients send
          QueuedOps,   \* bound: the kinds of command they queue in transactions
          MaxQueue,    \* bound: client -> commands queued in one transaction
          MaxItems,    \* bound: items of one list
          MaxWaiting   \* bound: BLPOPs that wait for one key

KeyOps == {"push", "pop", "write", "refused", "blpop", "zwrite"}
PlainOps == {"read", "multi", "unwatch"}

ASSUME TransactionsAssumption ==
    /\ Watched \subseteq Keys
    /\ Ops \subseteq KeyOps \cup PlainOps /\ QueuedOps \subseteq Ops
    /\ MaxQueue \in [Clients -> Nat] /\ MaxItems \in Nat /\ MaxWaiting \in Nat

VARIABLES
    type, items,        \* key -> type of its value, number of items of its list
    waiting,            \* key -> number of BLPOPs that wait for it
    flag_backlog_list,  \* the end of the cycle must serve them
    watchlist,          \* key -> client -> dirty
    backlog_txn,        \* client -> queued commands
    exec, left,         \* the client whose EXEC runs and the commands left to run
    changed,            \* history: <<how, c, k>>, how k has changed since c watched it
    due,                \* history: <<c, k>>, a waiting BLPOP could have had an item of
                        \* k when c watched it
    sent,               \* history: commands the connection sent since its MULTI
    ran,                \* history: commands the running EXEC has executed
    inherited           \* history: descriptors reused with a transaction or watch left

store_vars == <<type, items, waiting, flag_backlog_list>>
txn_vars == <<watchlist, backlog_txn, exec, left>>
watch_history == <<changed, due>>
exec_history == <<sent, ran, inherited>>
vars == <<conn_vars, store_vars, txn_vars, watch_history, exec_history>>

Nobody == 0

Command == [op: Ops \cap KeyOps, key: Keys] \cup [op: Ops \cap PlainOps]

\* How a key changes: by a command that set_dirty lists, by one that it does not,
\* or by a pop for a waiting BLPOP at the end of a cycle.
Changes == {"listed", "zset", "served"}

\* The types: every key has its map of watchers, and EXEC runs for a client that
\* is connected.
TypeOK ==
    /\ ConnTypeOK
    /\ type \in [Keys -> {"none", "list", "zset", "other"}]
    /\ items \in [Keys -> Nat] /\ waiting \in [Keys -> Nat]
    /\ flag_backlog_list \in BOOLEAN
    /\ DOMAIN watchlist = Keys
    /\ \A k \in Keys : /\ DOMAIN watchlist[k] \subseteq Clients
                       /\ \A c \in DOMAIN watchlist[k] : watchlist[k][c] \in BOOLEAN
    /\ DOMAIN backlog_txn \subseteq Clients
    /\ \A c \in DOMAIN backlog_txn : backlog_txn[c] \in Seq(Command)
    /\ exec \in clients \cup {Nobody}
    /\ left \in Seq(Command)
    /\ changed \subseteq Changes \X Clients \X Keys
    /\ due \subseteq Clients \X Keys
    /\ sent \in [Clients -> Seq(Command)]
    /\ ran \in Seq(Command)
    /\ inherited \subseteq Clients

Init ==
    /\ ConnInit
    /\ type = [k \in Keys |-> "none"] /\ items = [k \in Keys |-> 0]
    /\ waiting = [k \in Keys |-> 0]
    /\ flag_backlog_list = FALSE
    /\ watchlist = [k \in Keys |-> EmptyMap]
    /\ backlog_txn = EmptyMap
    /\ exec = Nobody /\ left = <<>>
    /\ changed = {} /\ due = {}
    /\ sent = [c \in Clients |-> <<>>]
    /\ ran = <<>>
    /\ inherited = {}

-----------------------------------------------------------------------------
is_transation(c) == c \in DOMAIN backlog_txn

Watches(c) == {k \in Keys : c \in DOMAIN watchlist[k]}

is_any_dirty(c) == \E k \in Watches(c) : watchlist[k][c]

\* A fault to detect: a second WATCH clears the mark.
WatchAfresh(c, keys) ==
    watchlist' = [k \in Keys |->
        IF k \in keys THEN Put(watchlist[k], c, FALSE) ELSE watchlist[k]]

\* watch: a key that is watched already keeps its dirty mark (or_insert).
watch(c, keys) ==
    watchlist' = [k \in Keys |->
        IF k \in keys /\ c \notin DOMAIN watchlist[k]
        THEN Put(watchlist[k], c, FALSE) ELSE watchlist[k]]

\* unwatch_all; the history of what the client watched ends with its watches.
unwatch_all(c) ==
    /\ watchlist' = [k \in Keys |-> Without(watchlist[k], c)]
    /\ changed' = {x \in changed : x[2] # c}
    /\ due' = {x \in due : x[1] # c}

\* A fault to detect: set_dirty does not list BLPOP.
ListedButBlpop == {"push", "pop", "write", "refused"}

\* The commands that set_dirty takes for ones that modify their key.
Listed == {"push", "pop", "write", "refused", "blpop"}

\* set_dirty: every watcher of the key, the sender included.
set_dirty(cmd) ==
    IF cmd.op \in Listed
    THEN watchlist' = [watchlist EXCEPT ![cmd.key] =
            [x \in DOMAIN watchlist[cmd.key] |-> TRUE]]
    ELSE UNCHANGED watchlist

\* History: the key changes, for those who watch it.
Record(how, k) ==
    changed' = changed \cup {<<how, c, k>> : c \in DOMAIN watchlist[k]}

Hold(k, t, n) ==
    /\ type' = [type EXCEPT ![k] = t]
    /\ items' = [items EXCEPT ![k] = n]

IsList(k) == type[k] \in {"none", "list"}

-----------------------------------------------------------------------------
(***************************************************************************)
(* _execute_cmd: an answer sets flag_backlog_list to is_flag_list of the    *)
(* command, an error and a BLPOP that waits leave it.                       *)
(***************************************************************************)
Push(k) ==
    /\ IsList(k) /\ \E n \in items[k] + 1 .. MaxItems : Hold(k, "list", n)
    /\ Record("listed", k)
    /\ flag_backlog_list' = TRUE /\ UNCHANGED waiting

\* LPOP, with a length or without; there may be nothing to pop.
Pop(k) ==
    /\ IsList(k) /\ \E n \in 0 .. items[k] : Hold(k, type[k], n)
    /\ Record("listed", k)
    /\ flag_backlog_list' = FALSE /\ UNCHANGED waiting

\* SET and BITOP overwrite a value of any type, BITOP also with nothing.
Write(k) ==
    /\ \E t \in {"other", "none"} : Hold(k, t, 0)
    /\ Record("listed", k)
    /\ flag_backlog_list' = FALSE /\ UNCHANGED waiting

\* A refused XADD or SETBIT of a new key leaves an empty value.
Refused(k) ==
    /\ \/ UNCHANGED <<type, items, changed>>
       \/ type[k] = "none" /\ Hold(k, "other", 0) /\ Record("listed", k)
    /\ UNCHANGED <<waiting, flag_backlog_list>>

\* cmd_blpop registers a request.
Blpop(k) ==
    /\ IsList(k) /\ waiting[k] < MaxWaiting
    /\ waiting' = [waiting EXCEPT ![k] = @ + 1]
    /\ UNCHANGED <<type, items, flag_backlog_list, changed>>

\* A refused GEOADD of a new key leaves an empty set.
Zwrite(k) ==
    /\ type[k] \in {"none", "zset"} /\ Hold(k, "zset", 0)
    /\ Record("zset", k)
    /\ \/ flag_backlog_list' = FALSE
       \/ type[k] = "none" /\ UNCHANGED flag_backlog_list
    /\ UNCHANGED waiting

\* A MULTI that runs inside EXEC is refused: the transaction is still open.
_execute_cmd(c, cmd) ==
    \/ /\ \/ cmd.op = "push" /\ Push(cmd.key)
          \/ cmd.op = "pop" /\ Pop(cmd.key)
          \/ cmd.op = "write" /\ Write(cmd.key)
          \/ cmd.op = "refused" /\ Refused(cmd.key)
          \/ cmd.op = "blpop" /\ Blpop(cmd.key)
          \/ cmd.op = "zwrite" /\ Zwrite(cmd.key)
       /\ set_dirty(cmd)
       /\ UNCHANGED <<due, backlog_txn, sent>>
    \/ /\ cmd.op = "multi" /\ ~is_transation(c)
       /\ backlog_txn' = Put(backlog_txn, c, <<>>)
       /\ sent' = [sent EXCEPT ![c] = <<>>]
       /\ flag_backlog_list' = FALSE
       /\ UNCHANGED <<type, items, waiting, watchlist, watch_history>>
    \/ /\ cmd.op = "unwatch"
       /\ unwatch_all(c)
       /\ flag_backlog_list' = FALSE
       /\ UNCHANGED <<type, items, waiting, backlog_txn, sent>>
    \/ /\ cmd.op = "read" \/ (cmd.op = "multi" /\ is_transation(c))
       /\ \/ cmd.op = "read" /\ flag_backlog_list' = FALSE
          \/ UNCHANGED flag_backlog_list
       /\ UNCHANGED <<type, items, waiting, watchlist, watch_history, backlog_txn, sent>>

-----------------------------------------------------------------------------
\* The thread is free to read the next command of client c.
Reads(c) == exec = Nobody /\ c \in clients

\* A command outside a transaction.
Execute(c, cmd) ==
    /\ Reads(c) /\ ~is_transation(c)
    /\ _execute_cmd(c, cmd)
    /\ UNCHANGED <<conn_vars, exec, left, ran, inherited>>

\* A waiting BLPOP could have an item of k, and has not been served yet.
IsDue(k) == items[k] > 0 /\ waiting[k] > 0

\* WATCH outside a transaction (inside one it is refused).
cmd_watch(c, keys) ==
    /\ Reads(c) /\ ~is_transation(c)
    /\ watch(c, keys)
    /\ due' = due \cup {<<c, k>> : k \in {x \in keys \ Watches(c) : IsDue(x)}}
    /\ flag_backlog_list' = FALSE
    /\ UNCHANGED <<conn_vars, type, items, waiting, backlog_txn, exec, left, changed,
                   exec_history>>

\* A fault to detect: the command is queued at the front.
AddInFront(c, cmd) ==
    /\ Reads(c) /\ is_transation(c)
    /\ cmd.op \in QueuedOps /\ Len(backlog_txn[c]) < MaxQueue[c]
    /\ backlog_txn' = [backlog_txn EXCEPT ![c] = <<cmd>> \o @]
    /\ sent' = [sent EXCEPT ![c] = Append(@, cmd)]
    /\ UNCHANGED <<conn_vars, store_vars, watchlist, exec, left, watch_history, ran,
                   inherited>>

\* Any other command inside a transaction is queued.
add_to_txn(c, cmd) ==
    /\ Reads(c) /\ is_transation(c)
    /\ cmd.op \in QueuedOps /\ Len(backlog_txn[c]) < MaxQueue[c]
    /\ backlog_txn' = [backlog_txn EXCEPT ![c] = Append(@, cmd)]
    /\ sent' = [sent EXCEPT ![c] = Append(@, cmd)]
    /\ UNCHANGED <<conn_vars, store_vars, watchlist, exec, left, watch_history, ran,
                   inherited>>

cmd_discard(c) ==
    /\ Reads(c) /\ is_transation(c)
    /\ backlog_txn' = Without(backlog_txn, c)
    /\ unwatch_all(c)
    /\ sent' = [sent EXCEPT ![c] = <<>>]
    /\ UNCHANGED <<conn_vars, store_vars, exec, left, ran, inherited>>

\* EXEC with a dirty key: the queue is dropped.
ExecAborted(c) ==
    /\ Reads(c) /\ is_transation(c) /\ is_any_dirty(c)
    /\ unwatch_all(c)
    /\ backlog_txn' = Without(backlog_txn, c)
    /\ sent' = [sent EXCEPT ![c] = <<>>]
    /\ UNCHANGED <<conn_vars, store_vars, exec, left, ran, inherited>>

\* EXEC otherwise: the queue is drained into a vector ...
ExecBegin(c) ==
    /\ Reads(c) /\ is_transation(c) /\ ~is_any_dirty(c)
    /\ exec' = c
    /\ left' = backlog_txn[c]
    /\ backlog_txn' = [backlog_txn EXCEPT ![c] = <<>>]
    /\ UNCHANGED <<conn_vars, store_vars, watchlist, watch_history, exec_history>>

\* ... whose commands run one after the other, errors included ...
ExecStep ==
    /\ exec # Nobody /\ left # <<>>
    /\ _execute_cmd(exec, Head(left))
    /\ left' = Tail(left)
    /\ ran' = Append(ran, Head(left))
    /\ UNCHANGED <<conn_vars, exec, inherited>>

\* ... and then the transaction is closed.
ExecEnd ==
    /\ exec # Nobody /\ left = <<>>
    /\ unwatch_all(exec)
    /\ backlog_txn' = Without(backlog_txn, exec)
    /\ exec' = Nobody
    /\ ran' = <<>> /\ sent' = [sent EXCEPT ![exec] = <<>>]
    /\ UNCHANGED <<conn_vars, store_vars, left, inherited>>

\* The end of a cycle: as many waiting BLPOPs of every list are served as it has
\* items.  Their tasks pop it and mark no watcher.
serve_backlog_list ==
    LET Served(k) == IF items[k] < waiting[k] THEN items[k] ELSE waiting[k]
    IN /\ exec = Nobody /\ flag_backlog_list
       /\ items' = [k \in Keys |-> items[k] - Served(k)]
       /\ waiting' = [k \in Keys |-> waiting[k] - Served(k)]
       /\ changed' = changed \cup
            {<<"served", p[1], p[2]>> : p \in {q \in Clients \X Keys :
                                              IsDue(q[2]) /\ q[2] \in Watches(q[1])}}
       /\ flag_backlog_list' = FALSE
       /\ UNCHANGED <<conn_vars, type, txn_vars, due, exec_history>>

\* The deadline of a waiting BLPOP passes: it is removed.
callback_deadline_expire(k) ==
    /\ exec = Nobody /\ waiting[k] > 0
    /\ waiting' = [waiting EXCEPT ![k] = @ - 1]
    /\ UNCHANGED <<conn_vars, type, items, flag_backlog_list, txn_vars, watch_history,
                   exec_history>>

\* A new connection starts with whatever the last one on its descriptor left.
Accept(c) ==
    /\ exec = Nobody /\ Connect(c)
    /\ inherited' = IF is_transation(c) \/ Watches(c) # {}
                    THEN inherited \cup {c} ELSE inherited
    /\ sent' = [sent EXCEPT ![c] = <<>>]
    /\ UNCHANGED <<store_vars, txn_vars, watch_history, ran>>

\* A disconnection leaves the registry alone.
Disconnect(c) ==
    /\ exec = Nobody /\ Drop(c)
    /\ UNCHANGED <<store_vars, txn_vars, watch_history, exec_history>>

Next ==
    \/ \E c \in Clients :
         \/ Accept(c) \/ Disconnect(c) \/ cmd_discard(c) \/ ExecAborted(c) \/ ExecBegin(c)
         \/ \E keys \in SUBSET Watched \ {{}} : cmd_watch(c, keys)
         \/ \E cmd \in Command : Execute(c, cmd) \/ add_to_txn(c, cmd)
    \/ ExecStep \/ ExecEnd \/ serve_backlog_list
    \/ \E k \in Keys : callback_deadline_expire(k)

Spec == Init /\ [][Next]_vars

-----------------------------------------------------------------------------
\* What can have happened to k since c watched it without c's knowing: ZADD, ZREM
\* and GEOADD, which set_dirty does not list, and, if a waiting BLPOP could have had
\* an item of k when c watched it, the pop that serves it.
Unnoticed(c, k) ==
    \A how \in Changes : <<how, c, k>> \in changed =>
        \/ how = "zset"
        \/ how = "served" /\ <<c, k>> \in due

\* A change of a watched key marks its watchers, whoever makes it, also when
\* the key is watched twice and when the change is made inside an EXEC, and a pop
\* for a waiting BLPOP finds them marked by the push or the BLPOP that led to it -
\* except for those changes that nobody is told of (Unnoticed).
DirtyWhenChanged ==
    \A k \in Keys : \A c \in DOMAIN watchlist[k] :
        ~watchlist[k][c] => Unnoticed(c, k)

\* While EXEC runs, its transaction is open (a queued MULTI is refused) and what
\* it ran and has left to run is what its connection sent since MULTI, in order
\* and complete, refused commands included - unless the descriptor came with a
\* transaction of an earlier connection.
ExecRunsWhatWasSent ==
    exec # Nobody =>
        /\ is_transation(exec)
        /\ exec \notin inherited => ran \o left = sent[exec]

\* Optimistic locking, as far as it goes: EXEC starts to run only if no key that
\* its client watches has changed since its WATCH, by a command that set_dirty
\* lists or by a pop for a BLPOP - unless that BLPOP could have been served already
\* when the key was watched.
ExecOnlyIfUnchanged ==
    [][\A c \in Clients : ExecBegin(c) => \A k \in Watches(c) : Unnoticed(c, k)]_vars

\* set_dirty, on the commands it does not list: "Not modifying key".  So every
\* command that changes a watched key marks it.
OtherCommandsModifyNoKey ==
    \A k \in Keys : \A c \in DOMAIN watchlist[k] :
        <<"zset", c, k>> \in changed => watchlist[k][c]

\* set_dirty lists BLPOP: a key that BLPOP pops is marked for its watchers.
BlpopMarksWhatItPops ==
    \A k \in Keys : \A c \in DOMAIN watchlist[k] :
        <<"served", c, k>> \in changed => watchlist[k][c]

\* cmd_exec: "ERR EXEC without MULTI": what an EXEC runs, its connection sent
\* since its MULTI.
ExecNeedsMulti == exec # Nobody => ran \o left = sent[exec]

=============================================================================
