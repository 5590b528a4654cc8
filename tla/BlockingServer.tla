---------------------------- MODULE BlockingServer ----------------------------
(***************************************************************************)
(* The single-threaded server: the epoll loop of main.rs, the reading of a  *)
(* client's pipelined commands (client.rs read_socket), the commands that   *)
(* block, feed or drain a list or a stream (cmd_handler.rs), the timer      *)
(* callback and the matching of waiters at the end of a cycle.              *)
(*                                                                          *)
(* One cycle of the loop is phase "wait" (in epoll_wait), "events" (one     *)
(* event of the batch after the other; while cur is a client its commands   *)
(* run), "list" and "stream" (serve_backlog_list, serve_backlog_stream) and *)
(* "flush" (the response queue is drained).  A panic ends the process:      *)
(* alive becomes FALSE and nothing happens any more.                        *)
(***************************************************************************)
EXTENDS Registry, Sequences

CONSTANTS Commands,    \* the commands that clients send
          Timeouts,    \* timeouts of blocking commands, in ms
          MaxPush,     \* bound: values in one RPUSH or LPUSH
          MaxItems,    \* bound: items pushed in a behaviour
          MaxEntries,  \* bound: entries of a stream
          MaxConns,    \* bound: connections accepted in a behaviour
          MaxTime      \* bound: the clock, unless a timer is still to expire

CommandNames == {"RPUSH", "LPUSH", "LPOP", "SET", "BLPOP", "XADD", "XREAD", "PING"}

ASSUME ServerAssumption ==
    /\ Commands \subseteq CommandNames
    /\ Timeouts \subseteq Nat
    /\ MaxPush \in Nat /\ MaxItems \in Nat /\ MaxEntries \in Nat
    /\ MaxConns \in Nat /\ MaxTime \in Nat

\* The keys of the two descriptors in the epoll set that are not clients, no
\* client, and the Option::None of a timeout.
ListenerFd == -1
TimerFd == -2
Nobody == 0
NoTimeout == -1

VARIABLES
    data,                 \* key -> value
    flag_backlog_list,    \* a push asks for serve_backlog_list
    flag_backlog_stream,  \* an XADD asks for serve_backlog_stream
    response_queue,       \* replies to flush at the end of the cycle
    clients,              \* connected descriptors
    interest,             \* descriptors armed in the (one-shot) epoll set
    phase, batch, cur,    \* where the loop is, events left, client being read
    todo,                 \* timestamps the serve function has still to remove
    tasks,                \* entries whose backlog_task has still to run
    alive,                \* FALSE once the process has panicked
    conns,                \* connections accepted so far
    conn,                 \* history: the connection a descriptor stands for
    answered,             \* history: ids of the requests a reply was queued for
    pushed,               \* history: number of items pushed
    taken,                \* history: items that left a list for good
    fed                   \* history: keys pushed or added to in this cycle

loop_vars == <<clients, interest, phase, batch, cur, alive, conns, conn>>
data_vars == <<data, pushed, taken, fed>>
serve_vars == <<todo, tasks>>
reply_vars == <<response_queue, answered>>
flags == <<flag_backlog_list, flag_backlog_stream>>
vars == <<now, registry_vars, loop_vars, data_vars, serve_vars, reply_vars, flags>>

-----------------------------------------------------------------------------
StoreValue == [type: {"list"}, items: Seq(Nat)]
                \cup [type: {"stream"}, last: Nat]
                \cup [type: {"string"}]

Response == [client: Clients, conn: Nat, id: Nat,
             what: {"item", "entries", "nil"}, item: Nat]

Due == [rank: Nat, pos: Nat, ts: Nat]

\* The types of the registry, the data and the loop; what is registered with
\* epoll, in the batch or being read is the listener, the timer or a connected client.
TypeOK ==
    /\ RegistryTypeOK
    /\ DOMAIN data \subseteq Keys
    /\ \A k \in DOMAIN data : data[k] \in StoreValue
    /\ flag_backlog_list \in BOOLEAN /\ flag_backlog_stream \in BOOLEAN
    /\ response_queue \in Seq(Response)
    /\ clients \subseteq Clients
    /\ interest \subseteq clients \cup {ListenerFd, TimerFd}
    /\ phase \in {"wait", "events", "list", "stream", "flush"}
    /\ batch \subseteq clients \cup {ListenerFd, TimerFd}
    /\ cur \in clients \cup {Nobody}
    /\ todo \subseteq Due
    /\ tasks \in Seq(RequestEntry)
    /\ alive \in BOOLEAN
    /\ conns \in Nat
    /\ conn \in [Clients -> Nat]
    /\ answered \subseteq Nat
    /\ pushed \in Nat
    /\ taken \subseteq Nat
    /\ fed \subseteq Keys

Init ==
    /\ RegistryInit
    /\ data = [k \in {} |-> 0]
    /\ flag_backlog_list = FALSE /\ flag_backlog_stream = FALSE
    /\ response_queue = <<>>
    /\ clients = {}
    /\ interest = {ListenerFd, TimerFd}
    /\ phase = "wait" /\ batch = {} /\ cur = Nobody
    /\ todo = {} /\ tasks = <<>>
    /\ alive = TRUE
    /\ conns = 0
    /\ conn = [c \in Clients |-> 0]
    /\ answered = {} /\ pushed = 0 /\ taken = {} /\ fed = {}

-----------------------------------------------------------------------------
(***************************************************************************)
(* The event loop.                                                          *)
(***************************************************************************)

\* Reading the timerfd succeeds once its expiry has passed.
TimerReadable == timer # 0 /\ timer <= now

\* epoll_wait returns every ready descriptor; each is armed for one event.
\* The timerfd is ready by the clock, the others when a peer acts.
Poll ==
    /\ alive /\ phase = "wait"
    /\ \E ready \in SUBSET (interest \ {TimerFd}) :
         /\ ListenerFd \in ready => conns < MaxConns /\ clients # Clients
         /\ batch' = ready \cup (IF TimerReadable THEN interest \cap {TimerFd} ELSE {})
    /\ batch' # {}
    /\ interest' = interest \ batch'
    /\ phase' = "events"
    /\ UNCHANGED <<now, registry_vars, data_vars, serve_vars, reply_vars, flags,
                   clients, cur, alive, conns, conn>>

Processing == alive /\ phase = "events" /\ cur = Nobody

\* A connection gets the lowest free descriptor; the listener is armed again.
Accept ==
    /\ Processing /\ ListenerFd \in batch
    /\ \E c \in Clients \ clients :
         /\ \A x \in Clients \ clients : c <= x
         /\ clients' = clients \cup {c}
         /\ interest' = interest \cup {c, ListenerFd}
         /\ conn' = [conn EXCEPT ![c] = conns + 1]
    /\ conns' = conns + 1
    /\ batch' = batch \ {ListenerFd}
    /\ UNCHANGED <<now, registry_vars, data_vars, serve_vars, reply_vars, flags,
                   phase, cur, alive>>

\* The reply the deadline_task of an entry queues: a null array.
NilReply(e) == [client |-> e.client, conn |-> e.conn, id |-> e.id,
                what |-> "nil", item |-> 0]

\* The timerfd event: read it (which clears it if it has expired), then
\* callback_deadline_expire.  The descriptor is not armed again in the epoll
\* set, and an empty tree makes the unwrap() panic.
TimerEvent ==
    /\ Processing /\ TimerFd \in batch
    /\ batch' = batch \ {TimerFd}
    /\ LET left == IF TimerReadable THEN 0 ELSE timer IN
       \/ /\ DOMAIN deadline = {}
          /\ alive' = FALSE
          /\ timer' = left
          /\ UNCHANGED <<store, backlog_list, backlog_stream, deadline, reply_vars>>
       \/ \E d \in DOMAIN deadline :
            /\ IsNearest(d, deadline)
            /\ remove(deadline[d], left)
            /\ IF deadline[d] \in DOMAIN store
               THEN /\ response_queue' = Append(response_queue, NilReply(store[deadline[d]]))
                    /\ answered' = answered \cup {store[deadline[d]].id}
               ELSE UNCHANGED reply_vars
            /\ UNCHANGED alive
    /\ UNCHANGED <<now, arrived, collided, data_vars, serve_vars, flags,
                   clients, interest, phase, cur, conns, conn>>

\* A readable client: read_socket starts.
BeginRead ==
    /\ Processing
    /\ \E c \in batch \cap clients : cur' = c /\ batch' = batch \ {c}
    /\ UNCHANGED <<now, registry_vars, data_vars, serve_vars, reply_vars, flags,
                   clients, interest, phase, alive, conns, conn>>

\* read_socket returns Ok: the descriptor is armed again.
EndRead ==
    /\ alive /\ cur # Nobody
    /\ interest' = interest \cup {cur}
    /\ cur' = Nobody
    /\ UNCHANGED <<now, registry_vars, data_vars, serve_vars, reply_vars, flags,
                   clients, phase, batch, alive, conns, conn>>

\* A fault to detect: a dropped connection stays in the epoll set.
DisconnectStillArmed ==
    /\ alive /\ cur # Nobody
    /\ clients' = clients \ {cur}
    /\ interest' = interest \cup {cur}
    /\ cur' = Nobody
    /\ UNCHANGED <<now, registry_vars, data_vars, serve_vars, reply_vars, flags,
                   phase, batch, alive, conns, conn>>

\* read_socket returns Err (end of file, a read, parse or write error): the
\* connection is dropped; what it has registered stays.
Disconnect ==
    /\ alive /\ cur # Nobody
    /\ clients' = clients \ {cur}
    /\ interest' = interest \ {cur}
    /\ cur' = Nobody
    /\ UNCHANGED <<now, registry_vars, data_vars, serve_vars, reply_vars, flags,
                   phase, batch, alive, conns, conn>>

-----------------------------------------------------------------------------
(***************************************************************************)
(* The commands.  Each runs in _execute_cmd for the client being read.      *)
(***************************************************************************)
Runs(name) == alive /\ cur # Nobody /\ name \in Commands

\* The Ok(Some(_)) arm of _execute_cmd: both flags take the value of the
\* command that just ran.  (Err and Ok(None) leave them alone.)
SetFlags(is_flag_list, is_flag_stream) ==
    /\ flag_backlog_list' = is_flag_list
    /\ flag_backlog_stream' = is_flag_stream

HasType(k, type) == k \in DOMAIN data /\ data[k].type = type

\* The items of the list under k; a push creates the list when k is absent.
ItemsOf(k) == IF HasType(k, "list") THEN data[k].items ELSE <<>>

IsListOrAbsent(k) == k \in DOMAIN data => data[k].type = "list"

ListOf(items) == [type |-> "list", items |-> items]

ItemSet(items) == {items[i] : i \in 1..Len(items)}

\* The n next items, in the order in which they end up in the list.
Appended(n) == [i \in 1..n |-> pushed + i]
Prepended(n) == [i \in 1..n |-> pushed + n + 1 - i]

CommandFrame == UNCHANGED <<now, loop_vars, serve_vars, reply_vars>>

\* RPUSH and LPUSH; on a key of another type the command fails with no effect.
cmd_rpush(k, n) ==
    /\ Runs("RPUSH") /\ IsListOrAbsent(k) /\ pushed + n <= MaxItems
    /\ data' = Put(data, k, ListOf(ItemsOf(k) \o Appended(n)))
    /\ pushed' = pushed + n
    /\ fed' = fed \cup {k}
    /\ SetFlags(TRUE, FALSE)
    /\ UNCHANGED <<registry_vars, taken>> /\ CommandFrame

cmd_lpush(k, n) ==
    /\ Runs("LPUSH") /\ IsListOrAbsent(k) /\ pushed + n <= MaxItems
    /\ data' = Put(data, k, ListOf(Prepended(n) \o ItemsOf(k)))
    /\ pushed' = pushed + n
    /\ fed' = fed \cup {k}
    /\ SetFlags(TRUE, FALSE)
    /\ UNCHANGED <<registry_vars, taken>> /\ CommandFrame

\* LPOP of up to n items; the key stays when its list becomes empty, and an
\* absent key is a nil reply.
cmd_lpop(k, n) ==
    /\ Runs("LPOP") /\ IsListOrAbsent(k)
    /\ LET items == ItemsOf(k)
           m == IF n < Len(items) THEN n ELSE Len(items)
       IN /\ taken' = taken \cup {items[i] : i \in 1..m}
          /\ data' = IF k \in DOMAIN data
                     THEN Put(data, k, ListOf(SubSeq(items, m + 1, Len(items))))
                     ELSE data
    /\ SetFlags(FALSE, FALSE)
    /\ UNCHANGED <<registry_vars, pushed, fed>> /\ CommandFrame

\* SET replaces whatever the key holds.
cmd_set(k) ==
    /\ Runs("SET")
    /\ data' = Put(data, k, [type |-> "string"])
    /\ taken' = taken \cup ItemSet(ItemsOf(k))
    /\ SetFlags(FALSE, FALSE)
    /\ UNCHANGED <<registry_vars, pushed, fed>> /\ CommandFrame

\* get_deadline: the deadline of a request made now, 0 for none.
get_deadline(timeout) == IF timeout = NoTimeout THEN 0 ELSE now + timeout

\* is_backlog_list_empty: a missing queue is reported as not empty.
is_backlog_list_empty(k) == k \in DOMAIN backlog_list /\ backlog_list[k] = {}

\* BLPOP: an immediate reply when the list has an item and its queue is
\* reported empty, an error on another type, a registered request otherwise.
BlpopNow(k) ==
    /\ taken' = taken \cup {Head(ItemsOf(k))}
    /\ data' = Put(data, k, ListOf(Tail(ItemsOf(k))))
    /\ SetFlags(FALSE, FALSE)
    /\ UNCHANGED <<registry_vars, pushed, fed>>

BlpopWait(k, timeout) ==
    /\ insert([kind |-> "List", id |-> arrived + 1, client |-> cur,
               conn |-> conn[cur], deadline |-> 0, key |-> k],
              get_deadline(timeout))
    /\ UNCHANGED <<data_vars, flags>>

cmd_blpop(k, timeout) ==
    /\ Runs("BLPOP") /\ IsListOrAbsent(k)
    /\ IF is_backlog_list_empty(k) /\ ItemsOf(k) # <<>>
       THEN BlpopNow(k)
       ELSE BlpopWait(k, timeout)
    /\ CommandFrame

StreamOf(n) == [type |-> "stream", last |-> n]

\* Entries of a stream are numbered in id order: it holds the ids 1..last.
LastOf(k) == IF HasType(k, "stream") THEN data[k].last ELSE 0

IsStreamOrAbsent(k) == k \in DOMAIN data => data[k].type = "stream"

\* XADD with an id above the last one.
cmd_xadd(k) ==
    /\ Runs("XADD") /\ IsStreamOrAbsent(k) /\ LastOf(k) < MaxEntries
    /\ data' = Put(data, k, StreamOf(LastOf(k) + 1))
    /\ fed' = fed \cup {k}
    /\ SetFlags(FALSE, TRUE)
    /\ UNCHANGED <<registry_vars, pushed, taken>> /\ CommandFrame

\* XADD with an id that is refused: the stream has been created already.
XaddRefused(k) ==
    /\ Runs("XADD") /\ k \notin DOMAIN data
    /\ data' = Put(data, k, StreamOf(0))
    /\ UNCHANGED <<registry_vars, pushed, taken, fed, flags>> /\ CommandFrame

\* XADD with a generated id that is not above the last one (see StreamIds): the
\* entry goes where no reader that has reached the last one will find it.
XaddNotLast(k) ==
    /\ Runs("XADD") /\ LastOf(k) > 0
    /\ fed' = fed \cup {k}
    /\ SetFlags(FALSE, TRUE)
    /\ UNCHANGED <<registry_vars, data, pushed, taken>> /\ CommandFrame

\* _is_stream_avail: the stream has an entry after id.
_is_stream_avail(k, id) == LastOf(k) > id

\* One of the <<key, id>> pairs of key_ts has an entry to read.
Readable(key_ts) == \E p \in key_ts : _is_stream_avail(p[1], p[2])

\* XREAD BLOCK over the streams of key_ts, each with the id to read after
\* (`$` is the current last id).
cmd_xread(key_ts, timeout) ==
    /\ Runs("XREAD") /\ \A p \in key_ts : IsStreamOrAbsent(p[1])
    /\ \/ /\ Readable(key_ts)
          /\ SetFlags(FALSE, FALSE)
          /\ UNCHANGED registry_vars
       \/ /\ ~Readable(key_ts)
          /\ insert([kind |-> "Stream", id |-> arrived + 1, client |-> cur,
                     conn |-> conn[cur], deadline |-> 0, key_ts |-> key_ts],
                    get_deadline(timeout))
          /\ UNCHANGED flags
    /\ UNCHANGED data_vars /\ CommandFrame

\* Any other command that replies and changes nothing here: PING, ECHO, GET,
\* LLEN, LRANGE, TYPE, XRANGE, an XREAD that does not block.
OtherCommand ==
    /\ Runs("PING")
    /\ SetFlags(FALSE, FALSE)
    /\ UNCHANGED <<registry_vars, data_vars>> /\ CommandFrame

Command ==
    \/ \E k \in Keys :
         \/ \E n \in 1..MaxPush : cmd_rpush(k, n) \/ cmd_lpush(k, n) \/ cmd_lpop(k, n)
         \/ cmd_set(k)
         \/ \E timeout \in Timeouts \cup {NoTimeout} : cmd_blpop(k, timeout)
         \/ cmd_xadd(k)
         \/ XaddRefused(k)
         \/ XaddNotLast(k)
    \/ \E key_ts \in SUBSET (Keys \X (0..MaxEntries)) \ {{}} :
         \E timeout \in (Timeouts \ {0}) \cup {NoTimeout} : cmd_xread(key_ts, timeout)
    \/ OtherCommand

-----------------------------------------------------------------------------
(***************************************************************************)
(* The end of a cycle.                                                      *)
(***************************************************************************)

\* Faults to detect: the last n arrivals; one arrival too few; one too many.
LastArrivals(q, n) == {a \in q : Cardinality({b \in q : b.pos > a.pos}) < n}
OneTooFew(q, n) == {a \in q : Cardinality({b \in q : b.pos < a.pos}) + 1 < n}
OneTooMany(q, n) == {a \in q : Cardinality({b \in q : b.pos < a.pos}) <= n}

\* The first n arrivals of a queue.
Front(q, n) == {a \in q : Cardinality({b \in q : b.pos < a.pos}) < n}

\* serve_backlog_list takes, for each key, as many waiters as there are items;
\* the map is iterated in an arbitrary order of its keys.
DueInList(rank) ==
    UNION {{[rank |-> rank[k], pos |-> a.pos, ts |-> a.ts] :
               a \in Front(backlog_list[k], Len(ItemsOf(k)))} :
           k \in DOMAIN backlog_list}

EndOfEvents ==
    /\ Processing /\ batch = {}
    /\ \E rank \in Injection(DOMAIN backlog_list, 1..Cardinality(Keys)) :
         todo' = IF flag_backlog_list THEN DueInList(rank) ELSE {}
    /\ phase' = "list"
    /\ UNCHANGED <<now, registry_vars, data_vars, tasks, reply_vars, flags,
                   clients, interest, batch, cur, alive, conns, conn>>

ServedKind == IF phase = "list" THEN "List" ELSE "Stream"

IsFirstDue(a) ==
    \A b \in todo : a.rank < b.rank \/ (a.rank = b.rank /\ a.pos <= b.pos)

\* One turn of the loop that removes the due requests and keeps their tasks;
\* an entry of another kind is dropped.
RemoveDue ==
    /\ alive /\ phase \in {"list", "stream"}
    /\ \E a \in todo :
         /\ IsFirstDue(a)
         /\ todo' = todo \ {a}
         /\ remove(a.ts, timer)
         /\ tasks' = IF a.ts \in DOMAIN store /\ store[a.ts].kind = ServedKind
                     THEN Append(tasks, store[a.ts]) ELSE tasks
    /\ UNCHANGED <<now, arrived, collided, data_vars, reply_vars, flags, loop_vars>>

\* A fault to detect: the item is copied, not popped.
PeekFor(e) ==
    IF ItemsOf(e.key) = <<>>
    THEN UNCHANGED <<data, taken, response_queue, answered>>
    ELSE /\ response_queue' = Append(response_queue,
                [client |-> e.client, conn |-> e.conn, id |-> e.id,
                 what |-> "item", item |-> Head(ItemsOf(e.key))])
         /\ answered' = answered \cup {e.id}
         /\ UNCHANGED <<data, taken>>

\* backlog_task of BLPOP: pop the head and queue the reply.  Without an item
\* the task does nothing.
PopFor(e) ==
    IF ItemsOf(e.key) = <<>>
    THEN UNCHANGED <<data, taken, response_queue, answered>>
    ELSE /\ data' = Put(data, e.key, ListOf(Tail(ItemsOf(e.key))))
         /\ response_queue' = Append(response_queue,
                [client |-> e.client, conn |-> e.conn, id |-> e.id,
                 what |-> "item", item |-> Head(ItemsOf(e.key))])
         /\ answered' = answered \cup {e.id}
         /\ UNCHANGED taken

\* backlog_task of XREAD: queue the entries after each id, nil if there are none.
ReadFor(e) ==
    /\ response_queue' = Append(response_queue,
            [client |-> e.client, conn |-> e.conn, id |-> e.id,
             what |-> IF Readable(e.key_ts) THEN "entries" ELSE "nil",
             item |-> 0])
    /\ answered' = answered \cup {e.id}
    /\ UNCHANGED <<data, taken>>

RunTask ==
    /\ alive /\ phase \in {"list", "stream"} /\ todo = {} /\ tasks # <<>>
    /\ IF phase = "list" THEN PopFor(Head(tasks)) ELSE ReadFor(Head(tasks))
    /\ tasks' = Tail(tasks)
    /\ UNCHANGED <<now, registry_vars, pushed, fed, todo, flags, loop_vars>>

\* A fault to detect: every waiting XREAD is taken.
AllOfStream ==
    {[rank |-> 0, pos |-> 0, ts |-> t] : t \in backlog_stream \cap DOMAIN store}

\* serve_backlog_stream takes every waiting XREAD with an entry to read, in
\* any order (a HashSet).
DueInStream ==
    {[rank |-> 0, pos |-> 0, ts |-> t] :
        t \in {x \in backlog_stream \cap DOMAIN store :
                 store[x].kind = "Stream" /\ Readable(store[x].key_ts)}}

ServeDone == alive /\ todo = {} /\ tasks = <<>>

EndServeList ==
    /\ ServeDone /\ phase = "list"
    /\ flag_backlog_list' = FALSE
    /\ todo' = IF flag_backlog_stream THEN DueInStream ELSE {}
    /\ phase' = "stream"
    /\ UNCHANGED <<now, registry_vars, data_vars, tasks, reply_vars,
                   flag_backlog_stream, clients, interest, batch, cur, alive,
                   conns, conn>>

EndServeStream ==
    /\ ServeDone /\ phase = "stream"
    /\ flag_backlog_stream' = FALSE
    /\ phase' = "flush"
    /\ UNCHANGED <<now, registry_vars, data_vars, serve_vars, reply_vars,
                   flag_backlog_list, clients, interest, batch, cur, alive,
                   conns, conn>>

\* A fault to detect: the queue is written and not drained.
FlushKeepingReply ==
    /\ alive /\ phase = "flush" /\ response_queue # <<>>
    /\ alive' = (Head(response_queue).client \in clients)
    /\ UNCHANGED <<now, registry_vars, data_vars, serve_vars, reply_vars, flags,
                   clients, interest, phase, batch, cur, conns, conn>>

\* One reply is written to its client; a client that is gone makes the
\* unwrap() panic.
FlushReply ==
    /\ alive /\ phase = "flush" /\ response_queue # <<>>
    /\ LET r == Head(response_queue) IN
         /\ alive' = (r.client \in clients)
         /\ taken' = IF r.what = "item" THEN taken \cup {r.item} ELSE taken
    /\ response_queue' = Tail(response_queue)
    /\ UNCHANGED <<now, registry_vars, data, pushed, fed, serve_vars, answered, flags,
                   clients, interest, phase, batch, cur, conns, conn>>

EndOfCycle ==
    /\ alive /\ phase = "flush" /\ response_queue = <<>>
    /\ phase' = "wait"
    /\ fed' = {}
    /\ UNCHANGED <<now, registry_vars, data, pushed, taken, serve_vars, reply_vars, flags,
                   clients, interest, batch, cur, alive, conns, conn>>

\* Time passes, between any two steps.
Tick ==
    /\ alive
    /\ now < MaxTime \/ now < timer
    /\ now' = now + 1
    /\ UNCHANGED <<registry_vars, loop_vars, data_vars, serve_vars, reply_vars, flags>>

\* What the loop does on its own once epoll_wait has returned.
LoopStep ==
    \/ Accept \/ TimerEvent \/ BeginRead \/ EndRead \/ EndOfEvents
    \/ RemoveDue \/ RunTask \/ EndServeList \/ EndServeStream
    \/ FlushReply \/ EndOfCycle

Next == Poll \/ LoopStep \/ Disconnect \/ Command \/ Tick

Spec == Init /\ [][Next]_vars

\* The thread keeps running and read_socket returns once its buffer is empty,
\* the kernel reports an expired timerfd, and time goes on.  Clients owe
\* nothing.
Fairness ==
    /\ WF_vars(LoopStep)
    /\ WF_vars(Poll /\ TimerFd \in batch')
    /\ WF_vars(Tick)

FairSpec == Spec /\ Fairness

-----------------------------------------------------------------------------
(***************************************************************************)
(* Properties that hold.  (NoRequestForgotten is the exception: it fails    *)
(* once timestamps collide, see the README.)                                *)
(***************************************************************************)

\* Unless two requests were registered in one millisecond, no deadline, queue
\* position or waiting XREAD survives the request it stands for, through any
\* interleaving of expiry, matching and disconnection.
IndexIsLiveUnlessCollided == ~collided => IndexIsLive

\* Unless two requests were registered in one millisecond, the timerfd is armed
\* no later than the nearest deadline (README: "rearmed with the earliest
\* expiration timestamp"), also after any number of removals.
TimerCoversUnlessCollided == ~collided => TimerCoversNearest

Positions(k) == {<<k, i>> : i \in 1..Len(ItemsOf(k))}
ListPositions == UNION {Positions(k) : k \in Keys}
QueuedItems == {i \in 1..Len(response_queue) : response_queue[i].what = "item"}

\* Every item pushed is in exactly one place: at one position of one list, in
\* one queued reply, or gone to a client.  No push, pop or matching duplicates
\* or loses one (LPOP, BLPOP's task, the flush).
ItemsAreConserved ==
    LET listed == {data[p[1]].items[p[2]] : p \in ListPositions}
        queued == {response_queue[i].item : i \in QueuedItems}
    IN /\ 1..pushed = listed \cup queued \cup taken
       /\ Cardinality(listed) = Cardinality(ListPositions)
       /\ Cardinality(queued) = Cardinality(QueuedItems)
       /\ listed \cap queued = {} /\ listed \cap taken = {} /\ queued \cap taken = {}

PendingIds == {store[t].id : t \in DOMAIN store}
TaskIds == {tasks[i].id : i \in 1..Len(tasks)}

\* A request is waiting, or taken out to be served, or answered, never two of
\* these: no interleaving lets both its deadline_task and its backlog_task, or
\* one of them twice, reply to it - even when timestamps collide.
AnsweredAtMostOnce ==
    /\ PendingIds \cap TaskIds = {}
    /\ PendingIds \cap answered = {}
    /\ TaskIds \cap answered = {}
    /\ \A i, j \in 1..Len(tasks) : tasks[i].id = tasks[j].id => i = j
    /\ \A t, u \in DOMAIN store : store[t].id = store[u].id => t = u

\* RequestRegistry: "each request has an unique timestamp id", so none replaces
\* another: a registered request is waiting, being served or answered.
NoRequestForgotten == 1..arrived \subseteq PendingIds \cup TaskIds \cup answered

\* A request is pending while it waits and while its task waits to be run.
Blocked == INSTANCE BlockedRequests WITH
               Requests <- 1..MaxRequests,
               pending <- PendingIds \cup TaskIds

\* The event loop, the registry, the timer and the matching together implement
\* BlockedRequests: in every interleaving of expiry, matching, disconnection and
\* pipelined commands a request is answered once, by the deadline_task or by the
\* backlog_task, and none is forgotten before timestamps collide.
ImplementsBlockedRequests == Blocked!Spec

\* Between the count that makes a waiter due and the run of its task nothing
\* takes what it was promised: a BLPOP task always finds an item and an XREAD
\* task an entry.
TasksAreFulfillable ==
    ~collided =>
        /\ phase = "list" =>
             \A k \in Keys :
                 Cardinality({i \in 1..Len(tasks) : tasks[i].key = k})
                     <= Len(ItemsOf(k))
        /\ phase = "stream" =>
             \A i \in 1..Len(tasks) : Readable(tasks[i].key_ts)

\* When serve_backlog_list ends with its flag set, no client is left waiting
\* on a list that has an item; serve_backlog_stream likewise.
FlaggedMeansMatched ==
    ~collided /\ ServeDone =>
        /\ phase = "list" /\ flag_backlog_list =>
             \A k \in DOMAIN backlog_list : ItemsOf(k) = <<>>
        /\ phase = "stream" /\ flag_backlog_stream =>
             \A t \in backlog_stream : ~Readable(store[t].key_ts)

\* First come, first served: when a BLPOP leaves the store to be served, no
\* older BLPOP on the same list stays behind.
OldestWaiterFirst ==
    [][RemoveDue /\ phase = "list" /\ ~collided =>
         \A t \in DOMAIN store \ DOMAIN store' :
             \A u \in DOMAIN store' :
                 store[u].kind = "List" /\ store[u].key = store[t].key => t < u]_vars

\* Every cycle ends: the loop comes back to epoll_wait unless it panics.
CycleEnds == (phase # "wait") ~> (phase = "wait" \/ ~alive)

\* As long as the timerfd is registered with epoll, a pending deadline wakes
\* the loop in time (or its request is answered first).
RegisteredTimerFires ==
    (TimerFd \in interest /\ DOMAIN deadline # {})
        ~> (TimerFd \notin interest \/ DOMAIN deadline = {} \/ ~alive)

-----------------------------------------------------------------------------
(***************************************************************************)
(* Statements of the documentation, comments and assertions that the code   *)
(* does not meet.                                                           *)
(***************************************************************************)

\* README, timerfd with epoll: "When the `timerfd` fired, the ealiest deadline
\* is popped out of tree ... client got the expiration response" - each time.
TimedRequestIsAnswered ==
    \A r \in 1..MaxRequests :
        (\E t \in DOMAIN store : store[t].id = r /\ store[t].deadline > 0)
            ~> (r \in answered \/ collided \/ ~alive)

\* callback_deadline_expire unwraps the nearest deadline: the timerfd fires
\* only while the tree has one.
TimerFiresForADeadline == TimerFd \in batch => DOMAIN deadline # {}

\* README: a blocking command "is check for immediate fullfilment, immediate
\* response to client if fullfilled": a BLPOP that has to wait found no item.
BlpopWaitsForItemsOnly ==
    [][\A t \in DOMAIN store' :
         store'[t].id > arrived /\ store'[t].kind = "List"
             => ItemsOf(store'[t].key) = <<>>]_vars

\* main.rs: a waiting BLPOP and a push of the same cycle are matched at the
\* end of that cycle, "not waiting till next cycle".
MatchedAtEndOfCycle ==
    phase = "flush" =>
        \A k \in fed \cap DOMAIN backlog_list : ItemsOf(k) = <<>>

\* main.rs unwraps the client of each queued reply: it is connected.
ReplyHasAClient ==
    phase = "flush" =>
        \A i \in 1..Len(response_queue) : response_queue[i].client \in clients

\* README: "client got the expiration response": a reply goes to the connection
\* that made the request, not to a later one on the same descriptor.
ReplyGoesToAsker ==
    phase = "flush" =>
        \A i \in 1..Len(response_queue) :
            response_queue[i].client \in clients
                => response_queue[i].conn = conn[response_queue[i].client]

\* main.rs: a client that waits in BLPOP or XREAD BLOCK was parked, removed
\* from the epoll set.
BlockedClientIsParked ==
    phase = "wait" => \A t \in DOMAIN store : store[t].client \notin interest

\* callback_deadline_expire is "fired when deadline expired", never before.
NoEarlyExpiry ==
    [][TimerEvent /\ ~collided =>
         \A t \in DOMAIN store \ DOMAIN store' : store[t].deadline <= now]_vars

=============================================================================
