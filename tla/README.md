# A specification of the Redis server in Rust

This directory holds TLA+ specifications of the server in `src/`, the TLC
configurations that check them on small instances, and proofs that TLAPS checks
for instances of any size.

## The system

One process, one thread. `main.rs` waits in `epoll_wait`, handles the events of
a batch one after the other, then matches waiting requests with what has become
available, then writes the replies that were queued during the cycle. Nothing
is concurrent inside the process; what makes it hard is the interleaving of many
clients' commands, of their connections and disconnections, of timers and of the
phases of a cycle, over state that several of them share.

| Component | State | Operations | Hard behaviour |
|---|---|---|---|
| Event loop (`main.rs`, `epoll.rs`) | epoll set (one-shot), client map, batch of events | poll, accept, timer event, read, disconnect, serve, flush | order of events in a batch, descriptors armed for one event, panics on `unwrap`, reuse of descriptors |
| Request registry (`RequestRegistry`) | `store` (timestamp to entry), `backlog_list`, `backlog_stream`, `deadline` tree, timerfd | `insert`, `remove`, `set_timer_fd` | four indexes of one set of requests, millisecond identities, stale timer |
| Blocking commands (`cmd_blpop`, `cmd_xread`, serve functions) | lists, streams, the two flags, response queue | RPUSH, LPUSH, LPOP, SET, BLPOP, XADD, XREAD BLOCK, deadline and backlog tasks | expiry racing fulfilment, waiters counted before items are popped, flags shared by a cycle |
| Stream ids (`cmd_xadd`, `cmd_xrange`, `_extract_stream_entries`) | id to entry | XADD with explicit, partial, generated id; XREAD after an id; XRANGE | clock ids against explicit ids, readers that must miss nothing, the largest sequence number |
| Transactions (`handle`, `cmd_exec`, ...) | `backlog_txn`, `watchlist` with dirty marks | MULTI, EXEC, DISCARD, WATCH, UNWATCH, queued commands | changes between WATCH and EXEC, also by the end of a cycle, which pops lists for waiting BLPOPs; state that outlives a connection |
| Publish and subscribe | `subscribers`, `channels`, reference counts | SUBSCRIBE, UNSUBSCRIBE, PUBLISH | counts taken from `Rc`, delivery at the end of the cycle |
| Sorted set (`SortedSet`), geohash (`geohash.rs`) | member map, (score, member) tree | add, remove, rank, range, encode, decode | two indexes updated by hand, 52 interleaved bits in an f64 |
| Authentication (`auth.rs`) | credential, table of authenticated descriptors | AUTH, ACL SETUSER, accept, disconnect | a rule that fails unheard, descriptor reuse |
| Replication (`replication.rs`, `cmd_wait`, `cmd_replconf`, `cmd_psync`, handshake) | offsets, slaves, `backlog_wait`, `backlog_ack` | PSYNC, WAIT, ACK, propagation | late ACKs, offsets that drift |
| Append-only file and RDB (`aof.rs`, `rdb.rs`) | directory, manifest, log, its buffer, snapshot | init, replay, load, write, flush | crash between any two steps, replies before the flush, errors that are dropped |
| RESP parser and connection (`resp.rs`, `client.rs`) | buffer, two cursors, stack of open types, status | feed, parse, pop, take, handle | messages in arbitrary pieces, several in one piece, bytes that are not text |
| Command parser (`cmd_builder.rs`) | - | one builder per command | missing and malformed arguments, panics |
| Strings, lists, bitmaps (`cmd_handler.rs`, `data_types.rs`) | key space with expiries | SET, GET, INCR, LRANGE, LPOP, SETBIT, BITCOUNT, BITOP, ... | ends of ranges, emptied lists, byte boundaries, units of time, errors after a change |
| Configuration (`app_state.rs`) | start-up arguments | CONFIG GET, INFO | - |

The components call each other directly: `read_socket` parses, checks
authentication and calls `CmdHandler::handle`; commands mutate the data, the
registry, the channels and the response queue; the loop calls the serve functions
and drains the response queue. Everything the handler keeps about a client is
kept under its descriptor number.

## Modules

```
HashMaps            HashMap insert and remove on functions
Connections         descriptors: accept gets the lowest free one, drop frees it
Registry            RequestRegistry: insert, remove, timer        (EXTENDS HashMaps)
BlockedRequests     what a client that blocks is promised         (abstract)
BlockingServer      loop + blocking commands                      (EXTENDS Registry, implements BlockedRequests)
Transactions, PubSub, Auth   descriptor-keyed state               (EXTEND Connections)
Geohash             the code of a place, bit by bit
SortedSet           the two indexes, GEOADD and GEOPOS            (EXTENDS Geohash)
StreamIds           the ids of one stream
Replication         master, replicas, PSYNC, propagation, WAIT    (EXTENDS HashMaps)
Resp                protocol values and their bytes
RespParser          the resumable parser                          (EXTENDS Resp)
CmdBuilder          a message becomes a command or an error       (EXTENDS Resp)
ClientReader        read_socket: socket, parser, builder          (EXTENDS RespParser, CmdBuilder)
DataCommands        commands on strings, lists and bitmaps        (EXTENDS CmdBuilder)
Keyspace            the key space under any sequence of requests  (EXTENDS DataCommands)
DurableLog          what an append-only log promises              (abstract)
Aof                 start, replay, snapshot, log, crashes         (EXTENDS DataCommands, implements DurableLog)
BlockingServerProofs  registry; answers and items; serving, refinement of BlockedRequests
TransactionsProofs, ReplicationProofs, KeyspaceProofs
                    their module's invariants
AofProofs           durability, what the log describes            (refinement of DurableLog)
ReaderProofs        ClientReader, RespParser and CmdBuilder, for streams of requests
PubSubProofs        PubSub and Auth, the tables of clients
CollectionProofs    SortedSet and StreamIds                       (each EXTENDS its modules and TLAPS)
MC*                 constants and symmetry for TLC
```

Definitions carry the source's names where a function exists (`insert`, `remove`,
`set_timer_fd`, `cmd_blpop`, `is_backlog_list_empty`, ...). `PROJECT.json` maps
each to its lines. Definitions that a comment calls *a fault to detect* are
not part of any specification: each is a plausible bug of the operator that
follows it, and putting it in that operator's place makes the property named in
`PROJECT.json` fail. They document what each property is sensitive to.

### Registry and BlockingServer

State corresponds to the fields of the same name. A `VecDeque` of timestamps is
a set of `[pos, ts]` records ordered by `pos`. The timerfd is the expiry it is
armed with. A key's value is a list of numbered items, a stream that holds the
ids `1..last`, or a string. `phase`, `batch` and `cur` say where the loop is:

- `wait`: in `epoll_wait`. `Poll` returns any set of ready descriptors, with the
  timerfd exactly when it is registered and has expired, and disarms them.
- `events`: `Accept`, `TimerEvent`, and `BeginRead` .. commands .. `EndRead` or
  `Disconnect`, in any order of the batch. A client may pipeline any number of
  commands in one read.
- `list`, `stream`: the serve functions. The due waiters are chosen at once
  (`DueInList`, `DueInStream`, in any order of the map's keys), removed one by one
  (`RemoveDue`), and then their tasks run (`RunTask`).
- `flush`: replies are written one by one. A client that is gone ends the process.

Each command is one step: the process has one thread and a command runs to its
end. Time may pass between any two steps; the clock never goes back (the code
uses the wall clock, `SystemTime`; a clock that is set back is not modelled). The
tasks call `remove` a second time for a timestamp that is no longer in the store,
which does nothing; the model leaves that call out.

History variables (`conn`, `answered`, `pushed`, `taken`, `fed`, `collided`)
record what properties talk about and guard nothing. `collided` becomes TRUE
when a request is registered under a timestamp that is in use, which the
documentation rules out and the code does not; properties that hold only without
it say so.

### The other modules

`Transactions` abstracts a value to its type and the length of a list, and a command
to its kind: a push, a pop or another write that `set_dirty` lists, one that fails,
BLPOP, one that writes without being listed, a read, MULTI and UNWATCH. EXEC is one
step per queued command, with nothing else in between. BLPOPs that wait are counted
per key; at the end of a cycle, if `flag_backlog_list` is still set, they pop the
lists. A timeout may pass at any event and timestamps are distinct. The histories
`changed` (how a key has changed since a client watched it) and `due` (whether a
waiting BLPOP could have had an item then) guard nothing. `due` is needed since the
mark for a BLPOP is made when the command is dispatched, and the pop that serves it
marks nobody. So a client that watches the list when it has an item and a waiter -
between the push and the end of that cycle, or later if the flag was lost or the BLPOP
came after the item (a BLPOP always waits) - does not learn of the pop, and its EXEC
runs. DirtyWhenChanged and ExecOnlyIfUnchanged except that case, and ZADD, ZREM and
GEOADD, and no other.

`PubSub` keeps beside the server's state what each
connection may expect from its own commands (`own`, `due`) and has got (`inbox`).
`StreamIds` is one stream alone; its sequence numbers wrap at `U64_MAX` as those of
a release build do. In `Auth` a password stands for its hash and there is the one
user the code knows; the builder makes one rule of each ACL SETUSER
(`cmd_builder.rs:180`), so the loop over rules runs once.

`SortedSet` takes the scores of ZADD and of GEOADD. A number is the set of the
positions of its ones, so `Geohash` computes the real 26 bits of each coordinate, 52
bits of code and the 53 bits that an `f64` keeps. A coordinate starts as its cell:
normalising it is floating-point arithmetic.

`Replication` has a master, replicas and clients. A message is its kind, a write
its number, an ACK its offset; sockets are FIFO sequences (`down`, `up`). Answers
of `read_socket` go to the socket at once, writes and GETACK through the response
queue, which is kept per replica: messages to different replicas do not depend on
each other. A client is read in `BeginRead` .. `EndRead`, so commands behind a
WAIT in the same read run although the client is parked. `WriteBytes` and
`AckBytes` are the lengths of a SET and of REPLCONF GETACK. A list in
`backlog_ack` is how often each client is in it; an empty list and none are the
same to the code. The deadline of a WAIT may pass at any event and timestamps are
distinct: both are Registry's subject. A replica that leaves does not return (the
code never connects again), and clients do not disconnect. A replica has no clients of
its own: their writes would advance its offset too (`cmd_handler.rs:361-366`), and
with it what its ACK says.

In `Transactions`, `PubSub` and `Auth` a connection can be dropped and its
descriptor reused at any point, since that is what the code's tables are keyed by.

`RespParser` is the loop of `parse()` one pass at a time, with the code's cursors.
The peer's bytes arrive in any pieces up to `BUFFER_SIZE`. A byte is a string;
words that the server never looks into (a command name, a key) are one byte, so
lengths differ from those on the wire while delimiters, prefixes and digits are
bytes of their own. `ClientReader` lets each completed message through
`CmdBuilder` and records what became of it; a builder that panics stops there.

`CmdBuilder` translates every builder of `cmd_builder.rs`: those that only pop
arguments are tables of signatures, the others are operators. `DataCommands` has the
commands as functions from a key space to a key space, a result and a reply, so
`Keyspace` can ask in every state what any command *would* answer, and `Aof` can
apply a log to a state. BITCOUNT counts the pairs of a byte and a bit that is one. Errors keep their kind, as two kinds look like a null string
to the client.

`Aof` starts the server step by step as far as the disk can tell, replays the log
through the same commands, loads the snapshot over the result, and runs cycles of
commands, `serve_backlog_list` and flush. A crash kills the process, not the machine:
what was written to the file stays (`appendfsync` is read and used nowhere in the
code, so nothing more can be said). A record is written whole. With `DiskFull` a
write may fail; the code drops that error. `executed` and `confirmed` are history:
the writes the key space is the result of, and how many of them a flush has
confirmed. `drifted` are the keys changed without a record, and those a recorded BITOP
made of such keys.

### Abstract specifications

`BlockedRequests`: a request is registered, stays, and is answered once; only after
two requests of one millisecond have collided may one be replaced or forgotten.
`BlockingServer` implements it with the requests in the store and in the tasks taken
out as `pending` and the ids it answered as `answered` (`ImplementsBlockedRequests`).

`DurableLog`: writes are accepted, confirmed up to a point, and a crash takes a tail
that was not confirmed. `Aof` implements it with `executed` as the accepted writes
while the log is open and the records on disk otherwise (`LogIsDurable`).

## Runs

Passing runs (all reachable states of the instance):

| Run | Instance | Shows |
|---|---|---|
| Blocking | 2 clients, 1 list, 3 requests, 2 items, timeout 1 | index consistency, timer covers, oldest first, conservation of items, implements BlockedRequests |
| Streams | 1 client, 2 keys, 2 requests, fair | XREAD over several streams and BLPOP together; tasks find what they were promised; cycles end, a registered timerfd fires |
| Transactions | 2 clients, 2 keys of which one is watched, lists of 1, 1 waiting BLPOP per key; one client queues up to 2 pushes or MULTIs, the other none | optimistic locking, also against pops at the end of a cycle; EXEC runs what was sent |
| PubSub | 3 clients, 2 channels, 2 messages | counts, delivery |
| SortedSet | 2 members, 2 scores, 3 places | the two indexes, ranks, places come back as they were given |
| Auth | 2 descriptors, 4 connections, 2 passwords | logins |
| StreamIds | 2 ms, sequence numbers 0 to 2, 5 entries | no entry lost, readers miss nothing, XRANGE and XREAD agree |
| Replication | 2 clients, 2 replicas, 2 writes (or refused ones), 2 WAITs for 2 replicas | complete streams, handshake order, what WAIT counts, parked exactly while waiting |
| Keyspace | 2 keys, 32 requests, lists of 3, bitmaps of 2 bytes, 2 ms | ranges, bits, expiry, errors that change nothing |
| Aof | 1 client, 9 requests, 3 snapshots, buffer of 2 records, 3 writes, 2 waiters, 2 crashes | the log describes the key space and is durable |
| Reader | one to five messages per stream, every command the builder knows, cut at every byte, fair | handled as sent, withheld in one situation only, reading ends |

Two clients are enough for a race (who waits and who pushes, or a gone client and
its successor on the descriptor); the third request makes a queue that has a
middle; two keys tell per-key from global behaviour. In Transactions the second is
for the flag: WATCH clears it, so the list it names is popped without a mark only if a
push to another list sets it again. That one is never watched there (`Watched`), and
only one client's EXEC has commands, whose pushes the other may be watching; several
watched keys and other queued commands are left to the theorems. In Blocking, requests without a
timeout behave as those whose timer has not fired yet; two requests of different
milliseconds that want the same deadline take two timeouts, which only the theorem
`StoreIndexed` covers. MaxTime bounds the clock only
as long as no timer is pending, so every armed timer can expire. Three writes over a
buffer of two make a write that spills; two crashes make a restart that is
interrupted. The places of SortedSet use every bit of a longitude and both ends of
each axis. In Keyspace the properties quantify over all commands in every state, so a
key space of two keys is enough to meet every pair of types. Keys are symmetric where
a run says so; clients are not, as descriptors are ordered, except in Replication,
where nothing depends on their order. Deadlock checking is off where the bounds, or a
panic, end a behaviour.

One run ends in a violation (`findings` in `PROJECT.json` quotes the statement):
TimerRearm. Expired requests get the expiration response, says `README.md:219`; the
one-shot timerfd is never registered again, so only the first does.

The modules state further sentences of the documentation, comments and assertions
that the code does not meet. TLC reports each violated when it takes the place of the
properties in the configuration named; they are kept for whoever changes that code:

| Property | Configuration | Statement | What happens |
|---|---|---|---|
| TimerFiresForADeadline | Blocking | the timer fires for a deadline (`cmd_handler.rs:583`) | the last deadline's removal leaves the timer armed, panic |
| NoEarlyExpiry | Blocking | the callback fires when the deadline expired (`cmd_handler.rs:581`) | it takes the nearest deadline, expired or not |
| MatchedAtEndOfCycle | Blocking | matched at the end of the cycle (`main.rs:249`) | a later command clears the flag |
| ReplyHasAClient | Blocking | the client of a reply exists (`main.rs:261`) | requests outlive connections, panic |
| ReplyGoesToAsker | Blocking | the client that asked gets the reply (`README.md:219`) | the next connection on the descriptor gets it |
| BlpopWaitsForItemsOnly | Blocking | immediate response if fulfilled (`README.md:215`) | a missing queue counts as not empty (`cmd_handler.rs:204`) |
| NoRequestForgotten | Blocking | each request has a unique timestamp (`cmd_handler.rs:63`) | two in one millisecond; the first is forgotten |
| BlockedClientIsParked | Blocking | a waiting client is removed from epoll (`main.rs:206`) | only WAIT does so |
| OtherCommandsModifyNoKey | Transactions | other commands modify no key (`cmd_handler.rs:260`) | ZADD, ZREM, GEOADD do |
| BlpopMarksWhatItPops | Transactions | BLPOP marks the key it pops (`cmd_handler.rs:243`) | a BLPOP that waits marks at its dispatch, its pop later (`cmd_handler.rs:931`) marks nobody; a WATCH in between misses it |
| ExecNeedsMulti | Transactions | EXEC without MULTI is an error (`cmd_handler.rs:1486`) | the last connection's transaction is inherited |
| MessageHasAReader | PubSub | the client of a message exists (`main.rs:261`) | subscriptions outlive connections, panic |
| SubscriberHasSubscribed | PubSub | a subscriber has subscribed (`cmd_handler.rs:536`) | the descriptor's last connection had |
| SlaveIsConnected | Replication | the client of a message exists (`main.rs:261`) | a slave leaves in the cycle that broadcasts to it, panic |
| WaitCountsCaughtUp | WaitOvercount | WAIT returns the number of slaves that catch up (`cmd_handler.rs:1702`) | GETACK bytes count in the replica's offset only, an earlier ACK passes for a later one |
| ListedHasWait | WaitOvercount | a listed slave is registered in backlog_wait (`cmd_handler.rs:1625`) | a second, pipelined WAIT expires and takes the entry of a third, panic |
| RangeMatchesCard | SortedSet | add updates the score (`data_types.rs:52`) | the pair of the old score stays |
| FailedRuleIsReported | Auth | a failed rule is an error (`cmd_handler.rs:2271`) | it is dropped and OK is answered |
| IdsAscend | StreamIds | ids at or below the top are refused (`cmd_handler.rs:1020`) | generated ids are not compared |
| XrangeAnswers | StreamIds | a request is answered | swapped ends panic in `BTreeMap::range` (`cmd_handler.rs:1159`) |
| ExExpiresOnTime | Keyspace | EX expires in x seconds (`cmd_builder.rs:111`) | seconds are compared with milliseconds: it has expired at once |
| RepliesAreFramed | Keyspace | an array holds what it announces | LRANGE of a list popped empty announces one item and sends none (`cmd_handler.rs:787`; a debug build panics) |
| ArrivedIsHandled | Reader | the parser survives any delay between bytes (`README.md:194`) | a bulk whose end arrives separately waits for one byte more |
| ReadReturns | BuilderPanic | a request is answered | GEODIST with one member drains two (`cmd_builder.rs:829`), panic |
| SnapshotIsBackedByLog | Aof | snapshots are backed by the log (`README.md:56`) | loading the snapshot discards the replay |
| ServesWithLog | Aof | a server started with a log keeps one | after a crash between the truncation of the manifest and its line it serves without |
| LogDescribesData | DiskFull | what is served is in the log | a write that fails is dropped (`README.md:222` admits it) |

### Fairness

`FairSpec` assumes weak fairness of the loop's own steps (the thread keeps
running; `read_socket` returns once its buffer is empty, and `EndRead` is always
enabled while a client is read), of a poll that reports an expired timerfd (the
kernel does, while it is registered), and of the clock. Clients owe nothing: no
fairness is assumed of commands, connections or disconnections. `Spec` of
`ClientReader` assumes weak fairness of the steps of `read_socket`, which one thread
runs to its end, and of the arrival of bytes that were sent (TCP delivers them).

## Proofs

The theorems hold for every value of the constants. The assumptions are the named
`ASSUME`s of the modules: descriptors are positive numbers, the keys of the registry
are finitely many, bounds and timeouts are natural numbers, a command has at least one
byte, the clock of StreamIds starts at 1; scores have at most 53 bits and places are
cells of the grid; requests are words of which the first names a command of the module
(`RequestsAssumption`) or, in Aof, BLPOP or a request the builder refuses, and there
no SET with an expiry (`AofRequestsAssumption`); and no two numbers are written alike
(`WordOfAssumption`, `DigitAssumption`), which is all the proofs need of `ToString`.
TLC evaluates each of them in a run. Some theorems have a hypothesis of their own,
given below. Each component is proved along one argument: an inductive invariant, one
lemma per action (and under it one per part of the invariant that the action can
disturb), and the properties of the runs as consequences of the invariant.

Induction over data is available in one form: a set of natural numbers that is not
empty has a least member (`LeastExists`), so a statement about every length, index or
log holds because a least counterexample cannot exist. Recursive definitions the
proofs meet (`FlattenSeq`, the states of a replay) are unfolded one step that way.

### Blocking commands

`BlockingServerProofs` proves `Spec => []IInv` and from it TypeOK, StoreIsIndexed,
IndexIsLiveUnlessCollided, NoEmptyQueue, TimerCoversUnlessCollided and
AnsweredAtMostOnce. `IInv` is the conjunction of

- `TypeOK`;
- `RegistryInv`: the store is indexed and no queue is
  empty; unless timestamps collided, the indexes are live and the timer covers the
  nearest deadline. The parts need each other: that `remove` leaves nothing
  dangling uses that entry and index agree one to one, and that the timer is
  right after it uses that the tree holds only live deadlines;
- `ReadInv`: a client is being read only in phase `events` and is no longer in
  the batch, so dropping it leaves no event of a descriptor that is not connected;
- `TaskInv`: the tasks taken out are there only in the serve phases and are of
  the kind being served, which is what a task may rely on;
- `IdInv`: waiting, taken out and answered requests are disjoint and all known,
  which is AnsweredAtMostOnce made inductive.

The first part has the two facts everything rests on: `insert` and `remove` preserve
RegistryInv, whatever calls them, and each other step leaves the registry's variables
alone or only lets time pass.

ItemsAreConserved follows from `ItemInv`, which speaks of places rather than of
numbers of items: lists and queued replies hold pushed items that are not gone
(`PlacesInv`), no two places hold one item (`UniqueInv`), and every pushed item is in
a place or gone (`NoneLost`). The cardinalities of the property come from it through a
bijection of places and items.

The third part adds what happens between the choice of the due waiters and the end of
their tasks. `ServeInv` is `IInv` with `OrderInv` (timestamps are in the order of
arrival) and `DueInv`: in the list phase the waiters due and the tasks not yet run
are, for each list, the oldest, no more than its items, and as many as its items while
another waits; in the stream phase they are those that can read something. It gives
TasksAreFulfillable, FlaggedMeansMatched and OldestWaiterFirst. The refinement of
`BlockedRequests` (ImplementsBlockedRequests) uses `IInv` only: registering, taking
out and answering map to its steps, everything else to a stutter.

### Transactions

`IInv` of `TransactionsProofs` is TypeOK, `MarksInv` and `QueueInv`. `MarksInv` is
DirtyWhenChanged with `WatchInv`: who watches a key without a mark sees no BLPOP become
due on it, that is, if the list has an item and a waiter now, it had both when the
client watched it. DirtyWhenChanged alone is not inductive, since the step that serves
the backlog changes lists and marks nobody. What makes a BLPOP due is a push or the
BLPOP itself, and `set_dirty` lists both. `QueueInv`: the queue of an open transaction
is what its connection sent since MULTI, and while EXEC runs, what it ran followed by
what is left is. From them ExecRunsWhatWasSent, and the action property
ExecOnlyIfUnchanged, since EXEC looks at marks that DirtyWhenChanged has made complete.

### Append-only file

`AofProofs` proves that `Aof` implements `DurableLog` (LogIsDurable) through starts,
replays, flushes and crashes. `AofInv`: while the log is open, `executed` is the file
followed by the buffer, and what was confirmed is on disk. The hypothesis `~DiskFull`
says that no write of the file fails: the code drops the errors of `aof_write` and of
the flush, and on a full disk the property is false.

The second theorem is LogDescribesData, under the same hypothesis: what a replay of
file and buffer makes of an empty key space is the key space that is served, key by
key, except for `drifted` keys. `DataInv` says it of every phase: of the start step by
step (`StartInv`: during a replay, of the records replayed so far) and of serving
(`DescribedInv`). It rests on how local a command is: each touches one key, and what
it makes of that key depends on that key alone (`Touches`, `Alike`), or for BITOP on
its two sources. So two key spaces that agree beside the drifted keys still do after
both ran a request, and a request that is not logged changes only a key that is then
counted as drifted. The states of a replay are a recursive function; that appending a
record appends a state is by least counterexample.

### Replication

`IInv` of `ReplicationProofs` has TypeOK, the registry of WAITs (`WaitInv`), the byte
counts of both sides (`CountInv`) and for each replica `LinkInv`: the state of its
handshake determines the shape of what is on its two sockets and in the response queue
(it asks, is answered, synchronises, follows), and from PSYNC on these hold the writes
in order. The shape is needed since PSYNC is answered past the queue: only because
nothing can be queued for a replica before, FULLRESYNC comes first. From it
StreamIsComplete, ReceivesAsExpected, CountedHasReached, CountedOnce and
WaitingIsParked. CountedHasReached needs both offsets as sums of what was sent and
executed: an ACK bounds what its replica has executed from below only while one GETACK
is counted in it.

### Sorted set and geohash

`SetInv` of `CollectionProofs` is TypeOK, a finite tree, TreeFollowsMembers, which is
inductive beside them, and `PlacedInv`: a member that has a place has its code as
score. GeoposIsWhereAdded follows since decoding inverts encoding (`SpreadIsDouble`,
`CompactIsHalf`): each of the five halvings is shown to do its part at the full 64
bits, for every one of the 2^26 cells of an axis and for the 27-bit cell at its upper
end, and 53 bits fit an `f64`. RankMatchesRange needs that the order of pairs is total
- scores are compared by their highest differing bit - and that the rank by
cardinality numbers the pairs of a finite ordered set one to one.

### Stream ids

`IdInv`, also in `CollectionProofs`: the consumer's cursor is 0-0 or an id of the
stream and, while generated ids come in order, ids and entry numbers are in the same
order. From it EntriesAreKept and ConsumerMissesNothing. XrangeAgreesWithXread is
about the order of ids and holds out of order too; it is where the largest sequence
number, which has no successor, is needed.

### Key space

`KeyspaceInv` of `KeyspaceProofs`: the item of each key has the shape of its type
(`IsData`), and a string that SET left has the deadline it was promised
(`PromiseInv`). It is kept by every request since the builder (`CmdBuilder`) gives a
command only arguments of the kind it needs, which is the first part of the proof, one
lemma per builder; and since no command but SET makes or moves an expiry
(`KeepsExpiry`). From it PxExpiresOnTime, and RefusedChangesNothing by cases on the
command. RangeIsSlice is arithmetic of the two ends. BitsAreIndependent and
BitopIsPointwise hold at all offsets (`Offsets` is any set of natural numbers): bytes
and bits are the quotient and the rest, maps grow by whole bytes of zeros, and
BITCOUNT changes by one because the ones before and after differ by one pair of byte
and bit. The proofs depend on an early return that is easily overlooked: BITOP refuses
an operation other than AND and OR before it looks at a key (`cmd_handler.rs:2380`),
while its builder lets any name of `CmdArg` through.

### Reading a connection

`ReaderProofs` is about streams of requests: arrays of bulk strings, as clients send
them. The hypothesis `OnlyRequests` says that each stream is a sequence of those, each
of one to nine words of up to nine bytes (in the model a length is written with one
digit); the bytes of words are any that are text, `*`, `$`, CR and LF included, since
what a length announces is not looked into. `ReaderInv` says where in the stream the
parser is: between requests, in the header of an array, in an array, in the header of
a bulk, in a bulk, or with a bulk read and not yet popped; each place gives the
cursors, the status and the stack of open values, and in each of them the bytes
drained, in the buffer and on the socket make up all that was sent. Pieces of any size
move bytes from the socket to the buffer and change nothing of that. From it
HandledAsSent and WithheldOnlyAtBulkEnd. That a request never makes the parser expect
a snapshot needs that no builder makes FULLRESYNC of an array, which is a lemma over
all builders. Simple strings, integers, nested arrays, the snapshot after FULLRESYNC,
text that is not UTF-8 and malformed streams are in the run Reader, not in the
theorems.

### Publish and subscribe

`PubSubInv` of `PubSubProofs`: the members of channels (`ChannelInv`), who may inherit
a subscription (`OwnInv`), when a flush runs (`FlushInv`), and `DeliveryInv`: the
queue holds for each connection what is due to it and not yet in its inbox, in order.
From it MessagesReachSubscribers. CountIsTruthful also needs `ToldInv` and the
hypothesis `NoDuplicates`, that no SUBSCRIBE names a channel twice: the code counts
references, and its comment asks for that ("This count only work if the vec does not
include duplicated names").

### Authentication

`Auth` keeps its state beside the same table of clients, in `PubSubProofs`. LoginIsOwn
is inductive beside the types: a descriptor leaves the table of logins when its
connection is dropped, and passwords are never taken away (`LoginsAreOwn`).

### How properties are stated

The properties about queues are stated with sets of positions and the order of their
messages rather than with `SelectSeq`, which is defined by recursion on the sequence.

### Only model-checked

- Liveness (CycleEnds, RegisteredTimerFires, ReadReturns): fairness and ENABLED are out
  of the prover's reach.
- What the run Reader sends beside requests: simple strings, integers, nested arrays, a
  snapshot, streams that are malformed or not text. HandledAsSent and
  WithheldOnlyAtBulkEnd are proved for requests only.
- The violations: that a sentence of the documentation fails is a behaviour, which TLC
  shows.

Every other property of a passing run is a theorem.

## Not modelled

Start-up arguments, CONFIG GET and INFO, which read or format values. Normalising
coordinates, GEODIST and GEOSEARCH, which are floating-point arithmetic and
trigonometry. The lengths and string encodings of the RDB format; the model starts
from the sections of a file. The name of the log file, of which the code assumes that
it has a dot in it. The text of errors. COUNT 0 of XREAD, a NaN score (which panics
in `Score::cmp`), names given twice in one SUBSCRIBE (a comment in `cmd_subscribe`
excludes them), an XREAD BLOCK or WAIT inside a transaction, the place that a BLPOP
which waits leaves empty in the reply of its EXEC, a replica of a replica, writes by a
replica's own clients, clients of a master that disconnect while they WAIT, and a clock
that is set back. A record that a replay runs at a later time (the deadline of PX, the id of
`XADD *`) gets the time of the replay; in `Aof` commands do not depend on the clock.

## Plan

1. Done: every component but configuration is modelled and checked, and every safety
   property (those of the reader for streams of requests) and both refinements are proved.
2. Theorems to come: `ReaderProofs` for simple strings, integers and the snapshot after
   FULLRESYNC; each is a further place in the stream with the lemmas of its steps.
3. Further modelling: XREAD BLOCK and WAIT inside EXEC and what EXEC replies for a
   command that waits; writes by the clients of a replica; the liveness of WAIT (a refused
   write raises the master's offset above what any replica reaches, so WAIT N 0 is
   never answered).
