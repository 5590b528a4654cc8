---------------------------------- MODULE Aof ----------------------------------
(***************************************************************************)
(* The append-only file of aof.rs: the start of the server step by step as  *)
(* far as the disk can tell, the replay of the log through the handler, the *)
(* snapshot that rdb.rs reads, the writes of a cycle and their flush, and a *)
(* process that may die between any two of these.                           *)
(*                                                                          *)
(* A record is a request.  get_latest_aof_id never finds an id but the 1 it *)
(* started with, so there is one log file.                                  *)
(***************************************************************************)
EXTENDS DataCommands

CONSTANTS Requests,    \* the commands clients send
          Clients,
          Snapshots,   \* the sections of the RDB file, <<>> for no file
          CAPACITY,    \* records that the BufWriter holds
          DiskFull,    \* whether a write to the disk may fail
          MaxLog,      \* bound: writes executed
          MaxWaiting,  \* bound: clients that wait
          MaxCrashes   \* bound: crashes

\* Replayed commands are run for client 0.
ASSUME AofAssumption ==
    /\ Clients \subseteq Nat \ {0}
    /\ CAPACITY \in Nat \ {0} /\ DiskFull \in BOOLEAN
    /\ MaxLog \in Nat /\ MaxWaiting \in Nat /\ MaxCrashes \in Nat

\* What the builder makes of each request.
Cmds == [words \in Requests |-> from_resp(Request(words))]

CmdOf(words) == Cmds[words]

\* A request is a command of DataCommands, BLPOP, or one that the builder refuses.  There
\* is no clock here, so SET comes without an expiry.
ASSUME AofRequestsAssumption ==
    \A words \in Requests :
        /\ CmdOf(words).name \in DataCommand \cup Errors \cup {"BLPOP"}
        /\ CmdOf(words).name = "SET" => Option(CmdOf(words).args) = "none"

VARIABLES dir,       \* the directory exists
          manifest,  \* "absent", "empty" or "written"
          file,      \* records on disk
          snapshot,  \* the RDB file
          phase,     \* "down", a step of the start, or a step of a cycle
          replayed,  \* records replayed so far
          writer,    \* aof_bufwriter is open
          buffer,    \* records in it
          data,      \* the key space
          waiting,   \* BLPOP requests, oldest first
          flag_backlog_list,
          crashes

disk == <<dir, manifest, file, snapshot>>

\* History: the writes that data is the result of, how many of them were on disk
\* at the end of a cycle, and the keys that changed without a record.
VARIABLES executed, confirmed, drifted

history == <<executed, confirmed, drifted>>

vars == <<disk, phase, replayed, writer, buffer, data, waiting, flag_backlog_list, crashes, history>>

-----------------------------------------------------------------------------
(***************************************************************************)
(* Rdb::read: sections up to the end mark.  An expiry in seconds is kept as *)
(* it is, beside milliseconds.  A type that is not a string is an error,    *)
(* and then nothing is loaded.                                              *)
(***************************************************************************)
Section(opcode, key, value, at) == [opcode |-> opcode, key |-> key, value |-> value, at |-> at]

ReadSection(d, section) ==
    CASE section.opcode \in {"FA", "FE", "FB"} -> d
      [] section.opcode \in {"FC", "FD"} -> Put(d, section.key, StoreItem("string", section.value, section.at))
      [] section.opcode = "00" -> Put(d, section.key, StoreItem("string", section.value, None))

IsReadable(sections) == \A i \in DOMAIN sections : sections[i].opcode # "bad"

read(sections) == FoldLeft(ReadSection, EmptyMap, sections)

-----------------------------------------------------------------------------
Init ==
    /\ dir = FALSE /\ manifest = "absent" /\ file = <<>> /\ snapshot \in Snapshots
    /\ phase = "down" /\ replayed = 0
    /\ writer = FALSE /\ buffer = <<>>
    /\ data = EmptyMap /\ waiting = <<>> /\ flag_backlog_list = FALSE
    /\ crashes = 0
    /\ executed = <<>> /\ confirmed = 0 /\ drifted = {}

Goes(from, to) == phase = from /\ phase' = to

\* init_sequence: without the directory it is created; with it the log is replayed,
\* and an error of that is the end: the server runs without a log.
Start ==
    /\ Goes("down", IF ~dir THEN "dirs" ELSE IF manifest = "written" THEN "replay" ELSE "rdb")
    /\ replayed' = 0
    /\ UNCHANGED <<disk, writer, buffer, data, waiting, flag_backlog_list, crashes, history>>

CreateDirs ==
    /\ Goes("dirs", "open")
    /\ dir' = TRUE
    /\ UNCHANGED <<manifest, file, snapshot, replayed, writer, buffer, data, waiting, flag_backlog_list, crashes, history>>

\* init_aof_files, its three effects on the disk: the log is opened for appending,
\* the manifest is created afresh, and its line is written.
OpenLog ==
    /\ Goes("open", "truncate")
    /\ writer' = TRUE
    /\ executed' = file
    /\ UNCHANGED <<disk, replayed, buffer, data, waiting, flag_backlog_list, crashes, confirmed, drifted>>

TruncateManifest ==
    /\ Goes("truncate", "manifest")
    /\ manifest' = "empty"
    /\ UNCHANGED <<dir, file, snapshot, replayed, writer, buffer, data, waiting, flag_backlog_list, crashes, history>>

WriteManifest ==
    /\ Goes("manifest", "rdb")
    /\ manifest' = "written"
    /\ UNCHANGED <<dir, file, snapshot, replayed, writer, buffer, data, waiting, flag_backlog_list, crashes, history>>

\* main: a snapshot that can be read replaces what the replay left.
LoadRdb ==
    /\ Goes("rdb", "commands")
    /\ data' = IF snapshot # <<>> /\ IsReadable(snapshot) THEN read(snapshot) ELSE data
    /\ UNCHANGED <<disk, replayed, writer, buffer, waiting, flag_backlog_list, crashes, history>>

-----------------------------------------------------------------------------
WaitsFor(key) == {i \in DOMAIN waiting : waiting[i].key = key}

\* cmd_blpop: no item is taken at once, since is_backlog_list_empty holds of no key
\* (it wants a queue that is there and empty, and Registry drops those): the request
\* waits, or fails on a key that is not a list.
RunRequest(d, words) ==
    LET cmd == CmdOf(words)
    IN IF cmd.name # "BLPOP" THEN Execute(d, 0, cmd)
       ELSE IF cmd.args[1] \in DOMAIN d /\ ~Has(d, cmd.args[1], "list") THEN Refuse(d, "UnsupportedCmd")
       ELSE Outcome(d, NullBulkStr)

IsRefused(words) == ~RunRequest(data, words).ok

Waits(words) == CmdOf(words).name = "BLPOP" /\ ~IsRefused(words)

\* _execute_cmd, the part about the registry, the key space and the flags.
ExecuteFor(client, words) ==
    LET r == RunRequest(data, words)
    IN /\ data' = r.data
       /\ waiting' = IF Waits(words) THEN Append(waiting, [client |-> client, key |-> CmdOf(words).args[1]])
                   ELSE waiting
       /\ flag_backlog_list' = IF Waits(words) \/ IsRefused(words) THEN flag_backlog_list
                               ELSE is_flag_list(CmdOf(words).name)

\* aof_replay: one record of the log.
ReplayRecord ==
    /\ phase = "replay" /\ replayed < Len(file)
    /\ ExecuteFor(0, file[replayed + 1])
    /\ replayed' = replayed + 1
    /\ UNCHANGED <<disk, phase, writer, buffer, crashes, history>>

ReplayEnds ==
    /\ replayed = Len(file)
    /\ Goes("replay", "open")
    /\ UNCHANGED <<disk, replayed, writer, buffer, data, waiting, flag_backlog_list, crashes, history>>

\* A write to the disk, which fails or not.
Written == IF DiskFull THEN BOOLEAN ELSE {TRUE}

\* aof_write: a full buffer is written out first, and if that fails the record is
\* dropped and the error with it.
aof_write(record) ==
    IF Len(buffer) < CAPACITY
    THEN buffer' = Append(buffer, record) /\ UNCHANGED file
    ELSE \E written \in Written :
            /\ file' = IF written THEN file \o buffer ELSE file
            /\ buffer' = IF written THEN <<record>> ELSE buffer

\* A command of a client is logged when it has a reply to give and that is no error.
IsLogged(words) == to_be_broadcast(CmdOf(words).name) /\ ~Waits(words) /\ ~IsRefused(words)

\* History: the key that an unlogged command may have changed, and the one that a logged
\* BITOP made of keys the log does not describe.
Undescribed(words) ==
    LET cmd == CmdOf(words)
    IN IF ~IsLogged(words)
       THEN IF IsRefused(words) /\ RunRequest(data, words).data # data THEN {cmd.args[1]} ELSE {}
       ELSE IF cmd.name = "BITOP" /\ {cmd.args[3], cmd.args[4]} \cap drifted # {} THEN {cmd.args[2]}
       ELSE {}

\* A client's request is run and answered, and logged if there is a log.
Command(client, words) ==
    /\ phase = "commands"
    /\ IsLogged(words) => Len(executed) < MaxLog
    /\ Waits(words) => Len(waiting) < MaxWaiting
    /\ ExecuteFor(client, words)
    /\ IF IsLogged(words)
       THEN /\ IF writer THEN aof_write(words) ELSE UNCHANGED <<file, buffer>>
            /\ executed' = Append(executed, words)
       ELSE UNCHANGED <<file, buffer, executed>>
    /\ drifted' = drifted \cup Undescribed(words)
    /\ UNCHANGED <<dir, manifest, snapshot, phase, replayed, writer, crashes, confirmed>>

\* The requests that serve_backlog_list takes out: for each key the oldest, as many
\* as there are items.
IsServed(i) ==
    LET key == waiting[i].key
    IN /\ Has(data, key, "list")
       /\ Cardinality({j \in WaitsFor(key) : j <= i}) <= Len(data[key].value)

Served(key) == {i \in WaitsFor(key) : IsServed(i)}

\* serve_backlog_list: the items are popped, and no record says so.
ServeBacklogList ==
    /\ Goes("commands", "flush")
    /\ IF flag_backlog_list
       THEN /\ data' = [key \in DOMAIN data |->
                           IF Served(key) = {} THEN data[key]
                           ELSE [data[key] EXCEPT !.value = SubSeq(@, Cardinality(Served(key)) + 1, Len(@))]]
            /\ waiting' = LET left == SetToSortSeq({i \in DOMAIN waiting : ~IsServed(i)}, LAMBDA i, j : i < j)
                          IN [n \in DOMAIN left |-> waiting[left[n]]]
            /\ drifted' = drifted \cup {key \in DOMAIN data : Served(key) # {}}
       ELSE UNCHANGED <<data, waiting, drifted>>
    /\ flag_backlog_list' = FALSE
    /\ UNCHANGED <<disk, replayed, writer, buffer, crashes, executed, confirmed>>

\* Fault to detect: the buffer is dropped and not written.
FlushDropsBuffer ==
    /\ Goes("flush", "commands")
    /\ buffer' = <<>>
    /\ confirmed' = IF writer THEN Len(executed) ELSE confirmed
    /\ UNCHANGED <<disk, replayed, writer, data, waiting, flag_backlog_list, crashes, executed, drifted>>

\* aof_flush at the end of a cycle; its error is dropped and the buffer kept.
AofFlush ==
    /\ Goes("flush", "commands")
    /\ \E written \in Written :
          /\ file' = IF written THEN file \o buffer ELSE file
          /\ buffer' = IF written THEN <<>> ELSE buffer
    /\ confirmed' = IF writer THEN Len(executed) ELSE confirmed
    /\ UNCHANGED <<dir, manifest, snapshot, replayed, writer, data, waiting, flag_backlog_list, crashes, executed, drifted>>

\* The process dies: the disk is what remains.
Crash ==
    /\ phase # "down" /\ crashes < MaxCrashes
    /\ phase' = "down" /\ crashes' = crashes + 1
    /\ writer' = FALSE /\ buffer' = <<>>
    /\ data' = EmptyMap /\ waiting' = <<>> /\ flag_backlog_list' = FALSE
    /\ executed' = file /\ drifted' = {}
    /\ UNCHANGED <<disk, replayed, confirmed>>

Next ==
    \/ Start \/ CreateDirs \/ OpenLog \/ TruncateManifest \/ WriteManifest \/ LoadRdb
    \/ ReplayRecord \/ ReplayEnds
    \/ \E client \in Clients, words \in Requests : Command(client, words)
    \/ ServeBacklogList \/ AofFlush
    \/ Crash

Spec == Init /\ [][Next]_vars

-----------------------------------------------------------------------------
(***************************************************************************)
(* Properties.                                                              *)
(***************************************************************************)
\* Two key spaces are alike at a key.
SameAt(d, e, key) ==
    /\ key \in DOMAIN d <=> key \in DOMAIN e
    /\ key \in DOMAIN d => d[key] = e[key]

\* The key spaces that a log makes of another, record by record.
States(base, log) ==
    LET d[n \in 0..Len(log)] == IF n = 0 THEN base ELSE RunRequest(d[n - 1], log[n]).data
    IN d

Applied(base, log) == States(base, log)[Len(log)]

Replayed(log) == Applied(EmptyMap, log)

HasSnapshot == snapshot # <<>> /\ IsReadable(snapshot)

\* While commands run with a log, the log describes the key space: what was replayed
\* and what has changed since, for every key but those an unlogged pop or a refused
\* SETBIT changed, or BITOP made of such; unless a snapshot has replaced the replayed
\* keys.
LogDescribesData ==
    phase \in {"commands", "flush"} /\ writer /\ ~HasSnapshot
        => \A key \in DOMAIN data \cup DOMAIN Replayed(file \o buffer) :
              key \in drifted \/ SameAt(data, Replayed(file \o buffer), key)

\* The log is durable: with the writer open, the writes executed are the accepted
\* ones, and those of a cycle that ended are confirmed.
Log == INSTANCE DurableLog WITH
           Writes <- Requests,
           accepted <- IF writer THEN executed ELSE file,
           confirmed <- confirmed

\* The append-only file implements a durable log across crashes and restarts.
LogIsDurable == Log!Spec

\* README: "Snapshotting with RDB persistence, backed by AOF persistence": what is
\* served is the snapshot with the writes of the log.
SnapshotIsBackedByLog ==
    phase = "commands" /\ writer /\ drifted = {} /\ HasSnapshot
        => data = Applied(read(snapshot), file \o buffer)

\* A server that was started to keep a log keeps one.
ServesWithLog == phase = "commands" => writer

=============================================================================
