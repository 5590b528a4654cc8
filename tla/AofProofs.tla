------------------------------- MODULE AofProofs -------------------------------
(***************************************************************************)
(* The append-only file, for any commands, any capacity of the buffer and    *)
(* any number of crashes at any step, as long as no write to the disk fails: *)
(* it implements a durable log, and a replay of it makes the key space that  *)
(* is served.                                                               *)
(***************************************************************************)
EXTENDS Aof, TLAPS, SequenceTheorems, WellFoundedInduction

\* The log on disk and in memory is made of commands of clients.
LogType ==
    /\ file \in Seq(Requests) /\ buffer \in Seq(Requests)
    /\ writer \in BOOLEAN /\ confirmed \in Nat

\* With the log open, the writes executed are those on disk and then those in the
\* buffer; nothing is in the buffer otherwise.  The log is opened at one step of the
\* start, from then on it stays open, and what was confirmed is on disk.
LogInv ==
    /\ writer => executed = file \o buffer
    /\ ~writer => buffer = <<>>
    /\ phase \in {"down", "dirs", "open", "replay"} => ~writer
    /\ confirmed <= Len(file)

AofInv == LogType /\ LogInv

\* What the log accepts, and the step of the abstract log.
Accepted == IF writer THEN executed ELSE file
LogStep == Log!Next \/ UNCHANGED <<Accepted, confirmed>>

\* Facts about sequences: a log that grows by a buffer or by a record.
LEMMA LogFacts ==
    ASSUME NEW s \in Seq(Requests), NEW b \in Seq(Requests), NEW r \in Requests
    PROVE  /\ s \o <<>> = s
           /\ s \o b \in Seq(Requests)
           /\ Len(s \o b) = Len(s) + Len(b)
           /\ Len(s) \in Nat /\ Len(b) \in Nat
           /\ Append(b, r) \in Seq(Requests) /\ <<r>> \in Seq(Requests)
           /\ s \o Append(b, r) = Append(s \o b, r)
           /\ (s \o b) \o <<r>> = Append(s \o b, r)
           /\ SubSeq(s \o b, 1, Len(s)) = s
<1>1. /\ s \o b \in Seq(Requests) /\ Len(s \o b) = Len(s) + Len(b)
      /\ Len(s) \in Nat /\ Len(b) \in Nat
      /\ Append(b, r) \in Seq(Requests) /\ <<r>> \in Seq(Requests)
  OBVIOUS
<1>2. s \o <<>> = s
  OBVIOUS
<1>3. s \o Append(b, r) = Append(s \o b, r)
  OBVIOUS
<1>4. (s \o b) \o <<r>> = Append(s \o b, r)
  OBVIOUS
<1>5. SubSeq(s \o b, 1, Len(s)) = s
  OBVIOUS
<1> QED BY <1>1, <1>2, <1>3, <1>4, <1>5

\* The steps that leave the log alone.
LEMMA LogUntouched ==
    ASSUME AofInv, UNCHANGED <<file, buffer, writer, executed, confirmed>>,
           phase' \in {"down", "dirs", "open", "replay"} =>
               phase \in {"down", "dirs", "open", "replay"}
    PROVE  AofInv' /\ LogStep
<1>1. AofInv'
  BY DEF AofInv, LogType, LogInv
<1> QED BY <1>1 DEF LogStep, Accepted

\* A command appends one record to the log, or none.
LEMMA CommandStep ==
    ASSUME ~DiskFull, AofInv, NEW client \in Clients, NEW words \in Requests,
           Command(client, words)
    PROVE  AofInv' /\ LogStep
<1>1. phase = "commands" /\ UNCHANGED <<phase, writer, confirmed>>
  BY DEF Command
<1>2. CASE ~IsLogged(words)
  <2>1. UNCHANGED <<file, buffer, executed>>
    BY <1>2 DEF Command
  <2> QED BY <1>1, <2>1, LogUntouched
<1>3. CASE IsLogged(words) /\ ~writer
  <2>1. UNCHANGED <<file, buffer>>
    BY <1>3 DEF Command
  <2>2. AofInv'
    BY <1>1, <1>3, <2>1 DEF AofInv, LogType, LogInv
  <2> QED BY <1>1, <1>3, <2>1, <2>2 DEF LogStep, Accepted
<1>4. CASE IsLogged(words) /\ writer
  <2>1. aof_write(words) /\ executed' = Append(executed, words)
    BY <1>4 DEF Command
  <2>2. executed = file \o buffer /\ file \in Seq(Requests) /\ buffer \in Seq(Requests)
    BY <1>4 DEF AofInv, LogType, LogInv
  <2>3. /\ file' \in Seq(Requests) /\ buffer' \in Seq(Requests)
        /\ file' \o buffer' = Append(file \o buffer, words)
        /\ Len(file) <= Len(file')
    <3>1. CASE Len(buffer) < CAPACITY
      <4>1. file' = file /\ buffer' = Append(buffer, words)
        BY <2>1, <3>1 DEF aof_write
      <4>2. Len(file) <= Len(file)
        BY <2>2
      <4> QED BY <2>2, <4>1, <4>2, LogFacts
    <3>2. CASE ~(Len(buffer) < CAPACITY)
      <4>1. file' = file \o buffer /\ buffer' = <<words>>
        BY <2>1, <3>2 DEF aof_write, Written
      <4> QED BY <2>2, <4>1, LogFacts
    <3> QED BY <3>1, <3>2
  <2>4. AofInv'
    <3>1. confirmed' <= Len(file')
      BY <1>1, <2>2, <2>3, LenProperties DEF AofInv, LogType, LogInv
    <3> QED BY <1>1, <1>4, <2>1, <2>2, <2>3, <3>1 DEF AofInv, LogType, LogInv
  <2>5. Log!Accept(words)
    BY <1>1, <1>4, <2>1 DEF Log!Accept
  <2> QED BY <2>4, <2>5 DEF LogStep, Log!Next
<1> QED BY <1>2, <1>3, <1>4

\* The flush at the end of a cycle writes the whole buffer and confirms it.
LEMMA FlushStep ==
    ASSUME ~DiskFull, AofInv, AofFlush
    PROVE  AofInv' /\ LogStep
<1>1. /\ file' = file \o buffer /\ buffer' = <<>>
      /\ confirmed' = IF writer THEN Len(executed) ELSE confirmed
      /\ UNCHANGED <<writer, executed>> /\ phase' = "commands"
  BY DEF AofFlush, Written, Goes
<1>2. file \in Seq(Requests) /\ buffer \in Seq(Requests) /\ writer \in BOOLEAN
  BY DEF AofInv, LogType
<1>3. /\ file' \in Seq(Requests) /\ buffer' \in Seq(Requests)
      /\ file' \o buffer' = file'
      /\ Len(file') \in Nat
  BY <1>1, <1>2
<1>4. CASE writer
  <2>1. executed = file' /\ confirmed' = Len(file')
    BY <1>1, <1>4 DEF AofInv, LogInv
  <2>2. AofInv'
    BY <1>1, <1>2, <1>3, <1>4, <2>1 DEF AofInv, LogType, LogInv
  <2>3. Log!Confirm
    BY <1>1, <1>4 DEF Log!Confirm
  <2> QED BY <2>2, <2>3 DEF LogStep, Log!Next
<1>5. CASE ~writer
  <2>1. buffer = <<>> /\ file' = file
    BY <1>1, <1>2, <1>5 DEF AofInv, LogInv
  <2>2. AofInv'
    BY <1>1, <1>2, <1>5, <2>1 DEF AofInv, LogType, LogInv
  <2> QED BY <1>1, <1>5, <2>1, <2>2 DEF LogStep, Accepted
<1> QED BY <1>4, <1>5

\* A crash loses the buffer: what survives is what was on disk, which has
\* everything that was confirmed.
LEMMA CrashStep ==
    ASSUME AofInv, Crash
    PROVE  AofInv' /\ LogStep
<1>1. /\ phase' = "down" /\ writer' = FALSE /\ buffer' = <<>> /\ executed' = file
      /\ UNCHANGED <<file, confirmed>>
  BY DEF Crash, disk
<1>2. file \in Seq(Requests) /\ buffer \in Seq(Requests) /\ confirmed \in Nat
      /\ confirmed <= Len(file)
  BY DEF AofInv, LogType, LogInv
<1>3. AofInv'
  <2>1. buffer' \in Seq(Requests)
    BY <1>1
  <2>2. writer' \in BOOLEAN /\ ~writer'
    BY <1>1, Zenon
  <2> QED BY <1>1, <1>2, <2>1, <2>2 DEF AofInv, LogType, LogInv
<1>4. CASE ~writer
  BY <1>1, <1>3, <1>4 DEF LogStep, Accepted
<1>5. CASE writer
  <2>1. executed = file \o buffer
    BY <1>5 DEF AofInv, LogInv
  <2>2. Len(file) \in confirmed..Len(executed) /\ file = SubSeq(executed, 1, Len(file))
    BY <1>2, <2>1, LogFacts
  <2>3. Log!Crash
    BY <1>1, <1>5, <2>2 DEF Log!Crash
  <2> QED BY <1>3, <2>3 DEF LogStep, Log!Next
<1> QED BY <1>4, <1>5

\* Every step keeps the invariant and is a step of the durable log or none.
LEMMA AofStep ==
    ASSUME ~DiskFull, AofInv, [Next]_vars
    PROVE  AofInv' /\ LogStep
<1>1. CASE OpenLog
  <2>1. /\ phase = "open" /\ phase' = "truncate" /\ writer' = TRUE /\ executed' = file
        /\ UNCHANGED <<file, buffer, confirmed>>
    BY <1>1 DEF OpenLog, Goes, disk
  <2>2. ~writer /\ buffer = <<>> /\ file \in Seq(Requests) /\ file \o <<>> = file
    BY <2>1 DEF AofInv, LogType, LogInv
  <2>3. AofInv'
    BY <2>1, <2>2 DEF AofInv, LogType, LogInv
  <2> QED BY <2>1, <2>2, <2>3 DEF LogStep, Accepted
<1>2. CASE \E client \in Clients, words \in Requests : Command(client, words)
  BY <1>2, CommandStep
<1>3. CASE AofFlush
  BY <1>3, FlushStep
<1>4. CASE Crash
  BY <1>4, CrashStep
<1>5. CASE Start \/ CreateDirs \/ TruncateManifest \/ WriteManifest \/ LoadRdb
           \/ ReplayEnds \/ ServeBacklogList
  BY <1>5, LogUntouched DEF Start, CreateDirs, TruncateManifest, WriteManifest, LoadRdb,
                            ReplayEnds, ServeBacklogList, Goes, disk, history
<1>6. CASE ReplayRecord \/ UNCHANGED vars
  BY <1>6, LogUntouched DEF ReplayRecord, vars, disk, history
<1> QED BY <1>1, <1>2, <1>3, <1>4, <1>5, <1>6 DEF Next

\* As long as writes to the disk succeed, the log loses no confirmed write and
\* repeats, skips or reorders none, through any number of crashes between any two
\* steps of the start, of a cycle or of a replay.
THEOREM Durable == ~DiskFull => (Spec => LogIsDurable)
<1> SUFFICES ASSUME ~DiskFull PROVE Spec => LogIsDurable
  OBVIOUS
<1>1. Init => AofInv /\ Log!Init
  <2> SUFFICES ASSUME Init PROVE AofInv /\ Log!Init
    OBVIOUS
  <2>1. AofInv
    <3>1. /\ file = <<>> /\ buffer = <<>> /\ writer = FALSE /\ confirmed = 0
          /\ <<>> \in Seq(Requests) /\ Len(<<>>) = 0
      BY DEF Init
    <3>2. writer \in BOOLEAN /\ ~writer
      BY <3>1
    <3> QED BY <3>1, <3>2 DEF AofInv, LogType, LogInv
  <2>2. Log!Init
    BY DEF Init, Log!Init
  <2> QED BY <2>1, <2>2
<1>2. AofInv /\ [Next]_vars => AofInv' /\ [Log!Next]_<<Accepted, confirmed>>
  BY AofStep DEF LogStep
<1>3. Spec => Log!Init /\ [][Log!Next]_<<Accepted, confirmed>>
  BY <1>1, <1>2, PTL DEF Spec
<1> QED BY <1>3 DEF LogIsDurable, Log!Spec, Accepted

-----------------------------------------------------------------------------
(***************************************************************************)
(* The key space that a log makes, record by record.  A number of records   *)
(* that has not what is claimed of it has a least one.                      *)
(***************************************************************************)

\* Of some numbers one is the least.
LEMMA LeastExists ==
    ASSUME NEW S, S \subseteq Nat, S # {}
    PROVE  \E m \in S : \A n \in S : m <= n
<1>1. PICK m \in S : \A n \in S : ~(<<n, m>> \in OpToRel(<, Nat))
  BY NatLessThanWellFounded, WFMin
<1>2. \A n \in S : ~(n < m)
  BY <1>1 DEF OpToRel
<1>3. \A n \in S : m <= n
  BY <1>2
<1> QED BY <1>3

\* The key spaces after each of the first m records.
IsStates(d, base, log, m) ==
    d = [n \in 0..m |-> IF n = 0 THEN base ELSE RunRequest(d[n - 1], log[n]).data]

\* There are such.
LEMMA StatesExist ==
    ASSUME NEW base, NEW log, NEW m \in Nat
    PROVE  \E d : IsStates(d, base, log, m)
<1> DEFINE Lacking(n) == ~\E d : IsStates(d, base, log, n)
           S == {n \in Nat : Lacking(n)}
<1> SUFFICES ASSUME S # {} PROVE FALSE
  OBVIOUS
<1>1. PICK n \in S : \A i \in S : n <= i
  BY LeastExists
<1>2. n \in Nat /\ Lacking(n)
  BY <1>1
<1>3. CASE n = 0
  <2> DEFINE d == [i \in 0..0 |-> base]
  <2>1. d = [i \in 0..0 |-> IF i = 0 THEN base ELSE RunRequest(d[i - 1], log[i]).data]
    OBVIOUS
  <2> QED BY <1>2, <1>3, <2>1 DEF IsStates
<1>4. CASE n # 0
  <2>1. n - 1 \in Nat /\ ~(n <= n - 1)
    BY <1>2, <1>4
  <2>2. n - 1 \notin S
    BY <1>1, <2>1
  <2>3. PICK d : IsStates(d, base, log, n - 1)
    BY <2>1, <2>2
  <2> DEFINE e == [i \in 0..n |-> IF i = n THEN RunRequest(d[n - 1], log[n]).data ELSE d[i]]
  <2>4. e = [i \in 0..n |-> IF i = 0 THEN base ELSE RunRequest(e[i - 1], log[i]).data]
    <3>1. ASSUME NEW i \in 0..n
          PROVE  e[i] = IF i = 0 THEN base ELSE RunRequest(e[i - 1], log[i]).data
      <4>1. CASE i = n
        BY <1>2, <1>4, <4>1
      <4>2. CASE i # n /\ i = 0
        <5>1. d[0] = base
          BY <2>1, <2>3 DEF IsStates
        <5> QED BY <4>2, <5>1
      <4>3. CASE i # n /\ i # 0
        <5>1. i \in 0..(n - 1) /\ i - 1 \in 0..n /\ i - 1 # n
          BY <1>2, <4>3
        <5>2. d[i] = RunRequest(d[i - 1], log[i]).data
          BY <2>3, <4>3, <5>1 DEF IsStates
        <5>3. e[i] = d[i] /\ e[i - 1] = d[i - 1]
          BY <4>3, <5>1
        <5> QED BY <4>3, <5>2, <5>3
      <4> QED BY <4>1, <4>2, <4>3
    <3> QED BY <3>1
  <2> QED BY <1>2, <2>4 DEF IsStates
<1> QED BY <1>3, <1>4

\* The first records make the same of a base, whatever follows them.
LEMMA StatesAgree ==
    ASSUME NEW base, NEW log, NEW other, NEW m \in Nat, NEW l \in Nat, m <= l,
           \A i \in 1..m : log[i] = other[i],
           NEW d, IsStates(d, base, log, m), NEW e, IsStates(e, base, other, l)
    PROVE  d[m] = e[m]
<1> DEFINE S == {n \in 0..m : d[n] # e[n]}
<1> SUFFICES ASSUME S # {} PROVE FALSE
  OBVIOUS
<1>1. PICK n \in S : \A i \in S : n <= i
  <2>1. S \subseteq Nat
    OBVIOUS
  <2> HIDE DEF S
  <2> QED BY <2>1, LeastExists
<1>2. n \in 0..l /\ n \in 0..m /\ d[n] # e[n]
  BY <1>1
<1>3. CASE n = 0
  BY <1>2, <1>3 DEF IsStates
<1>4. CASE n # 0
  <2>1. n - 1 \in 0..m /\ ~(n <= n - 1) /\ n \in 1..m
    BY <1>2, <1>4
  <2>2. d[n - 1] = e[n - 1]
    BY <1>1, <2>1
  <2>3. d[n] = RunRequest(d[n - 1], log[n]).data /\ e[n] = RunRequest(e[n - 1], other[n]).data
    BY <1>2, <1>4 DEF IsStates
  <2> QED BY <1>2, <2>1, <2>2, <2>3
<1> QED BY <1>3, <1>4

\* Applied follows the log.
LEMMA AppliedIs ==
    ASSUME NEW base, NEW log, Len(log) \in Nat
    PROVE  IsStates(States(base, log), base, log, Len(log))
<1>1. \E d : d = [n \in 0..Len(log) |-> IF n = 0 THEN base ELSE RunRequest(d[n - 1], log[n]).data]
  <2>1. \E d : IsStates(d, base, log, Len(log))
    BY StatesExist
  <2> QED BY <2>1, Zenon DEF IsStates
<1>2. States(base, log) =
        CHOOSE d : d = [n \in 0..Len(log) |-> IF n = 0 THEN base ELSE RunRequest(d[n - 1], log[n]).data]
  BY Zenon DEF States
<1> QED BY <1>1, <1>2, Zenon DEF IsStates

\* One record more is one request more.
LEMMA OneRecordMore ==
    ASSUME NEW base, NEW log \in Seq(Requests), NEW words \in Requests
    PROVE  Applied(base, Append(log, words)) = RunRequest(Applied(base, log), words).data
<1> DEFINE len == Len(log)
           longer == Append(log, words)
           d == States(base, log)
           e == States(base, longer)
<1>1. len \in Nat /\ Len(longer) = len + 1 /\ longer[len + 1] = words /\ \A i \in 1..len : log[i] = longer[i]
  OBVIOUS
<1> HIDE DEF len, longer
<1>2. IsStates(d, base, log, len) /\ IsStates(e, base, longer, len + 1)
  BY <1>1, AppliedIs DEF len
<1> HIDE DEF d, e
<1>3. d[len] = e[len]
  <2>1. len \in Nat /\ len + 1 \in Nat /\ len <= len + 1
    BY <1>1
  <2>2. \A i \in 1..len : log[i] = longer[i]
    BY <1>1
  <2> HIDE DEF IsStates
  <2> QED BY <1>2, <2>1, <2>2, StatesAgree
<1>4. len + 1 \in 0..(len + 1) /\ len + 1 # 0 /\ (len + 1) - 1 = len
  BY <1>1
<1>5. e[len + 1] = RunRequest(e[len], words).data
  BY <1>1, <1>2, <1>4 DEF IsStates
<1>6. Applied(base, log) = d[len] /\ Applied(base, longer) = e[len + 1]
  BY <1>1 DEF Applied, d, e, len
<1> QED BY <1>3, <1>5, <1>6 DEF longer

-----------------------------------------------------------------------------
(***************************************************************************)
(* A command changes one key, and what it makes of it depends on that key   *)
(* alone; BITOP's on the two it reads.                                      *)
(***************************************************************************)

\* What a Result is made of.
LEMMA Results ==
    /\ \A d, reply : Outcome(d, reply).data = d /\ Outcome(d, reply).ok
    /\ \A d, kind : Refuse(d, kind).data = d /\ ~Refuse(d, kind).ok
BY DEF Outcome, Refuse

\* A result that leaves the key space alone, or changes one key of it.
Touches(d, key, r) ==
    \/ r.data = d
    \/ \E item : r.data = Put(d, key, item)
    \/ r.data = Without(d, key)

\* Two results of the same command for two key spaces, which leave both or make the
\* same of the key.
Alike(d, e, key, r, q) ==
    \/ r.data = d /\ q.data = e
    \/ \E item : r.data = Put(d, key, item) /\ q.data = Put(e, key, item)
    \/ r.data = Without(d, key) /\ q.data = Without(e, key)

\* Put and Without change the key they are given.
LEMMA OneKey ==
    ASSUME NEW d, NEW key, NEW item, NEW other
    PROVE  /\ other # key => SameAt(Put(d, key, item), d, other) /\ SameAt(Without(d, key), d, other)
           /\ key \in DOMAIN Put(d, key, item) /\ Put(d, key, item)[key] = item
           /\ key \notin DOMAIN Without(d, key)
BY DEF SameAt, Put, Without, Restrict

\* SameAt is an equivalence.
LEMMA SameAtFacts ==
    ASSUME NEW d, NEW e, NEW f, NEW key
    PROVE  /\ SameAt(d, d, key)
           /\ SameAt(d, e, key) => SameAt(e, d, key)
           /\ SameAt(d, e, key) /\ SameAt(e, f, key) => SameAt(d, f, key)
BY DEF SameAt

\* What touches one key leaves the others.
LEMMA TouchesOne ==
    ASSUME NEW d, NEW key, NEW r, Touches(d, key, r), NEW other, other # key
    PROVE  SameAt(r.data, d, other)
<1>1. CASE r.data = d
  BY <1>1, SameAtFacts, Zenon
<1>2. CASE \E item : r.data = Put(d, key, item)
  <2>1. PICK item : r.data = Put(d, key, item)
    BY <1>2
  <2>2. SameAt(Put(d, key, item), d, other)
    BY OneKey
  <2> QED BY <2>1, <2>2, Zenon
<1>3. CASE r.data = Without(d, key)
  BY <1>3, OneKey
<1> QED BY <1>1, <1>2, <1>3, Zenon DEF Touches

\* Two key spaces that are alike at a key are so after a command that makes the same
\* of it.
LEMMA AlikeAtKey ==
    ASSUME NEW d, NEW e, NEW key, NEW r, NEW q, Alike(d, e, key, r, q),
           r.data = d => SameAt(d, e, key)
    PROVE  SameAt(r.data, q.data, key)
<1>1. CASE r.data = d /\ q.data = e
  BY <1>1, Zenon
<1>2. CASE \E item : r.data = Put(d, key, item) /\ q.data = Put(e, key, item)
  <2>1. PICK item : r.data = Put(d, key, item) /\ q.data = Put(e, key, item)
    BY <1>2
  <2>2. /\ key \in DOMAIN Put(d, key, item) /\ Put(d, key, item)[key] = item
        /\ key \in DOMAIN Put(e, key, item) /\ Put(e, key, item)[key] = item
    BY OneKey
  <2>3. /\ key \in DOMAIN r.data /\ r.data[key] = item
        /\ key \in DOMAIN q.data /\ q.data[key] = item
    BY <2>1, <2>2, Zenon
  <2> QED BY <2>3, Zenon DEF SameAt
<1>3. CASE r.data = Without(d, key) /\ q.data = Without(e, key)
  <2>1. key \notin DOMAIN r.data /\ key \notin DOMAIN q.data
    BY <1>3, OneKey, Zenon
  <2> QED BY <2>1, Zenon DEF SameAt
<1> QED BY <1>1, <1>2, <1>3, Zenon DEF Alike

\* A SET without an expiry.
LEMMA SetTouches ==
    ASSUME NEW d, NEW e, NEW args, NEW r, r = cmd_set(d, 0, args), NEW q, q = cmd_set(e, 0, args)
    PROVE  \E item : r.data = Put(d, args[1], item) /\ q.data = Put(e, args[1], item)
<1> DEFINE item == StoreItem("string", args[2], extract_deadline(0, args))
<1>1. r = Outcome(Put(d, args[1], item), Ok) /\ q = Outcome(Put(e, args[1], item), Ok)
  BY Zenon DEF cmd_set
<1> HIDE DEF item
<1>2. r.data = Put(d, args[1], item) /\ q.data = Put(e, args[1], item)
  BY <1>1, Results, Zenon
<1> QED BY <1>2

\* INCR.
LEMMA IncrTouches ==
    ASSUME NEW d, NEW e, NEW key, NEW r, r = cmd_incr(d, key), NEW q, q = cmd_incr(e, key)
    PROVE  /\ Touches(d, key, r) /\ (~r.ok => r.data = d)
           /\ SameAt(d, e, key) => Alike(d, e, key, r, q)
<1> DEFINE Item(f) == IF key \in DOMAIN f THEN f[key] ELSE StoreItem("string", WordOf(0), None)
           Bad(item) == item.type # "string" \/ ~Parses(item.value, "i64")
           Number(item) == NumberOf[item.value]
           New(item) == [item EXCEPT !.value = WordOf(Number(item) + 1)]
           Of(f) == IF Bad(Item(f)) THEN Refuse(f, "UnprocessableError")
                    ELSE IF Number(Item(f)) < I64_MAX
                    THEN Outcome(Put(f, key, New(Item(f))), Int64(Number(Item(f)) + 1))
                    ELSE Refuse(f, "UnprocessableError")
<1>1. r = Of(d) /\ q = Of(e)
  BY Zenon DEF cmd_incr
<1>2. SameAt(d, e, key) => Item(d) = Item(e)
  BY DEF SameAt
<1> HIDE DEF Item, Bad, Number, New
<1>3. CASE Bad(Item(d)) \/ ~(Number(Item(d)) < I64_MAX)
  <2>1. r.data = d
    BY <1>1, <1>3, Results, Zenon
  <2>2. SameAt(d, e, key) => q.data = e
    BY <1>1, <1>2, <1>3, Results, Zenon
  <2> QED BY <2>1, <2>2, Zenon DEF Touches, Alike
<1>4. CASE ~Bad(Item(d)) /\ Number(Item(d)) < I64_MAX
  <2>1. r.data = Put(d, key, New(Item(d))) /\ r.ok
    BY <1>1, <1>4, Results
  <2>2. ASSUME SameAt(d, e, key)
        PROVE  q.data = Put(e, key, New(Item(d)))
    <3>1. Item(e) = Item(d)
      BY <1>2, <2>2, Zenon
    <3>2. q = Outcome(Put(e, key, New(Item(e))), Int64(Number(Item(e)) + 1))
      BY <1>1, <1>4, <3>1, Zenon
    <3>3. q.data = Put(e, key, New(Item(e)))
      BY <3>2, Results, Zenon
    <3> QED BY <3>1, <3>3, Zenon
  <2> QED BY <2>1, <2>2, Zenon DEF Touches, Alike
<1> QED BY <1>3, <1>4

\* RPUSH and LPUSH.
LEMMA PushTouches ==
    ASSUME NEW d, NEW e, NEW key, NEW values,
           NEW r, NEW q,
           \/ r = cmd_rpush(d, key, values) /\ q = cmd_rpush(e, key, values)
           \/ r = cmd_lpush(d, key, values) /\ q = cmd_lpush(e, key, values)
    PROVE  /\ Touches(d, key, r) /\ (~r.ok => r.data = d)
           /\ SameAt(d, e, key) => Alike(d, e, key, r, q)
<1> DEFINE Item(f) == IF key \in DOMAIN f THEN f[key] ELSE StoreItem("list", <<>>, None)
           Right(item) == item.value \o values
           Left(item) == Reverse(values) \o item.value
           With(f, item, list) ==
               IF item.type # "list" THEN Refuse(f, "UnsupportedCmd")
               ELSE Outcome(Put(f, key, [item EXCEPT !.value = list]), Int64(Len(list)))
<1>1. \/ r = With(d, Item(d), Right(Item(d))) /\ q = With(e, Item(e), Right(Item(e)))
      \/ r = With(d, Item(d), Left(Item(d))) /\ q = With(e, Item(e), Left(Item(e)))
  BY Zenon DEF cmd_rpush, cmd_lpush, Pushed
<1>2. SameAt(d, e, key) => Item(d) = Item(e)
  BY DEF SameAt
<1> HIDE DEF Item, Right, Left
<1>3. PICK list, other : /\ r = With(d, Item(d), list) /\ q = With(e, Item(e), other)
                         /\ SameAt(d, e, key) => list = other
  BY <1>1, <1>2, Zenon
<1>4. CASE Item(d).type # "list"
  <2>1. r.data = d
    BY <1>3, <1>4, Results, Zenon
  <2>2. SameAt(d, e, key) => q.data = e
    BY <1>2, <1>3, <1>4, Results, Zenon
  <2> QED BY <2>1, <2>2, Zenon DEF Touches, Alike
<1>5. CASE Item(d).type = "list"
  <2> DEFINE new == [Item(d) EXCEPT !.value = list]
  <2>1. r.data = Put(d, key, new) /\ r.ok
    BY <1>3, <1>5, Results, Zenon
  <2>2. SameAt(d, e, key) => q.data = Put(e, key, new)
    BY <1>2, <1>3, <1>5, Results, Zenon
  <2> HIDE DEF new
  <2> QED BY <2>1, <2>2, Zenon DEF Touches, Alike
<1> QED BY <1>4, <1>5

\* LPOP.
LEMMA PopTouches ==
    ASSUME NEW d, NEW e, NEW args, NEW r, r = cmd_lpop(d, args), NEW q, q = cmd_lpop(e, args)
    PROVE  /\ Touches(d, args[1], r) /\ (~r.ok => r.data = d)
           /\ SameAt(d, e, args[1]) => Alike(d, e, args[1], r, q)
<1> DEFINE key == args[1]
           Count(f) == Smaller(IF Len(args) = 1 THEN 1 ELSE NumberOf[args[2]], Len(f[key].value))
           Reply(f) == IF Len(args) = 1
                       THEN IF Count(f) = 0 THEN NullBulkStr ELSE BulkStr(Head(f[key].value))
                       ELSE IF Count(f) = 0 THEN NullArray ELSE Request(SubSeq(f[key].value, 1, Count(f)))
           New(f) == [f[key] EXCEPT !.value = SubSeq(f[key].value, Count(f) + 1, Len(f[key].value))]
           Of(f) == IF key \notin DOMAIN f THEN Outcome(f, NullBulkStr)
                    ELSE IF ~Has(f, key, "list") THEN Refuse(f, "UnsupportedCmd")
                    ELSE Outcome(Put(f, key, New(f)), Reply(f))
<1>1. r = Of(d) /\ q = Of(e)
  BY Zenon DEF cmd_lpop
<1>2. ASSUME SameAt(d, e, key)
      PROVE  /\ key \in DOMAIN d <=> key \in DOMAIN e
             /\ Has(d, key, "list") <=> Has(e, key, "list")
             /\ key \in DOMAIN d => New(d) = New(e)
  <2>1. key \in DOMAIN d => d[key] = e[key]
    BY <1>2 DEF SameAt
  <2>2. key \in DOMAIN d => New(d) = New(e)
    BY <2>1, Zenon
  <2> HIDE DEF New
  <2> QED BY <1>2, <2>1, <2>2 DEF SameAt, Has
<1>3. Has(d, key, "list") => key \in DOMAIN d
  BY DEF Has
<1> HIDE DEF New, Reply, key
<1>4. CASE ~Has(d, key, "list")
  <2>1. r.data = d
    BY <1>1, <1>4, Results
  <2>2. SameAt(d, e, key) => q.data = e
    BY <1>1, <1>2, <1>4, Results
  <2> QED BY <2>1, <2>2, Zenon DEF Touches, Alike, key
<1>5. CASE Has(d, key, "list")
  <2>1. r.data = Put(d, key, New(d)) /\ r.ok
    <3>1. r = Outcome(Put(d, key, New(d)), Reply(d))
      BY <1>1, <1>3, <1>5, Zenon
    <3> QED BY <3>1, Results
  <2>2. ASSUME SameAt(d, e, key)
        PROVE  q.data = Put(e, key, New(d))
    <3>1. key \in DOMAIN e /\ Has(e, key, "list") /\ New(e) = New(d)
      BY <1>2, <1>3, <1>5, <2>2, Zenon
    <3>2. q.data = Put(e, key, New(e))
      BY <1>1, <3>1, Results, Zenon
    <3> QED BY <3>1, <3>2, Zenon
  <2> QED BY <2>1, <2>2, Zenon DEF Touches, Alike, key
<1> QED BY <1>4, <1>5

\* SETBIT, which may be refused after it made the bitmap.
LEMMA SetbitTouches ==
    ASSUME NEW d, NEW e, NEW key, NEW offset, NEW bit,
           NEW r, r = cmd_setbit(d, key, offset, bit), NEW q, q = cmd_setbit(e, key, offset, bit)
    PROVE  Touches(d, key, r) /\ (SameAt(d, e, key) => Alike(d, e, key, r, q))
<1> DEFINE Item(f) == IF key \in DOMAIN f THEN f[key] ELSE StoreItem("bitmap", Zeros(Blocks(offset)), None)
           Old(item) == BitAt(item.value, offset)
           Map(item) == Extended(item.value, offset)
           With(item, map) == [item EXCEPT !.value = map]
           Short(item) == BlockOf(offset) > Len(Map(item))
           New(item) == IF Old(item) = bit \/ bit \notin {0, 1} THEN item
                        ELSE IF Short(item) THEN With(item, Map(item))
                        ELSE With(item, BitsSet(Map(item), offset, bit))
           Of(f) == CASE Item(f).type # "bitmap" -> Refuse(f, "Dummy")
                      [] Item(f).type = "bitmap" /\ Old(Item(f)) = bit -> Outcome(Put(f, key, Item(f)), Int64(Old(Item(f))))
                      [] Item(f).type = "bitmap" /\ Old(Item(f)) # bit ->
                           IF bit \notin {0, 1} THEN Refuse(Put(f, key, Item(f)), "ParseError")
                           ELSE IF Short(Item(f)) THEN Refuse(Put(f, key, With(Item(f), Map(Item(f)))), "OutOfIndex")
                           ELSE Outcome(Put(f, key, With(Item(f), BitsSet(Map(Item(f)), offset, bit))), Int64(Old(Item(f))))
<1>1. r = Of(d) /\ q = Of(e)
  BY Zenon DEF cmd_setbit
<1>2. SameAt(d, e, key) => Item(d) = Item(e)
  BY DEF SameAt
<1> HIDE DEF Item, Old, Map, With, Short
<1>3. ASSUME NEW f, NEW p, p = Of(f)
      PROVE  /\ Item(f).type # "bitmap" => p.data = f
             /\ Item(f).type = "bitmap" => p.data = Put(f, key, New(Item(f)))
  <2>1. CASE Item(f).type # "bitmap"
    BY <1>3, <2>1, Results, Zenon
  <2>2. CASE Item(f).type = "bitmap" /\ Old(Item(f)) = bit
    BY <1>3, <2>2, Results, Zenon
  <2>3. CASE Item(f).type = "bitmap" /\ Old(Item(f)) # bit
    <3>1. p = IF bit \notin {0, 1} THEN Refuse(Put(f, key, Item(f)), "ParseError")
              ELSE IF Short(Item(f)) THEN Refuse(Put(f, key, With(Item(f), Map(Item(f)))), "OutOfIndex")
              ELSE Outcome(Put(f, key, With(Item(f), BitsSet(Map(Item(f)), offset, bit))), Int64(Old(Item(f))))
      BY <1>3, <2>3, Zenon
    <3>2. CASE bit \notin {0, 1}
      BY <2>3, <3>1, <3>2, Results, Zenon
    <3>3. CASE bit \in {0, 1} /\ Short(Item(f))
      <4>1. p.data = Put(f, key, With(Item(f), Map(Item(f))))
        BY <3>1, <3>3, Results, Zenon
      <4>2. New(Item(f)) = With(Item(f), Map(Item(f)))
        BY <2>3, <3>3, Zenon
      <4> QED BY <2>3, <4>1, <4>2, Zenon
    <3>4. CASE bit \in {0, 1} /\ ~Short(Item(f))
      <4>1. p.data = Put(f, key, With(Item(f), BitsSet(Map(Item(f)), offset, bit)))
        BY <3>1, <3>4, Results, Zenon
      <4>2. New(Item(f)) = With(Item(f), BitsSet(Map(Item(f)), offset, bit))
        BY <2>3, <3>4, Zenon
      <4> QED BY <2>3, <4>1, <4>2, Zenon
    <3> QED BY <3>2, <3>3, <3>4
  <2> QED BY <2>1, <2>2, <2>3
<1> HIDE DEF New, Of
<1>4. CASE Item(d).type # "bitmap"
  <2>1. r.data = d
    BY <1>1, <1>3, <1>4, Zenon
  <2>2. SameAt(d, e, key) => q.data = e
    BY <1>1, <1>2, <1>3, <1>4, Zenon
  <2> QED BY <2>1, <2>2, Zenon DEF Touches, Alike
<1>5. CASE Item(d).type = "bitmap"
  <2>1. r.data = Put(d, key, New(Item(d)))
    BY <1>1, <1>3, <1>5, Zenon
  <2>2. ASSUME SameAt(d, e, key)
        PROVE  q.data = Put(e, key, New(Item(d)))
    <3>1. Item(e) = Item(d)
      BY <1>2, <2>2, Zenon
    <3>2. q.data = Put(e, key, New(Item(e)))
      BY <1>1, <1>3, <1>5, <3>1, Zenon
    <3> QED BY <3>1, <3>2, Zenon
  <2> QED BY <2>1, <2>2, Zenon DEF Touches, Alike
<1> QED BY <1>4, <1>5

\* BITOP, whose result depends on the keys it reads.
LEMMA BitopTouches ==
    ASSUME NEW d, NEW e, NEW op, NEW dest, NEW key1, NEW key2,
           NEW r, r = cmd_bitop(d, op, dest, key1, key2), NEW q, q = cmd_bitop(e, op, dest, key1, key2)
    PROVE  /\ Touches(d, dest, r) /\ (~r.ok => r.data = d)
           /\ r.ok /\ SameAt(d, e, key1) /\ SameAt(d, e, key2) =>
                 Alike(d, e, dest, r, q) /\ SameAt(r.data, q.data, dest)
<1> DEFINE Source(f, key) == IF key \in DOMAIN f THEN MapOf(f, key) ELSE <<>>
           Out(f) == IF op = "AND" THEN combine(Source(f, key1), Source(f, key2), LAMBDA a, b : a \cap b)
                     ELSE combine(Source(f, key1), Source(f, key2), LAMBDA a, b : a \cup b)
           Bad(f) == \E key \in {key1, key2} \cap DOMAIN f : ~HasBits(f, key)
           Made(f) == IF Out(f) = <<>> THEN Without(f, dest)
                      ELSE Put(f, dest, StoreItem("bitmap", Out(f), None))
           Of(f) == IF op \notin {"AND", "OR"} THEN Refuse(f, "InvalidArgument")
                    ELSE IF Bad(f) THEN Refuse(f, "UnprocessableError")
                    ELSE Outcome(Made(f), Int64(Len(Out(f))))
<1>1. r = Of(d) /\ q = Of(e)
  BY Zenon DEF cmd_bitop
<1>2. ASSUME SameAt(d, e, key1), SameAt(d, e, key2)
      PROVE  Out(d) = Out(e) /\ (Bad(d) <=> Bad(e))
  <2>1. ASSUME NEW key, SameAt(d, e, key)
        PROVE  Source(d, key) = Source(e, key) /\ (HasBits(d, key) <=> HasBits(e, key))
    <3>1. CASE key \notin DOMAIN d
      BY <2>1, <3>1, Zenon DEF SameAt, HasBits, Has
    <3>2. CASE key \in DOMAIN d
      <4>1. key \in DOMAIN e /\ d[key] = e[key]
        BY <2>1, <3>2, Zenon DEF SameAt
      <4>2. Has(d, key, "bitmap") <=> Has(e, key, "bitmap")
        BY <3>2, <4>1, Zenon DEF Has
      <4>3. Has(d, key, "string") <=> Has(e, key, "string")
        BY <3>2, <4>1, Zenon DEF Has
      <4>4. MapOf(d, key) = MapOf(e, key)
        BY <4>1, <4>2, Zenon DEF MapOf
      <4> QED BY <3>2, <4>1, <4>2, <4>3, <4>4, Zenon DEF HasBits
    <3> QED BY <3>1, <3>2
  <2>2. Source(d, key1) = Source(e, key1) /\ Source(d, key2) = Source(e, key2)
    BY <1>2, <2>1, Zenon
  <2>3. Bad(d) <=> Bad(e)
    <3>1. ASSUME NEW key \in {key1, key2}
          PROVE  /\ key \in DOMAIN d <=> key \in DOMAIN e
                 /\ HasBits(d, key) <=> HasBits(e, key)
      BY <1>2, <2>1 DEF SameAt
    <3> HIDE DEF Source
    <3> QED BY <3>1
  <2> HIDE DEF Source, Bad
  <2> QED BY <2>2, <2>3, Zenon
<1> HIDE DEF Out, Bad
<1>3. CASE op \notin {"AND", "OR"} \/ Bad(d)
  <2>1. r.data = d /\ ~r.ok
    BY <1>1, <1>3, Results
  <2> QED BY <2>1, Zenon DEF Touches
<1>4. CASE op \in {"AND", "OR"} /\ ~Bad(d)
  <2>1. r.data = Made(d) /\ r.ok
    <3>1. r = Outcome(Made(d), Int64(Len(Out(d))))
      BY <1>1, <1>4, Zenon
    <3> HIDE DEF Made
    <3> QED BY <3>1, Results
  <2>2. Touches(d, dest, r)
    BY <2>1, Zenon DEF Touches
  <2>3. ASSUME SameAt(d, e, key1), SameAt(d, e, key2)
        PROVE  Alike(d, e, dest, r, q) /\ SameAt(r.data, q.data, dest)
    <3>1. Out(e) = Out(d) /\ ~Bad(e)
      BY <1>2, <1>4, <2>3, Zenon
    <3>2. q.data = Made(e)
      BY <1>1, <1>4, <3>1, Results
    <3>3. CASE Out(d) = <<>>
      <4>1. r.data = Without(d, dest) /\ q.data = Without(e, dest)
        BY <2>1, <3>1, <3>2, <3>3, Zenon
      <4>2. dest \notin DOMAIN r.data /\ dest \notin DOMAIN q.data
        BY <4>1, OneKey, Zenon
      <4> QED BY <4>1, <4>2, Zenon DEF Alike, SameAt
    <3>4. CASE Out(d) # <<>>
      <4> DEFINE item == StoreItem("bitmap", Out(d), None)
      <4>1. r.data = Put(d, dest, item) /\ q.data = Put(e, dest, item)
        BY <2>1, <3>1, <3>2, <3>4, Zenon
      <4> HIDE DEF item
      <4>2. /\ dest \in DOMAIN Put(d, dest, item) /\ Put(d, dest, item)[dest] = item
            /\ dest \in DOMAIN Put(e, dest, item) /\ Put(e, dest, item)[dest] = item
        BY OneKey
      <4>3. SameAt(Put(d, dest, item), Put(e, dest, item), dest)
        BY <4>2, Zenon DEF SameAt
      <4> QED BY <4>1, <4>3, Zenon DEF Alike
    <3> QED BY <3>3, <3>4
  <2> QED BY <2>1, <2>2, <2>3, Zenon
<1> QED BY <1>3, <1>4

\* The commands that change the key they name first.
Writers == {"SET", "INCR", "RPUSH", "LPUSH", "LPOP", "SETBIT"}

\* The arm of a command that changes something.
LEMMA WriteArms ==
    ASSUME NEW d, NEW t, NEW cmd
    PROVE  LET args == cmd.args
               r == Execute(d, t, cmd)
           IN /\ cmd.name \in Errors => r = Refuse(d, cmd.name)
              /\ cmd.name = "SET" => r = cmd_set(d, t, args)
              /\ cmd.name = "INCR" => r = cmd_incr(d, args[1])
              /\ cmd.name = "RPUSH" => r = cmd_rpush(d, args[1], Tail(args))
              /\ cmd.name = "LPUSH" => r = cmd_lpush(d, args[1], Tail(args))
              /\ cmd.name = "LPOP" => r = cmd_lpop(d, args)
              /\ cmd.name = "SETBIT" => r = cmd_setbit(d, args[1], NumberOf[args[2]], NumberOf[args[3]])
              /\ cmd.name = "BITOP" => r = cmd_bitop(d, args[1][1], args[2], args[3], args[4])
<1>1. /\ "SET" \notin Errors /\ "INCR" \notin Errors /\ "RPUSH" \notin Errors /\ "LPUSH" \notin Errors
      /\ "LPOP" \notin Errors /\ "SETBIT" \notin Errors /\ "BITOP" \notin Errors
      /\ "GET" \notin Errors /\ "LLEN" \notin Errors /\ "LRANGE" \notin Errors
      /\ "GETBIT" \notin Errors /\ "STRLEN" \notin Errors
      /\ "BITCOUNT" \notin Errors /\ "TYPE" \notin Errors /\ "KEYS" \notin Errors
  BY DEF Errors
<1> QED BY <1>1, Zenon DEF Execute

\* The arm of a command that only reads.
LEMMA ReadArms ==
    ASSUME NEW d, NEW t, NEW cmd, NEW r, r = Execute(d, t, cmd),
           cmd.name \in DataCommand \ (Writers \cup {"BITOP"})
    PROVE  r.data = d
<1> DEFINE args == cmd.args
<1>1. /\ "GET" \notin Errors /\ "LLEN" \notin Errors /\ "LRANGE" \notin Errors
      /\ "GETBIT" \notin Errors /\ "STRLEN" \notin Errors
      /\ "BITCOUNT" \notin Errors /\ "TYPE" \notin Errors /\ "KEYS" \notin Errors
  BY DEF Errors
<1>2. CASE cmd.name = "GET"
  <2>1. r = cmd_get(d, t, args[1])
    BY <1>1, <1>2, Zenon DEF Execute
  <2> QED BY <2>1, Results, ZenonT(60) DEF cmd_get
<1>3. CASE cmd.name = "LLEN"
  <2>1. r = cmd_llen(d, args[1])
    BY <1>1, <1>3, Zenon DEF Execute
  <2> QED BY <2>1, Results DEF cmd_llen
<1>4. CASE cmd.name = "LRANGE"
  <2>1. r = cmd_lrange(d, args[1], NumberOf[args[2]], NumberOf[args[3]])
    BY <1>1, <1>4, Zenon DEF Execute
  <2> QED BY <2>1, Results, ZenonT(60) DEF cmd_lrange
<1>5. CASE cmd.name = "GETBIT"
  <2>1. r = cmd_getbit(d, args[1], NumberOf[args[2]])
    BY <1>1, <1>5, Zenon DEF Execute
  <2> QED BY <2>1, Results DEF cmd_getbit, ReadBits
<1>6. CASE cmd.name = "STRLEN"
  <2>1. r = cmd_strlen(d, args[1])
    BY <1>1, <1>6, Zenon DEF Execute
  <2> QED BY <2>1, Results DEF cmd_strlen, ReadBits
<1>7. CASE cmd.name = "BITCOUNT"
  <2>1. r = cmd_bitcount(d, args)
    BY <1>1, <1>7, Zenon DEF Execute
  <2> QED BY <2>1, Results DEF cmd_bitcount, ReadBits
<1>8. CASE cmd.name = "TYPE"
  <2>1. r = cmd_type(d, args[1])
    BY <1>1, <1>8, Zenon DEF Execute
  <2> QED BY <2>1, Results, Zenon DEF cmd_type
<1>9. CASE cmd.name = "KEYS"
  <2>1. r = cmd_keys(d, args[1])
    BY <1>1, <1>9, Zenon DEF Execute
  <2>2. ASSUME NEW arg PROVE cmd_keys(d, arg).data = d
    BY Results, Zenon DEF cmd_keys
  <2> QED BY <2>1, <2>2, Zenon
<1> QED BY <1>2, <1>3, <1>4, <1>5, <1>6, <1>7, <1>8, <1>9 DEF DataCommand, Writers

\* What a request does to a key space, and to another that is alike where it counts.
LEMMA RequestTouches ==
    ASSUME NEW d, NEW e, NEW words \in Requests, NEW cmd, cmd = CmdOf(words),
           NEW r, r = RunRequest(d, words), NEW q, q = RunRequest(e, words)
    PROVE  /\ cmd.name \in Writers =>
                 /\ Touches(d, cmd.args[1], r)
                 /\ SameAt(d, e, cmd.args[1]) => SameAt(r.data, q.data, cmd.args[1])
           /\ cmd.name = "BITOP" =>
                 /\ Touches(d, cmd.args[2], r)
                 /\ ~r.ok => r.data = d
                 /\ r.ok /\ SameAt(d, e, cmd.args[3]) /\ SameAt(d, e, cmd.args[4]) =>
                       SameAt(r.data, q.data, cmd.args[2])
           /\ cmd.name \notin Writers \cup {"BITOP"} => r.data = d
<1> DEFINE args == cmd.args
           key == args[1]
<1>1. cmd.name \in DataCommand \cup Errors \cup {"BLPOP"}
  BY AofRequestsAssumption
<1>2. cmd.name # "BLPOP" => r = Execute(d, 0, cmd) /\ q = Execute(e, 0, cmd)
  BY Zenon DEF RunRequest
<1>3. \A name \in Writers \cup {"BITOP"} : name # "BLPOP" /\ name \notin Errors
  BY DEF Writers, Errors
<1>4. ASSUME Alike(d, e, key, r, q), SameAt(d, e, key)
      PROVE  SameAt(r.data, q.data, key)
  BY <1>4, AlikeAtKey
<1>5. CASE cmd.name = "SET"
  <2>1. r = cmd_set(d, 0, args) /\ q = cmd_set(e, 0, args)
    BY <1>2, <1>5, WriteArms, Zenon
  <2>2. PICK item : r.data = Put(d, key, item) /\ q.data = Put(e, key, item)
    BY <2>1, SetTouches
  <2>3. Touches(d, key, r) /\ Alike(d, e, key, r, q)
    BY <2>2, Zenon DEF Touches, Alike
  <2> QED BY <1>3, <1>4, <1>5, <2>3 DEF Writers
<1>6. CASE cmd.name = "INCR"
  <2>1. r = cmd_incr(d, key) /\ q = cmd_incr(e, key)
    BY <1>2, <1>6, WriteArms, Zenon
  <2>2. Touches(d, key, r) /\ (SameAt(d, e, key) => Alike(d, e, key, r, q))
    BY <2>1, IncrTouches, Zenon
  <2> QED BY <1>4, <1>6, <2>2 DEF Writers
<1>7. CASE cmd.name \in {"RPUSH", "LPUSH"}
  <2>1. \/ r = cmd_rpush(d, key, Tail(args)) /\ q = cmd_rpush(e, key, Tail(args))
        \/ r = cmd_lpush(d, key, Tail(args)) /\ q = cmd_lpush(e, key, Tail(args))
    BY <1>2, <1>7, WriteArms
  <2>2. Touches(d, key, r) /\ (SameAt(d, e, key) => Alike(d, e, key, r, q))
    BY <2>1, PushTouches
  <2> QED BY <1>4, <1>7, <2>2 DEF Writers
<1>8. CASE cmd.name = "LPOP"
  <2>1. r = cmd_lpop(d, args) /\ q = cmd_lpop(e, args)
    BY <1>2, <1>8, WriteArms, Zenon
  <2>2. Touches(d, key, r) /\ (SameAt(d, e, key) => Alike(d, e, key, r, q))
    BY <2>1, PopTouches, Zenon
  <2> QED BY <1>4, <1>8, <2>2 DEF Writers
<1>9. CASE cmd.name = "SETBIT"
  <2>1. /\ r = cmd_setbit(d, key, NumberOf[args[2]], NumberOf[args[3]])
        /\ q = cmd_setbit(e, key, NumberOf[args[2]], NumberOf[args[3]])
    BY <1>2, <1>9, WriteArms, Zenon
  <2>2. Touches(d, key, r) /\ (SameAt(d, e, key) => Alike(d, e, key, r, q))
    BY <2>1, SetbitTouches, Zenon
  <2> QED BY <1>4, <1>9, <2>2 DEF Writers
<1>10. CASE cmd.name = "BITOP"
  <2>1. /\ r = cmd_bitop(d, args[1][1], args[2], args[3], args[4])
        /\ q = cmd_bitop(e, args[1][1], args[2], args[3], args[4])
    BY <1>2, <1>10, WriteArms, Zenon
  <2>2. /\ Touches(d, args[2], r) /\ (~r.ok => r.data = d)
        /\ r.ok /\ SameAt(d, e, args[3]) /\ SameAt(d, e, args[4]) => SameAt(r.data, q.data, args[2])
    BY <2>1, BitopTouches
  <2> QED BY <1>10, <2>2 DEF Writers
<1>11. CASE cmd.name \in Errors
  <2>1. r = Refuse(d, cmd.name)
    <3>1. cmd.name # "BLPOP"
      BY <1>11 DEF Errors
    <3> QED BY <1>2, <1>11, <3>1, WriteArms, Zenon
  <2>2. r.data = d
    BY <2>1, Results, Zenon
  <2> QED BY <1>3, <1>11, <2>2
<1>12. CASE cmd.name = "BLPOP"
  <2>1. r.data = d
    BY <1>12, Results, Zenon DEF RunRequest
  <2> QED BY <1>3, <1>12, <2>1
<1>13. CASE cmd.name \in DataCommand \ (Writers \cup {"BITOP"})
  <2>1. cmd.name # "BLPOP"
    BY <1>13 DEF DataCommand
  <2>2. r.data = d
    BY <1>2, <1>13, <2>1, ReadArms
  <2> QED BY <1>13, <2>2
<1> QED BY <1>1, <1>5, <1>6, <1>7, <1>8, <1>9, <1>10, <1>11, <1>12, <1>13 DEF Writers

-----------------------------------------------------------------------------
(***************************************************************************)
(* The log describes the key space.                                         *)
(***************************************************************************)

\* Two key spaces agree but at some keys.
AgreeBut(d, e, keys) == \A key : key \in keys \/ SameAt(d, e, key)

\* A command that is not logged changes at most a key that is then undescribed.
LEMMA UnloggedAgrees ==
    ASSUME NEW words \in Requests, ~IsLogged(words), NEW e, AgreeBut(data, e, drifted)
    PROVE  AgreeBut(RunRequest(data, words).data, e, drifted \cup Undescribed(words))
<1> DEFINE cmd == CmdOf(words)
           r == RunRequest(data, words)
<1>1. /\ cmd.name \in Writers => Touches(data, cmd.args[1], r)
      /\ cmd.name = "BITOP" /\ ~r.ok => r.data = data
      /\ cmd.name \notin Writers \cup {"BITOP"} => r.data = data
  BY RequestTouches
<1>2. cmd.name \in Writers \cup {"BITOP"} => ~r.ok
  BY DEF IsLogged, Waits, IsRefused, to_be_broadcast, Writers
<1>3. CASE r.data = data
  BY <1>3 DEF AgreeBut
<1>4. CASE r.data # data
  <2>1. Touches(data, cmd.args[1], r) /\ ~r.ok
    BY <1>1, <1>2, <1>4
  <2>2. cmd.args[1] \in Undescribed(words)
    BY <1>4, <2>1 DEF Undescribed, IsRefused
  <2>3. ASSUME NEW key, key \notin drifted \cup Undescribed(words)
        PROVE  SameAt(r.data, e, key)
    <3>1. key # cmd.args[1] /\ SameAt(data, e, key)
      BY <2>2, <2>3 DEF AgreeBut
    <3> HIDE DEF r, cmd
    <3>2. SameAt(r.data, data, key)
      BY <2>1, <3>1, TouchesOne
    <3> QED BY <3>1, <3>2, SameAtFacts, Zenon
  <2> QED BY <2>3 DEF AgreeBut
<1> QED BY <1>3, <1>4

\* A logged command does the same to what the log describes.
LEMMA LoggedAgrees ==
    ASSUME NEW words \in Requests, IsLogged(words), NEW e, AgreeBut(data, e, drifted)
    PROVE  AgreeBut(RunRequest(data, words).data, RunRequest(e, words).data, drifted \cup Undescribed(words))
<1> DEFINE cmd == CmdOf(words)
           args == cmd.args
           r == RunRequest(data, words)
           q == RunRequest(e, words)
           keys == drifted \cup Undescribed(words)
<1>1. /\ cmd.name \in Writers =>
            /\ Touches(data, args[1], r) /\ Touches(e, args[1], q)
            /\ SameAt(data, e, args[1]) => SameAt(r.data, q.data, args[1])
      /\ cmd.name = "BITOP" =>
            /\ Touches(data, args[2], r) /\ Touches(e, args[2], q)
            /\ r.ok /\ SameAt(data, e, args[3]) /\ SameAt(data, e, args[4]) =>
                  SameAt(r.data, q.data, args[2])
      /\ cmd.name \notin Writers \cup {"BITOP"} => r.data = data /\ q.data = e
  BY RequestTouches
<1>2. r.ok
  BY DEF IsLogged, IsRefused
<1>3. cmd.name = "BITOP" => args[2] \in Undescribed(words) \/ (args[3] \notin drifted /\ args[4] \notin drifted)
  BY DEF Undescribed
<1>4. \A key : key \in drifted \/ SameAt(data, e, key)
  BY DEF AgreeBut
<1> HIDE DEF cmd, args, r, q
<1>5. ASSUME NEW changed, Touches(data, changed, r), Touches(e, changed, q),
             changed \in keys \/ SameAt(r.data, q.data, changed)
      PROVE  AgreeBut(r.data, q.data, keys)
  <2>1. ASSUME NEW key, key \notin keys, key # changed
        PROVE  SameAt(r.data, q.data, key)
    <3>1. SameAt(data, e, key)
      BY <1>4, <2>1
    <3>2. SameAt(r.data, data, key) /\ SameAt(q.data, e, key)
      BY <1>5, <2>1, TouchesOne
    <3>3. SameAt(e, q.data, key)
      BY <3>2, SameAtFacts, Zenon
    <3>4. SameAt(r.data, e, key)
      BY <3>1, <3>2, SameAtFacts, Zenon
    <3> QED BY <3>3, <3>4, SameAtFacts, Zenon
  <2> HIDE DEF keys
  <2> QED BY <1>5, <2>1, Zenon DEF AgreeBut
<1>6. CASE cmd.name \in Writers
  <2>1. args[1] \in keys \/ SameAt(r.data, q.data, args[1])
    BY <1>1, <1>4, <1>6
  <2> QED BY <1>1, <1>5, <1>6, <2>1 DEF r, q, keys
<1>7. CASE cmd.name = "BITOP"
  <2>1. args[2] \in keys \/ SameAt(r.data, q.data, args[2])
    BY <1>1, <1>2, <1>3, <1>4, <1>7
  <2> QED BY <1>1, <1>5, <1>7, <2>1 DEF r, q, keys
<1>8. CASE cmd.name \notin Writers \cup {"BITOP"}
  BY <1>1, <1>4, <1>8 DEF AgreeBut, r, q
<1> QED BY <1>6, <1>7, <1>8

\* The pops that serve waiting clients change keys that are then undescribed.
LEMMA ServedAgrees ==
    ASSUME ServeBacklogList, NEW e, AgreeBut(data, e, drifted)
    PROVE  AgreeBut(data', e, drifted')
<1>1. CASE ~flag_backlog_list
  BY <1>1 DEF ServeBacklogList, AgreeBut
<1>2. CASE flag_backlog_list
  <2> DEFINE New(key) == [data[key] EXCEPT !.value = SubSeq(@, Cardinality(Served(key)) + 1, Len(@))]
  <2>1. /\ data' = [key \in DOMAIN data |-> IF Served(key) = {} THEN data[key] ELSE New(key)]
        /\ drifted' = drifted \cup {key \in DOMAIN data : Served(key) # {}}
    BY <1>2, Zenon DEF ServeBacklogList
  <2> HIDE DEF New
  <2>2. ASSUME NEW key, key \notin drifted'
        PROVE  SameAt(data', data, key)
    BY <2>1, <2>2 DEF SameAt
  <2>3. ASSUME NEW key, key \notin drifted'
        PROVE  SameAt(data', e, key)
    <3>1. SameAt(data, e, key)
      BY <2>1, <2>3 DEF AgreeBut
    <3>2. SameAt(data', data, key)
      BY <2>2, <2>3
    <3> QED BY <3>1, <3>2, SameAtFacts, Zenon
  <2> QED BY <2>3 DEF AgreeBut
<1> QED BY <1>1, <1>2

\* The steps of the start: there is no log without its directory, nothing in the
\* buffer before commands run, and the key space is that of the records replayed.
StartInv ==
    /\ ~dir => file = <<>>
    /\ phase \notin {"down", "dirs"} => dir
    /\ phase = "dirs" => ~dir
    /\ phase \in {"down", "dirs"} => data = EmptyMap
    /\ phase \notin {"commands", "flush"} => buffer = <<>>
    /\ phase = "replay" => /\ replayed \in 0..Len(file)
                           /\ data = Replayed(SubSeq(file, 1, replayed))
    /\ phase \in {"open", "truncate", "manifest"} => data = Replayed(file)
    /\ phase = "rdb" /\ writer => data = Replayed(file)

\* While commands run, the log describes the key space but at the keys that drifted.
DescribedInv ==
    phase \in {"commands", "flush"} /\ writer /\ ~HasSnapshot =>
        AgreeBut(data, Replayed(file \o buffer), drifted)

DataInv == AofInv /\ StartInv /\ DescribedInv

\* What a log of no records, of some and of one more makes.
LEMMA ReplayedFacts ==
    /\ Replayed(<<>>) = EmptyMap
    /\ \A log \in Seq(Requests), words \in Requests :
          Replayed(Append(log, words)) = RunRequest(Replayed(log), words).data
<1>1. \A log \in Seq(Requests), words \in Requests :
          Applied(EmptyMap, Append(log, words)) = RunRequest(Applied(EmptyMap, log), words).data
  BY OneRecordMore
<1>2. Applied(EmptyMap, <<>>) = EmptyMap
  <2>1. IsStates(States(EmptyMap, <<>>), EmptyMap, <<>>, Len(<<>>)) /\ Len(<<>>) = 0
    BY AppliedIs
  <2>2. States(EmptyMap, <<>>)[0] = EmptyMap
    BY <2>1 DEF IsStates
  <2> QED BY <2>1, <2>2 DEF Applied
<1> QED BY <1>1, <1>2 DEF Replayed

\* A command, logged or not.
LEMMA CommandDescribes ==
    ASSUME ~DiskFull, DataInv, NEW client \in Clients, NEW words \in Requests,
           Command(client, words), AofInv'
    PROVE  DataInv'
<1>1. /\ phase = "commands" /\ UNCHANGED <<phase, writer, dir, snapshot>>
      /\ data' = RunRequest(data, words).data
      /\ drifted' = drifted \cup Undescribed(words)
  BY DEF Command, ExecuteFor
<1>2. StartInv'
  BY <1>1 DEF DataInv, StartInv
<1>3. ASSUME writer, ~HasSnapshot
      PROVE  AgreeBut(data', Replayed(file' \o buffer'), drifted')
  <2>1. AgreeBut(data, Replayed(file \o buffer), drifted)
    BY <1>1, <1>3 DEF DataInv, DescribedInv
  <2>2. file \o buffer \in Seq(Requests)
    BY DEF DataInv, AofInv, LogType
  <2>3. CASE IsLogged(words)
    <3>1. executed' = Append(executed, words)
      BY <2>3 DEF Command
    <3>2. file' \o buffer' = Append(file \o buffer, words)
      BY <1>1, <1>3, <3>1 DEF DataInv, AofInv, LogInv
    <3>3. Replayed(file' \o buffer') = RunRequest(Replayed(file \o buffer), words).data
      BY <2>2, <3>2, ReplayedFacts, Zenon
    <3> QED BY <1>1, <2>1, <2>3, <3>3, LoggedAgrees, Zenon
  <2>4. CASE ~IsLogged(words)
    <3>1. UNCHANGED <<file, buffer>>
      BY <2>4 DEF Command
    <3> QED BY <1>1, <2>1, <2>4, <3>1, UnloggedAgrees, Zenon
  <2> QED BY <2>3, <2>4
<1>4. DescribedInv'
  BY <1>1, <1>3 DEF DescribedInv, HasSnapshot
<1> QED BY <1>2, <1>4 DEF DataInv

\* One record is replayed.
LEMMA ReplayDescribes ==
    ASSUME DataInv, ReplayRecord
    PROVE  StartInv' /\ DescribedInv'
<1>1. /\ phase = "replay" /\ replayed < Len(file) /\ replayed' = replayed + 1
      /\ UNCHANGED <<dir, file, phase, buffer>>
      /\ data' = RunRequest(data, file[replayed + 1]).data
  BY DEF ReplayRecord, ExecuteFor, disk
<1>2. /\ file \in Seq(Requests) /\ replayed \in 0..Len(file)
      /\ data = Replayed(SubSeq(file, 1, replayed))
  BY <1>1 DEF DataInv, AofInv, LogType, StartInv
<1>3. /\ SubSeq(file, 1, replayed) \in Seq(Requests) /\ file[replayed + 1] \in Requests
      /\ replayed' \in 0..Len(file)
      /\ SubSeq(file, 1, replayed') = Append(SubSeq(file, 1, replayed), file[replayed + 1])
  BY <1>1, <1>2
<1>4. data' = Replayed(SubSeq(file', 1, replayed'))
  BY <1>1, <1>2, <1>3, ReplayedFacts, Zenon
<1>5. replayed' \in 0..Len(file')
  BY <1>1, <1>3
<1> QED BY <1>1, <1>4, <1>5 DEF DataInv, StartInv, DescribedInv

\* The steps of the start.
LEMMA StartDescribes ==
    ASSUME DataInv, Start \/ CreateDirs \/ OpenLog \/ TruncateManifest \/ WriteManifest \/ ReplayEnds
    PROVE  StartInv' /\ DescribedInv'
<1>1. file \in Seq(Requests) /\ SubSeq(file, 1, 0) = <<>> /\ SubSeq(file, 1, Len(file)) = file
      /\ 0 \in 0..Len(file)
  BY DEF DataInv, AofInv, LogType
<1>2. Replayed(<<>>) = EmptyMap
  BY ReplayedFacts
<1>3. CASE Start
  <2>1. /\ phase = "down" /\ replayed' = 0 /\ UNCHANGED <<dir, file, writer, buffer, data>>
        /\ phase' \in {"dirs", "replay", "rdb"}
        /\ phase' = "dirs" => ~dir
        /\ phase' # "dirs" => dir
    BY <1>3 DEF Start, Goes, disk
  <2>2. data = EmptyMap /\ buffer = <<>> /\ ~writer /\ (~dir => file = <<>>)
    BY <2>1 DEF DataInv, AofInv, LogInv, StartInv
  <2> QED BY <1>1, <1>2, <2>1, <2>2 DEF StartInv, DescribedInv
<1>4. CASE CreateDirs
  <2>1. /\ phase = "dirs" /\ phase' = "open" /\ dir' /\ UNCHANGED <<file, buffer, data>>
    BY <1>4 DEF CreateDirs, Goes
  <2> QED BY <1>2, <2>1 DEF DataInv, StartInv, DescribedInv
<1>5. CASE OpenLog \/ TruncateManifest \/ WriteManifest
  <2>1. /\ \/ phase = "open" /\ phase' = "truncate"
           \/ phase = "truncate" /\ phase' = "manifest"
           \/ phase = "manifest" /\ phase' = "rdb"
        /\ UNCHANGED <<dir, file, buffer, data>>
    BY <1>5 DEF OpenLog, TruncateManifest, WriteManifest, Goes, disk
  <2> QED BY <2>1 DEF DataInv, StartInv, DescribedInv
<1>6. CASE ReplayEnds
  <2>1. /\ phase = "replay" /\ phase' = "open" /\ replayed = Len(file)
        /\ UNCHANGED <<dir, file, buffer, data>>
    BY <1>6 DEF ReplayEnds, Goes, disk
  <2>2. data = Replayed(file)
    BY <1>1, <2>1 DEF DataInv, StartInv
  <2> QED BY <2>1, <2>2 DEF DataInv, StartInv, DescribedInv
<1> QED BY <1>3, <1>4, <1>5, <1>6

\* Every step keeps the invariant.
LEMMA DataStep ==
    ASSUME ~DiskFull, DataInv, [Next]_vars
    PROVE  DataInv'
<1>1. AofInv'
  BY AofStep DEF DataInv
<1>2. file \in Seq(Requests) /\ buffer \in Seq(Requests) /\ file \o <<>> = file
  BY DEF DataInv, AofInv, LogType
<1>3. CASE Start \/ CreateDirs \/ OpenLog \/ TruncateManifest \/ WriteManifest \/ ReplayEnds
  BY <1>1, <1>3, StartDescribes DEF DataInv
<1>4. CASE ReplayRecord
  BY <1>1, <1>4, ReplayDescribes DEF DataInv
<1>5. CASE \E client \in Clients, words \in Requests : Command(client, words)
  BY <1>1, <1>5, CommandDescribes
<1>6. CASE LoadRdb
  <2>1. /\ phase = "rdb" /\ phase' = "commands" /\ UNCHANGED <<dir, file, snapshot, writer, buffer>>
        /\ ~HasSnapshot => data' = data
    BY <1>6 DEF LoadRdb, Goes, disk, HasSnapshot
  <2>2. buffer = <<>> /\ dir /\ (writer => data = Replayed(file))
    BY <2>1 DEF DataInv, StartInv
  <2>3. StartInv'
    BY <2>1, <2>2 DEF DataInv, StartInv
  <2>4. ASSUME writer, ~HasSnapshot
        PROVE  AgreeBut(data', Replayed(file' \o buffer'), drifted')
    <3>1. data' = Replayed(file' \o buffer')
      BY <1>2, <2>1, <2>2, <2>4
    <3> QED BY <3>1, SameAtFacts, Zenon DEF AgreeBut
  <2>5. DescribedInv'
    BY <2>1, <2>4 DEF DescribedInv, HasSnapshot
  <2> QED BY <1>1, <2>3, <2>5 DEF DataInv
<1>7. CASE ServeBacklogList
  <2>1. /\ phase = "commands" /\ phase' = "flush" /\ UNCHANGED <<dir, file, snapshot, writer, buffer>>
    BY <1>7 DEF ServeBacklogList, Goes, disk
  <2>2. StartInv'
    BY <2>1 DEF DataInv, StartInv
  <2>3. ASSUME writer, ~HasSnapshot
        PROVE  AgreeBut(data', Replayed(file' \o buffer'), drifted')
    <3>1. AgreeBut(data, Replayed(file \o buffer), drifted)
      BY <2>1, <2>3 DEF DataInv, DescribedInv
    <3> QED BY <1>7, <2>1, <3>1, ServedAgrees, Zenon
  <2>4. DescribedInv'
    BY <2>1, <2>3 DEF DescribedInv, HasSnapshot
  <2> QED BY <1>1, <2>2, <2>4 DEF DataInv
<1>8. CASE AofFlush
  <2>1. /\ phase = "flush" /\ phase' = "commands" /\ file' = file \o buffer /\ buffer' = <<>>
        /\ UNCHANGED <<dir, snapshot, writer, data, drifted>>
    BY <1>8 DEF AofFlush, Goes, Written
  <2>2. dir /\ file' \o buffer' = file \o buffer
    BY <1>2, <2>1 DEF DataInv, StartInv
  <2>3. StartInv'
    BY <2>1, <2>2 DEF StartInv
  <2>4. DescribedInv'
    BY <2>1, <2>2 DEF DataInv, DescribedInv, HasSnapshot
  <2> QED BY <1>1, <2>3, <2>4 DEF DataInv
<1>9. CASE Crash
  <2>1. phase' = "down" /\ data' = EmptyMap /\ buffer' = <<>> /\ UNCHANGED <<dir, file>>
    BY <1>9 DEF Crash, disk
  <2> QED BY <1>1, <2>1 DEF DataInv, StartInv, DescribedInv
<1>10. CASE UNCHANGED vars
  <2>1. UNCHANGED <<dir, file, snapshot, phase, replayed, writer, buffer, data, drifted>>
    BY <1>10 DEF vars, disk, history
  <2> QED BY <1>1, <2>1 DEF DataInv, StartInv, DescribedInv, HasSnapshot
<1> QED BY <1>3, <1>4, <1>5, <1>6, <1>7, <1>8, <1>9, <1>10 DEF Next

\* As long as writes to the disk succeed, what the server holds while commands run is
\* what a replay of its log would give, at every key but those an unlogged pop of
\* serve_backlog_list or a refused SETBIT changed or BITOP made of them: through any
\* commands, any number of crashes and restarts, and any capacity of the buffer.
THEOREM LogDescribes == ~DiskFull => (Spec => []LogDescribesData)
<1> SUFFICES ASSUME ~DiskFull PROVE Spec => []LogDescribesData
  OBVIOUS
<1>1. Init => DataInv
  <2> SUFFICES ASSUME Init PROVE DataInv
    OBVIOUS
  <2>1. /\ dir = FALSE /\ file = <<>> /\ buffer = <<>> /\ writer = FALSE /\ confirmed = 0
        /\ phase = "down" /\ data = EmptyMap /\ <<>> \in Seq(Requests) /\ Len(<<>>) = 0
    BY DEF Init
  <2>2. writer \in BOOLEAN /\ ~writer
    BY <2>1
  <2>3. AofInv
    BY <2>1, <2>2 DEF AofInv, LogType, LogInv
  <2> QED BY <2>1, <2>2, <2>3 DEF DataInv, StartInv, DescribedInv
<1>2. DataInv /\ [Next]_vars => DataInv'
  BY DataStep
<1>3. DataInv => LogDescribesData
  BY DEF DataInv, DescribedInv, AgreeBut, LogDescribesData
<1> QED BY <1>1, <1>2, <1>3, PTL DEF Spec

=============================================================================
