------------------------------- MODULE Keyspace -------------------------------
(***************************************************************************)
(* The key space under the commands of DataCommands, one request after the  *)
(* other, while the clock runs.                                             *)
(***************************************************************************)
EXTENDS DataCommands

CONSTANTS Requests,    \* the commands clients send, as sequences of words
          Offsets,     \* the bits that the properties of bitmaps look at
          StartTime,   \* the clock in milliseconds when the server starts
          MaxTicks,    \* bound: milliseconds that pass
          MaxItems     \* bound: items of a list

ASSUME KeyspaceAssumption ==
    Offsets \subseteq Nat /\ StartTime \in Nat /\ MaxTicks \in Nat /\ MaxItems \in Nat

\* A request is made of words, and the first one names a command of DataCommands.
ASSUME RequestsAssumption ==
    \A words \in Requests :
        /\ words \in Seq(Seq(STRING)) /\ words # <<>>
        /\ Upper(words[1]) \in {<<name>> : name \in DataCommand}

\* No two numbers are written alike.
ASSUME WordOfAssumption ==
    \A m, n \in Numbers \cup {0, 1} : WordOf(m) = WordOf(n) => m = n

VARIABLES data,    \* key -> StoreItem
          now,
          promise  \* history: when the value SET left must be gone, by key

vars == <<data, now, promise>>

Init ==
    /\ data = EmptyMap
    /\ now = StartTime
    /\ promise = EmptyMap

\* When the value that SET leaves must be gone, by its option.
Promised(args) ==
    [option |-> Option(args),
     at |-> CASE Option(args) = "EX" -> now + 1000 * NumberOf[args[4]]
              [] Option(args) = "PX" -> now + NumberOf[args[4]]
              [] OTHER -> None]

IsBounded(d) == \A key \in DOMAIN d : Has(d, key, "list") => Len(d[key].value) <= MaxItems

\* A request is read and handled.
Handle(words) ==
    LET cmd == from_resp(Request(words))
        d == Run(data, now, words).data
    IN /\ IsBounded(d)
       /\ data' = d
       /\ promise' = IF cmd.name = "SET" THEN Put(promise, cmd.args[1], Promised(cmd.args))
                     ELSE Restrict(promise, DOMAIN promise \cap DOMAIN d)
       /\ UNCHANGED now

Tick ==
    /\ now < StartTime + MaxTicks
    /\ now' = now + 1
    /\ UNCHANGED <<data, promise>>

Next ==
    \/ \E words \in Requests : Handle(words)
    \/ Tick

Spec == Init /\ [][Next]_vars

-----------------------------------------------------------------------------
Keys == {words[2] : words \in {w \in Requests : Len(w) > 1 /\ w[1] \in {<<"SET">>, <<"RPUSH">>, <<"SETBIT">>}}}

\* A command that is answered with an error has changed nothing, whatever the key
\* held: only a SETBIT of neither 0 nor 1 leaves the bitmap it made.
RefusedChangesNothing ==
    \A words \in Requests :
        LET r == Run(data, now, words)
        IN ~r.ok /\ r.data # data
               => words[1] = <<"SETBIT">> /\ words[4] \notin {WordOf(0), WordOf(1)} /\ words[2] \notin DOMAIN data

\* The items of a list from one index to another, negative ones counted from its end.
Slice(list, start, stop) ==
    LET At(i) == IF i < 0 THEN Len(list) + i ELSE i
    IN SubSeq(list, Larger(At(start), 0) + 1, Smaller(At(stop), Len(list) - 1) + 1)

\* LRANGE answers the slice of the list as it is, with its length, for every pair of
\* ends on either side of both ends of the list: except for a list that was popped
\* empty, and for a stop before the first item.
RangeIsSlice ==
    \A key \in DOMAIN data, start, stop \in Numbers :
        LET list == data[key].value
        IN Has(data, key, "list") /\ list # <<>> /\ stop >= -Len(list)
               => cmd_lrange(data, key, start, stop).reply = Request(Slice(list, start, stop))

Bits(d, key) == IF key \in DOMAIN d THEN MapOf(d, key) ELSE <<>>

Readable(d, key) == key \in DOMAIN d => HasBits(d, key)

\* SETBIT succeeds on a bitmap or a new key at any offset, answers the old bit,
\* changes that bit only, and BITCOUNT follows it, in bits as in bytes.
BitsAreIndependent ==
    \A key \in Keys, at \in Offsets, bit \in {0, 1} :
        (key \in DOMAIN data => Has(data, key, "bitmap")) =>
            LET r == cmd_setbit(data, key, at, bit)
                before == Bits(data, key)
                after == Bits(r.data, key)
            IN /\ r.reply = Int64(BitAt(before, at))
               /\ Without(r.data, key) = Without(data, key)
               /\ \A o \in Offsets : BitAt(after, o) = IF o = at THEN bit ELSE BitAt(before, o)
               /\ CountOnes(after, 1, Len(after)) = CountOnes(before, 1, Len(before)) + bit - BitAt(before, at)
               /\ CountOnes(after, 1, Len(after)) = bit_count(after, 0, -1, "BIT")

\* BITOP combines two maps bit by bit, strings and missing keys too, and also when
\* the destination is one of them; nothing else changes.
BitopIsPointwise ==
    \A op \in {"AND", "OR"}, dest, key1, key2 \in Keys :
        Readable(data, key1) /\ Readable(data, key2) =>
            LET r == cmd_bitop(data, op, dest, key1, key2)
                result == Bits(r.data, dest)
                One(map, o) == BitAt(map, o) = 1
            IN /\ \A o \in Offsets :
                     One(result, o) <=> IF op = "AND" THEN One(Bits(data, key1), o) /\ One(Bits(data, key2), o)
                                        ELSE One(Bits(data, key1), o) \/ One(Bits(data, key2), o)
               /\ r.reply = Int64(Len(result)) /\ cmd_strlen(r.data, dest).reply = r.reply
               /\ Without(r.data, dest) = Without(data, dest)

\* GET answers the value of a key until its time and not after it.
GoneInTime(key) ==
    (cmd_get(data, now, key).reply = NullBulkStr) <=> (promise[key].at # None /\ now > promise[key].at)

\* What SET leaves, with PX or without an option, is there for its time and no
\* longer, also once INCR has changed it.
PxExpiresOnTime ==
    \A key \in DOMAIN promise :
        Has(data, key, "string") /\ promise[key].option # "EX" => GoneInTime(key)

\* CmdArg::EX, "expire in x seconds".
ExExpiresOnTime ==
    \A key \in DOMAIN promise :
        Has(data, key, "string") /\ promise[key].option = "EX" => GoneInTime(key)

\* An array reply holds as many items as it announces: the bytes after it are
\* those of the next reply.
RepliesAreFramed ==
    \A words \in Requests :
        LET reply == Run(data, now, words).reply
        IN reply.type = "Array" /\ words[1] # <<"KEYS">> => Len(reply.value) = reply.length

=============================================================================
