----------------------------- MODULE DataCommands -----------------------------
(***************************************************************************)
(* The commands of cmd_handler.rs that read and write one key: strings with *)
(* an expiry, lists and bitmaps.  A cmd_ operator takes the key space d, a  *)
(* map of keys to items, perhaps the time t in milliseconds, and the        *)
(* arguments the builder popped; it gives the key space after it and the    *)
(* reply.  Streams, sorted sets and what blocks are in other modules.       *)
(***************************************************************************)
EXTENDS CmdBuilder, HashMaps

CONSTANTS BitsOfByte,  \* the bits of the bytes that strings are made of
          I64_MAX

ASSUME DataCommandsAssumption == I64_MAX \in Nat

None == -1

StoreItem(type, value, expired_at) == [type |-> type, value |-> value, expired_at |-> expired_at]

Int64(n) == Integer(WordOf(n))

\* CustomError::into_resp: some errors have no text and look like a null string.
into_resp(kind) == IF kind \in {"OutOfIndex", "Dummy"} THEN NullBulkStr ELSE ErrorStr(<<kind>>)

\* The Result of a command with the key space it leaves: Ok and Err.
Outcome(d, reply) == [data |-> d, ok |-> TRUE, reply |-> reply]

Refuse(d, kind) == [data |-> d, ok |-> FALSE, reply |-> into_resp(kind)]

Ok == SimpleStr(<<"OK">>)

Has(d, key, type) == key \in DOMAIN d /\ d[key].type = type

-----------------------------------------------------------------------------
(***************************************************************************)
(* Strings.                                                                 *)
(***************************************************************************)
Option(args) == IF Len(args) = 4 THEN args[3][1] ELSE "none"

\* extract_deadline: the seconds of EX are added to a clock in seconds, and the sum
\* is compared with one in milliseconds.
extract_deadline(t, args) ==
    CASE Option(args) = "EX" -> t \div 1000 + NumberOf[args[4]]
      [] Option(args) = "PX" -> t + NumberOf[args[4]]
      [] OTHER -> None

cmd_set(d, t, args) ==
    Outcome(Put(d, args[1], StoreItem("string", args[2], extract_deadline(t, args))), Ok)

\* Fault to detect: the last millisecond is lost.
ExpiredEarly(item, t) == item.expired_at # None /\ t >= item.expired_at

Expired(item, t) == item.expired_at # None /\ t > item.expired_at

\* GET of a bitmap gives its bytes, whatever they are as text.
cmd_get(d, t, key) ==
    CASE key \notin DOMAIN d -> Outcome(d, NullBulkStr)
      [] Has(d, key, "string") ->
            Outcome(d, IF Expired(d[key], t) THEN NullBulkStr ELSE BulkStr(d[key].value))
      [] Has(d, key, "bitmap") -> Outcome(d, Resp("Bytes", 0, TRUE, d[key].value))
      [] OTHER -> Refuse(d, "UnsupportedCmd")

\* Fault to detect: the sum is stored before it is checked.
IncrThenCheck(d, key) ==
    IF ~Has(d, key, "string") THEN Refuse(d, "UnprocessableError")
    ELSE IF ~Parses(d[key].value, "i64") THEN Refuse(d, "UnprocessableError")
    ELSE LET i == NumberOf[d[key].value]
             stored == Put(d, key, [d[key] EXCEPT !.value = WordOf(i + 1)])
         IN IF i < I64_MAX THEN Outcome(stored, Int64(i + 1)) ELSE Refuse(stored, "UnprocessableError")

\* INCR takes no notice of an expiry and keeps it.
cmd_incr(d, key) ==
    LET item == IF key \in DOMAIN d THEN d[key] ELSE StoreItem("string", WordOf(0), None)
    IN IF item.type # "string" \/ ~Parses(item.value, "i64")
       THEN Refuse(d, "UnprocessableError")
       ELSE LET i == NumberOf[item.value]
            IN IF i < I64_MAX
               THEN Outcome(Put(d, key, [item EXCEPT !.value = WordOf(i + 1)]), Int64(i + 1))
               ELSE Refuse(d, "UnprocessableError")

-----------------------------------------------------------------------------
(***************************************************************************)
(* Lists.                                                                   *)
(***************************************************************************)
\* RPUSH and LPUSH make the list first, also for no values.
Pushed(d, key, WithValues(_)) ==
    LET item == IF key \in DOMAIN d THEN d[key] ELSE StoreItem("list", <<>>, None)
        list == WithValues(item.value)
    IN IF item.type # "list" THEN Refuse(d, "UnsupportedCmd")
       ELSE Outcome(Put(d, key, [item EXCEPT !.value = list]), Int64(Len(list)))

cmd_rpush(d, key, values) == Pushed(d, key, LAMBDA list : list \o values)

cmd_lpush(d, key, values) == Pushed(d, key, LAMBDA list : Reverse(values) \o list)

cmd_llen(d, key) ==
    CASE key \notin DOMAIN d -> Outcome(d, Int64(0))
      [] Has(d, key, "list") -> Outcome(d, Int64(Len(d[key].value)))
      [] OTHER -> Refuse(d, "UnsupportedCmd")

Smaller(m, n) == IF m < n THEN m ELSE n
Larger(m, n) == IF m < n THEN n ELSE m

\* LPOP with a length that takes nothing answers a null array.  The emptied list
\* stays.
cmd_lpop(d, args) ==
    LET key == args[1]
        list == d[key].value
        n == Smaller(IF Len(args) = 1 THEN 1 ELSE NumberOf[args[2]], Len(list))
        popped == Put(d, key, [d[key] EXCEPT !.value = SubSeq(list, n + 1, Len(list))])
    IN IF key \notin DOMAIN d THEN Outcome(d, NullBulkStr)
       ELSE IF ~Has(d, key, "list") THEN Refuse(d, "UnsupportedCmd")
       ELSE Outcome(popped,
                    IF Len(args) = 1
                    THEN IF n = 0 THEN NullBulkStr ELSE BulkStr(Head(list))
                    ELSE IF n = 0 THEN NullArray ELSE Request(SubSeq(list, 1, n)))

\* Fault to detect: -1 is the item before the last.
RangeEndBefore(i, len) == Smaller(IF i < 0 THEN Larger(len + i - 1, 0) ELSE i, len - 1)

\* The index of an end of the range, at most that of the last item.
RangeEnd(i, len) == Smaller(IF i < 0 THEN Larger(len + i, 0) ELSE i, len - 1)

\* The length of the list less one, compared with the start, is unsigned: it wraps
\* for an empty list, which then answers an array of one item without the item.
cmd_lrange(d, key, start, stop) ==
    LET list == d[key].value
        len == Len(list)
        min_index == RangeEnd(start, len)
        max_index == RangeEnd(stop, len)
        output_len == IF max_index < min_index THEN 0 ELSE max_index - min_index + 1
        nothing == \/ start > stop /\ start > 0 /\ stop > 0
                   \/ start >= 0 /\ len > 0 /\ start > len - 1
    IN IF key \notin DOMAIN d THEN Outcome(d, Array(<<>>))
       ELSE IF ~Has(d, key, "list") THEN Refuse(d, "UnsupportedCmd")
       ELSE IF nothing THEN Outcome(d, Array(<<>>))
       ELSE Outcome(d, [Request(IF len = 0 THEN <<>> ELSE SubSeq(list, min_index + 1, max_index + 1))
                            EXCEPT !.length = output_len])

-----------------------------------------------------------------------------
(***************************************************************************)
(* Bitmaps: a byte is the set of its bits that are one, bit 7 the highest.  *)
(***************************************************************************)
BitOf(offset) == 7 - (offset % 8)

BlockOf(offset) == offset \div 8 + 1

\* BitOps::get, with unwrap_or(0).
BitAt(map, offset) ==
    IF BlockOf(offset) <= Len(map) /\ BitOf(offset) \in map[BlockOf(offset)] THEN 1 ELSE 0

BitsSet(map, offset, bit) ==
    [map EXCEPT ![BlockOf(offset)] = IF bit = 1 THEN @ \cup {BitOf(offset)} ELSE @ \ {BitOf(offset)}]

Zeros(n) == [i \in 1..n |-> {}]

\* Fault to detect: the byte of the offset itself is not counted.
ShortOf(offset) == (offset + 7) \div 8

\* (offset + 1).div_ceil(8), the bytes that hold an offset.
Blocks(offset) == (offset + 8) \div 8

\* Bitmap::extend.
Extended(map, offset) == map \o Zeros(Larger(Blocks(offset) - Len(map), 0))

\* SETBIT makes the bitmap before it looks at the bit, and extends one only when the
\* bit is to change.
cmd_setbit(d, key, offset, bit) ==
    LET item == IF key \in DOMAIN d THEN d[key] ELSE StoreItem("bitmap", Zeros(Blocks(offset)), None)
        created == Put(d, key, item)
        old_bit == BitAt(item.value, offset)
        map == Extended(item.value, offset)
    IN CASE item.type # "bitmap" -> Refuse(d, "Dummy")
         [] item.type = "bitmap" /\ old_bit = bit -> Outcome(created, Int64(old_bit))
         [] item.type = "bitmap" /\ old_bit # bit ->
              IF bit \notin {0, 1} THEN Refuse(created, "ParseError")
              ELSE IF BlockOf(offset) > Len(map) THEN Refuse(Put(d, key, [item EXCEPT !.value = map]), "OutOfIndex")
              ELSE Outcome(Put(d, key, [item EXCEPT !.value = BitsSet(map, offset, bit)]), Int64(old_bit))

\* What GETBIT, BITCOUNT and BITOP read: a bitmap or the bytes of a string.
HasBits(d, key) == Has(d, key, "bitmap") \/ Has(d, key, "string")

MapOf(d, key) ==
    IF Has(d, key, "bitmap") THEN d[key].value
    ELSE [i \in DOMAIN d[key].value |-> {b \in 0..7 : b \in BitsOfByte[d[key].value[i]]}]

ReadBits(d, key, Reply(_)) ==
    CASE key \notin DOMAIN d -> Outcome(d, Int64(0))
      [] HasBits(d, key) -> Outcome(d, Int64(Reply(MapOf(d, key))))
      [] OTHER -> Refuse(d, "UnprocessableError")

cmd_getbit(d, key, offset) == ReadBits(d, key, LAMBDA map : BitAt(map, offset))

\* STRLEN is for bitmaps only.
cmd_strlen(d, key) ==
    IF Has(d, key, "string") THEN Refuse(d, "UnprocessableError")
    ELSE ReadBits(d, key, LAMBDA map : Len(map))

\* The bits that are one in the bytes from first to last.
Ones(map, first, last) == {p \in (first..last) \X (0..7) : p[2] \in map[p[1]]}

CountOnes(map, first, last) == Cardinality(Ones(map, first, last))

bit_count(map, start, end, unit) ==
    LET len == IF unit = "BYTE" THEN Len(map) ELSE 8 * Len(map)
        From(i) == IF i < 0 THEN Larger(len + i, 0) ELSE i
        first == From(start)
        last == Smaller(From(end), len - 1)
    IN IF len = 0 \/ first > last THEN 0
       ELSE IF unit = "BYTE" THEN CountOnes(map, first + 1, last + 1)
       ELSE Cardinality({i \in first..last : BitAt(map, i) > 0})

cmd_bitcount(d, args) ==
    ReadBits(d, args[1], LAMBDA map :
        IF Len(args) = 1 THEN CountOnes(map, 1, Len(map))
        ELSE bit_count(map, NumberOf[args[2]], NumberOf[args[3]], args[4][1]))

\* Fault to detect: the shorter map is padded with ones.
ByteOrOnes(map, i) == IF i <= Len(map) THEN map[i] ELSE 0..7

ByteAt(map, i) == IF i <= Len(map) THEN map[i] ELSE {}

\* BitOps::combine: the shorter map is padded with zeros.
combine(map1, map2, Op(_, _)) ==
    [i \in 1..Larger(Len(map1), Len(map2)) |-> Op(ByteAt(map1, i), ByteAt(map2, i))]

\* BITOP: the builder lets any name of CmdArg through; an empty result removes the
\* destination.
cmd_bitop(d, op, dest, key1, key2) ==
    LET Source(key) == IF key \in DOMAIN d THEN MapOf(d, key) ELSE <<>>
        output == IF op = "AND" THEN combine(Source(key1), Source(key2), LAMBDA a, b : a \cap b)
                  ELSE combine(Source(key1), Source(key2), LAMBDA a, b : a \cup b)
    IN IF op \notin {"AND", "OR"} THEN Refuse(d, "InvalidArgument")
       ELSE IF \E key \in {key1, key2} \cap DOMAIN d : ~HasBits(d, key)
       THEN Refuse(d, "UnprocessableError")
       ELSE Outcome(IF output = <<>> THEN Without(d, dest)
                    ELSE Put(d, dest, StoreItem("bitmap", output, None)),
                    Int64(Len(output)))

-----------------------------------------------------------------------------
cmd_type(d, key) ==
    Outcome(d, SimpleStr(<<IF key \in DOMAIN d THEN d[key].type ELSE "none">>))

\* KEYS * answers the keys in any order: here a set.  No key at all is a null array.
cmd_keys(d, arg) ==
    IF arg # <<"*">> THEN Refuse(d, "InvalidArgument")
    ELSE Outcome(d, Resp("Array", Cardinality(DOMAIN d), DOMAIN d # {}, DOMAIN d))

\* The commands of this module, by the word that names them in a request.
DataCommand ==
    {"SET", "GET", "INCR", "RPUSH", "LPUSH", "LLEN", "LPOP", "LRANGE", "SETBIT", "GETBIT",
     "STRLEN", "BITCOUNT", "BITOP", "TYPE", "KEYS"}

\* _execute_cmd, for what the builder made of a request.
Execute(d, t, cmd) ==
    LET args == cmd.args
        key == args[1]
        Arg(i) == NumberOf[args[i]]
    IN CASE cmd.name \in Errors -> Refuse(d, cmd.name)
         [] cmd.name = "SET" -> cmd_set(d, t, args)
         [] cmd.name = "GET" -> cmd_get(d, t, key)
         [] cmd.name = "INCR" -> cmd_incr(d, key)
         [] cmd.name = "RPUSH" -> cmd_rpush(d, key, Tail(args))
         [] cmd.name = "LPUSH" -> cmd_lpush(d, key, Tail(args))
         [] cmd.name = "LLEN" -> cmd_llen(d, key)
         [] cmd.name = "LPOP" -> cmd_lpop(d, args)
         [] cmd.name = "LRANGE" -> cmd_lrange(d, key, Arg(2), Arg(3))
         [] cmd.name = "SETBIT" -> cmd_setbit(d, key, Arg(2), Arg(3))
         [] cmd.name = "GETBIT" -> cmd_getbit(d, key, Arg(2))
         [] cmd.name = "STRLEN" -> cmd_strlen(d, key)
         [] cmd.name = "BITCOUNT" -> cmd_bitcount(d, args)
         [] cmd.name = "BITOP" -> cmd_bitop(d, args[1][1], args[2], args[3], args[4])
         [] cmd.name = "TYPE" -> cmd_type(d, key)
         [] cmd.name = "KEYS" -> cmd_keys(d, key)

Run(d, t, words) == Execute(d, t, from_resp(Request(words)))

=============================================================================
