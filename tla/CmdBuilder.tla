------------------------------ MODULE CmdBuilder ------------------------------
(***************************************************************************)
(* cmd_builder.rs: a message becomes a command or an error.  A command is   *)
(* its name and its arguments as words, in the order the builder pops them; *)
(* an error is its CustomError.  What most builders do, pop so many strings *)
(* and parse some of them as numbers, is a table of signatures here.        *)
(***************************************************************************)
EXTENDS Resp, TLC

CONSTANTS Numbers  \* the integers that words of the model are made of

ASSUME CmdBuilderAssumption == Numbers \subseteq Int

\* Words are sequences of bytes; a number is a word of one byte.
WordOf(n) == <<ToString(n)>>

NumberOf == [w \in {WordOf(n) : n \in Numbers} |-> CHOOSE n \in Numbers : WordOf(n) = w]

\* make_ascii_uppercase, for the words that occur in both cases.
UpperCase == [w \in {<<"get">>, <<"count">>, <<"or">>} |->
                CASE w = <<"get">> -> <<"GET">>
                  [] w = <<"count">> -> <<"COUNT">>
                  [] w = <<"or">> -> <<"OR">>]

Upper(w) == IF w \in DOMAIN UpperCase THEN UpperCase[w] ELSE w

\* parse::<T>(): which words are numbers of a type.
Parses(w, kind) ==
    CASE kind = "str" -> TRUE
      [] kind = "i64" -> w \in DOMAIN NumberOf
      [] kind = "u64" -> w \in DOMAIN NumberOf /\ NumberOf[w] >= 0
      [] kind = "f64" -> w \in DOMAIN NumberOf \cup {<<"0.5">>}

Built(name, args) == [name |-> name, args |-> args]

Error(kind) == [name |-> kind, args |-> <<>>]

Errors == {"MissingArgument", "ParseError", "InvalidArgument", "NoCmdError",
           "UnsupportedCmdStructure", "UnsupportedCmd", "Dummy"}

\* A builder that panics takes the process with it.
Panic == Error("panic")

-----------------------------------------------------------------------------
\* get_str, and the words of the items that have one.
IsStr(t) == t.type \in {"BulkStr", "SimpleStr"}

Words(items) == [i \in DOMAIN items |-> items[i].value]

\* The first argument that resp_arg or parse refuses, and its error.
Refused(items, kinds) ==
    {i \in DOMAIN kinds : \/ i > Len(items)
                          \/ ~IsStr(items[i])
                          \/ ~Parses(items[i].value, kinds[i])}

RefusedWith(items, kinds) ==
    LET i == Min(Refused(items, kinds))
    IN Error(IF i > Len(items) THEN "MissingArgument"
             ELSE IF ~IsStr(items[i]) THEN "MissingArgument" ELSE "ParseError")

\* Pop the arguments of a signature and go on with the rest.
WithArgs(items, kinds, Then(_, _)) ==
    IF Refused(items, kinds) # {} THEN RefusedWith(items, kinds)
    ELSE LET n == Len(kinds)
         IN Then(Words(SubSeq(items, 1, n)), SubSeq(items, n + 1, Len(items)))

\* The builders that only pop arguments; any further one is ignored.
StringSignature ==
    [PING |-> <<>>, ECHO |-> <<"str">>, GET |-> <<"str">>, LRANGE |-> <<"str", "i64", "i64">>,
     LLEN |-> <<"str">>, TYPE |-> <<"str">>]

SessionSignature ==
    [INCR |-> <<"str">>, MULTI |-> <<>>, EXEC |-> <<>>, DISCARD |-> <<>>, UNWATCH |-> <<>>,
     INFO |-> <<"str">>, PSYNC |-> <<"str", "i64">>, WAIT |-> <<"u64", "u64">>, KEYS |-> <<"str">>,
     UNSUBSCRIBE |-> <<"str">>, PSUBSCRIBE |-> <<>>, PUNSUBSCRIBE |-> <<>>, QUIT |-> <<>>,
     PUBLISH |-> <<"str", "str">>]

SortedSetSignature ==
    [ZADD |-> <<"str", "f64", "str">>, ZRANK |-> <<"str", "str">>,
     ZRANGE |-> <<"str", "i64", "i64">>, ZCARD |-> <<"str">>, ZSCORE |-> <<"str", "str">>,
     ZREM |-> <<"str", "str">>, GEOADD |-> <<"str", "f64", "f64", "str">>,
     GEOSEARCH |-> <<"str", "str", "f64", "f64", "str", "f64", "str">>]

BitSignature ==
    [AUTH |-> <<"str", "str">>, SETBIT |-> <<"str", "u64", "u64">>,
     GETBIT |-> <<"str", "u64">>, STRLEN |-> <<"str">>]

Signature ==
    [name \in UNION {DOMAIN StringSignature, DOMAIN SessionSignature, DOMAIN SortedSetSignature,
                     DOMAIN BitSignature} |->
        IF name \in DOMAIN StringSignature THEN StringSignature[name]
        ELSE IF name \in DOMAIN SessionSignature THEN SessionSignature[name]
        ELSE IF name \in DOMAIN SortedSetSignature THEN SortedSetSignature[name]
        ELSE BitSignature[name]]

\* RPUSH, LPUSH, ACL and the values of XADD: every argument left must be a string.
AllOf(rest, Then(_)) ==
    IF \A i \in DOMAIN rest : IsStr(rest[i]) THEN Then(Words(rest)) ELSE Error("MissingArgument")

\* WATCH, SUBSCRIBE and GEOPOS stop at the first that is not, without an error.
UpToBad(rest) ==
    LET bad == {i \in DOMAIN rest : ~IsStr(rest[i])}
    IN Words(IF bad = {} THEN rest ELSE SubSeq(rest, 1, Min(bad) - 1))

-----------------------------------------------------------------------------
(***************************************************************************)
(* CmdArg::set, for SET, REPLCONF, CONFIG, ACL and BITOP.                   *)
(***************************************************************************)
ArgSignature ==
    [EX |-> <<"u64">>, PX |-> <<"u64">>, listening |-> <<"u64">>, capa |-> <<"str">>,
     GETACK |-> <<"str">>, ACK |-> <<"i64">>, GET |-> <<"str">>, WHOAMI |-> <<>>,
     GETUSER |-> <<"str">>, SETUSER |-> <<"str">>,
     AND |-> <<"str", "str", "str">>, OR |-> <<"str", "str", "str">>]

\* AclRules::set: a password or nopass.
AclRule(w) == w = <<"nopass">> \/ (w # <<>> /\ w[1] = ">")

CmdArg(name, before, key, values) ==
    IF Len(key) # 1 \/ key[1] \notin DOMAIN ArgSignature THEN Error("InvalidArgument")
    ELSE LET kinds == ArgSignature[key[1]]
             n == Len(kinds)
             Short == IF key[1] \in {"SETUSER", "AND", "OR"} THEN "MissingArgument" ELSE "Dummy"
         IN IF Len(values) < n THEN Error(Short)
            ELSE IF \E i \in 1..n : ~Parses(values[i], kinds[i]) THEN Error("ParseError")
            ELSE IF key[1] # "SETUSER"
            THEN Built(name, before \o <<key>> \o SubSeq(values, 1, n))
            ELSE IF Len(values) = 1 THEN Error("MissingArgument")
            ELSE IF ~AclRule(values[2]) THEN Error("UnsupportedCmd")
            ELSE Built(name, <<key>> \o SubSeq(values, 1, 2))

-----------------------------------------------------------------------------
(***************************************************************************)
(* Stream ids: a time, a dash and a sequence number.                        *)
(***************************************************************************)
Dashes(w) == {i \in DOMAIN w : w[i] = "-"}

BeforeDash(w) == SubSeq(w, 1, Min(Dashes(w)) - 1)
AfterDash(w) == SubSeq(w, Min(Dashes(w)) + 1, Len(w))

\* _parse_stream_id_xadd, _parse_stream_id_xrange and _parse_stream_id_xread: the
\* error of an id, "" for none.
XaddIdError(w) ==
    IF w = <<"*">> THEN ""
    ELSE IF Cardinality(Dashes(w)) # 1 THEN "InvalidArgument"
    ELSE IF /\ Parses(BeforeDash(w), "u64")
            /\ AfterDash(w) = <<"*">> \/ Parses(AfterDash(w), "u64")
         THEN "" ELSE "ParseError"

IdError(w, special) ==
    IF w \in special THEN ""
    ELSE IF Cardinality(Dashes(w)) > 1 THEN "InvalidArgument"
    ELSE IF (IF Dashes(w) = {} THEN Parses(w, "u64")
             ELSE Parses(BeforeDash(w), "u64") /\ Parses(AfterDash(w), "u64"))
         THEN "" ELSE "ParseError"

FirstError(errors) ==
    LET bad == {i \in DOMAIN errors : errors[i] # ""}
    IN IF bad = {} THEN "" ELSE errors[Min(bad)]

Checked(error, cmd) == IF error = "" THEN cmd ELSE Error(error)

\* XREAD: COUNT and BLOCK, each at most once and in either order, then STREAMS
\* and as many ids as keys.
xread(items) ==
    LET Opt(i) == Upper(items[2 * i + 1].value)
        Has(i) == 2 * i + 1 <= Len(items) /\ IsStr(items[2 * i + 1])
        IsOption(i) == Has(i) /\ Opt(i) \in {<<"COUNT">>, <<"BLOCK">>}
        Again(i) == \E j \in 0..i - 1 : Opt(j) = Opt(i)
        Number(i) == SubSeq(items, 2 * i + 2, 2 * i + 2)
        Fine(i) == IsOption(i) /\ ~Again(i) /\ Refused(Number(i), <<"u64">>) = {}
        n == Min({i \in 0..2 : ~Fine(i)})
        pairs == SubSeq(items, 2 * n + 2, Len(items))
        half == Len(pairs) \div 2
    IN IF ~Has(n) THEN Error("MissingArgument")
       ELSE IF IsOption(n)
       THEN IF Again(n) THEN Error("UnsupportedCmdStructure") ELSE RefusedWith(Number(n), <<"u64">>)
       ELSE IF Opt(n) # <<"STREAMS">> \/ Len(pairs) % 2 = 1 THEN Error("UnsupportedCmdStructure")
       ELSE AllOf(SubSeq(pairs, 1, half), LAMBDA keys :
                Checked(FirstError([i \in 1..half |->
                            IF IsStr(pairs[half + i]) THEN IdError(pairs[half + i].value, {<<"$">>})
                            ELSE "MissingArgument"]),
                        Built("XREAD", Words(items))))

-----------------------------------------------------------------------------
\* SET: a key, a value and at most one option of CmdArg.
set(items) ==
    WithArgs(items, <<"str", "str">>, LAMBDA args, rest :
        IF rest = <<>> THEN Built("SET", args)
        ELSE WithArgs(rest, <<"str", "str">>, LAMBDA opt, ignored :
                CmdArg("SET", args, opt[1], <<opt[2]>>)))

\* LPOP: a key and perhaps a length.
lpop(items) ==
    WithArgs(items, IF Len(items) < 2 THEN <<"str">> ELSE <<"str", "u64">>,
             LAMBDA args, rest : Built("LPOP", args))

\* BLPOP: a negative timeout is refused.
blpop(items) ==
    WithArgs(items, <<"str", "f64">>, LAMBDA args, rest :
        IF args[2] \in DOMAIN NumberOf /\ NumberOf[args[2]] < 0 THEN Error("InvalidArgument")
        ELSE Built("BLPOP", args))

\* BITCOUNT: a key, perhaps a start and an end, perhaps their unit, nothing else.
bitcount(items) ==
    IF Len(items) <= 1 THEN WithArgs(items, <<"str">>, LAMBDA args, rest : Built("BITCOUNT", args))
    ELSE WithArgs(items, <<"str", "i64", "i64">>, LAMBDA args, rest :
            IF rest = <<>> THEN Built("BITCOUNT", args \o <<<<"BYTE">>>>)
            ELSE IF Len(rest) = 1 /\ IsStr(rest[1]) /\ Upper(rest[1].value) \in {<<"BYTE">>, <<"BIT">>}
            THEN Built("BITCOUNT", args \o <<Upper(rest[1].value)>>)
            ELSE Error("InvalidArgument"))

\* GEODIST drains two members, however many there are.
geodist(items) ==
    WithArgs(items, <<"str">>, LAMBDA args, rest :
        IF Len(rest) < 2 THEN Panic ELSE Built("GEODIST", args \o UpToBad(SubSeq(rest, 1, 2))))

\* The array form of a command: its name and the items after it.
FromArray(name, items) ==
    CASE name \in DOMAIN Signature ->
            WithArgs(items, Signature[name], LAMBDA args, rest : Built(name, args))
      [] name \in {"RPUSH", "LPUSH"} ->
            WithArgs(items, <<"str">>, LAMBDA args, rest :
                AllOf(rest, LAMBDA values : Built(name, args \o values)))
      [] name \in {"SUBSCRIBE", "WATCH"} ->
            IF name = "WATCH" /\ UpToBad(items) = <<>> THEN Error("MissingArgument")
            ELSE Built(name, UpToBad(items))
      [] name = "GEOPOS" ->
            WithArgs(items, <<"str">>, LAMBDA args, rest : Built(name, args \o UpToBad(rest)))
      [] name = "XADD" ->
            WithArgs(items, <<"str", "str">>, LAMBDA args, rest :
                Checked(XaddIdError(args[2]), AllOf(rest, LAMBDA values : Built(name, args \o values))))
      [] name = "XRANGE" ->
            WithArgs(items, <<"str", "str", "str">>, LAMBDA args, rest :
                Checked(FirstError([i \in 1..2 |-> IdError(args[i + 1], {<<"-">>, <<"+">>})]),
                        Built(name, args)))
      [] name \in {"REPLCONF", "CONFIG"} ->
            WithArgs(items, <<"str", "str">>, LAMBDA args, rest :
                CmdArg(name, <<>>, args[1], <<args[2]>>))
      [] name = "ACL" ->
            WithArgs(items, <<"str">>, LAMBDA args, rest :
                AllOf(rest, LAMBDA values : CmdArg(name, <<>>, args[1], values)))
      [] name = "BITOP" ->
            WithArgs(items, <<"str", "str", "str", "str">>, LAMBDA args, rest :
                CmdArg(name, <<>>, Upper(args[1]), Tail(args)))
      [] name = "SET" -> set(items)
      [] name = "LPOP" -> lpop(items)
      [] name = "BLPOP" -> blpop(items)
      [] name = "XREAD" -> xread(items)
      [] name = "BITCOUNT" -> bitcount(items)
      [] name = "GEODIST" -> geodist(items)
      [] OTHER -> Error("InvalidArgument")

\* A simple string is an answer of the master; one of less than ten bytes that is
\* neither PONG nor OK is cut past its end.
FromSimple(s) ==
    CASE s = <<"PONG">> -> Built("PONG", <<>>)
      [] s = <<"OK">> -> Built("OK", <<>>)
      [] s # <<>> /\ Head(s) = "FULLRESYNC" ->
            IF Len(s) < 3 THEN Error("MissingArgument")
            ELSE IF ~Parses(<<s[3]>>, "i64") THEN Error("ParseError")
            ELSE Built("FULLRESYNC", <<<<s[2]>>, <<s[3]>>>>)
      [] OTHER -> IF Len(s) < 10 THEN Panic ELSE Error("InvalidArgument")

from_resp(t) ==
    CASE t.type = "Array" ->
            IF t.length = 0 THEN Error("NoCmdError")
            ELSE IF Head(t.value).type # "BulkStr" THEN Error("InvalidArgument")
            ELSE IF Head(t.value).length = 0 THEN Error("NoCmdError")
            ELSE LET name == Upper(Head(t.value).value)
                 IN IF Len(name) # 1 THEN Error("InvalidArgument")
                    ELSE FromArray(name[1], Tail(t.value))
      [] t.type = "SimpleStr" -> FromSimple(t.value)
      [] t.type = "RDB" -> Built("RDB", <<>>)
      [] OTHER -> Error("UnsupportedCmdStructure")

-----------------------------------------------------------------------------
\* Fault to detect: a pop is not taken for a write.
BroadcastNoPop(name) == name \in {"SET", "LPUSH", "RPUSH", "INCR", "XADD", "SETBIT", "BITOP"}

\* The commands that are propagated and logged, and those that fill a list.
to_be_broadcast(name) ==
    name \in {"SET", "LPUSH", "RPUSH", "LPOP", "BLPOP", "INCR", "XADD", "SETBIT", "BITOP"}

is_flag_list(name) == name \in {"LPUSH", "RPUSH"}

=============================================================================
