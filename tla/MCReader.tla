------------------------------- MODULE MCReader -------------------------------
(***************************************************************************)
(* ClientReader for TLC: pipelined commands, values that look like protocol *)
(* bytes, a nested array, the answers and the RDB of a master, and a command *)
(* of each shape the builder distinguishes.                                 *)
(***************************************************************************)
EXTENDS ClientReader

MCNumbers == {-1, 0, 1}

PING == Request(<<<<"PING">>>>)

Pipelined ==
    {<<Request(<<<<"SET">>, <<"k">>, <<"*", "1", CR>>>>), Request(<<<<"get">>, <<"k">>>>)>>,
     <<PING, Request(<<<<"ECHO">>, <<>>>>), Request(<<<<"NOPE">>>>)>>,
     <<Array(<<BulkStr(<<"GET">>), Array(<<BulkStr(<<"k">>), BulkStr(<<"v">>)>>)>>), PING>>}

\* What a replica reads from its master.
FromMaster ==
    {<<SimpleStr(<<"PONG">>), SimpleStr(<<"OK">>), SimpleStr(<<"FULLRESYNC", "id", "0">>),
       RDB(<<"$", Binary, CR, LF>>), PING>>}

Malformed ==
    {<<PING, m, PING>> : m \in {Integer(<<"1">>), ErrorStr(<<"e">>), Array(<<>>), NullArray,
                               SimpleStr(<<Binary>>), Request(<<<<"ECHO">>, <<Binary>>>>)}}

\* The arguments of the commands, some of them too few or of the wrong kind.
Arguments ==
    {<<>>, <<<<"k">>>>, <<<<"k">>, <<"1">>>>, <<<<"k">>, <<"-1">>, <<"0">>>>,
     <<<<"STREAMS">>, <<"k">>, <<"1", "-", "0">>>>}

BuilderNames ==
    DOMAIN Signature \cup {"RPUSH", "LPUSH", "SUBSCRIBE", "WATCH", "GEOPOS", "XADD", "XRANGE",
                           "REPLCONF", "CONFIG", "ACL", "BITOP", "SET", "LPOP", "BLPOP",
                           "XREAD", "BITCOUNT"}

OfEachShape ==
    {<<Request(<<<<name>>>> \o args)>> : name \in BuilderNames, args \in Arguments}
        \cup {<<Request(<<<<"GEODIST">>, <<"k">>, <<"a">>, <<"b">>>>)>>}

\* GEODIST with fewer than two members, which its builder cannot take.
GeodistShapes == {<<Request(<<<<"GEODIST">>>> \o args)>> : args \in Arguments}

Messages == Pipelined \cup FromMaster \cup Malformed \cup OfEachShape
=============================================================================
