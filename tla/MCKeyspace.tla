------------------------------ MODULE MCKeyspace ------------------------------
(***************************************************************************)
(* Keyspace for TLC: two keys, strings that are numbers, letters or the     *)
(* largest number, lists, and bitmaps of up to two bytes.                   *)
(***************************************************************************)
EXTENDS Keyspace

k == <<"k">>
l == <<"l">>

MCNumbers == {-4, -3, -2, -1, 0, 1, 2, 3, 4, 7, 8, 15}

\* The bits of the characters in ASCII.
MCBits == [c \in {"a", "b", "0", "1", "2", "3"} |->
              CASE c = "a" -> {6, 5, 0}
                [] c = "b" -> {6, 5, 1}
                [] c = "0" -> {5, 4}
                [] c = "1" -> {5, 4, 0}
                [] c = "2" -> {5, 4, 1}
                [] c = "3" -> {5, 4, 1, 0}]

Strings ==
    {<<<<"SET">>, k, <<"1">>>>, <<<<"SET">>, l, <<"a">>>>, <<<<"INCR">>, k>>,
     <<<<"SET">>, k, <<"1">>, <<"PX">>, <<"1">>>>, <<<<"SET">>, l, <<"2">>, <<"EX">>, <<"1">>>>}

Lists ==
    {<<<<"RPUSH">>, k, <<"a">>, <<"b">>>>, <<<<"LPUSH">>, k, <<"b">>>>,
     <<<<"LPOP">>, k>>, <<<<"LPOP">>, k, <<"2">>>>, <<<<"RPUSH">>, l>>}

Bitmaps ==
    {<<<<"SETBIT">>, k, <<off>>, <<bit>>>> : off \in {"0", "8"}, bit \in {"0", "1"}}
    \cup {<<<<"SETBIT">>, l, <<"7">>, <<"2">>>>, <<<<"SETBIT">>, l, <<"15">>, <<"1">>>>}
    \cup {<<<<"BITOP">>, <<"or">>, k, k, l>>, <<<<"BITOP">>, <<"AND">>, l, k, l>>}

Reads ==
    {<<<<"get">>, k>>, <<<<"LLEN">>, k>>, <<<<"TYPE">>, l>>, <<<<"KEYS">>, <<"*">>>>, <<<<"KEYS">>, k>>,
     <<<<"LRANGE">>, k, <<"0">>, <<"-1">>>>, <<<<"GETBIT">>, k, <<"7">>>>, <<<<"STRLEN">>, l>>,
     <<<<"BITCOUNT">>, k>>, <<<<"BITCOUNT">>, k, <<"0">>, <<"-1">>, <<"BIT">>>>,
     <<<<"BITOP">>, <<"capa">>, k, k, l>>, <<<<"GET">>>>,
     <<<<"SETBIT">>, k, <<"a">>, <<"1">>>>, <<<<"SET">>, k, <<"1">>, <<"EX">>, <<"a">>>>}

MCRequests == Strings \cup Lists \cup Bitmaps \cup Reads
=============================================================================
