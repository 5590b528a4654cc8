--------------------------------- MODULE MCAof ---------------------------------
(***************************************************************************)
(* Aof for TLC: one list key and one key for strings and bitmaps, a         *)
(* snapshot that is missing, good or unreadable.                            *)
(***************************************************************************)
EXTENDS Aof

MCNumbers == {0, 1, 2}

k == <<"k">>
l == <<"l">>

MCRequests ==
    {<<<<"RPUSH">>, k, <<"a">>>>, <<<<"RPUSH">>, k, <<"b">>>>, <<<<"LPOP">>, k>>, <<<<"BLPOP">>, k, <<"0">>>>,
     <<<<"SET">>, k, <<"1">>>>, <<<<"INCR">>, l>>, <<<<"SETBIT">>, l, <<"0">>, <<"2">>>>, <<<<"get">>, l>>,
     <<<<"BITOP">>, <<"or">>, k, l, l>>}

\* The bits of the digits in ASCII.
MCBits == [c \in {"0", "1", "2"} |-> CASE c = "0" -> {5, 4} [] c = "1" -> {5, 4, 0} [] c = "2" -> {5, 4, 1}]

NoSnapshot == {<<>>}

MCSnapshots ==
    {<<>>,
     <<Section("FA", <<>>, <<>>, 0), Section("FE", <<>>, <<>>, 0), Section("FD", k, <<"1">>, 1), Section("00", l, <<"1">>, 0)>>,
     <<Section("00", k, <<"1">>, 0), Section("bad", <<>>, <<>>, 0)>>}
=============================================================================
