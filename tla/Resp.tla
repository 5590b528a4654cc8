--------------------------------- MODULE Resp ---------------------------------
(***************************************************************************)
(* RespType of resp.rs: the values of the protocol and their bytes.         *)
(*                                                                          *)
(* A byte is a string.  A word that the server never looks into (a command  *)
(* name, a key) is one byte, and Binary is a byte that is not UTF-8.        *)
(***************************************************************************)
EXTENDS Integers, Sequences, FiniteSets, SequencesExt, FiniteSetsExt

CR == "\r"
LF == "\n"
Binary == "0xFF"

\* A type with its length and, once `some` holds, its value.
Resp(type, length, some, value) ==
    [type |-> type, length |-> length, some |-> some, value |-> value]

BulkStr(s) == Resp("BulkStr", Len(s), TRUE, s)
SimpleStr(s) == Resp("SimpleStr", 0, TRUE, s)
Array(items) == Resp("Array", Len(items), TRUE, items)
RDB(s) == Resp("RDB", 0, TRUE, s)
Integer(s) == Resp("Integer", 0, TRUE, s)
ErrorStr(s) == Resp("Error", 0, TRUE, s)
NullArray == Resp("Array", 0, FALSE, <<>>)
NullBulkStr == Resp("BulkStr", 0, FALSE, <<>>)

\* What a client sends for a command: an array of bulk strings.
Request(words) == Array([i \in DOMAIN words |-> BulkStr(words[i])])

\* match_prefix: the type a byte announces.  Those the parser has no case for
\* are left on the stack and never completed: they are one type here.
TypeBytes == {"*", "$", "+", ":", "-", "_", "#", ",", "!", "=", "%", "|", "~", ">"}

match_prefix(byte, rdb) ==
    LET type == CASE byte = "*" -> "Array"
                  [] byte = "$" -> IF rdb THEN "RDB" ELSE "BulkStr"
                  [] byte = "+" -> "SimpleStr"
                  [] byte = ":" -> "Integer"
                  [] OTHER -> "Unread"
    IN Resp(type, 0, FALSE, <<>>)

\* Fault to detect: an array is complete with its first item.
HasValue(t) == t.some

\* is_completed: an array has a value once an item was added to it.
is_completed(t) == t.some /\ (t.type = "Array" => Len(t.value) = t.length)

\* add_item: only an array takes an item, any other type drops it.
add_item(t, item) ==
    IF t.type = "Array" THEN [t EXCEPT !.some = TRUE, !.value = Append(@, item)] ELSE t

\* serialize: what goes over the wire, for arrays of arrays at most.
Digit(n) == ToString(n)

\* No two digits are written alike.
ASSUME DigitAssumption == \A m, n \in 0..9 : Digit(m) = Digit(n) => m = n

Digits == [c \in {Digit(n) : n \in 0..9} |-> CHOOSE n \in 0..9 : Digit(n) = c]
Header(prefix, n) == <<prefix, Digit(n), CR, LF>>
SerializeArray(t, Item(_)) ==
    IF t.some THEN Header("*", t.length) \o FlattenSeq([i \in DOMAIN t.value |-> Item(t.value[i])])
    ELSE Header("*", -1)

SerializeFlat(t) ==
    CASE t.type = "BulkStr" ->
            IF t.some THEN Header("$", t.length) \o t.value \o <<CR, LF>> ELSE Header("$", -1)
      [] t.type = "RDB" -> Header("$", Len(t.value)) \o t.value
      [] OTHER -> <<CASE t.type = "SimpleStr" -> "+"
                      [] t.type = "Integer" -> ":"
                      [] t.type = "Error" -> "-">> \o t.value \o <<CR, LF>>

SerializeItem(t) == IF t.type = "Array" THEN SerializeArray(t, SerializeFlat) ELSE SerializeFlat(t)

serialize(t) == IF t.type = "Array" THEN SerializeArray(t, SerializeItem) ELSE SerializeFlat(t)

=============================================================================
