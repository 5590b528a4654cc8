------------------------------ MODULE RespParser ------------------------------
(***************************************************************************)
(* The parser of resp.rs: bytes are appended to a buffer, one pass of the   *)
(* loop in parse() is one step, and a message that is not complete yet is   *)
(* resumed from buf_cur, tmp_start, the stack of open types and the status. *)
(* The cursors count from 0 as in the code.                                 *)
(***************************************************************************)
EXTENDS Resp

VARIABLES buf, buf_cur, tmp_start,
          stack,      \* types that are still open, the innermost last
          completed,  \* messages ready for get_completed
          status,     \* what the next bytes are read as
          parsing     \* "idle", "parse" (in the loop), "done" or "error"

parser_vars == <<buf, buf_cur, tmp_start, stack, completed, status, parsing>>

-----------------------------------------------------------------------------
ParserInit ==
    /\ buf = <<>> /\ buf_cur = 0 /\ tmp_start = 0
    /\ stack = <<>> /\ completed = <<>>
    /\ status = [kind |-> "Type", n |-> 0]
    /\ parsing = "idle"

Status(kind, n) == status' = [kind |-> kind, n |-> n]

TypeStatus == Status("Type", 0)

\* feed_buf, and parse() is called.
FeedBuf(bytes) ==
    /\ buf' = buf \o bytes
    /\ parsing' = "parse"
    /\ UNCHANGED <<buf_cur, tmp_start, stack, completed, status>>

TopCompleted == stack # <<>> /\ is_completed(Last(stack))

\* pop_completed: a completed type leaves the stack, for the type that holds it
\* or for the completed messages.
PopCompleted ==
    /\ parsing = "parse"
    /\ TopCompleted
    /\ LET item == Last(stack)
           below == Front(stack)
       IN IF below = <<>>
          THEN stack' = <<>> /\ completed' = Append(completed, item)
          ELSE /\ stack' = Append(Front(below), add_item(Last(below), item))
               /\ UNCHANGED completed
    /\ UNCHANGED <<buf, buf_cur, tmp_start, status, parsing>>

\* Fault to detect: only a completed message ends the loop.
ReturnsWhenCompleted ==
    /\ parsing = "parse" /\ ~TopCompleted /\ completed # <<>>
    /\ parsing' = "done"
    /\ UNCHANGED <<buf, buf_cur, tmp_start, stack, completed, status>>

\* parse() returns: a message is completed, or no byte is left to look at.
ParseReturns ==
    /\ parsing = "parse"
    /\ ~TopCompleted
    /\ completed # <<>> \/ buf_cur >= Len(buf)
    /\ parsing' = "done"
    /\ UNCHANGED <<buf, buf_cur, tmp_start, stack, completed, status>>

\* The loop goes on to the match on the status.
Reads(kind) ==
    /\ parsing = "parse"
    /\ ~TopCompleted /\ completed = <<>> /\ buf_cur < Len(buf)
    /\ status.kind = kind

\* drain_till_buf: the bytes before the cursor, here `cur`, go.
DrainTill(cur) ==
    /\ buf' = SubSeq(buf, cur + 1, Len(buf))
    /\ buf_cur' = 0 /\ tmp_start' = 0

\* next_till_type: the places of a prefix at or after the cursor.
TypesAhead == {i \in buf_cur..Len(buf) - 1 : buf[i + 1] \in TypeBytes}

\* Status Type: skip to the next prefix and open its type.
ParseType(rdb) ==
    /\ Reads("Type")
    /\ LET at == Min(TypesAhead)
           t == match_prefix(buf[at + 1], rdb)
       IN IF TypesAhead = {}
          THEN buf_cur' = Len(buf) /\ TypeStatus /\ UNCHANGED <<tmp_start, stack>>
          ELSE /\ buf_cur' = at + 1 /\ tmp_start' = at + 1
               /\ stack' = Append(stack, t)
               /\ CASE t.type \in {"Array", "BulkStr", "RDB"} -> Status("Header", 0)
                    [] t.type \in {"SimpleStr", "Integer"} -> Status("Line", 0)
                    [] OTHER -> TypeStatus
    /\ UNCHANGED <<buf, completed, parsing>>

\* next_till_new_line: the places of a delimiter at or after the cursor.
NewLines == {i \in buf_cur..Len(buf) - 2 : buf[i + 1] = CR /\ buf[i + 2] = LF}

Line == SubSeq(buf, tmp_start + 1, Min(NewLines))

IsNumber(s) == s # <<>> /\ \A i \in DOMAIN s : s[i] \in DOMAIN Digits

Number(s) == FoldLeft(LAMBDA n, c : 10 * n + Digits[c], 0, s)

\* parse() gives up and the caller drops the connection.
Fails ==
    /\ parsing' = "error"
    /\ UNCHANGED <<buf, buf_cur, tmp_start, stack, completed, status>>

\* Fault to detect: the scan passes the last byte.
LineScannedToEnd ==
    /\ NewLines = {}
    /\ buf_cur' = Len(buf)
    /\ parsing' = "done"
    /\ UNCHANGED <<buf, tmp_start, stack, completed, status>>

\* No delimiter yet: the scan stops before the last byte, which may be half of one.
LineIsOpen ==
    /\ NewLines = {}
    /\ buf_cur' = Len(buf) - 1
    /\ parsing' = "done"
    /\ UNCHANGED <<buf, tmp_start, stack, completed, status>>

\* Status Header: the length of the innermost type, which says what follows.
ParseHeader ==
    /\ Reads("Header")
    /\ \/ LineIsOpen
       \/ NewLines # {} /\ ~IsNumber(Line) /\ Fails
       \/ /\ NewLines # {} /\ IsNumber(Line)
          /\ LET t == Last(stack)
                 n == Number(Line)
             IN /\ stack' = Append(Front(stack),
                                   IF t.type = "RDB" THEN t ELSE [t EXCEPT !.length = n])
                /\ CASE t.type = "Array" -> TypeStatus
                     [] t.type = "BulkStr" -> Status("Bulk", n)
                     [] t.type = "RDB" -> Status("RDB", n)
          /\ DrainTill(Min(NewLines) + 2)
          /\ UNCHANGED <<completed, parsing>>

SetValue(s) == stack' = Append(Front(stack), [Last(stack) EXCEPT !.some = TRUE, !.value = s])

\* Status Line: a simple string takes the line, an integer is not implemented.
ParseLine ==
    /\ Reads("Line")
    /\ \/ LineIsOpen
       \/ NewLines # {} /\ (Last(stack).type = "Integer" \/ Contains(Line, Binary)) /\ Fails
       \/ /\ NewLines # {} /\ Last(stack).type = "SimpleStr" /\ ~Contains(Line, Binary)
          /\ SetValue(Line)
          /\ TypeStatus
          /\ DrainTill(Min(NewLines) + 2)
          /\ UNCHANGED <<completed, parsing>>

\* read_bytes moves the cursor by what is wanted, at most by the length of the
\* whole buffer and not by what is left of it.
Advance(want) == buf_cur + (IF want < Len(buf) THEN want ELSE Len(buf))

\* Status Bulk or RDB: n bytes, and a delimiter unless it is an RDB.  An error of
\* read_bytes is ignored: the status stays Type and nothing is drained.
ParseBytes(kind) ==
    /\ Reads(kind)
    /\ LET ending == IF kind = "RDB" THEN 0 ELSE 2
           whole == status.n + ending
           read == buf_cur - tmp_start
           want == IF whole > read THEN whole - read ELSE 0
           cur == Advance(want)
           bytes == SubSeq(buf, tmp_start + 1, tmp_start + status.n)
           ends == SubSeq(buf, tmp_start + status.n + 1, cur) = <<CR, LF>>
           complete == cur <= Len(buf) /\ cur - tmp_start = whole
           valid == kind = "RDB" \/ (ends /\ ~Contains(bytes, Binary))
       IN \/ /\ complete /\ valid
             /\ SetValue(bytes)
             /\ DrainTill(cur)
             /\ TypeStatus
          \/ /\ complete /\ ~valid
             /\ buf_cur' = cur
             /\ TypeStatus
             /\ UNCHANGED <<buf, tmp_start, stack>>
          \/ /\ ~complete
             /\ buf_cur' = cur
             /\ UNCHANGED <<buf, tmp_start, stack, status>>
    /\ UNCHANGED <<completed, parsing>>

\* One pass of the loop in parse().
ParseStep(rdb) ==
    \/ PopCompleted
    \/ ParseReturns
    \/ ParseType(rdb)
    \/ ParseHeader
    \/ ParseLine
    \/ ParseBytes("Bulk")
    \/ ParseBytes("RDB")

\* get_completed, and parse() is called again.
TakeCompleted ==
    /\ completed' = Tail(completed)
    /\ parsing' = "parse"
    /\ UNCHANGED <<buf, buf_cur, tmp_start, stack, status>>

=============================================================================
