----------------------------- MODULE ClientReader -----------------------------
(***************************************************************************)
(* TcpClient::read_socket: what a connection sends arrives in pieces of any *)
(* size up to BUFFER_SIZE, goes through the parser, and every completed     *)
(* message is built into a command and handled before the next is parsed.   *)
(* The handler itself is elsewhere; here a message leaves its answer, the   *)
(* name of the command or its error.                                        *)
(***************************************************************************)
EXTENDS RespParser, CmdBuilder

CONSTANTS Streams,     \* sequences of messages that a peer may send
          BUFFER_SIZE

ASSUME ClientReaderAssumption == BUFFER_SIZE \in Nat \ {0}

VARIABLES sent,       \* the messages the peer sends
          socket,     \* bytes that have not been read
          parse_rdb,  \* the next bulk is the RDB of a master
          delivered,  \* the bytes of the messages handled, serialized again
          answers     \* history: what became of each

vars == <<parser_vars, sent, socket, parse_rdb, delivered, answers>>

Bytes(messages) == FlattenSeq([i \in DOMAIN messages |-> serialize(messages[i])])

Init ==
    /\ ParserInit
    /\ sent \in Streams
    /\ socket = Bytes(sent)
    /\ parse_rdb = FALSE
    /\ delivered = <<>> /\ answers = <<>>

\* The socket is readable and read: n bytes, at most a buffer, are fed.
ReadSocket(n) ==
    /\ parsing = "idle"
    /\ n <= Len(socket)
    /\ FeedBuf(SubSeq(socket, 1, n))
    /\ socket' = SubSeq(socket, n + 1, Len(socket))
    /\ UNCHANGED <<sent, parse_rdb, delivered, answers>>

Parse ==
    /\ ParseStep(parse_rdb)
    /\ UNCHANGED <<sent, socket, parse_rdb, delivered, answers>>

\* A completed message is handled and parse() is called again.  FULLRESYNC
\* announces an RDB and the RDB ends that (handshake_to_master).  A message whose
\* builder panics takes the process with it: no step follows.
Handle ==
    /\ parsing = "done" /\ completed # <<>>
    /\ LET t == Head(completed)
           cmd == from_resp(t)
       IN /\ cmd # Panic
          /\ delivered' = delivered \o serialize(t)
          /\ answers' = Append(answers, cmd.name)
          /\ parse_rdb' = IF cmd.name = "FULLRESYNC" THEN TRUE
                          ELSE IF cmd.name = "RDB" THEN FALSE ELSE parse_rdb
    /\ TakeCompleted
    /\ UNCHANGED <<sent, socket>>

\* Nothing is completed: read_socket returns and waits for the next event.
Return ==
    /\ parsing = "done" /\ completed = <<>>
    /\ parsing' = "idle"
    /\ UNCHANGED <<buf, buf_cur, tmp_start, stack, completed, status>>
    /\ UNCHANGED <<sent, socket, parse_rdb, delivered, answers>>

Next ==
    \/ \E n \in 1..BUFFER_SIZE : ReadSocket(n)
    \/ Parse
    \/ Handle
    \/ Return

\* One thread runs the loop, and what was sent arrives.
Spec ==
    /\ Init /\ [][Next]_vars
    /\ WF_vars(Parse \/ Handle \/ Return)
    /\ WF_vars(\E n \in 1..BUFFER_SIZE : ReadSocket(n))

-----------------------------------------------------------------------------
\* The types of the parser's and the connection's state.  The subtractions of unsigned
\* cursors in read_bytes and next_till_new_line do not wrap: the start of a token is
\* never past the cursor, and only a bulk can take the cursor past the buffer.
TypeOK ==
    /\ buf_cur \in Nat /\ tmp_start \in Nat /\ tmp_start <= buf_cur
    /\ status.kind \in {"Type", "Header", "Line", "Bulk", "RDB"} /\ status.n \in Nat
    /\ IF status.kind \in {"Bulk", "RDB"} THEN buf_cur - tmp_start <= status.n + 2
       ELSE buf_cur <= Len(buf)
    /\ parsing \in {"idle", "parse", "done", "error"}
    /\ parse_rdb \in BOOLEAN

\* However a stream of commands is cut, what is handled is what was sent, in order
\* and with the answer the whole message deserves.
HandledAsSent ==
    LET n == Len(answers)
    IN /\ n <= Len(sent)
       /\ delivered = Bytes(SubSeq(sent, 1, n))
       /\ \A i \in 1..n : answers[i] = from_resp(sent[i]).name

Received == SubSeq(Bytes(sent), 1, Len(Bytes(sent)) - Len(socket))

\* The messages that have arrived to their last byte.
Arrived == {i \in 1..Len(sent) : Len(Bytes(SubSeq(sent, 1, i))) <= Len(Received)}

\* README: the parser "could survives great delay between bytes as long as all
\* bytes will arrive at the end": while the connection waits for more bytes, every
\* message that has arrived has been handled.
ArrivedIsHandled == parsing = "idle" => Len(answers) = Cardinality(Arrived)

\* What the parser does not read to its end: null and empty arrays, text that is not
\* UTF-8, integers and errors.
UnreadableItem(t) ==
    \/ t.type \in {"Integer", "Error"}
    \/ t.type \in {"BulkStr", "SimpleStr"} /\ Contains(t.value, Binary)
    \/ t.type = "Array" /\ t.value = <<>>

Unreadable(t) ==
    \/ UnreadableItem(t)
    \/ t.type = "Array" /\ \E i \in DOMAIN t.value : UnreadableItem(t.value[i])

\* A message that has arrived, after none that is unreadable, waits for more bytes
\* only with a bulk to whose last byte the cursor was taken before it was there.
WithheldOnlyAtBulkEnd ==
    parsing = "idle" /\ Len(answers) # Cardinality(Arrived) /\ ~Unreadable(sent[Len(answers) + 1])
        => /\ status.kind \in {"Bulk", "RDB"}
           /\ buf_cur = Len(buf)
           /\ buf_cur - tmp_start = status.n + (IF status.kind = "RDB" THEN 0 ELSE 2)

\* Whatever the buffer holds, read_socket returns to the event loop, and only for
\* an unreadable message with an error.
ReadReturns ==
    (parsing = "parse")
        ~> (parsing = "idle" \/ (parsing = "error" /\ Unreadable(sent[Len(answers) + 1])))

=============================================================================
