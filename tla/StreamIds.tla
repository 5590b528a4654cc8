------------------------------- MODULE StreamIds -------------------------------
(***************************************************************************)
(* One stream and the ids of its entries: cmd_xadd with an explicit id, with *)
(* a generated sequence number and with a generated id, and a consumer that *)
(* reads on from the last id it has seen, by XREAD, or a range of ids, by   *)
(* XRANGE.  The entries are numbered in the order of the commands that      *)
(* added them.                                                              *)
(***************************************************************************)
EXTENDS HashMaps, Integers, FiniteSets

CONSTANTS MaxTime,   \* bound: milliseconds, of the clock and of explicit ids
          U64_MAX,   \* the largest sequence number and time
          MaxAdds    \* bound: entries added in a behaviour

ASSUME StreamIdsAssumption == U64_MAX \in Nat /\ MaxTime \in 1..U64_MAX /\ MaxAdds \in Nat

VARIABLES
    now,         \* the millisecond clock
    stream,      \* id -> entry (the BTreeMap)
    added,       \* number of entries added
    cursor,      \* the last id the consumer has seen
    got,         \* the entries the consumer has got
    alive,       \* FALSE once the process has panicked
    disordered   \* history: a generated id was not above the top of the stream

id_vars == <<now, stream, added, cursor, got, alive, disordered>>

Id == Nat \X Nat

\* The types; as long as generated ids come in order, none is 0-0, which XADD rules
\* out for explicit ids and the stream's readers take for its beginning.
IdsTypeOK ==
    /\ now \in Nat
    /\ DOMAIN stream \subseteq Id
    /\ ~disordered => <<0, 0>> \notin DOMAIN stream
    /\ \A id \in DOMAIN stream : stream[id] \in 1..added
    /\ added \in Nat
    /\ cursor \in Id
    /\ got \subseteq Nat
    /\ alive \in BOOLEAN /\ disordered \in BOOLEAN

IdsInit ==
    /\ now = 1
    /\ stream = EmptyMap
    /\ added = 0
    /\ cursor = <<0, 0>> /\ got = {}
    /\ alive = TRUE /\ disordered = FALSE

-----------------------------------------------------------------------------
\* The order of ids.
Above(a, b) == a[1] > b[1] \/ (a[1] = b[1] /\ a[2] > b[2])

\* A fault to detect: an id equal to the top item's is let through.
AboveOrEqual(id) == \A x \in DOMAIN stream : id = x \/ Above(id, x)

\* id is above the top item of the stream, if there is one.
AboveAll(id) == \A x \in DOMAIN stream : Above(id, x)

\* The top item.
IsTop(id) == id \in DOMAIN stream /\ \A x \in DOMAIN stream : x = id \/ Above(id, x)

\* BTreeMap::insert replaces the entry that has the id.
InsertEntry(id) ==
    /\ alive /\ added < MaxAdds
    /\ added' = added + 1
    /\ stream' = Put(stream, id, added + 1)
    /\ UNCHANGED <<now, cursor, got, alive>>

InsertGenerated(id) ==
    /\ InsertEntry(id)
    /\ disordered' = (disordered \/ \E x \in DOMAIN stream : ~Above(id, x))

\* XADD t-i: refused at 0-0 and at or below the top item.
XaddExplicit(t, i) ==
    /\ <<t, i>> # <<0, 0>> /\ AboveAll(<<t, i>>)
    /\ InsertEntry(<<t, i>>)
    /\ UNCHANGED disordered

\* XADD t-*: the next sequence number of t, which wraps after the largest (in a release
\* build); refused
\* when t is below the top.
XaddPartial(t) ==
    \/ \E top \in DOMAIN stream :
         /\ IsTop(top) /\ t >= top[1]
         /\ InsertGenerated(<<t, IF t = top[1] THEN (top[2] + 1) % (U64_MAX + 1) ELSE 0>>)
    \/ DOMAIN stream = {} /\ InsertGenerated(<<t, IF t = 0 THEN 1 ELSE 0>>)

\* XADD *: the clock and sequence number 0, whatever the stream holds.
XaddAuto == InsertGenerated(<<now, 0>>)

\* A fault to detect: only the milliseconds of the ids are compared.
EntriesAfterTime(id) == {x \in DOMAIN stream : x[1] > id[1]}

\* _extract_stream_entries: the entries after an id.
_extract_stream_entries(id) == {x \in DOMAIN stream : Above(x, id)}

\* XREAD COUNT 1 or without a count, after the cursor.
Read(all) ==
    /\ alive
    /\ \E last \in _extract_stream_entries(cursor) :
         LET read == {x \in _extract_stream_entries(cursor) : ~Above(x, last)} IN
         /\ IF all THEN read = _extract_stream_entries(cursor) ELSE Cardinality(read) = 1
         /\ got' = got \cup {stream[x] : x \in read}
         /\ cursor' = last
    /\ UNCHANGED <<now, stream, added, alive, disordered>>

\* The ends of an XRANGE, where the sequence number may be left out ("-" is 0-0 and
\* "+" the largest id).
NoSeq == -1

Ends == (0..U64_MAX) \X (0..U64_MAX \cup {NoSeq})

\* A fault to detect: a missing sequence number is 0 at the end of a range too.
EndAtZero(end) == <<end[1], IF end[2] = NoSeq THEN 0 ELSE end[2]>>

FirstOf(start) == <<start[1], IF start[2] = NoSeq THEN 0 ELSE start[2]>>

LastOf(end) == <<end[1], IF end[2] = NoSeq THEN U64_MAX ELSE end[2]>>

\* The entries of XRANGE.
InRange(start, end) ==
    {x \in DOMAIN stream : ~Above(FirstOf(start), x) /\ ~Above(x, LastOf(end))}

\* XRANGE changes nothing, but BTreeMap::range panics when its ends are swapped.
cmd_xrange(start, end) ==
    /\ alive /\ Above(FirstOf(start), LastOf(end))
    /\ alive' = FALSE
    /\ UNCHANGED <<now, stream, added, cursor, got, disordered>>

Tick ==
    /\ alive /\ now < MaxTime
    /\ now' = now + 1
    /\ UNCHANGED <<stream, added, cursor, got, alive, disordered>>

IdsNext ==
    \/ \E t \in 0..MaxTime : XaddPartial(t) \/ \E i \in 0..U64_MAX : XaddExplicit(t, i)
    \/ XaddAuto
    \/ \E all \in BOOLEAN : Read(all)
    \/ \E start, end \in Ends : cmd_xrange(start, end)
    \/ Tick

IdsSpec == IdsInit /\ [][IdsNext]_id_vars

-----------------------------------------------------------------------------
\* No entry is lost: as long as generated ids come in order, each XADD that was
\* answered with an id has its entry in the stream.
EntriesAreKept == ~disordered => {stream[id] : id \in DOMAIN stream} = 1..added

\* A consumer that reads on from the last id it saw, in portions of any size and
\* between any two XADDs, misses no entry and gets them in the order of XADD -
\* as long as generated ids come in order.
ConsumerMissesNothing ==
    ~disordered => \A id \in DOMAIN stream : stream[id] \in got <=> ~Above(id, cursor)

\* XRANGE and XREAD agree, out of order or not: from an id on, XRANGE gives it and what
\* XREAD gives after it, and XRANGE of a time without sequence numbers gives all of it.
XrangeAgreesWithXread ==
    /\ \A id \in DOMAIN stream :
         InRange(id, <<U64_MAX, U64_MAX>>) = {id} \cup _extract_stream_entries(id)
    /\ \A t \in 0..U64_MAX :
         InRange(<<t, NoSeq>>, <<t, NoSeq>>) = {x \in DOMAIN stream : x[1] = t}

\* A request is answered: XRANGE does not end the process.
XrangeAnswers == alive

\* cmd_xadd: "The ID specified in XADD is equal or smaller than the target stream
\* top item" is an error: every id that is given out is above the top.
IdsAscend ==
    [][\A id \in DOMAIN stream' : stream'[id] > added => AboveAll(id)]_id_vars

=============================================================================
