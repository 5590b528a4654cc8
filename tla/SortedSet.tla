------------------------------- MODULE SortedSet -------------------------------
(***************************************************************************)
(* SortedSet of data_types.rs, the value behind ZADD, ZREM, ZRANK, ZRANGE,  *)
(* ZCARD, ZSCORE and the geospatial commands: a map from member to score    *)
(* and a tree of (score, member) pairs that must tell the same story.       *)
(*                                                                          *)
(* Scores are natural numbers, as sets of bits (the f64 NaN is left out),   *)
(* and member names are numbers in their string order.                      *)
(***************************************************************************)
EXTENDS HashMaps, Sequences, FiniteSets, Geohash

CONSTANTS Members,
          Scores,  \* the scores of ZADD
          Places   \* the <<longitude, latitude>> cells of GEOADD

ASSUME SortedSetAssumption ==
    /\ Members \subseteq Nat
    /\ \A score \in Scores : score \subseteq 0..52
    /\ \A place \in Places : place[1] \in Cells /\ place[2] \in Cells

VARIABLES members,  \* member -> score
          scores,   \* the (score, member) pairs of the BTreeMap
          rescored, \* history: members given another score while present
          placed    \* history: where GEOADD put a member

vars == <<members, scores, rescored, placed>>

Codes == {encode(place[1], place[2]) : place \in Places}

\* The types of the two indexes of the set.
TypeOK ==
    /\ DOMAIN members \subseteq Members
    /\ \A m \in DOMAIN members : members[m] \in Scores \cup Codes
    /\ scores \subseteq (Scores \cup Codes) \X Members
    /\ rescored \subseteq Members
    /\ DOMAIN placed \subseteq Members

Init == members = EmptyMap /\ scores = {} /\ rescored = {} /\ placed = EmptyMap

-----------------------------------------------------------------------------
\* add: for a member that is present the pair with the new score is removed, not
\* the one with the old score.
add(score, m) ==
    /\ LET kept == IF m \in DOMAIN members THEN scores \ {<<score, m>>} ELSE scores
       IN scores' = kept \cup {<<score, m>>}
    /\ members' = Put(members, m, score)
    /\ rescored' = IF m \in DOMAIN members /\ members[m] # score
                   THEN rescored \cup {m} ELSE rescored

\* A fault to detect: every pair of the same score goes.
RemoveScore(m) ==
    /\ m \in DOMAIN members
    /\ members' = Without(members, m)
    /\ scores' = {p \in scores : p[1] # members[m]}
    /\ UNCHANGED rescored

\* remove: a member that is absent changes nothing.
remove(m) ==
    /\ m \in DOMAIN members
    /\ members' = Without(members, m)
    /\ scores' = scores \ {<<members[m], m>>}
    /\ UNCHANGED rescored

cmd_zadd ==
    \E m \in Members, score \in Scores :
        add(score, m) /\ placed' = Without(placed, m)

\* A place out of range is refused before the set is touched.
cmd_geoadd ==
    \E m \in Members, place \in Places :
        add(encode(place[1], place[2]), m) /\ placed' = Put(placed, m, place)

cmd_zrem ==
    \E m \in Members :
        remove(m) /\ placed' = Without(placed, m)

Next == cmd_zadd \/ cmd_geoadd \/ cmd_zrem

Spec == Init /\ [][Next]_vars

-----------------------------------------------------------------------------
(***************************************************************************)
(* The queries.                                                             *)
(***************************************************************************)

\* The order of (Score, member): by score, then by member.
Before(p, q) == Below(p[1], q[1]) \/ (p[1] = q[1] /\ p[2] < q[2])

\* The number of pairs that come before p in the tree.
Place(p) == Cardinality({q \in scores : Before(q, p)})

\* A fault to detect: the member itself is counted (an inclusive range).
RankFromOne(m) == Place(<<members[m], m>>) + 1

\* rank_by_score: the pairs before the member's own, for a member of the set.
rank_by_score(m) == Place(<<members[m], m>>)

\* A negative index counts from the end and stops at the first.
Index(i) == LET n == Cardinality(scores)
            IN IF i >= 0 THEN i ELSE IF n + i < 0 THEN 0 ELSE n + i

\* get_members: skip to the start index and take up to the end index.
get_members(start, end) ==
    LET n == Cardinality(scores)
        names == [i \in 1..n |-> (CHOOSE p \in scores : Place(p) = i - 1)[2]]
        from == Index(start)
        to == Index(end)
    IN IF to < from THEN <<>>
       ELSE SubSeq(names, from + 1, IF to < n THEN to + 1 ELSE n)

len == Cardinality(DOMAIN members)

\* GEOPOS of one member of the set.
cmd_geopos(m) == decode(members[m])

-----------------------------------------------------------------------------
Current == {<<members[m], m>> : m \in DOMAIN members}

\* The two indexes tell the same story through any sequence of updates and removals:
\* the tree has the pair of each member's present score, and whatever else it holds is
\* of a member that was given another score at some time.
TreeFollowsMembers ==
    /\ Current \subseteq scores
    /\ \A p \in scores \ Current : p[2] \in rescored

\* ZRANK and ZRANGE agree: the member of rank r is the r-th of the whole range,
\* and ZRANGE r r, or the same index counted from the end, gives it alone.
RankMatchesRange ==
    \A m \in DOMAIN members :
        LET r == rank_by_score(m)
            n == Cardinality(scores)
        IN /\ get_members(r, r) = <<m>>
           /\ get_members(0, -1)[r + 1] = m
           /\ get_members(r - n, r - n) = <<m>>

\* GEOPOS answers the cell that GEOADD was given, whatever happened to the set in
\* between, for every bit of both coordinates; only on the last meridian may it be
\* one step of latitude to the south.
GeoposIsWhereAdded ==
    \A m \in DOMAIN placed :
        LET long == placed[m][1]
            lat == placed[m][2]
        IN cmd_geopos(m) = <<long, IF long = {STEP} THEN lat \ {0} ELSE lat>>

\* add: "Add or update score of a member": ZRANGE lists as many members as ZCARD
\* counts.
RangeMatchesCard == Len(get_members(0, -1)) = len

=============================================================================
