--------------------------- MODULE CollectionProofs ---------------------------
(***************************************************************************)
(* The ordered collections.  The sorted set, for any members, scores and    *)
(* places: the tree follows the member map, ranks and ranges agree, and     *)
(* GEOPOS gives back every cell of the grid, at the full width of the code  *)
(* of geohash.rs.  The stream: XADD loses no entry, a consumer misses none, *)
(* and XRANGE agrees with XREAD.                                            *)
(***************************************************************************)
EXTENDS SortedSet, StreamIds, TLAPS, FiniteSetTheorems, SequenceTheorems, WellFoundedInduction

(***************************************************************************)
(* The bits of a place.                                                     *)
(***************************************************************************)

\* The bits of x after it was spread down to groups of n, and after a spread number
\* was compacted up to groups of n: bit i of the number is i % n of group i \div n.
Spread(x, n) == {j \in 0..63 : j % (2 * n) < n /\ (j % (2 * n)) + n * (j \div (2 * n)) \in x}
Compact(x, n) == {j \in 0..63 : j % (2 * n) < n /\ 2 * ((j % (2 * n)) + n * (j \div (2 * n))) \in x}

\* Each halving of spread_u32_to_u64 moves the upper half of each group up: at the
\* end bit i of the number is bit 2 * i.
LEMMA SpreadIsDouble ==
    ASSUME NEW x \in SUBSET (0..31)
    PROVE  spread_u32_to_u64(x) = {j \in 0..63 : j % 2 = 0 /\ j \div 2 \in x}
<1>1. SpreadBy(x, 16) = Spread(x, 16)
  <2> SUFFICES ASSUME NEW j \in 0..63
               PROVE  j \in SpreadBy(x, 16) <=> j \in Spread(x, 16)
    BY DEF SpreadBy, Mask, Spread
  <2>1. j \in SpreadBy(x, 16) <=> j % 32 < 16 /\ (j \in x \/ j - 16 \in x)
    BY DEF SpreadBy, ShiftLeft, Mask
  <2> QED BY <2>1 DEF Spread
<1>2. SpreadBy(Spread(x, 16), 8) = Spread(x, 8)
  <2> SUFFICES ASSUME NEW j \in 0..63
               PROVE  j \in SpreadBy(Spread(x, 16), 8) <=> j \in Spread(x, 8)
    BY DEF SpreadBy, Mask, Spread
  <2>0. Spread(x, 16) \in SUBSET (0..63)
    BY DEF Spread
  <2>1. j \in SpreadBy(Spread(x, 16), 8) <=> j % 16 < 8 /\ (j \in Spread(x, 16) \/ j - 8 \in Spread(x, 16))
    BY <2>0 DEF SpreadBy, ShiftLeft, Mask
  <2> QED BY <2>1 DEF Spread
<1>3. SpreadBy(Spread(x, 8), 4) = Spread(x, 4)
  <2> SUFFICES ASSUME NEW j \in 0..63
               PROVE  j \in SpreadBy(Spread(x, 8), 4) <=> j \in Spread(x, 4)
    BY DEF SpreadBy, Mask, Spread
  <2>0. Spread(x, 8) \in SUBSET (0..63)
    BY DEF Spread
  <2>1. j \in SpreadBy(Spread(x, 8), 4) <=> j % 8 < 4 /\ (j \in Spread(x, 8) \/ j - 4 \in Spread(x, 8))
    BY <2>0 DEF SpreadBy, ShiftLeft, Mask
  <2> QED BY <2>1 DEF Spread
<1>4. SpreadBy(Spread(x, 4), 2) = Spread(x, 2)
  <2> SUFFICES ASSUME NEW j \in 0..63
               PROVE  j \in SpreadBy(Spread(x, 4), 2) <=> j \in Spread(x, 2)
    BY DEF SpreadBy, Mask, Spread
  <2>0. Spread(x, 4) \in SUBSET (0..63)
    BY DEF Spread
  <2>1. j \in SpreadBy(Spread(x, 4), 2) <=> j % 4 < 2 /\ (j \in Spread(x, 4) \/ j - 2 \in Spread(x, 4))
    BY <2>0 DEF SpreadBy, ShiftLeft, Mask
  <2> QED BY <2>1 DEF Spread
<1>5. SpreadBy(Spread(x, 2), 1) = Spread(x, 1)
  <2> SUFFICES ASSUME NEW j \in 0..63
               PROVE  j \in SpreadBy(Spread(x, 2), 1) <=> j \in Spread(x, 1)
    BY DEF SpreadBy, Mask, Spread
  <2>0. Spread(x, 2) \in SUBSET (0..63)
    BY DEF Spread
  <2>1. j \in SpreadBy(Spread(x, 2), 1) <=> j % 2 < 1 /\ (j \in Spread(x, 2) \/ j - 1 \in Spread(x, 2))
    BY <2>0 DEF SpreadBy, ShiftLeft, Mask
  <2> QED BY <2>1 DEF Spread
<1>6. Spread(x, 1) = {j \in 0..63 : j % 2 = 0 /\ j \div 2 \in x}
  BY DEF Spread
<1> QED BY <1>1, <1>2, <1>3, <1>4, <1>5, <1>6 DEF spread_u32_to_u64

\* compact_u64_to_u32 takes the even bits together: bit i is bit 2 * i of the number.
LEMMA CompactIsHalf ==
    ASSUME NEW x \in SUBSET (0..63)
    PROVE  compact_u64_to_u32(x) = {j \in 0..31 : 2 * j \in x}
<1>0. x \cap Mask(1) = Compact(x, 1)
  BY DEF Mask, Compact
<1>1. CompactBy(Compact(x, 1), 1) = Compact(x, 2)
  <2> SUFFICES ASSUME NEW j \in 0..63
               PROVE  j \in CompactBy(Compact(x, 1), 1) <=> j \in Compact(x, 2)
    BY DEF CompactBy, Mask, Compact
  <2>0. Compact(x, 1) \in SUBSET (0..63)
    BY DEF Compact
  <2>1. j \in CompactBy(Compact(x, 1), 1) <=> j % 4 < 2 /\ (j \in Compact(x, 1) \/ j + 1 \in Compact(x, 1))
    BY <2>0 DEF CompactBy, ShiftRight, Mask
  <2> QED BY <2>1 DEF Compact
<1>2. CompactBy(Compact(x, 2), 2) = Compact(x, 4)
  <2> SUFFICES ASSUME NEW j \in 0..63
               PROVE  j \in CompactBy(Compact(x, 2), 2) <=> j \in Compact(x, 4)
    BY DEF CompactBy, Mask, Compact
  <2>0. Compact(x, 2) \in SUBSET (0..63)
    BY DEF Compact
  <2>1. j \in CompactBy(Compact(x, 2), 2) <=> j % 8 < 4 /\ (j \in Compact(x, 2) \/ j + 2 \in Compact(x, 2))
    BY <2>0 DEF CompactBy, ShiftRight, Mask
  <2> QED BY <2>1 DEF Compact
<1>3. CompactBy(Compact(x, 4), 4) = Compact(x, 8)
  <2> SUFFICES ASSUME NEW j \in 0..63
               PROVE  j \in CompactBy(Compact(x, 4), 4) <=> j \in Compact(x, 8)
    BY DEF CompactBy, Mask, Compact
  <2>0. Compact(x, 4) \in SUBSET (0..63)
    BY DEF Compact
  <2>1. j \in CompactBy(Compact(x, 4), 4) <=> j % 16 < 8 /\ (j \in Compact(x, 4) \/ j + 4 \in Compact(x, 4))
    BY <2>0 DEF CompactBy, ShiftRight, Mask
  <2> QED BY <2>1 DEF Compact
<1>4. CompactBy(Compact(x, 8), 8) = Compact(x, 16)
  <2> SUFFICES ASSUME NEW j \in 0..63
               PROVE  j \in CompactBy(Compact(x, 8), 8) <=> j \in Compact(x, 16)
    BY DEF CompactBy, Mask, Compact
  <2>0. Compact(x, 8) \in SUBSET (0..63)
    BY DEF Compact
  <2>1. j \in CompactBy(Compact(x, 8), 8) <=> j % 32 < 16 /\ (j \in Compact(x, 8) \/ j + 8 \in Compact(x, 8))
    BY <2>0 DEF CompactBy, ShiftRight, Mask
  <2> QED BY <2>1 DEF Compact
<1>5. CompactBy(Compact(x, 16), 16) = Compact(x, 32)
  <2> SUFFICES ASSUME NEW j \in 0..63
               PROVE  j \in CompactBy(Compact(x, 16), 16) <=> j \in Compact(x, 32)
    BY DEF CompactBy, Mask, Compact
  <2>0. Compact(x, 16) \in SUBSET (0..63)
    BY DEF Compact
  <2>1. j \in CompactBy(Compact(x, 16), 16) <=> j % 64 < 32 /\ (j \in Compact(x, 16) \/ j + 16 \in Compact(x, 16))
    BY <2>0 DEF CompactBy, ShiftRight, Mask
  <2> QED BY <2>1 DEF Compact
<1>6. Compact(x, 32) = {j \in 0..31 : 2 * j \in x}
  BY DEF Compact
<1> QED BY <1>0, <1>1, <1>2, <1>3, <1>4, <1>5, <1>6 DEF compact_u64_to_u32

\* GEOADD and GEOPOS: the code of any cell is the code of that cell only, but for the
\* bit that the f64 of the last meridian loses.
LEMMA PlaceComesBack ==
    ASSUME NEW long \in Cells, NEW lat \in Cells
    PROVE  decode(encode(long, lat)) = <<long, IF long = {STEP} THEN lat \ {0} ELSE lat>>
<1> DEFINE score == interleave(long, lat)
<1>0. \A c \in Cells : c \in SUBSET (0..31) /\ (26 \in c <=> c = {STEP}) /\ \A j \in c : j <= 26
  <2> SUFFICES ASSUME NEW c \in Cells
               PROVE  c \in SUBSET (0..31) /\ (26 \in c <=> c = {STEP}) /\ \A j \in c : j <= 26
    OBVIOUS
  <2>1. CASE c \in SUBSET (0..25)
    <3>1. \A j \in c : j \in 0..25
      BY <2>1
    <3> QED BY <3>1 DEF STEP
  <2>2. CASE c = {26}
    BY <2>2 DEF STEP
  <2>3. STEP = 26 /\ STEP - 1 = 25
    BY DEF STEP
  <2>4. c \in SUBSET (0..25) \/ c = {26}
    BY <2>3 DEF Cells
  <2> QED BY <2>1, <2>2, <2>4
<1>1. /\ long \in SUBSET (0..31) /\ lat \in SUBSET (0..31)
      /\ 26 \in long <=> long = {STEP}
      /\ \A j \in long \cup lat : j \in 0..26
  BY <1>0
<1>2. score = {j \in 0..63 : IF j % 2 = 0 THEN j \div 2 \in lat ELSE j \div 2 \in long}
  <2>1. /\ spread_u32_to_u64(lat) = {j \in 0..63 : j % 2 = 0 /\ j \div 2 \in lat}
        /\ spread_u32_to_u64(long) = {j \in 0..63 : j % 2 = 0 /\ j \div 2 \in long}
    BY <1>1, SpreadIsDouble
  <2>2. ASSUME NEW s \in SUBSET (0..63), NEW j \in 0..63
        PROVE  j \in ShiftLeft(s, 1) <=> j - 1 \in s
    BY DEF ShiftLeft
  <2>3. \A j \in 0..63 : j \in ShiftLeft(spread_u32_to_u64(long), 1)
                            <=> j - 1 \in spread_u32_to_u64(long)
    BY <2>1, <2>2
  <2>4. \A j \in 0..63 : j \in ShiftLeft(spread_u32_to_u64(long), 1)
                            <=> j % 2 = 1 /\ j \div 2 \in long
    BY <2>1, <2>3
  <2> QED BY <2>1, <2>4 DEF interleave, ShiftLeft
<1> HIDE DEF score
<1>3. 53 \in score <=> long = {STEP}
  BY <1>1, <1>2
<1>4. encode(long, lat) = IF long = {STEP} THEN score \ {0} ELSE score
  BY <1>3 DEF encode, AsF64, score
<1>5. encode(long, lat) \in SUBSET (0..63)
  BY <1>2, <1>4
<1> DEFINE code == encode(long, lat)
<1> HIDE DEF code
<1>6. ShiftRight(code, 1) \in SUBSET (0..63)
  BY DEF ShiftRight
<1>7. compact_u64_to_u32(ShiftRight(code, 1)) = long
  <2>1. compact_u64_to_u32(ShiftRight(code, 1)) = {j \in 0..31 : 2 * j \in ShiftRight(code, 1)}
    BY <1>6, CompactIsHalf
  <2>2. \A j \in 0..31 : 2 * j \in ShiftRight(code, 1) <=> 2 * j + 1 \in code
    BY <1>5 DEF ShiftRight, code
  <2>3. \A j \in 0..31 : 2 * j + 1 \in code <=> j \in long
    BY <1>2, <1>4 DEF code
  <2>4. {j \in 0..31 : 2 * j \in ShiftRight(code, 1)} = {j \in 0..31 : j \in long}
    BY <2>2, <2>3
  <2> QED BY <1>1, <2>1, <2>4
<1>8. compact_u64_to_u32(code) = IF long = {STEP} THEN lat \ {0} ELSE lat
  <2>1. compact_u64_to_u32(code) = {j \in 0..31 : 2 * j \in code}
    BY <1>5, CompactIsHalf DEF code
  <2>2. \A j \in 0..31 : 2 * j \in score <=> j \in lat
    BY <1>2
  <2>3. {j \in 0..31 : 2 * j \in code}
          = {j \in 0..31 : j \in lat /\ (long = {STEP} => j # 0)}
    BY <1>4, <2>2 DEF code
  <2> QED BY <1>1, <2>1, <2>3
<1> QED BY <1>7, <1>8 DEF decode, deinterleave, code

-----------------------------------------------------------------------------
(***************************************************************************)
(* The order of the tree.                                                   *)
(***************************************************************************)

\* A non-empty set of naturals has a least element.
LEMMA LeastExists ==
    ASSUME NEW S, S \subseteq Nat, S # {}
    PROVE  \E m \in S : \A x \in S : m <= x
<1>1. PICK m \in S : \A y \in S : ~ (<<y, m>> \in OpToRel(<, Nat))
  BY NatLessThanWellFounded, WFMin
<1>2. \A y \in S : y \in Nat /\ m \in Nat /\ ~ (y < m)
  BY <1>1 DEF OpToRel
<1> QED BY <1>2

\* Two different numbers differ in a highest bit.
LEMMA HighestExists ==
    ASSUME NEW S \in SUBSET (0..63), S # {}
    PROVE  /\ Max(S) \in S
           /\ \A b \in S : b <= Max(S)
<1> DEFINE T == {63 - b : b \in S}
<1>0. \A b \in S : 63 - b \in Nat
  OBVIOUS
<1>1. T \subseteq Nat /\ T # {}
  BY <1>0
<1>2. PICK y \in T : \A z \in T : y <= z
  BY <1>1, LeastExists
<1>3. PICK m \in S : y = 63 - m
  BY <1>2
<1>4. \A b \in S : 63 - m <= 63 - b
  BY <1>2, <1>3
<1>5. \A b \in S : m >= b
  BY <1>4
<1>6. \E x \in S : \A b \in S : x >= b
  BY <1>5
<1>7. Max(S) \in S /\ \A b \in S : Max(S) >= b
  BY <1>6 DEF Max
<1> QED BY <1>7

Word == SUBSET (0..63)

\* One number is below another when the highest bit in which they differ is of the
\* other.
LEMMA BelowByBit ==
    ASSUME NEW x \in Word, NEW y \in Word
    PROVE  Below(x, y) <=> \E b \in y \ x : \A a \in 0..63 : a > b => (a \in x <=> a \in y)
<1> DEFINE D == SymDiff(x, y)
<1>1. D \in SUBSET (0..63) /\ (D = {} <=> x = y) /\ \A a : a \in D <=> (a \in x /\ a \notin y) \/ (a \in y /\ a \notin x)
  BY DEF SymDiff, Word
<1> HIDE DEF D
<1>2. ASSUME Below(x, y)
      PROVE  \E b \in y \ x : \A a \in 0..63 : a > b => (a \in x <=> a \in y)
  <2>1. D # {} /\ Max(D) \in y
    BY <1>1, <1>2 DEF Below, D
  <2>2. Max(D) \in D /\ \A b \in D : b <= Max(D)
    BY <1>1, <2>1, HighestExists
  <2>3. Max(D) \in y \ x
    BY <1>1, <2>1, <2>2
  <2>4. Max(D) \in 0..63
    BY <1>1, <2>2
  <2>5. ASSUME NEW a \in D, a > Max(D) PROVE FALSE
    BY <1>1, <2>2, <2>4, <2>5
  <2> QED BY <1>1, <2>3, <2>5
<1>3. ASSUME NEW b \in y \ x, \A a \in 0..63 : a > b => (a \in x <=> a \in y)
      PROVE  Below(x, y)
  <2>1. b \in D /\ b \in 0..63
    BY <1>1
  <2>2. Max(D) \in D /\ \A a \in D : a <= Max(D)
    BY <1>1, <2>1, HighestExists
  <2>3. Max(D) \in 0..63 /\ ~ (Max(D) > b)
    BY <1>1, <1>3, <2>2
  <2>4. Max(D) = b
    BY <2>1, <2>2, <2>3
  <2> QED BY <1>1, <2>1, <2>4 DEF Below, D
<1> QED BY <1>2, <1>3

\* Numbers are totally ordered.
LEMMA BelowIsOrder ==
    /\ \A x \in Word : ~Below(x, x)
    /\ \A x, y \in Word : x # y => Below(x, y) \/ Below(y, x)
    /\ \A x, y, z \in Word : Below(x, y) /\ Below(y, z) => Below(x, z)
<1>1. \A x \in Word : ~Below(x, x)
  BY DEF Below
<1>2. ASSUME NEW x \in Word, NEW y \in Word, x # y
      PROVE  Below(x, y) \/ Below(y, x)
  <2>1. /\ SymDiff(x, y) \in SUBSET (0..63) /\ SymDiff(x, y) # {}
        /\ SymDiff(x, y) = SymDiff(y, x) /\ \A a \in SymDiff(x, y) : a \in x \/ a \in y
    BY <1>2 DEF SymDiff, Word
  <2>2. Max(SymDiff(x, y)) \in SymDiff(x, y)
    BY <2>1, HighestExists
  <2> QED BY <1>2, <2>1, <2>2 DEF Below
<1>3. ASSUME NEW x \in Word, NEW y \in Word, NEW z \in Word, Below(x, y), Below(y, z)
      PROVE  Below(x, z)
  <2>1. PICK b \in y \ x : \A a \in 0..63 : a > b => (a \in x <=> a \in y)
    BY <1>3, BelowByBit
  <2>2. PICK c \in z \ y : \A a \in 0..63 : a > c => (a \in y <=> a \in z)
    BY <1>3, BelowByBit
  <2>3. b \in 0..63 /\ c \in 0..63 /\ b # c
    BY <2>1, <2>2 DEF Word
  <2>4. CASE b > c
    <3>1. b \in z \ x
      BY <2>1, <2>2, <2>3, <2>4
    <3>2. \A a \in 0..63 : a > b => (a \in x <=> a \in z)
      BY <2>1, <2>2, <2>3, <2>4
    <3> QED BY <3>1, <3>2, BelowByBit
  <2>5. CASE c > b
    <3>1. c \in z \ x
      BY <2>1, <2>2, <2>3, <2>5
    <3>2. \A a \in 0..63 : a > c => (a \in x <=> a \in z)
      BY <2>1, <2>2, <2>3, <2>5
    <3> QED BY <3>1, <3>2, BelowByBit
  <2> QED BY <2>3, <2>4, <2>5
<1> QED BY <1>1, <1>2, <1>3

-----------------------------------------------------------------------------
(***************************************************************************)
(* The invariant.                                                           *)
(***************************************************************************)

\* A member with a place has its code as its score.
PlacedInv ==
    \A m \in DOMAIN placed :
        /\ m \in DOMAIN members /\ placed[m] \in Places
        /\ members[m] = encode(placed[m][1], placed[m][2])

SetInv == TypeOK /\ IsFiniteSet(scores) /\ TreeFollowsMembers /\ PlacedInv

\* The set is empty at first.
LEMMA InitSetInv == Init => SetInv
<1> SUFFICES ASSUME Init PROVE SetInv
  OBVIOUS
<1>1. DOMAIN members = {} /\ DOMAIN placed = {} /\ scores = {} /\ rescored = {}
  BY DEF Init, EmptyMap
<1>2. IsFiniteSet(scores)
  BY <1>1, FS_EmptySet
<1> QED BY <1>1, <1>2 DEF SetInv, TypeOK, TreeFollowsMembers, Current, PlacedInv

\* add, of ZADD and GEOADD, leaves the pair of the new score; the one of the old score,
\* which stays, is of a member that was rescored.
LEMMA AddKeeps ==
    ASSUME SetInv, NEW m \in Members, NEW score \in Scores \cup Codes, add(score, m)
    PROVE  /\ IsFiniteSet(scores') /\ TreeFollowsMembers'
           /\ DOMAIN members' \subseteq Members
           /\ \A x \in DOMAIN members' : members'[x] \in Scores \cup Codes
           /\ scores' \subseteq (Scores \cup Codes) \X Members
           /\ rescored' \subseteq Members
           /\ DOMAIN members' = DOMAIN members \cup {m} /\ members'[m] = score
           /\ \A x \in DOMAIN members : x # m => members'[x] = members[x]
<1>1. /\ DOMAIN members' = DOMAIN members \cup {m} /\ members'[m] = score
      /\ \A x \in DOMAIN members : x # m => members'[x] = members[x]
  BY DEF add, Put
<1>2. scores' = scores \cup {<<score, m>>}
  BY DEF add
<1>3. rescored \subseteq rescored' /\ rescored' \subseteq rescored \cup {m}
  BY DEF add
<1>4. m \in DOMAIN members /\ members[m] # score => m \in rescored'
  BY DEF add
<1>5. IsFiniteSet(scores')
  BY <1>2, FS_AddElement DEF SetInv
<1>6. Current' \subseteq scores'
  <2> SUFFICES ASSUME NEW x \in DOMAIN members'
               PROVE  <<members'[x], x>> \in scores'
    BY DEF Current
  <2> QED BY <1>1, <1>2 DEF SetInv, TreeFollowsMembers, Current
<1>7. ASSUME NEW p \in scores' \ Current'
      PROVE  p[2] \in rescored'
  <2>1. p # <<score, m>> /\ p \in scores
    BY <1>1, <1>2, <1>7 DEF Current
  <2>2. CASE p \in Current
    <3>1. PICK x \in DOMAIN members : p = <<members[x], x>>
      BY <2>2 DEF Current
    <3>2. CASE x = m
      BY <1>4, <2>1, <3>1, <3>2
    <3>3. CASE x # m
      BY <1>1, <1>7, <3>1, <3>3 DEF Current
    <3> QED BY <3>2, <3>3
  <2>3. CASE p \notin Current
    BY <1>3, <2>1, <2>3 DEF SetInv, TreeFollowsMembers
  <2> QED BY <2>2, <2>3
<1>8. TreeFollowsMembers'
  BY <1>6, <1>7 DEF TreeFollowsMembers
<1> QED BY <1>1, <1>2, <1>3, <1>5, <1>8 DEF SetInv, TypeOK

\* Every command preserves the invariant.
LEMMA StepSetInv ==
    ASSUME SetInv, [Next]_vars
    PROVE  SetInv'
<1>1. CASE cmd_zadd
  <2>1. PICK m \in Members, score \in Scores : add(score, m) /\ placed' = Without(placed, m)
    BY <1>1 DEF cmd_zadd
  <2>2. DOMAIN placed' = DOMAIN placed \ {m} /\ \A x \in DOMAIN placed' : placed'[x] = placed[x]
    BY <2>1 DEF Without, Restrict
  <2>3. PlacedInv'
    BY <2>1, <2>2, AddKeeps DEF SetInv, PlacedInv
  <2> QED BY <2>1, <2>2, <2>3, AddKeeps DEF SetInv, TypeOK
<1>2. CASE cmd_geoadd
  <2>1. PICK m \in Members, place \in Places :
           add(encode(place[1], place[2]), m) /\ placed' = Put(placed, m, place)
    BY <1>2 DEF cmd_geoadd
  <2>2. /\ DOMAIN placed' = DOMAIN placed \cup {m} /\ placed'[m] = place
        /\ \A x \in DOMAIN placed : x # m => placed'[x] = placed[x]
    BY <2>1 DEF Put
  <2>3. encode(place[1], place[2]) \in Scores \cup Codes
    BY DEF Codes
  <2>5. /\ DOMAIN members' = DOMAIN members \cup {m} /\ members'[m] = encode(place[1], place[2])
        /\ \A x \in DOMAIN members : x # m => members'[x] = members[x]
    BY <2>1, <2>3, AddKeeps
  <2>4. PlacedInv'
    <3> SUFFICES ASSUME NEW x \in DOMAIN placed'
                 PROVE  /\ x \in DOMAIN members' /\ placed'[x] \in Places
                        /\ members'[x] = encode(placed'[x][1], placed'[x][2])
      BY DEF PlacedInv
    <3>1. CASE x = m
      BY <2>2, <2>5, <3>1
    <3>2. CASE x # m
      BY <2>2, <2>5, <3>2 DEF SetInv, PlacedInv
    <3> QED BY <3>1, <3>2
  <2> QED BY <2>1, <2>2, <2>3, <2>4, AddKeeps DEF SetInv, TypeOK
<1>3. CASE cmd_zrem
  <2>1. PICK m \in Members : remove(m) /\ placed' = Without(placed, m)
    BY <1>3 DEF cmd_zrem
  <2>2. /\ DOMAIN placed' = DOMAIN placed \ {m} /\ \A x \in DOMAIN placed' : placed'[x] = placed[x]
        /\ DOMAIN members' = DOMAIN members \ {m} /\ \A x \in DOMAIN members' : members'[x] = members[x]
    BY <2>1 DEF remove, Without, Restrict
  <2>3. m \in DOMAIN members /\ scores' = scores \ {<<members[m], m>>} /\ rescored' = rescored
    BY <2>1 DEF remove
  <2>4. PlacedInv'
    BY <2>2 DEF SetInv, PlacedInv
  <2>5. IsFiniteSet(scores')
    BY <2>3, FS_RemoveElement DEF SetInv
  <2>6. TypeOK'
    BY <2>2, <2>3 DEF SetInv, TypeOK
  <2>7. Current' = Current \ {<<members[m], m>>}
    BY <2>2, <2>3 DEF Current
  <2>8. TreeFollowsMembers'
    BY <2>3, <2>7 DEF SetInv, TreeFollowsMembers
  <2> QED BY <2>4, <2>5, <2>6, <2>8 DEF SetInv
<1>4. CASE UNCHANGED vars
  BY <1>4 DEF vars, SetInv, TypeOK, TreeFollowsMembers, Current, PlacedInv
<1> QED BY <1>1, <1>2, <1>3, <1>4 DEF Next

\* The two indexes and the places, as an inductive invariant of every sequence of ZADD,
\* GEOADD and ZREM.
THEOREM SetInvCorrect == Spec => []SetInv
BY InitSetInv, StepSetInv, PTL DEF Spec

\* add and remove: the tree has the pair of each member's present score, and what else
\* it has is of a member that was rescored.
THEOREM TreeFollows == Spec => []TreeFollowsMembers
<1>1. SetInv => TreeFollowsMembers
  BY DEF SetInv
<1> QED BY <1>1, SetInvCorrect, PTL

\* cmd_geoadd and cmd_geopos: every cell of the grid comes back, through the 52 bits
\* that are interleaved and stored as an f64.
THEOREM PlacesComeBack == Spec => []GeoposIsWhereAdded
<1>1. SetInv => GeoposIsWhereAdded
  <2> SUFFICES ASSUME SetInv, NEW m \in DOMAIN placed
               PROVE  cmd_geopos(m) = <<placed[m][1], IF placed[m][1] = {STEP} THEN placed[m][2] \ {0}
                                                      ELSE placed[m][2]>>
    BY DEF GeoposIsWhereAdded
  <2>1. placed[m][1] \in Cells /\ placed[m][2] \in Cells
    BY SortedSetAssumption DEF SetInv, PlacedInv
  <2>2. cmd_geopos(m) = decode(encode(placed[m][1], placed[m][2]))
    BY DEF SetInv, PlacedInv, cmd_geopos
  <2> QED BY <2>1, <2>2, PlaceComesBack
<1> QED BY <1>1, SetInvCorrect, PTL

-----------------------------------------------------------------------------
(***************************************************************************)
(* Ranks.                                                                   *)
(***************************************************************************)

\* Every score is a word of 64 bits.
LEMMA ScoresAreWords == Scores \cup Codes \subseteq Word
<1>1. \A score \in Scores : score \in Word
  BY SortedSetAssumption DEF Word
<1>2. \A long, lat : encode(long, lat) \in Word
  <2>1. \A x : spread_u32_to_u64(x) \subseteq 0..63 /\ ShiftLeft(x, 1) \subseteq 0..63
    BY DEF spread_u32_to_u64, SpreadBy, Mask, ShiftLeft
  <2> QED BY <2>1 DEF encode, interleave, AsF64, Word
<1> QED BY <1>1, <1>2 DEF Codes

\* The pairs of the tree are totally ordered.
LEMMA BeforeIsOrder ==
    ASSUME TypeOK
    PROVE  /\ \A p \in scores : ~Before(p, p)
           /\ \A p, q \in scores : p # q => Before(p, q) \/ Before(q, p)
           /\ \A p, q, r \in scores : Before(p, q) /\ Before(q, r) => Before(p, r)
<1>1. \A p \in scores : p[1] \in Word /\ p[2] \in Nat /\ p = <<p[1], p[2]>>
  <2>1. \A p \in (Scores \cup Codes) \X Members :
           p[1] \in Scores \cup Codes /\ p[2] \in Members /\ p = <<p[1], p[2]>>
    OBVIOUS
  <2> QED BY <2>1, ScoresAreWords, SortedSetAssumption DEF TypeOK
<1>2. \A p \in scores : ~Before(p, p)
  BY <1>1, BelowIsOrder DEF Before
<1>3. ASSUME NEW p \in scores, NEW q \in scores, p # q
      PROVE  Before(p, q) \/ Before(q, p)
  <2>1. p[1] # q[1] \/ p[2] # q[2]
    BY <1>1, <1>3
  <2> QED BY <1>1, <2>1, BelowIsOrder DEF Before
<1>4. ASSUME NEW p \in scores, NEW q \in scores, NEW r \in scores, Before(p, q), Before(q, r)
      PROVE  Before(p, r)
  <2>1. p[2] \in Nat /\ q[2] \in Nat /\ r[2] \in Nat /\ p[1] \in Word /\ q[1] \in Word /\ r[1] \in Word
    BY <1>1
  <2>2. CASE Below(p[1], q[1]) /\ Below(q[1], r[1])
    BY <2>1, <2>2, BelowIsOrder DEF Before
  <2>3. CASE ~Below(p[1], q[1]) \/ ~Below(q[1], r[1])
    BY <1>4, <2>1, <2>3 DEF Before
  <2> QED BY <2>2, <2>3
<1> QED BY <1>2, <1>3, <1>4

\* Counting the pairs before it gives each pair a number of its own.
LEMMA PlaceIsOwn ==
    ASSUME TypeOK, IsFiniteSet(scores)
    PROVE  /\ Cardinality(scores) \in Nat
           /\ \A p \in scores : Place(p) \in Nat /\ Place(p) < Cardinality(scores)
           /\ \A p, q \in scores : Place(p) = Place(q) => p = q
<1> DEFINE B(p) == {q \in scores : Before(q, p)}
<1>1. \A p : B(p) \in SUBSET scores /\ IsFiniteSet(B(p)) /\ Cardinality(B(p)) \in Nat
  BY FS_Subset, FS_CardinalityType
<1>2. Cardinality(scores) \in Nat
  BY FS_CardinalityType
<1>3. ASSUME NEW S, IsFiniteSet(S), NEW T \in SUBSET S, T # S
      PROVE  Cardinality(T) < Cardinality(S)
  <2>1. Cardinality(T) <= Cardinality(S) /\ Cardinality(S) # Cardinality(T)
    BY <1>3, FS_Subset
  <2>2. Cardinality(T) \in Nat /\ Cardinality(S) \in Nat
    BY <1>3, FS_Subset, FS_CardinalityType
  <2> QED BY <2>1, <2>2
<1>4. ASSUME NEW p \in scores
      PROVE  Cardinality(B(p)) < Cardinality(scores)
  <2>1. p \notin B(p)
    BY BeforeIsOrder
  <2> QED BY <1>1, <1>3, <2>1
<1>5. ASSUME NEW p \in scores, NEW q \in scores, Before(p, q)
      PROVE  Cardinality(B(p)) < Cardinality(B(q))
  <2>1. B(p) \in SUBSET B(q)
    BY <1>5, BeforeIsOrder
  <2>2. p \in B(q) /\ p \notin B(p)
    BY <1>5, BeforeIsOrder
  <2> QED BY <1>1, <1>3, <2>1, <2>2
<1>6. \A p : Place(p) = Cardinality(B(p))
  BY DEF Place
<1> HIDE DEF B
<1>7. ASSUME NEW p \in scores, NEW q \in scores, Place(p) = Place(q), p # q
      PROVE  FALSE
  <2>1. Before(p, q) \/ Before(q, p)
    BY <1>7, BeforeIsOrder
  <2>2. Cardinality(B(p)) = Cardinality(B(q)) /\ Cardinality(B(p)) \in Nat
    BY <1>1, <1>6, <1>7
  <2> QED BY <1>5, <2>1, <2>2
<1> QED BY <1>1, <1>2, <1>4, <1>6, <1>7

\* A range of one item.
LEMMA SubSeqOfOne ==
    ASSUME NEW S, NEW s \in Seq(S), NEW i \in 1..Len(s)
    PROVE  SubSeq(s, i, i) = <<s[i]>>
<1>1. SubSeq(s, i, i) \in Seq(S) /\ Len(SubSeq(s, i, i)) = 1 /\ SubSeq(s, i, i)[1] = s[i]
  OBVIOUS
<1>2. <<s[i]>> \in Seq(S) /\ Len(<<s[i]>>) = 1 /\ <<s[i]>>[1] = s[i]
  OBVIOUS
<1>3. \A j \in 1..Len(SubSeq(s, i, i)) : SubSeq(s, i, i)[j] = <<s[i]>>[j]
  BY <1>1, <1>2
<1> QED BY <1>1, <1>2, <1>3, SeqEqual

\* rank_by_score and get_members count in the same order, from either end: ZRANK and
\* ZRANGE agree for every member, whatever pairs of old scores the tree has.
THEOREM RanksAgree == Spec => []RankMatchesRange
<1>1. ASSUME SetInv, NEW m \in DOMAIN members
      PROVE  LET r == rank_by_score(m)
                 n == Cardinality(scores)
             IN /\ get_members(r, r) = <<m>>
                /\ get_members(0, -1)[r + 1] = m
                /\ get_members(r - n, r - n) = <<m>>
  <2> DEFINE p == <<members[m], m>>
             r == Place(p)
             n == Cardinality(scores)
             at(k) == CHOOSE q \in scores : Place(q) = k
             name(i) == at(i - 1)[2]
             names == [i \in 1..n |-> name(i)]
  <2>1. p \in scores /\ p[2] = m
    BY <1>1 DEF SetInv, TreeFollowsMembers, Current
  <2>2. n \in Nat /\ r \in Nat /\ r < n
    BY <1>1, <2>1, PlaceIsOwn DEF SetInv
  <2>3. name(r + 1) = m
    <3>1. (r + 1) - 1 = r
      BY <2>2
    <3>2. \A q \in scores : Place(q) = r => q = p
      BY <1>1, <2>1, PlaceIsOwn DEF SetInv
    <3>3. ASSUME NEW k, k = r
          PROVE  at(k)[2] = m
      BY <2>1, <3>2, <3>3
    <3>4. at((r + 1) - 1)[2] = m
      <4> HIDE DEF at, r
      <4> QED BY <3>1, <3>3
    <3> QED BY <3>4
  <2> HIDE DEF name
  <2>4. names \in Seq({name(i) : i \in 1..n}) /\ Len(names) = n
    BY <2>2
  <2>5. names[r + 1] = m
    BY <2>2, <2>3
  <2>6. \A i \in Int : Index(i) = IF i >= 0 THEN i ELSE IF n + i < 0 THEN 0 ELSE n + i
    BY DEF Index
  <2>7. \A i, j \in Int : get_members(i, j) =
           IF Index(j) < Index(i) THEN <<>>
           ELSE SubSeq(names, Index(i) + 1, IF Index(j) < n THEN Index(j) + 1 ELSE n)
    BY DEF get_members, name
  <2> HIDE DEF n, r, p, names
  <2>8. SubSeq(names, r + 1, r + 1) = <<m>>
    BY <2>2, <2>4, <2>5, SubSeqOfOne
  <2>13. Index(r) = r /\ Index(r - n) = r /\ Index(0) = 0 /\ Index(-1) = n - 1
    BY <2>2, <2>6
  <2>9. get_members(r, r) = <<m>>
    <3>1. get_members(r, r) = IF Index(r) < Index(r) THEN <<>>
              ELSE SubSeq(names, Index(r) + 1, IF Index(r) < n THEN Index(r) + 1 ELSE n)
      BY <2>2, <2>7
    <3> QED BY <2>2, <2>8, <2>13, <3>1
  <2>10. get_members(r - n, r - n) = <<m>>
    <3>1. get_members(r - n, r - n) = IF Index(r - n) < Index(r - n) THEN <<>>
              ELSE SubSeq(names, Index(r - n) + 1, IF Index(r - n) < n THEN Index(r - n) + 1 ELSE n)
      <4>1. r - n \in Int
        BY <2>2
      <4> QED BY <4>1, <2>7
    <3>2. ASSUME NEW k, k = r
          PROVE  (IF k < k THEN <<>> ELSE SubSeq(names, k + 1, IF k < n THEN k + 1 ELSE n)) = <<m>>
      BY <2>2, <2>8, <3>2
    <3> QED BY <2>13, <3>1, <3>2
  <2>11. SubSeq(names, 1, n)[r + 1] = names[r + 1]
    BY <2>2, <2>4
  <2>12. get_members(0, -1) = SubSeq(names, 1, n)
    <3>1. get_members(0, -1) = IF Index(-1) < Index(0) THEN <<>>
              ELSE SubSeq(names, Index(0) + 1, IF Index(-1) < n THEN Index(-1) + 1 ELSE n)
      BY <2>7
    <3> QED BY <2>2, <2>13, <3>1
  <2> QED BY <2>5, <2>9, <2>10, <2>11, <2>12 DEF rank_by_score, r, n, p
<1>2. SetInv => RankMatchesRange
  BY <1>1 DEF RankMatchesRange
<1> QED BY <1>2, SetInvCorrect, PTL

-----------------------------------------------------------------------------
(***************************************************************************)
(* The other ordered collection, a stream: StreamIds, for any width of the  *)
(* ids, any clock and any number of entries.                                *)
(***************************************************************************)

\* The ids a stream can have: both parts are u64.
U64Id == (0..U64_MAX) \X (0..U64_MAX)

\* The entries are numbered in the order of their ids.
InOrder == \A x, y \in DOMAIN stream : Above(x, y) => stream[x] > stream[y]

\* The parts of the invariant that hold while generated ids come in order.
OrderInv ==
    /\ <<0, 0>> \notin DOMAIN stream
    /\ InOrder
    /\ {stream[id] : id \in DOMAIN stream} = 1..added
    /\ \A id \in DOMAIN stream : stream[id] \in got <=> ~Above(id, cursor)

IdInv ==
    /\ now \in 1..MaxTime
    /\ DOMAIN stream \subseteq U64Id
    /\ \A id \in DOMAIN stream : stream[id] \in 1..added
    /\ added \in Nat
    /\ cursor \in U64Id
    /\ cursor = <<0, 0>> \/ cursor \in DOMAIN stream
    /\ got \subseteq 1..added
    /\ alive \in BOOLEAN /\ disordered \in BOOLEAN
    /\ ~disordered => OrderInv

-----------------------------------------------------------------------------
\* Above is a strict total order.
LEMMA AboveIsOrder ==
    /\ \A x \in U64Id : ~Above(x, x)
    /\ \A x, y \in U64Id : x = y \/ Above(x, y) \/ Above(y, x)
    /\ \A x, y \in U64Id : ~(Above(x, y) /\ Above(y, x))
    /\ \A x, y, z \in U64Id : Above(x, y) /\ Above(y, z) => Above(x, z)
    /\ \A x \in U64Id : x # <<0, 0>> => Above(x, <<0, 0>>)
    /\ \A x \in U64Id : ~Above(<<0, 0>>, x)
    /\ <<0, 0>> \in U64Id
<1>0. U64_MAX \in Nat
  BY StreamIdsAssumption
<1>1. \A x \in U64Id : x[1] \in Nat /\ x[2] \in Nat /\ x = <<x[1], x[2]>>
  BY <1>0 DEF U64Id
<1> QED BY <1>0, <1>1 DEF Above, U64Id

\* What the forms of XADD make is an id.
LEMMA MadeIds ==
    /\ \A t \in 0..MaxTime, i \in 0..U64_MAX : <<t, i>> \in U64Id
    /\ 0 \in 0..U64_MAX /\ 1 \in 0..U64_MAX /\ 1..MaxTime \subseteq 0..MaxTime
<1>1. U64_MAX \in Nat /\ MaxTime \in 1..U64_MAX
  BY StreamIdsAssumption
<1>2. 0..MaxTime \subseteq 0..U64_MAX
  BY <1>1
<1>3. 0 \in 0..U64_MAX /\ 1 \in 0..U64_MAX /\ 1..MaxTime \subseteq 0..MaxTime
  BY <1>1
<1> QED BY <1>2, <1>3 DEF U64Id

\* An entry with an id above the others, or at any id once the order is lost.
LEMMA InsertKeeps ==
    ASSUME IdInv, NEW id \in U64Id, InsertEntry(id), disordered' \in BOOLEAN,
           ~disordered' => ~disordered /\ AboveAll(id) /\ id # <<0, 0>>
    PROVE  IdInv'
<1>1. PICK n \in Nat : n = added + 1 /\ n = added'
  BY DEF IdInv, InsertEntry
<1>2. /\ DOMAIN stream' = DOMAIN stream \cup {id} /\ stream'[id] = n
      /\ \A x \in DOMAIN stream : x # id => stream'[x] = stream[x]
      /\ UNCHANGED <<now, cursor, got, alive>>
  BY <1>1 DEF InsertEntry, Put
<1>3. 1..n = 1..added \cup {n} /\ n \notin 1..added /\ n \in 1..n
  BY <1>1 DEF IdInv
<1>4. /\ DOMAIN stream' \subseteq U64Id /\ \A x \in DOMAIN stream' : stream'[x] \in 1..n
      /\ got' \subseteq 1..n /\ (cursor' = <<0, 0>> \/ cursor' \in DOMAIN stream')
  BY <1>2, <1>3 DEF IdInv
<1>5. ASSUME ~disordered' PROVE OrderInv'
  <2>0. /\ OrderInv /\ AboveAll(id) /\ id # <<0, 0>> /\ DOMAIN stream \subseteq U64Id
        /\ \A x \in DOMAIN stream : stream[x] \in 1..added
    BY <1>5 DEF IdInv
  <2>1. id \notin DOMAIN stream
    BY <2>0, AboveIsOrder DEF AboveAll
  <2>2. \A x \in DOMAIN stream : Above(id, x) /\ ~Above(x, id) /\ stream'[x] = stream[x]
    BY <1>2, <2>0, <2>1, AboveIsOrder DEF AboveAll
  <2>3. <<0, 0>> \notin DOMAIN stream'
    BY <1>2, <2>0 DEF OrderInv
  <2>4. InOrder'
    <3> SUFFICES ASSUME NEW x \in DOMAIN stream', NEW y \in DOMAIN stream', Above(x, y)
                 PROVE  stream'[x] > stream'[y]
      BY DEF InOrder, Above
    <3>1. CASE x = id
      <4>1. y \in DOMAIN stream
        BY <1>2, <3>1, AboveIsOrder
      <4>2. stream'[x] = n /\ stream'[y] = stream[y] /\ stream[y] \in 1..added
        BY <1>2, <2>0, <2>2, <3>1, <4>1
      <4> QED BY <1>1, <4>2 DEF IdInv
    <3>2. CASE x # id
      <4>1. x \in DOMAIN stream /\ y \in DOMAIN stream
        BY <1>2, <2>2, <3>2
      <4> QED BY <2>0, <2>2, <4>1 DEF OrderInv, InOrder
    <3> QED BY <3>1, <3>2
  <2>5. {stream'[x] : x \in DOMAIN stream'} = 1..n
    <3>1. {stream'[x] : x \in DOMAIN stream'} = {stream[x] : x \in DOMAIN stream} \cup {n}
      BY <1>2, <2>2
    <3> QED BY <1>3, <2>0, <3>1 DEF OrderInv
  <2>6. Above(id, cursor)
    BY <2>0, <2>2, AboveIsOrder DEF IdInv
  <2>7. n \notin got
    BY <1>3 DEF IdInv
  <2>8. \A x \in DOMAIN stream' : stream'[x] \in got <=> ~Above(x, cursor)
    BY <1>2, <2>0, <2>2, <2>6, <2>7 DEF OrderInv
  <2> QED BY <1>1, <1>2, <2>3, <2>4, <2>5, <2>8 DEF OrderInv, Above
<1>6. ~disordered' => OrderInv'
  BY <1>5
<1>7. now' \in 1..MaxTime /\ added' \in Nat /\ cursor' \in U64Id /\ alive' \in BOOLEAN
  BY <1>1, <1>2 DEF IdInv
<1> QED BY <1>1, <1>4, <1>6, <1>7 DEF IdInv

\* A generated id: the history remembers when it was not above the others.
LEMMA GeneratedKeeps ==
    ASSUME IdInv, NEW id \in U64Id, InsertGenerated(id),
           id = <<0, 0>> => DOMAIN stream # {}
    PROVE  IdInv'
<1>1. InsertEntry(id) /\ disordered' = (disordered \/ \E x \in DOMAIN stream : ~Above(id, x))
  BY DEF InsertGenerated
<1>2. disordered' \in BOOLEAN
  BY <1>1
<1>3. ~disordered' => ~disordered /\ AboveAll(id)
  BY <1>1 DEF AboveAll
<1>4. AboveAll(id) => id # <<0, 0>>
  BY AboveIsOrder DEF AboveAll, IdInv
<1> QED BY <1>1, <1>2, <1>3, <1>4, InsertKeeps

\* XREAD takes a portion of what is behind the cursor and moves the cursor to its end.
LEMMA ReadKeeps ==
    ASSUME IdInv, NEW all \in BOOLEAN, Read(all)
    PROVE  IdInv'
<1>1. PICK last \in _extract_stream_entries(cursor) :
        /\ got' = got \cup {stream[x] : x \in {y \in _extract_stream_entries(cursor) :
                                                 ~Above(y, last)}}
        /\ cursor' = last
  BY DEF Read
<1>2. UNCHANGED <<now, stream, added, alive, disordered>>
  BY DEF Read
<1>3. /\ last \in DOMAIN stream /\ Above(last, cursor) /\ last \in U64Id /\ cursor \in U64Id
      /\ DOMAIN stream \subseteq U64Id
  BY <1>1 DEF _extract_stream_entries, IdInv
<1>4. PICK read : /\ read = {x \in DOMAIN stream : Above(x, cursor) /\ ~Above(x, last)}
                  /\ got' = got \cup {stream[x] : x \in read}
  BY <1>1 DEF _extract_stream_entries
<1>5. got' \subseteq 1..added
  BY <1>4 DEF IdInv
<1>6. ASSUME ~disordered PROVE OrderInv'
  <2>0. OrderInv
    BY <1>6 DEF IdInv
  <2>1. \A x, y \in DOMAIN stream : stream[x] = stream[y] => x = y
    <3> SUFFICES ASSUME NEW x \in DOMAIN stream, NEW y \in DOMAIN stream, x # y
                 PROVE  stream[x] # stream[y]
      OBVIOUS
    <3>1. Above(x, y) \/ Above(y, x)
      BY <1>3, AboveIsOrder
    <3>2. stream[x] > stream[y] \/ stream[y] > stream[x]
      BY <2>0, <3>1 DEF OrderInv, InOrder
    <3>3. stream[x] \in Int /\ stream[y] \in Int
      BY DEF IdInv
    <3> QED BY <3>2, <3>3
  <2>2. ASSUME NEW id \in DOMAIN stream
        PROVE  stream[id] \in got' <=> ~Above(id, last)
    <3>1. stream[id] \in got <=> ~Above(id, cursor)
      BY <2>0 DEF OrderInv
    <3>2. stream[id] \in {stream[x] : x \in read} <=> id \in read
      BY <1>4, <2>1
    <3>3. Above(id, last) => Above(id, cursor)
      BY <1>3, AboveIsOrder
    <3> QED BY <1>4, <3>1, <3>2, <3>3
  <2>3. InOrder'
    BY <1>2, <2>0 DEF OrderInv, InOrder, Above
  <2> QED BY <1>1, <1>2, <2>0, <2>2, <2>3 DEF OrderInv, Above
<1> QED BY <1>1, <1>2, <1>3, <1>5, <1>6 DEF IdInv

\* Every step keeps the invariant.
LEMMA NextIdInv ==
    ASSUME IdInv, [IdsNext]_id_vars
    PROVE  IdInv'
<1>0. U64_MAX \in Nat /\ MaxTime \in 1..U64_MAX
  BY StreamIdsAssumption
<1>1. ASSUME NEW t \in 0..MaxTime, XaddPartial(t)
      PROVE  IdInv'
  <2>1. CASE DOMAIN stream = {}
    <3>1. PICK seq \in 0..U64_MAX : seq = IF t = 0 THEN 1 ELSE 0
      BY MadeIds
    <3>2. PICK id \in U64Id : id = <<t, seq>>
      BY MadeIds
    <3>3. id # <<0, 0>>
      BY <3>1, <3>2
    <3>4. InsertGenerated(id)
      BY <1>1, <2>1, <3>1, <3>2 DEF XaddPartial, IsTop
    <3> QED BY <3>3, <3>4, GeneratedKeeps
  <2>2. CASE DOMAIN stream # {}
    <3>1. PICK top \in DOMAIN stream :
            InsertGenerated(<<t, IF t = top[1] THEN (top[2] + 1) % (U64_MAX + 1) ELSE 0>>)
      BY <1>1, <2>2 DEF XaddPartial
    <3>2. top[2] \in Nat
      BY <1>0 DEF IdInv, U64Id
    <3>3. (top[2] + 1) % (U64_MAX + 1) \in 0..U64_MAX
      BY <1>0, <3>2
    <3>4. PICK seq \in 0..U64_MAX :
            seq = IF t = top[1] THEN (top[2] + 1) % (U64_MAX + 1) ELSE 0
      BY <3>3, MadeIds
    <3>5. PICK id \in U64Id : id = <<t, seq>>
      BY MadeIds
    <3> QED BY <2>2, <3>1, <3>4, <3>5, GeneratedKeeps
  <2> QED BY <2>1, <2>2
<1>2. ASSUME NEW t \in 0..MaxTime, NEW i \in 0..U64_MAX, XaddExplicit(t, i)
      PROVE  IdInv'
  <2>1. PICK id \in U64Id : id = <<t, i>>
    BY MadeIds
  <2>2. InsertEntry(id) /\ AboveAll(id) /\ id # <<0, 0>> /\ disordered' = disordered
    BY <1>2, <2>1 DEF XaddExplicit
  <2>3. disordered' \in BOOLEAN
    BY <2>2 DEF IdInv
  <2> QED BY <2>2, <2>3, InsertKeeps
<1>3. CASE XaddAuto
  <2>1. now \in 1..MaxTime
    BY DEF IdInv
  <2>2. PICK id \in U64Id : id = <<now, 0>>
    BY <2>1, MadeIds
  <2>3. id # <<0, 0>>
    BY <2>1, <2>2
  <2> QED BY <1>3, <2>2, <2>3, GeneratedKeeps DEF XaddAuto
<1>4. ASSUME UNCHANGED <<stream, added, cursor, got, disordered>>,
             now' \in 1..MaxTime, alive' \in BOOLEAN
      PROVE  IdInv'
  <2>1. OrderInv' <=> OrderInv
    BY <1>4 DEF OrderInv, InOrder, Above
  <2> QED BY <1>4, <2>1 DEF IdInv
<1>5. ASSUME NEW start \in Ends, NEW end \in Ends, cmd_xrange(start, end)
      PROVE  IdInv'
  <2>1. alive' \in BOOLEAN
    BY <1>5 DEF cmd_xrange
  <2>2. now' \in 1..MaxTime
    BY <1>5 DEF cmd_xrange, IdInv
  <2> QED BY <1>4, <1>5, <2>1, <2>2 DEF cmd_xrange
<1>6. CASE Tick
  <2>1. now' \in 1..MaxTime
    BY <1>0, <1>6 DEF Tick, IdInv
  <2>2. alive' \in BOOLEAN
    BY <1>6 DEF Tick, IdInv
  <2> QED BY <1>4, <1>6, <2>1, <2>2 DEF Tick
<1>7. CASE UNCHANGED id_vars
  <2>1. now' \in 1..MaxTime
    BY <1>7 DEF id_vars, IdInv
  <2>2. alive' \in BOOLEAN
    BY <1>7 DEF id_vars, IdInv
  <2> QED BY <1>4, <1>7, <2>1, <2>2 DEF id_vars
<1> QED BY <1>1, <1>2, <1>3, <1>5, <1>6, <1>7, ReadKeeps DEF IdsNext

\* An empty stream satisfies the invariant.
LEMMA InitIdInv ==
    ASSUME IdsInit
    PROVE  IdInv
<1>1. now \in 1..MaxTime /\ cursor \in U64Id
  BY StreamIdsAssumption, AboveIsOrder DEF IdsInit
<1>2. alive \in BOOLEAN /\ disordered \in BOOLEAN
  BY DEF IdsInit
<1>3. DOMAIN stream = {} /\ added = 0 /\ got = {} /\ cursor = <<0, 0>>
  BY DEF IdsInit, EmptyMap
<1>4. OrderInv
  <2>1. 1..0 = {}
    OBVIOUS
  <2> QED BY <1>3, <2>1 DEF OrderInv, InOrder
<1> QED BY <1>1, <1>2, <1>3, <1>4 DEF IdInv

\* The invariant of a stream and its consumer holds for any constants: as long as
\* generated ids come in order, ids and entries are in the same order.
THEOREM IdInvCorrect == IdsSpec => []IdInv
<1>1. IdsInit => IdInv
  BY InitIdInv
<1>2. IdInv /\ [IdsNext]_id_vars => IdInv'
  BY NextIdInv
<1> QED BY <1>1, <1>2, PTL DEF IdsSpec

-----------------------------------------------------------------------------
\* The ids are u64 pairs and, while generated ids come in order, never 0-0, which
\* XADD refuses and XREAD takes for the beginning.
THEOREM IdsTyped == IdsSpec => []IdsTypeOK
<1>1. IdInv => IdsTypeOK
  <2> SUFFICES ASSUME IdInv PROVE IdsTypeOK
    OBVIOUS
  <2>1. alive \in BOOLEAN /\ disordered \in BOOLEAN
    BY DEF IdInv
  <2>2. U64Id \subseteq Id
    BY StreamIdsAssumption DEF U64Id, Id
  <2>3. now \in Nat /\ got \subseteq Nat
    BY StreamIdsAssumption DEF IdInv
  <2>4. ~disordered => <<0, 0>> \notin DOMAIN stream
    BY DEF IdInv, OrderInv
  <2> QED BY <2>1, <2>2, <2>3, <2>4 DEF IdInv, IdsTypeOK
<1> QED BY <1>1, IdInvCorrect, PTL

\* cmd_xadd overwrites no entry while generated ids come in order.
THEOREM NoEntryLost == IdsSpec => []EntriesAreKept
<1>1. IdInv => EntriesAreKept
  BY DEF IdInv, OrderInv, EntriesAreKept
<1> QED BY <1>1, IdInvCorrect, PTL

\* A consumer that passes the last id it saw to XREAD gets every entry, whatever the
\* portions and whenever entries are added, while generated ids come in order.
THEOREM NothingMissed == IdsSpec => []ConsumerMissesNothing
<1>1. IdInv => ConsumerMissesNothing
  BY DEF IdInv, OrderInv, ConsumerMissesNothing
<1> QED BY <1>1, IdInvCorrect, PTL

\* XRANGE and XREAD of one stream agree, and the defaults of XRANGE for a missing
\* sequence number cover a whole millisecond, whether or not ids came in order.
THEOREM RangesAgree == IdsSpec => []XrangeAgreesWithXread
<1>1. IdInv => XrangeAgreesWithXread
  <2> SUFFICES ASSUME IdInv PROVE XrangeAgreesWithXread
    OBVIOUS
  <2>0. U64_MAX \in Nat /\ DOMAIN stream \subseteq U64Id
    BY StreamIdsAssumption DEF IdInv
  <2>1. \A x \in DOMAIN stream : x[1] \in 0..U64_MAX /\ x[2] \in 0..U64_MAX /\ x = <<x[1], x[2]>>
    BY <2>0 DEF U64Id
  <2>2. ASSUME NEW id \in DOMAIN stream
        PROVE  InRange(id, <<U64_MAX, U64_MAX>>) = {id} \cup _extract_stream_entries(id)
    <3>1. FirstOf(id) = id
      BY <2>0, <2>1 DEF FirstOf, NoSeq
    <3>2. LastOf(<<U64_MAX, U64_MAX>>) = <<U64_MAX, U64_MAX>>
      BY <2>0 DEF LastOf, NoSeq
    <3>3. \A x \in DOMAIN stream : ~Above(x, <<U64_MAX, U64_MAX>>)
      BY <2>0, <2>1 DEF Above
    <3>4. \A x \in DOMAIN stream : ~Above(id, x) <=> x = id \/ Above(x, id)
      BY <2>0, AboveIsOrder
    <3> QED BY <3>1, <3>2, <3>3, <3>4 DEF InRange, _extract_stream_entries
  <2>3. ASSUME NEW t \in 0..U64_MAX
        PROVE  InRange(<<t, NoSeq>>, <<t, NoSeq>>) = {x \in DOMAIN stream : x[1] = t}
    <3>1. FirstOf(<<t, NoSeq>>) = <<t, 0>> /\ LastOf(<<t, NoSeq>>) = <<t, U64_MAX>>
      BY DEF FirstOf, LastOf
    <3>2. \A x \in DOMAIN stream :
            ~Above(<<t, 0>>, x) /\ ~Above(x, <<t, U64_MAX>>) <=> x[1] = t
      BY <2>0, <2>1 DEF Above
    <3> QED BY <3>1, <3>2 DEF InRange
  <2> QED BY <2>2, <2>3 DEF XrangeAgreesWithXread
<1> QED BY <1>1, IdInvCorrect, PTL

=============================================================================
