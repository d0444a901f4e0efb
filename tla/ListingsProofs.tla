---------------------------- MODULE ListingsProofs ----------------------------
(***************************************************************************)
(* What a walk through a listing misses and sees twice, for every table,   *)
(* limit and length of the walk.  The argument is about ranks: the rank of *)
(* a place is the number of places before it, a row whose place is its     *)
(* own stands in the page that has its rank, and as long as no place       *)
(* before it is left (taken) the rank never falls (rises).                 *)
(***************************************************************************)
EXTENDS Listings, FiniteSetTheorems, TLAPS

-----------------------------------------------------------------------------
(* Type correctness *)

\* A table of rows keeps the places that are followed among its own.
LEMMA WriteType ==
    ASSUME TypeOK, NEW table \in [Rows -> Row \cup {NoRow}], Write(table)
    PROVE  TypeOK'
  BY DEF TypeOK, Write, Places, Sorts

LEMMA InitType == Init => TypeOK
<1> SUFFICES ASSUME Init PROVE TypeOK
  OBVIOUS
<1>1. clock \in Keys /\ rows \in [Rows -> Row \cup {NoRow}]
  BY ListingsAssumption DEF Init, Keys
<1>2. walk \in [stage : {"before", "page", "count", "over"}, offset : Nat]
  BY DEF Init
<1>3. shown \in [Rows -> 0..2]
  BY DEF Init
<1>4. sort \in [field : listing.sorts, order : {"asc", "desc"}]
  BY DEF Init, Sorts
<1>5. QED
  BY <1>1, <1>2, <1>3, <1>4 DEF Init, TypeOK

LEMMA TypeStep == TypeOK /\ [Next]_vars => TypeOK'
<1> SUFFICES ASSUME TypeOK, [Next]_vars PROVE TypeOK'
  OBVIOUS
<1>1. ASSUME NEW r \in Rows, NEW key \in Keys, NEW state \in {"in", "out"},
             Insert(r, key, state) \/ Change(r, key, state)
      PROVE  TypeOK'
  <2>1. [key |-> key, state |-> state] \in Row
    BY DEF Row
  <2>2. [rows EXCEPT ![r] = [key |-> key, state |-> state]] \in [Rows -> Row \cup {NoRow}]
    BY <2>1 DEF TypeOK
  <2>3. QED
    BY <1>1, <2>2, WriteType DEF Insert, Change
<1>2. ASSUME NEW r \in Rows, Erase(r) PROVE TypeOK'
  <2>1. [rows EXCEPT ![r] = NoRow] \in [Rows -> Row \cup {NoRow}]
    BY DEF TypeOK
  <2>2. QED
    BY <1>2, <2>1, WriteType DEF Erase
<1>3. CASE Begin
  BY <1>3 DEF TypeOK, Begin, Places
<1>4. CASE ReadPage
  <2>1. shown' \in [Rows -> 0..2]
    BY <1>4 DEF TypeOK, ReadPage
  <2>2. walk' \in [stage : {"before", "page", "count", "over"}, offset : Nat]
    BY <1>4 DEF TypeOK, ReadPage
  <2>3. QED
    BY <1>4, <2>1, <2>2 DEF TypeOK, ReadPage, Places
<1>5. CASE ReadCount
  <2>1. walk' \in [stage : {"before", "page", "count", "over"}, offset : Nat]
    BY <1>5, ListingsAssumption DEF TypeOK, ReadCount, Answered
  <2>2. QED
    BY <1>5, <2>1 DEF TypeOK, ReadCount, Places
<1>6. CASE Tick
  BY <1>6, ListingsAssumption DEF TypeOK, Tick, Keys, Places
<1>7. CASE UNCHANGED vars
  BY <1>7 DEF TypeOK, vars, Places
<1>8. QED
  BY <1>1, <1>2, <1>3, <1>4, <1>5, <1>6, <1>7 DEF Next

\* The state that TypeOK describes is never left: the pages of a walk, the sorts
\* of a listing and the places it follows are what the operations take them for.
THEOREM TypeCorrect == Spec => []TypeOK
  BY InitType, TypeStep, PTL DEF Spec

-----------------------------------------------------------------------------
(* The rank of a place.  It is where the place stands in every order that  *)
(* the database may return, provided that its key is its alone.            *)

Before(p) == {q \in Places(rows) : Sooner(q, p)}

Rank(p) == Cardinality(Before(p))

Alone(p) == \A q \in Places(rows) : ~Tied(q, p)

\* How many places of the listing the pages read so far have covered.
Passed == IF walk.stage = "count" THEN walk.offset + Limit ELSE walk.offset

\* The walk has seen a row that keeps its place just when its rank is among
\* those passed.  While no place before it is left, the rank of an unseen row
\* does not fall below them; while none is taken, that of a seen one does not
\* rise above them, and it is not seen again.
WalkInv ==
    /\ walk.stage = "before" => kept = {} /\ \A r \in Rows : shown[r] = 0
    /\ walk.stage = "over" => Cardinality(Places(rows)) <= Passed
    /\ \A p \in kept \ advanced :
           Alone(p) /\ (shown[p[1]] = 0 => Passed <= Rank(p))
    /\ \A p \in kept \ delayed :
           Alone(p) /\ shown[p[1]] < 2 /\ (shown[p[1]] > 0 => Rank(p) < Passed)

LEMMA PlacesFinite ==
    ASSUME TypeOK
    PROVE  IsFiniteSet(Places(rows)) /\ Cardinality(Places(rows)) \in Nat
<1>1. IsFiniteSet(Keys)
  BY FS_Interval, ListingsAssumption DEF Keys
<1>2. IsFiniteSet(Rows \X Keys)
  BY <1>1, FS_Product, ListingsAssumption
<1>3. Places(rows) \in SUBSET (Rows \X Keys)
  BY DEF Places, TypeOK, Row, NoRow
<1>4. QED
  BY <1>2, <1>3, FS_Subset, FS_CardinalityType

\* A place is a row and a key, and a row has one of them at most.
OnePlaceEach ==
    \A p \in Places(rows) :
        /\ p[1] \in Rows /\ p[2] \in Nat
        /\ \A q \in Places(rows) : q[1] = p[1] => q = p

LEMMA OnePlace == TypeOK => OnePlaceEach
  BY ListingsAssumption DEF OnePlaceEach, Places, TypeOK, Row, NoRow, Keys

\* There are finitely many places before one, and fewer than there are places.
RanksTyped ==
    \A p \in Places(rows) :
        /\ IsFiniteSet(Before(p))
        /\ Rank(p) \in Nat /\ Rank(p) < Cardinality(Places(rows))

LEMMA RankType == TypeOK => RanksTyped
<1> SUFFICES ASSUME TypeOK, NEW p \in Places(rows)
             PROVE  /\ IsFiniteSet(Before(p))
                    /\ Rank(p) \in Nat /\ Rank(p) < Cardinality(Places(rows))
  BY DEF RanksTyped
<1>1. Before(p) \in SUBSET Places(rows) /\ p \notin Before(p)
  BY OnePlace DEF OnePlaceEach, Before, Sooner
<1>2. Before(p) # Places(rows)
  BY <1>1
<1>3. /\ IsFiniteSet(Before(p))
      /\ Cardinality(Before(p)) <= Cardinality(Places(rows))
      /\ Cardinality(Places(rows)) = Cardinality(Before(p)) => Places(rows) = Before(p)
  BY <1>1, PlacesFinite, FS_Subset
<1>4. Cardinality(Before(p)) \in Nat
  BY <1>3, FS_CardinalityType
<1>5. QED
  BY <1>2, <1>3, <1>4, PlacesFinite DEF Rank

LEMMA TypesNext == TypeOK' => OnePlaceEach' /\ RanksTyped'
  BY OnePlace, RankType, PTL

\* Every order of the listing names each of its places once.
LEMMA OrderedAll ==
    ASSUME TypeOK, NEW s \in Ordered(rows)
    PROVE  /\ s \in Injection(1..Cardinality(Places(rows)), Places(rows))
           /\ s \in Surjection(1..Cardinality(Places(rows)), Places(rows))
           /\ DOMAIN s = 1..Cardinality(Places(rows))
<1> DEFINE N == Cardinality(Places(rows))
<1>1. s \in Injection(1..N, Places(rows)) /\ DOMAIN s = 1..N
  BY DEF Ordered, SetToSeqs, Injection, IsInjective
<1>2. Cardinality(1..N) = N
  BY PlacesFinite, FS_Interval
<1>3. s \in Surjection(1..N, Places(rows))
  BY <1>1, <1>2, PlacesFinite, FS_Injection
<1>4. QED
  BY <1>1, <1>3

\* Whatever order the database returns, a place with a key of its own comes
\* right after those before it.
LEMMA RankIsPosition ==
    ASSUME TypeOK, NEW s \in Ordered(rows), NEW j \in DOMAIN s, Alone(s[j])
    PROVE  Rank(s[j]) = j - 1
<1> DEFINE N == Cardinality(Places(rows))
           g == [i \in 1..(j - 1) |-> s[i]]
<1>1. N \in Nat /\ j \in 1..N /\ DOMAIN s = 1..N
  BY OrderedAll, PlacesFinite
<1>2. /\ \A i \in 1..N : s[i] \in Places(rows)
      /\ \A i, k \in 1..N : s[i] = s[k] => i = k
      /\ \A q \in Places(rows) : \E i \in 1..N : s[i] = q
  BY OrderedAll DEF Injection, Surjection, IsInjective
<1>3. \A i, k \in 1..N : i < k => ~Sooner(s[k], s[i])
  BY <1>1 DEF Ordered
<1>4. ASSUME NEW i \in 1..(j - 1) PROVE s[i] \in Before(s[j])
  <2>1. i \in 1..N /\ i < j
    BY <1>1
  <2>2. s[i] \in Places(rows) /\ s[j] \in Places(rows) /\ s[i] # s[j] /\ ~Sooner(s[j], s[i])
    BY <1>1, <1>2, <1>3, <2>1
  <2>3. s[i][2] # s[j][2]
    BY <2>2 DEF Alone, Tied
  <2>4. s[i][2] \in Nat /\ s[j][2] \in Nat
    BY <2>2, OnePlace DEF OnePlaceEach
  <2>5. QED
    BY <2>2, <2>3, <2>4 DEF Before, Sooner
<1>5. ASSUME NEW q \in Before(s[j]) PROVE \E i \in 1..(j - 1) : s[i] = q
  <2>1. q \in Places(rows) /\ s[j] \in Places(rows) /\ Sooner(q, s[j])
    BY <1>1, <1>2 DEF Before
  <2>2. PICK i \in 1..N : s[i] = q
    BY <1>2, <2>1
  <2>3. q[2] \in Nat /\ s[j][2] \in Nat
    BY <2>1, OnePlace DEF OnePlaceEach
  <2>4. i # j
    BY <2>1, <2>2, <2>3 DEF Sooner
  <2>5. ~(j < i)
    BY <1>1, <1>3, <2>1, <2>2
  <2>6. i \in 1..(j - 1)
    BY <1>1, <2>4, <2>5
  <2>7. QED
    BY <2>2, <2>6
<1>6. g \in Bijection(1..(j - 1), Before(s[j]))
  <2>1. g \in [1..(j - 1) -> Before(s[j])]
    BY <1>4
  <2>2. \A i, k \in 1..(j - 1) : g[i] = g[k] => i = k
    BY <1>1, <1>2
  <2>3. \A q \in Before(s[j]) : \E i \in 1..(j - 1) : g[i] = q
    BY <1>5
  <2>4. QED
    BY <2>1, <2>2, <2>3 DEF Bijection, Injection, Surjection, IsInjective
<1>7. IsFiniteSet(1..(j - 1)) /\ Cardinality(1..(j - 1)) = j - 1
  <2>1. 1 \in Int /\ j - 1 \in Int /\ (1 > j - 1 => j - 1 = 0)
    BY <1>1
  <2>2. /\ IsFiniteSet(1..(j - 1))
        /\ Cardinality(1..(j - 1)) = IF 1 > j - 1 THEN 0 ELSE (j - 1) - 1 + 1
    BY <2>1, <1>1, FS_Interval
  <2>3. QED
    BY <2>1, <2>2, <1>1
<1>8. ExistsBijection(1..(j - 1), Before(s[j]))
  <2> HIDE DEF g
  <2>1. QED
    BY <1>6 DEF ExistsBijection
<1>9. Cardinality(Before(s[j])) = Cardinality(1..(j - 1))
  <2> HIDE DEF g
  <2>1. QED
    BY <1>7, <1>8, FS_Bijection
<1>10. QED
  BY <1>7, <1>9 DEF Rank

\* So a page shows such a row just when the page covers its rank.
LEMMA PageShowsRanks ==
    ASSUME TypeOK, NEW s \in Ordered(rows), NEW p \in Places(rows), Alone(p),
           NEW offset \in Nat
    PROVE  p[1] \in Page(s, offset) <=> offset <= Rank(p) /\ Rank(p) < offset + Limit
<1> DEFINE N == Cardinality(Places(rows))
<1>1. N \in Nat /\ DOMAIN s = 1..N /\ Limit \in Nat
  BY OrderedAll, PlacesFinite, ListingsAssumption
<1>2. PICK j \in 1..N : s[j] = p
  BY OrderedAll DEF Surjection
<1>3. Rank(p) = j - 1
  BY <1>1, <1>2, RankIsPosition
<1>4. \A i \in 1..N : s[i] \in Places(rows) /\ (s[i] = s[j] => i = j)
  BY <1>2, OrderedAll DEF Injection, IsInjective
<1>5. \A i \in 1..N : s[i][1] = p[1] => i = j
  BY <1>2, <1>4, OnePlace DEF OnePlaceEach
<1>6. p[1] \in Page(s, offset) <=> j \in offset + 1 .. offset + Limit
  BY <1>1, <1>2, <1>5 DEF Page
<1>7. QED
  BY <1>1, <1>3, <1>6

-----------------------------------------------------------------------------
(* The walk *)

LEMMA WriteWalk ==
    ASSUME TypeOK, WalkInv, NEW table \in [Rows -> Row \cup {NoRow}], Write(table)
    PROVE  WalkInv'
<1> DEFINE left == Places(rows) \ Places(table)
           taken == Places(table) \ Places(rows)
<1>1. TypeOK'
  BY WriteType
<1>2. /\ rows' = table /\ kept' = kept \ left
      /\ walk' = walk /\ shown' = shown /\ sort' = sort
      /\ walk.stage # "over"
      /\ Passed' = Passed
  BY DEF Write, Passed
<1>3. Places(rows)' = Places(table)
  BY <1>2 DEF Places
<1>4. ASSUME NEW p \in kept' PROVE p \in kept /\ p \in Places(rows) /\ p \in Places(table)
  BY <1>2, <1>4 DEF TypeOK
<1>5. \A q \in Places(rows) \cup Places(table) : q[2] \in Nat
  BY <1>1, <1>2, <1>3, OnePlace, TypesNext DEF OnePlaceEach
<1>6. ASSUME NEW p \in kept' \ advanced'
      PROVE  Alone(p)' /\ (shown'[p[1]] = 0 => Passed' <= Rank(p)')
  <2>1. /\ p \in kept \ advanced
        /\ \A q \in left : ~NotBehind(q, p)
        /\ \A q \in taken : ~Tied(q, p)
    BY <1>2, <1>6 DEF Write
  <2>2. Alone(p)'
    BY <1>2, <1>3, <2>1 DEF Alone, Tied, WalkInv
  <2>3. Before(p) \subseteq Before(p)'
    <3> SUFFICES ASSUME NEW q \in Before(p) PROVE q \in Before(p)'
      OBVIOUS
    <3>1. q \in Places(rows) /\ Sooner(q, p) /\ q[2] \in Nat /\ p[2] \in Nat
      BY <1>4, <1>5 DEF Before
    <3>2. q \notin left
      BY <2>1, <3>1 DEF NotBehind, Sooner
    <3>3. QED
      BY <1>2, <1>3, <3>1, <3>2 DEF Before, Sooner
  <2>4. IsFiniteSet(Before(p)') /\ Rank(p)' \in Nat
    BY <1>1, <1>3, <1>4, TypesNext DEF RanksTyped
  <2>5. Rank(p) <= Rank(p)'
    BY <2>3, <2>4, FS_Subset DEF Rank
  <2>6. Rank(p) \in Nat /\ Passed \in Int
    BY <1>4, RankType, ListingsAssumption DEF RanksTyped, TypeOK, Passed
  <2>7. QED
    BY <1>2, <2>1, <2>2, <2>4, <2>5, <2>6 DEF WalkInv
<1>7. ASSUME NEW p \in kept' \ delayed'
      PROVE  /\ Alone(p)' /\ shown'[p[1]] < 2
             /\ (shown'[p[1]] > 0 => Rank(p)' < Passed')
  <2>1. p \in kept \ delayed /\ \A q \in taken : ~NotBehind(q, p)
    BY <1>2, <1>7 DEF Write
  <2>2. Alone(p)'
    <3> SUFFICES ASSUME NEW q \in Places(table), Tied(q, p) PROVE FALSE
      BY <1>2, <1>3 DEF Alone, Tied
    <3>1. q \in taken
      BY <2>1 DEF WalkInv, Alone
    <3>2. q[2] \in Nat /\ p[2] \in Nat
      BY <1>4, <1>5
    <3>3. QED
      BY <2>1, <3>1, <3>2 DEF NotBehind, Tied, Sooner
  <2>3. Before(p)' \subseteq Before(p)
    <3> SUFFICES ASSUME NEW q \in Before(p)' PROVE q \in Before(p)
      OBVIOUS
    <3>1. q \in Places(table) /\ Sooner(q, p)
      BY <1>2, <1>3 DEF Before, Sooner
    <3>2. q[2] \in Nat /\ p[2] \in Nat
      BY <1>4, <1>5, <3>1
    <3>3. q \notin taken
      BY <2>1, <3>1, <3>2 DEF NotBehind, Sooner
    <3>4. QED
      BY <3>1, <3>3 DEF Before
  <2>4. IsFiniteSet(Before(p)) /\ Rank(p) \in Nat
    BY <1>4, RankType DEF RanksTyped
  <2>5. Rank(p)' <= Rank(p)
    BY <2>3, <2>4, FS_Subset DEF Rank
  <2>6. Rank(p)' \in Nat /\ Passed \in Int
    BY <1>1, <1>3, <1>4, TypesNext, ListingsAssumption DEF RanksTyped, TypeOK, Passed
  <2>7. QED
    BY <1>2, <2>1, <2>2, <2>4, <2>5, <2>6 DEF WalkInv
<1>8. QED
  BY <1>2, <1>6, <1>7 DEF WalkInv

LEMMA PageWalk ==
    ASSUME TypeOK, WalkInv, ReadPage
    PROVE  WalkInv'
<1>1. PICK s \in Ordered(rows) :
          shown' = [r \in Rows |->
                       IF r \in Page(s, walk.offset) /\ shown[r] < 2 THEN shown[r] + 1
                                                                    ELSE shown[r]]
  BY DEF ReadPage
<1>2. /\ rows' = rows /\ sort' = sort
      /\ kept' = kept /\ advanced' = advanced /\ delayed' = delayed
      /\ walk.offset \in Nat /\ Limit \in Nat \ {0}
      /\ Passed = walk.offset /\ Passed' = walk.offset + Limit
      /\ walk'.stage = "count"
  BY ListingsAssumption DEF ReadPage, TypeOK, Passed
<1>3. ASSUME NEW p \in kept
      PROVE  /\ p \in Places(rows) /\ p[1] \in Rows
             /\ shown[p[1]] \in 0..2
             /\ Alone(p)' <=> Alone(p)
             /\ Rank(p)' = Rank(p) /\ Rank(p) \in Nat
  <2>1. Places(rows)' = Places(rows)
    BY <1>2 DEF Places
  <2>2. Before(p)' = Before(p) /\ (Alone(p)' <=> Alone(p))
    BY <1>2, <2>1 DEF Before, Sooner, Alone, Tied
  <2>3. Rank(p)' = Rank(p)
    BY <2>2 DEF Rank
  <2>4. p \in Places(rows)
    BY <1>3 DEF TypeOK
  <2>5. p[1] \in Rows /\ Rank(p) \in Nat
    BY <2>4, OnePlace, RankType DEF OnePlaceEach, RanksTyped
  <2>6. shown[p[1]] \in 0..2
    BY <2>5 DEF TypeOK
  <2>7. QED
    BY <2>2, <2>3, <2>4, <2>5, <2>6
<1>4. ASSUME NEW p \in kept, Alone(p)
      PROVE  p[1] \in Page(s, walk.offset)
                 <=> walk.offset <= Rank(p) /\ Rank(p) < walk.offset + Limit
  BY <1>2, <1>3, <1>4, PageShowsRanks
<1>5. ASSUME NEW p \in kept \ advanced
      PROVE  Alone(p)' /\ (shown'[p[1]] = 0 => Passed' <= Rank(p)')
  <2>1. Alone(p) /\ (shown[p[1]] = 0 => walk.offset <= Rank(p))
    BY <1>2 DEF WalkInv
  <2>2. QED
    BY <1>1, <1>2, <1>3, <1>4, <2>1
<1>6. ASSUME NEW p \in kept \ delayed
      PROVE  /\ Alone(p)' /\ shown'[p[1]] < 2
             /\ (shown'[p[1]] > 0 => Rank(p)' < Passed')
  <2>1. /\ Alone(p) /\ shown[p[1]] < 2
        /\ shown[p[1]] > 0 => Rank(p) < walk.offset
    BY <1>2 DEF WalkInv
  <2>2. QED
    BY <1>1, <1>2, <1>3, <1>4, <2>1
<1>7. QED
  BY <1>2, <1>5, <1>6 DEF WalkInv

LEMMA BeginWalk ==
    ASSUME TypeOK, WalkInv, Begin
    PROVE  WalkInv'
<1>1. /\ Places(rows)' = Places(rows) /\ kept' = Places(rows)
      /\ advanced' = {p \in Places(rows) : \E q \in Places(rows) : Tied(q, p)}
      /\ delayed' = advanced'
      /\ walk'.stage = "page" /\ Passed' = 0
      /\ \A r \in Rows : shown'[r] = 0
  BY DEF Begin, Places, Passed, WalkInv
<1>2. TypeOK'
  BY DEF TypeOK, Begin, Places
<1>3. ASSUME NEW p \in kept' \ advanced'
      PROVE  Alone(p)' /\ shown'[p[1]] = 0 /\ Passed' <= Rank(p)'
  <2>1. Alone(p)'
    BY <1>1, <1>3 DEF Alone, Tied
  <2>2. p[1] \in Rows /\ Rank(p)' \in Nat
    BY <1>1, <1>2, <1>3, TypesNext DEF OnePlaceEach, RanksTyped
  <2>3. QED
    BY <1>1, <2>1, <2>2
<1>4. QED
  BY <1>1, <1>3 DEF WalkInv

LEMMA CountWalk ==
    ASSUME TypeOK, WalkInv, ReadCount
    PROVE  WalkInv'
<1>1. /\ rows' = rows /\ sort' = sort /\ shown' = shown
      /\ kept' = kept /\ advanced' = advanced /\ delayed' = delayed
      /\ Passed' = Passed /\ Passed \in Nat
      /\ walk'.stage \in {"page", "over"}
      /\ walk'.stage = "over" => ~(Passed < Cardinality(Places(rows)))
  BY ListingsAssumption DEF ReadCount, Answered, Passed, TypeOK
<1>2. Places(rows)' = Places(rows)
  BY <1>1 DEF Places
<1>3. \A p : Before(p)' = Before(p) /\ (Alone(p)' <=> Alone(p))
  BY <1>1, <1>2 DEF Before, Sooner, Alone, Tied
<1>4. \A p : Rank(p)' = Rank(p)
  BY <1>3 DEF Rank
<1>5. walk'.stage = "over" => Cardinality(Places(rows))' <= Passed'
  BY <1>1, <1>2, PlacesFinite
<1>6. QED
  BY <1>1, <1>3, <1>4, <1>5 DEF WalkInv

LEMMA StillWalk ==
    ASSUME TypeOK, WalkInv, Tick \/ UNCHANGED vars
    PROVE  WalkInv'
<1>1. /\ rows' = rows /\ sort' = sort /\ shown' = shown /\ walk' = walk
      /\ kept' = kept /\ advanced' = advanced /\ delayed' = delayed
  BY DEF Tick, vars
<1>2. Places(rows)' = Places(rows) /\ Passed' = Passed
  BY <1>1 DEF Places, Passed
<1>3. \A p : Before(p)' = Before(p) /\ (Alone(p)' <=> Alone(p))
  BY <1>1, <1>2 DEF Before, Sooner, Alone, Tied
<1>4. \A p : Rank(p)' = Rank(p)
  BY <1>3 DEF Rank
<1>5. QED
  BY <1>1, <1>2, <1>3, <1>4 DEF WalkInv

\* The ranks of the rows seen and not seen so far, in every state of every walk.
THEOREM Walk == Spec => [](TypeOK /\ WalkInv)
<1>1. Init => TypeOK /\ WalkInv
  <2>1. Init => TypeOK
    BY InitType
  <2>2. Init => WalkInv
    BY DEF Init, WalkInv
  <2>3. QED
    BY <2>1, <2>2
<1>2. TypeOK /\ WalkInv /\ [Next]_vars => TypeOK' /\ WalkInv'
  <2> SUFFICES ASSUME TypeOK, WalkInv, [Next]_vars PROVE WalkInv'
    BY TypeStep
  <2>1. ASSUME NEW r \in Rows, NEW key \in Keys, NEW state \in {"in", "out"},
               Insert(r, key, state) \/ Change(r, key, state)
        PROVE  WalkInv'
    <3>1. [rows EXCEPT ![r] = [key |-> key, state |-> state]] \in [Rows -> Row \cup {NoRow}]
      BY DEF TypeOK, Row
    <3>2. QED
      BY <2>1, <3>1, WriteWalk DEF Insert, Change
  <2>2. ASSUME NEW r \in Rows, Erase(r) PROVE WalkInv'
    <3>1. [rows EXCEPT ![r] = NoRow] \in [Rows -> Row \cup {NoRow}]
      BY DEF TypeOK
    <3>2. QED
      BY <2>2, <3>1, WriteWalk DEF Erase
  <2>3. QED
    BY <2>1, <2>2, BeginWalk, PageWalk, CountWalk, StillWalk DEF Next
<1>3. QED
  BY <1>1, <1>2, PTL DEF Spec

LEMMA KeptRows == TypeOK => \A p \in kept : p[1] \in Rows /\ shown[p[1]] \in 0..2
  BY OnePlace DEF TypeOK, OnePlaceEach

\* When the walk ends, every row that kept its place was on some page, unless a
\* place before it was left or its key was not its alone: the total, read
\* after the page, covers every rank there is.
THEOREM NeverSkipped == Spec => []NothingSkipped
<1>1. TypeOK /\ WalkInv => NothingSkipped
  <2> SUFFICES ASSUME TypeOK, WalkInv, walk.stage = "over",
                      NEW p \in kept \ advanced, ~(shown[p[1]] > 0)
               PROVE  FALSE
    BY DEF NothingSkipped
  <2>1. shown[p[1]] = 0
    BY KeptRows
  <2>2. Passed <= Rank(p) /\ Cardinality(Places(rows)) <= Passed
    BY <2>1 DEF WalkInv
  <2>3. p \in Places(rows) /\ Passed \in Int
    BY ListingsAssumption DEF TypeOK, Passed
  <2>4. Rank(p) \in Nat /\ Rank(p) < Cardinality(Places(rows))
    BY <2>3, RankType DEF RanksTyped
  <2>5. QED
    BY <2>2, <2>3, <2>4, PlacesFinite
<1>2. QED
  BY <1>1, Walk, PTL

\* At no time has a row that kept its place been on two pages, unless a place
\* before it was taken or its key was not its alone.
THEOREM NeverTwice == Spec => []NothingTwice
<1>1. WalkInv => NothingTwice
  BY DEF WalkInv, NothingTwice
<1>2. QED
  BY <1>1, Walk, PTL

\* Together: a row that nothing before it moved is on exactly one page of a
\* walk that is over.
OnceEach ==
    walk.stage = "over" => \A p \in kept \ (advanced \cup delayed) : shown[p[1]] = 1

THEOREM SeenOnce == Spec => []OnceEach
<1>1. TypeOK /\ NothingSkipped /\ NothingTwice => OnceEach
  BY KeptRows DEF NothingSkipped, NothingTwice, OnceEach
<1>2. QED
  BY <1>1, TypeCorrect, NeverSkipped, NeverTwice, PTL
=============================================================================
