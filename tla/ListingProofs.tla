--------------------------- MODULE ListingProofs ---------------------------
(***************************************************************************)
(* What a caller of the lists can rely on, for any limit, window and page  *)
(* size, any number of rows and callers.                                   *)
(***************************************************************************)
EXTENDS Listing, FiniteSetTheorems, TLAPS

(***************************************************************************)
(* The rate limiter.  A hit of the open window is one no older than the    *)
(* window; those before it have lost their first hit, which came a whole   *)
(* window before the end of theirs.                                        *)
(***************************************************************************)
Open(k, d) == left[k] > 0 /\ d + left[k] <= Window

Counted(k) ==
    /\ left[k] = 0 <=> count[k] = 0
    /\ \A d \in 0 .. Window - 1, n \in 1 .. Limit : <<d, n>> \in recent[k] =>
          /\ left[k] = 0 => d > 0
          /\ Open(k, d) => n <= count[k] /\ (n = 1 => d + left[k] = Window)
          /\ ~ Open(k, d) => n > 1

\* the number of a hit in its window tells the hit
Numbered(k) ==
    \A c, d \in 0 .. Window - 1, n \in 1 .. Limit :
        <<c, n>> \in recent[k] /\ <<d, n>> \in recent[k]
            /\ (Open(k, c) <=> Open(k, d)) => c = d

Windows == \A k \in Keys : Counted(k) /\ Numbered(k)

LEMMA HitTypes ==
    ASSUME BucketsOK, NEW k \in Keys, Hit(k)
    PROVE  BucketsOK'
<1>1. count' \in [Keys -> 0 .. Limit + 1]
  BY LimitAssumption DEF BucketsOK, Hit
<1>2. left' \in [Keys -> 0 .. Window]
  BY LimitAssumption DEF BucketsOK, Hit
<1>3. Admits(k) => <<0, count[k] + 1>> \in Hits
  BY LimitAssumption DEF BucketsOK, Admits, Hits
<1>4. recent' \in [Keys -> SUBSET Hits]
  BY <1>3 DEF BucketsOK, Hit
<1> QED
  BY <1>1, <1>2, <1>4 DEF BucketsOK

LEMMA TickTypes ==
    ASSUME BucketsOK, Tick
    PROVE  BucketsOK'
<1>1. count' \in [Keys -> 0 .. Limit + 1]
  BY LimitAssumption DEF BucketsOK, Tick
<1>2. left' \in [Keys -> 0 .. Window]
  BY LimitAssumption DEF BucketsOK, Tick
<1>3. ASSUME NEW hits \in SUBSET Hits PROVE Older(hits) \subseteq Hits
  BY LimitAssumption DEF Older, Hits
<1>4. recent' \in [Keys -> SUBSET Hits]
  BY <1>3 DEF BucketsOK, Tick
<1> QED
  BY <1>1, <1>2, <1>4 DEF BucketsOK

LEMMA HitKeepsWindows ==
    ASSUME BucketsOK, Windows, NEW k \in Keys, Hit(k)
    PROVE  Windows'
<1> SUFFICES ASSUME NEW j \in Keys PROVE Counted(j)' /\ Numbered(j)'
  BY DEF Windows
<1>1. Counted(j) /\ Numbered(j)
  BY DEF Windows
<1>2. /\ count[j] \in 0 .. Limit + 1 /\ left[j] \in 0 .. Window
      /\ Limit \in Nat \ {0} /\ Window \in Nat \ {0}
  BY LimitAssumption DEF BucketsOK
<1>3. CASE j # k
  <2>1. count'[j] = count[j] /\ left'[j] = left[j] /\ recent'[j] = recent[j]
    BY <1>3 DEF Hit, BucketsOK
  <2> QED
    BY <1>1, <2>1 DEF Counted, Numbered, Open
<1>4. CASE j = k
  <2>1. /\ left'[k] = IF left[k] = 0 THEN Window ELSE left[k]
        /\ count'[k] = IF count[k] > Limit THEN count[k] ELSE count[k] + 1
        /\ recent'[k] = IF count[k] < Limit
                          THEN recent[k] \cup {<<0, count[k] + 1>>} ELSE recent[k]
    BY DEF Hit, BucketsOK, Admits
  <2>2. ASSUME NEW d \in 0 .. Window - 1, NEW n \in 1 .. Limit
        PROVE  <<d, n>> \in recent'[k] <=>
                  \/ <<d, n>> \in recent[k]
                  \/ count[k] < Limit /\ d = 0 /\ n = count[k] + 1
    BY <2>1
  <2>3. ASSUME NEW d \in 0 .. Window - 1, NEW n \in 1 .. Limit,
               <<d, n>> \in recent[k]
        PROVE  Open(k, d)' <=> Open(k, d)
    BY <1>1, <1>2, <1>4, <2>1, <2>3 DEF Open, Counted
  <2>4. Open(k, 0)'
    BY <1>2, <1>4, <2>1 DEF Open
  <2>5. Counted(k)'
    <3>1. left'[k] = 0 <=> count'[k] = 0
      BY <1>1, <1>2, <1>4, <2>1 DEF Counted
    <3>2. ASSUME NEW d \in 0 .. Window - 1, NEW n \in 1 .. Limit,
                 <<d, n>> \in recent'[k]
          PROVE  /\ left'[k] = 0 => d > 0
                 /\ Open(k, d)' => n <= count'[k] /\ (n = 1 => d + left'[k] = Window)
                 /\ ~ Open(k, d)' => n > 1
      <4>1. CASE <<d, n>> \in recent[k]
        <5>1. /\ left[k] = 0 => d > 0
              /\ Open(k, d) => n <= count[k] /\ (n = 1 => d + left[k] = Window)
              /\ ~ Open(k, d) => n > 1
          BY <1>1, <1>4, <4>1 DEF Counted
        <5>2. Open(k, d) => left[k] # 0
          BY DEF Open
        <5> QED
          BY <1>2, <1>4, <2>1, <2>3, <4>1, <5>1, <5>2
      <4>2. CASE count[k] < Limit /\ d = 0 /\ n = count[k] + 1
        <5>1. left[k] = 0 <=> count[k] = 0
          BY <1>1, <1>4 DEF Counted
        <5>2. n = 1 => left[k] = 0
          BY <1>2, <1>4, <4>2, <5>1
        <5> QED
          BY <1>2, <1>4, <2>1, <2>4, <4>2, <5>2
      <4> QED
        BY <2>2, <3>2, <4>1, <4>2
    <3> QED
      BY <3>1, <3>2 DEF Counted
  <2>6. Numbered(k)'
    <3> SUFFICES ASSUME NEW c \in 0 .. Window - 1, NEW d \in 0 .. Window - 1,
                        NEW n \in 1 .. Limit,
                        <<c, n>> \in recent'[k], <<d, n>> \in recent'[k],
                        Open(k, c)' <=> Open(k, d)'
                 PROVE  c = d
      BY DEF Numbered
    <3>1. CASE <<c, n>> \in recent[k] /\ <<d, n>> \in recent[k]
      BY <1>1, <1>4, <2>3, <3>1 DEF Numbered
    <3>2. ASSUME NEW e \in 0 .. Window - 1, <<e, n>> \in recent[k],
                 n = count[k] + 1, Open(k, e)'
          PROVE  FALSE
      BY <1>1, <1>2, <1>4, <2>3, <3>2 DEF Counted
    <3>3. CASE <<c, n>> \notin recent[k]
      <4>1. c = 0 /\ n = count[k] + 1 /\ Open(k, c)'
        BY <2>2, <2>4, <3>3
      <4> QED
        BY <2>2, <3>2, <4>1
    <3>4. CASE <<d, n>> \notin recent[k]
      <4>1. d = 0 /\ n = count[k] + 1 /\ Open(k, d)'
        BY <2>2, <2>4, <3>4
      <4> QED
        BY <2>2, <3>2, <4>1
    <3> QED
      BY <3>1, <3>3, <3>4
  <2> QED
    BY <1>4, <2>5, <2>6
<1> QED
  BY <1>3, <1>4

LEMMA TickKeepsWindows ==
    ASSUME BucketsOK, Windows, Tick
    PROVE  Windows'
<1> SUFFICES ASSUME NEW k \in Keys PROVE Counted(k)' /\ Numbered(k)'
  BY DEF Windows
<1>1. Counted(k) /\ Numbered(k)
  BY DEF Windows
<1>2. /\ count[k] \in 0 .. Limit + 1 /\ left[k] \in 0 .. Window
      /\ Limit \in Nat \ {0} /\ Window \in Nat \ {0}
      /\ recent[k] \subseteq Hits
  BY LimitAssumption DEF BucketsOK
<1>3. /\ left'[k] = IF left[k] = 0 THEN 0 ELSE left[k] - 1
      /\ count'[k] = IF left[k] <= 1 THEN 0 ELSE count[k]
      /\ recent'[k] = Older(recent[k])
  BY DEF Tick
<1>4. ASSUME NEW d \in 0 .. Window - 1, NEW n \in 1 .. Limit,
             <<d, n>> \in recent'[k]
      PROVE  d > 0 /\ d - 1 \in 0 .. Window - 1 /\ <<d - 1, n>> \in recent[k]
  <2>1. PICK h \in recent[k] : h[1] + 1 < Window /\ <<d, n>> = <<h[1] + 1, h[2]>>
    BY <1>3, <1>4 DEF Older
  <2>2. h \in Hits
    BY <1>2, <2>1
  <2>3. h = <<h[1], h[2]>> /\ h[1] \in 0 .. Window - 1
    BY <2>2 DEF Hits
  <2>4. d = h[1] + 1 /\ n = h[2]
    BY <2>1
  <2>5. d - 1 = h[1]
    BY <2>3, <2>4, <1>2
  <2> QED
    BY <1>2, <2>1, <2>3, <2>4, <2>5
<1>5. Counted(k)'
  <2>1. left'[k] = 0 <=> count'[k] = 0
    BY <1>1, <1>2, <1>3 DEF Counted
  <2>2. ASSUME NEW d \in 0 .. Window - 1, NEW n \in 1 .. Limit,
               <<d, n>> \in recent'[k]
        PROVE  /\ left'[k] = 0 => d > 0
               /\ Open(k, d)' => n <= count'[k] /\ (n = 1 => d + left'[k] = Window)
               /\ ~ Open(k, d)' => n > 1
    <3>1. d > 0 /\ d - 1 \in 0 .. Window - 1 /\ <<d - 1, n>> \in recent[k]
      BY <1>4, <2>2
    <3>2. /\ Open(k, d - 1) => n <= count[k] /\ (n = 1 => d - 1 + left[k] = Window)
          /\ ~ Open(k, d - 1) => n > 1
      BY <1>1, <3>1 DEF Counted
    <3> QED
      BY <1>2, <1>3, <3>1, <3>2 DEF Open
  <2> QED
    BY <2>1, <2>2 DEF Counted
<1>6. Numbered(k)'
  <2> SUFFICES ASSUME NEW c \in 0 .. Window - 1, NEW d \in 0 .. Window - 1,
                      NEW n \in 1 .. Limit,
                      <<c, n>> \in recent'[k], <<d, n>> \in recent'[k],
                      Open(k, c)' <=> Open(k, d)'
               PROVE  c = d
    BY DEF Numbered
  <2>1. /\ c - 1 \in 0 .. Window - 1 /\ <<c - 1, n>> \in recent[k]
        /\ d - 1 \in 0 .. Window - 1 /\ <<d - 1, n>> \in recent[k]
    BY <1>4
  <2>2. Open(k, c - 1) <=> Open(k, d - 1)
    BY <1>2, <1>3, <2>1 DEF Open
  <2>3. c - 1 = d - 1
    BY <1>1, <2>1, <2>2 DEF Numbered
  <2> QED
    BY <2>3
<1> QED
  BY <1>5, <1>6

\* A set of hits with different numbers is no larger than the numbers are many.
LEMMA DistinctNumbers ==
    ASSUME NEW S \in SUBSET Hits, NEW first \in 1 .. 2, first <= Limit + 1,
           \A h \in S : h[2] \in first .. Limit,
           \A g, h \in S : g[2] = h[2] => g = h
    PROVE  IsFiniteSet(S) /\ Cardinality(S) <= Limit - first + 1
<1> DEFINE f == [h \in S |-> h[2]]
<1>1. f \in Injection(S, first .. Limit)
  BY DEF Injection, IsInjective
<1>2. /\ IsFiniteSet(first .. Limit)
      /\ Cardinality(first .. Limit) = Limit - first + 1
  BY LimitAssumption, FS_Interval
<1> QED
  BY <1>1, <1>2, FS_Injection

LEMMA WindowsBoundBursts == BucketsOK /\ Windows => Burst
<1> SUFFICES ASSUME BucketsOK, Windows, NEW k \in Keys
             PROVE  Cardinality(recent[k]) <= 2 * Limit - 1
  BY DEF Burst
<1> DEFINE new == {h \in recent[k] : Open(k, h[1])}
           old == {h \in recent[k] : ~ Open(k, h[1])}
<1>1. recent[k] \subseteq Hits /\ Counted(k) /\ Numbered(k)
      /\ Limit \in Nat \ {0}
  BY LimitAssumption DEF BucketsOK, Windows
<1>2. \A h \in recent[k] : h = <<h[1], h[2]>> /\ h[1] \in 0 .. Window - 1
                           /\ h[2] \in 1 .. Limit
  BY <1>1 DEF Hits
<1>3. IsFiniteSet(new) /\ Cardinality(new) <= Limit
  <2>1. \A h \in new : h[2] \in 1 .. Limit
    BY <1>2
  <2>2. ASSUME NEW g \in new, NEW h \in new, g[2] = h[2] PROVE g = h
    <3>1. <<g[1], g[2]>> \in recent[k] /\ <<h[1], g[2]>> \in recent[k]
      BY <1>2, <2>2
    <3>2. g[1] = h[1]
      BY <1>1, <1>2, <2>2, <3>1 DEF Numbered
    <3> QED
      BY <1>2, <2>2, <3>2
  <2>3. new \in SUBSET Hits
    BY <1>1
  <2> HIDE DEF new
  <2>4. IsFiniteSet(new) /\ Cardinality(new) <= Limit - 1 + 1
    BY <1>1, <2>1, <2>2, <2>3, DistinctNumbers
  <2> QED
    BY <1>1, <2>4
<1>4. IsFiniteSet(old) /\ Cardinality(old) <= Limit - 1
  <2>1. ASSUME NEW h \in old PROVE h[2] \in 2 .. Limit
    <3>1. h[2] > 1
      BY <1>1, <1>2 DEF Counted
    <3> QED
      BY <1>1, <1>2, <3>1
  <2>2. ASSUME NEW g \in old, NEW h \in old, g[2] = h[2] PROVE g = h
    <3>1. <<g[1], g[2]>> \in recent[k] /\ <<h[1], g[2]>> \in recent[k]
      BY <1>2, <2>2
    <3>2. g[1] = h[1]
      BY <1>1, <1>2, <2>2, <3>1 DEF Numbered
    <3> QED
      BY <1>2, <2>2, <3>2
  <2>3. old \in SUBSET Hits
    BY <1>1
  <2> HIDE DEF old
  <2>4. IsFiniteSet(old) /\ Cardinality(old) <= Limit - 2 + 1
    BY <1>1, <2>1, <2>2, <2>3, DistinctNumbers
  <2> QED
    BY <1>1, <2>4
<1>5. recent[k] = new \cup old
  OBVIOUS
<1>6. new \cap old = {}
  OBVIOUS
<1> HIDE DEF new, old
<1>7. Cardinality(new \cup old) = Cardinality(new) + Cardinality(old)
  <2>1. Cardinality(new \cap old) = 0
    BY <1>6, FS_EmptySet
  <2>2. Cardinality(new) \in Nat /\ Cardinality(old) \in Nat
    BY <1>3, <1>4, FS_CardinalityType
  <2>3. Cardinality(new \cup old) =
            Cardinality(new) + Cardinality(old) - Cardinality(new \cap old)
    BY <1>3, <1>4, FS_Union
  <2> QED
    BY <2>1, <2>2, <2>3
<1>8. Cardinality(new) \in Nat /\ Cardinality(old) \in Nat
  BY <1>3, <1>4, FS_CardinalityType
<1> QED
  BY <1>1, <1>3, <1>4, <1>5, <1>7, <1>8

-----------------------------------------------------------------------------
(***************************************************************************)
(* The place of a row in the order of ids.                                 *)
(***************************************************************************)
Below(S, n) == {m \in S : m < n}
Place(S, n) == Cardinality(Below(S, n))

LEMMA IdsFinite == ASSUME NEW S \in SUBSET Ids PROVE IsFiniteSet(S)
<1>1. IsFiniteSet(1 .. MaxId)
  BY ListAssumption, FS_Interval
<1> QED
  BY <1>1, FS_Subset DEF Ids

LEMMA PlaceType ==
    ASSUME NEW S \in SUBSET Ids, NEW n
    PROVE  IsFiniteSet(Below(S, n)) /\ Place(S, n) \in Nat
<1>1. Below(S, n) \in SUBSET Ids
  BY DEF Below
<1>2. IsFiniteSet(Below(S, n))
  BY <1>1, IdsFinite
<1> QED
  BY <1>2, FS_CardinalityType DEF Place

\* a new row moves those behind it by one place
LEMMA PlaceAfter ==
    ASSUME NEW S \in SUBSET Ids, NEW m \in Ids \ S, NEW n \in Ids
    PROVE  Place(S \cup {m}, n) = IF m < n THEN Place(S, n) + 1 ELSE Place(S, n)
<1>1. IsFiniteSet(Below(S, n)) /\ m \notin Below(S, n)
  BY PlaceType DEF Below
<1>2. CASE m < n
  <2>1. Below(S \cup {m}, n) = Below(S, n) \cup {m}
    BY <1>2 DEF Below
  <2>2. Cardinality(Below(S, n) \cup {m}) = Cardinality(Below(S, n)) + 1
    BY <1>1, FS_AddElement
  <2> QED
    BY <1>2, <2>1, <2>2 DEF Place
<1>3. CASE ~ (m < n)
  <2>1. Below(S \cup {m}, n) = Below(S, n)
    BY <1>3 DEF Below
  <2> QED
    BY <1>3, <2>1 DEF Place
<1> QED
  BY <1>2, <1>3

LEMMA PlacesOrdered ==
    ASSUME NEW S \in SUBSET Ids, NEW m \in S, NEW n \in Ids, m < n
    PROVE  Place(S, m) < Place(S, n)
<1>1. m \in Int /\ n \in Int /\ S \subseteq Int
  BY ListAssumption DEF Ids
<1>2. IsFiniteSet(Below(S, m)) /\ Place(S, m) \in Nat /\ m \notin Below(S, m)
  BY <1>1, PlaceType DEF Below
<1>3. Below(S, m) \cup {m} \subseteq Below(S, n)
  <2>1. ASSUME NEW x \in S, x < m PROVE x < n
    BY <1>1, <2>1
  <2> QED
    BY <2>1 DEF Below
<1>4. Cardinality(Below(S, m) \cup {m}) = Place(S, m) + 1
  BY <1>2, FS_AddElement DEF Place
<1>5. IsFiniteSet(Below(S, n)) /\ Place(S, n) \in Nat
  BY PlaceType
<1>6. Cardinality(Below(S, m) \cup {m}) <= Place(S, n)
  BY <1>3, <1>5, FS_Subset DEF Place
<1> QED
  BY <1>2, <1>4, <1>5, <1>6

\* no two rows in one place
LEMMA PlacesDiffer ==
    ASSUME NEW S \in SUBSET Ids, NEW m \in S, NEW n \in S,
           Place(S, m) = Place(S, n)
    PROVE  m = n
<1>1. m \in Int /\ n \in Int /\ Place(S, m) \in Nat /\ Place(S, n) \in Nat
  BY ListAssumption, PlaceType DEF Ids
<1>2. ~ (m < n) /\ ~ (n < m)
  BY <1>1, PlacesOrdered
<1> QED
  BY <1>1, <1>2

\* rows in places a to b are no more than that
LEMMA PlacesBound ==
    ASSUME NEW S \in SUBSET Ids, NEW a \in Nat, NEW b \in Nat, a <= b,
           NEW T \in SUBSET S, \A n \in T : Place(S, n) \in a .. b - 1
    PROVE  IsFiniteSet(T) /\ Cardinality(T) <= b - a
<1> DEFINE f == [n \in T |-> Place(S, n)]
<1>1. f \in [T -> a .. b - 1]
  OBVIOUS
<1>2. \A m, n \in T : f[m] = f[n] => m = n
  BY PlacesDiffer
<1>3. f \in Injection(T, a .. b - 1)
  BY <1>1, <1>2 DEF Injection, IsInjective
<1>4. /\ IsFiniteSet(a .. b - 1)
      /\ Cardinality(a .. b - 1) = b - a
  <2>1. a \in Int /\ b - 1 \in Int
    OBVIOUS
  <2>2. /\ IsFiniteSet(a .. b - 1)
        /\ Cardinality(a .. b - 1) = IF a > b - 1 THEN 0 ELSE b - 1 - a + 1
    BY <2>1, FS_Interval
  <2> QED
    BY <2>2
<1> QED
  BY <1>3, <1>4, FS_Injection

\* A page that is not full ends the list (get_user_clients, get_invoices).
LEMMA ShortPage ==
    ASSUME TypeOK, NEW o \in Nat, Cardinality(Page(o)) < PageSize, NEW n \in rows
    PROVE  Rank(n) < o + PageSize
<1> SUFFICES ASSUME ~ (Rank(n) < o + PageSize) PROVE FALSE
  OBVIOUS
<1> DEFINE all == Below(rows, n)
           first == {m \in all : Place(rows, m) < o}
           shown == {m \in all : Place(rows, m) \in o .. o + PageSize - 1}
           rest == {m \in all : Place(rows, m) >= o + PageSize}
           last == Place(rows, n)
<1>1. rows \in SUBSET Ids /\ n \in Ids /\ PageSize \in Nat \ {0}
  BY ListAssumption DEF TypeOK
<1>2. Rank(n) = last
  BY DEF Rank, Place, Below
<1>3. last \in Nat /\ last >= o + PageSize
  BY <1>1, <1>2, PlaceType
<1>4. \A m \in all : Place(rows, m) \in Nat /\ Place(rows, m) < last
  BY <1>1, PlaceType, PlacesOrdered DEF Below
<1>5. all \subseteq rows
  BY DEF Below
<1>6. IsFiniteSet(first) /\ Cardinality(first) <= o
  <2>1. \A m \in first : Place(rows, m) \in 0 .. o - 1
    BY <1>4
  <2>2. first \in SUBSET rows
    BY <1>5
  <2>3. 0 \in Nat /\ 0 <= o
    OBVIOUS
  <2> HIDE DEF first
  <2>4. IsFiniteSet(first) /\ Cardinality(first) <= o - 0
    BY <1>1, <2>1, <2>2, <2>3, PlacesBound
  <2> QED
    BY <2>4
<1>7. IsFiniteSet(rest) /\ Cardinality(rest) <= last - (o + PageSize)
  <2>1. \A m \in rest : Place(rows, m) \in o + PageSize .. last - 1
    BY <1>1, <1>3, <1>4
  <2>2. rest \in SUBSET rows
    BY <1>5
  <2>3. o + PageSize \in Nat
    BY <1>1
  <2> HIDE DEF rest, last
  <2> QED
    BY <1>1, <1>3, <2>1, <2>2, <2>3, PlacesBound
<1>8. IsFiniteSet(shown) /\ Cardinality(shown) < PageSize
  <2>1. \A m \in rows : Rank(m) = Place(rows, m)
    BY DEF Rank, Place, Below
  <2>2. shown \subseteq Page(o)
    BY <1>5, <2>1 DEF Page
  <2>3. IsFiniteSet(Page(o))
    BY <1>1, IdsFinite DEF Page
  <2> HIDE DEF shown
  <2>4. IsFiniteSet(shown) /\ Cardinality(shown) <= Cardinality(Page(o))
    BY <2>2, <2>3, FS_Subset
  <2>5. Cardinality(shown) \in Nat /\ Cardinality(Page(o)) \in Nat
    BY <2>3, <2>4, FS_CardinalityType
  <2> QED
    BY <1>1, <2>4, <2>5
<1>9. all = (first \cup shown) \cup rest
  BY <1>1, <1>4
<1>10. last = Cardinality(all)
  BY DEF Place
<1> HIDE DEF first, shown, rest, all, last
<1>11. /\ Cardinality(first) \in Nat /\ Cardinality(shown) \in Nat
       /\ Cardinality(rest) \in Nat
  BY <1>6, <1>7, <1>8, FS_CardinalityType
<1>12. /\ IsFiniteSet(first \cup shown)
       /\ Cardinality(first \cup shown) <= Cardinality(first) + Cardinality(shown)
  <2>1. /\ IsFiniteSet(first \cup shown)
        /\ Cardinality(first \cup shown) =
             Cardinality(first) + Cardinality(shown) - Cardinality(first \cap shown)
    BY <1>6, <1>8, FS_Union
  <2>2. IsFiniteSet(first \cap shown)
    BY <1>6, FS_Intersection
  <2>3. Cardinality(first \cap shown) \in Nat
    BY <2>2, FS_CardinalityType
  <2> QED
    BY <1>11, <2>1, <2>3
<1>13. Cardinality(all) <= Cardinality(first \cup shown) + Cardinality(rest)
  <2>1. Cardinality((first \cup shown) \cup rest) =
            Cardinality(first \cup shown) + Cardinality(rest)
               - Cardinality((first \cup shown) \cap rest)
    BY <1>7, <1>12, FS_Union
  <2>2. IsFiniteSet((first \cup shown) \cap rest)
    BY <1>12, FS_Intersection
  <2>3. /\ Cardinality((first \cup shown) \cap rest) \in Nat
        /\ Cardinality(first \cup shown) \in Nat
    BY <1>12, <2>2, FS_CardinalityType
  <2> QED
    BY <1>9, <1>11, <2>1, <2>3
<1>14. Cardinality(first \cup shown) \in Nat
  BY <1>12, FS_CardinalityType
<1> QED
  BY <1>1, <1>3, <1>6, <1>7, <1>8, <1>10, <1>11, <1>12, <1>13, <1>14

\* at most one more
LEMMA OneMore ==
    ASSUME NEW S, IsFiniteSet(S), NEW X, \A x, y \in X : x = y,
           NEW T, T \subseteq S \cup X
    PROVE  IsFiniteSet(T) /\ Cardinality(T) <= Cardinality(S) + 1
<1>1. CASE X = {}
  <2>1. T \subseteq S
    BY <1>1
  <2>2. IsFiniteSet(T) /\ Cardinality(T) <= Cardinality(S)
    BY <2>1, FS_Subset
  <2>3. Cardinality(T) \in Nat /\ Cardinality(S) \in Nat
    BY <2>2, FS_CardinalityType
  <2> QED
    BY <2>2, <2>3
<1>2. CASE X # {}
  <2>1. PICK x \in X : TRUE
    BY <1>2
  <2>2. /\ IsFiniteSet(S \cup {x})
        /\ Cardinality(S \cup {x}) =
              IF x \in S THEN Cardinality(S) ELSE Cardinality(S) + 1
    BY FS_AddElement
  <2>3. T \in SUBSET (S \cup {x})
    <3>1. X = {x}
      BY <2>1
    <3> QED
      BY <3>1
  <2>4. IsFiniteSet(T) /\ Cardinality(T) <= Cardinality(S \cup {x})
    BY <2>2, <2>3, FS_Subset
  <2>5. Cardinality(T) \in Nat /\ Cardinality(S) \in Nat
    BY <2>4, FS_CardinalityType
  <2> QED
    BY <2>2, <2>4, <2>5
<1> QED
  BY <1>1, <1>2

-----------------------------------------------------------------------------
(***************************************************************************)
(* Types, and what each action does to a walk.                             *)
(***************************************************************************)
LEMMA PageType == ASSUME TypeOK, NEW o PROVE Page(o) \in SUBSET Ids
BY DEF Page, TypeOK

\* a page that was not refused
Shown(w) ==
    LET old == walk[w]  page == Page(old.offset) IN
    [pc |-> IF Cardinality(page) < PageSize THEN "done" ELSE old.pc,
     offset |-> old.offset + PageSize,
     got |-> old.got \cup page,
     twice |-> old.twice \cup (old.got \cap page),
     was |-> old.was, came |-> old.came, gone |-> old.gone]

LEMMA AskEffect ==
    ASSUME TypeOK, NEW w \in Callers, Ask(w), Admits(Key(w))
    PROVE  walk' = [walk EXCEPT ![w] = Shown(w)] /\ Shown(w) \in Walks
<1> DEFINE old == walk[w]
           page == Page(old.offset)
<1>1. old \in Walks /\ page \in SUBSET Ids /\ PageSize \in Nat
  BY PageType, ListAssumption DEF TypeOK
<1>2. Shown(w) \in Walks
  BY <1>1 DEF Shown, Walks
<1>3. walk' = [walk EXCEPT
          ![w].pc = IF Cardinality(page) < PageSize THEN "done" ELSE @,
          ![w].offset = @ + PageSize,
          ![w].got = @ \cup page,
          ![w].twice = @ \cup (walk[w].got \cap page)]
  BY DEF Ask
<1>4. walk \in [Callers -> Walks]
  BY DEF TypeOK
<1> DEFINE new == walk'[w]
<1>5. walk' = [walk EXCEPT ![w] = new]
  BY <1>3, <1>4
<1>6. new = Shown(w)
  BY <1>1, <1>3, <1>4 DEF Shown, Walks
<1> QED
  BY <1>2, <1>5, <1>6

LEMMA TypeStep == TypeOK /\ [Next]_vars => TypeOK'
<1> SUFFICES ASSUME TypeOK, [Next]_vars PROVE TypeOK'
  OBVIOUS
<1> USE DEF TypeOK
<1>1. CASE Insert
  <2>1. BucketsOK'
    BY <1>1 DEF Insert, buckets, BucketsOK
  <2> QED
    BY <1>1, <2>1, ListAssumption DEF Insert, Ids
<1>2. ASSUME NEW n \in Ids, CommitInsert(n) PROVE TypeOK'
  <2>1. BucketsOK'
    BY <1>2 DEF CommitInsert, buckets, BucketsOK
  <2>2. \A w \in Callers : [walk[w] EXCEPT !.came = @ \cup {n}] \in Walks
    BY DEF Walks
  <2>3. walk' \in [Callers -> Walks]
    BY <1>2, <2>2 DEF CommitInsert
  <2> QED
    BY <1>2, <2>1, <2>3 DEF CommitInsert
<1>3. ASSUME NEW n \in Ids, Rollback(n) PROVE TypeOK'
  BY <1>3 DEF Rollback, buckets, BucketsOK
<1>4. ASSUME NEW n \in Ids, Delete(n) PROVE TypeOK'
  <2>1. BucketsOK'
    BY <1>4 DEF Delete, buckets, BucketsOK
  <2>2. \A w \in Callers : [walk[w] EXCEPT !.gone = @ \cup {n}] \in Walks
    BY DEF Walks
  <2>3. walk' \in [Callers -> Walks]
    BY <1>4, <2>2 DEF Delete
  <2> QED
    BY <1>4, <2>1, <2>3 DEF Delete
<1>5. ASSUME NEW w \in Callers, Begin(w) PROVE TypeOK'
  <2>1. BucketsOK'
    BY <1>5 DEF Begin, buckets, BucketsOK
  <2>2. walk' \in [Callers -> Walks]
    BY <1>5 DEF Begin, Walks
  <2> QED
    BY <1>5, <2>1, <2>2 DEF Begin
<1>6. ASSUME NEW w \in Callers, Ask(w) PROVE TypeOK'
  <2>1. BucketsOK'
    BY <1>6, HitTypes, ListAssumption DEF Ask, Key
  <2>2. CASE ~ Admits(Key(w))
    BY <1>6, <2>1, <2>2 DEF Ask
  <2>3. CASE Admits(Key(w))
    <3>1. walk' \in [Callers -> Walks]
      BY <1>6, <2>3, AskEffect
    <3> QED
      BY <1>6, <2>1, <3>1 DEF Ask
  <2> QED
    BY <2>2, <2>3
<1>7. ASSUME NEW k \in Keys, Other(k) PROVE TypeOK'
  <2>1. BucketsOK'
    BY <1>7, HitTypes DEF Other
  <2> QED
    BY <1>7, <2>1, ListAssumption DEF Other
<1>8. CASE Elapse
  <2>1. BucketsOK'
    BY <1>8, TickTypes DEF Elapse
  <2> QED
    BY <1>8, <2>1 DEF Elapse
<1>9. CASE UNCHANGED vars
  BY <1>9 DEF vars, buckets, BucketsOK
<1> QED
  BY <1>1, <1>2, <1>3, <1>4, <1>5, <1>6, <1>7, <1>8, <1>9 DEF Next

LEMMA TypeInit == Init => TypeOK
<1> SUFFICES ASSUME Init PROVE TypeOK
  OBVIOUS
<1>1. BucketsOK
  BY LimitAssumption DEF Init, InitBuckets, BucketsOK
<1>2. walk \in [Callers -> Walks]
  BY DEF Init, Walks
<1> QED
  BY <1>1, <1>2, ListAssumption DEF Init, TypeOK

\* No caller ever sees a state that is not well-typed (dependencies.py:15-18).
THEOREM ListingTypeCorrect == Spec => []TypeOK
BY TypeInit, TypeStep, PTL DEF Spec

LEMMA WindowsStep == TypeOK /\ Windows /\ [Next]_vars => Windows'
<1> SUFFICES ASSUME TypeOK, Windows, [Next]_vars PROVE Windows'
  OBVIOUS
<1>1. BucketsOK
  BY DEF TypeOK
<1>2. CASE UNCHANGED buckets
  BY <1>2 DEF buckets, Windows, Counted, Numbered, Open
<1>3. ASSUME NEW k \in Keys, Hit(k) PROVE Windows'
  BY <1>1, <1>3, HitKeepsWindows
<1>4. CASE Tick
  BY <1>1, <1>4, TickKeepsWindows
<1>5. \/ UNCHANGED buckets
      \/ \E k \in Keys : Hit(k)
      \/ Tick
  BY ListAssumption DEF Next, vars, Insert, CommitInsert, Rollback, Delete, Begin,
                        Ask, Key, Other, Elapse
<1> QED
  BY <1>2, <1>3, <1>4, <1>5

\* Any interval as long as a window sees less than two limits (limiter.py:9).
THEOREM BurstsAreBounded == Spec => []Burst
<1>1. Init => Windows
  BY DEF Init, InitBuckets, Windows, Counted, Numbered
<1>2. TypeOK => BucketsOK
  BY DEF TypeOK
<1> QED
  BY <1>1, <1>2, TypeInit, TypeStep, WindowsStep, WindowsBoundBursts, PTL DEF Spec

(***************************************************************************)
(* Refusals.  Every number up to the counter is that of a hit in the open  *)
(* window.                                                                 *)
(***************************************************************************)
Filled ==
    \A k \in Keys, n \in 1 .. Limit :
        n <= count[k] => \E d \in 0 .. Window - 1 : <<d, n>> \in recent[k] /\ Open(k, d)

LEMMA HitFills ==
    ASSUME BucketsOK, Windows, Filled, NEW k \in Keys, Hit(k)
    PROVE  Filled'
<1> SUFFICES ASSUME NEW j \in Keys, NEW n \in 1 .. Limit, n <= count'[j]
             PROVE  \E d \in 0 .. Window - 1 : <<d, n>> \in recent'[j] /\ Open(j, d)'
  BY DEF Filled
<1>1. /\ count[j] \in 0 .. Limit + 1 /\ left[j] \in 0 .. Window
      /\ Limit \in Nat \ {0} /\ Window \in Nat \ {0}
      /\ left[j] = 0 <=> count[j] = 0
  BY LimitAssumption DEF BucketsOK, Windows, Counted
<1>2. CASE n <= count[j]
  <2>1. PICK d \in 0 .. Window - 1 : <<d, n>> \in recent[j] /\ Open(j, d)
    BY <1>2 DEF Filled
  <2>2. <<d, n>> \in recent'[j]
    BY <2>1 DEF Hit, BucketsOK
  <2>3. left'[j] = left[j]
    BY <1>1, <1>2 DEF Hit, BucketsOK
  <2> QED
    BY <2>1, <2>2, <2>3 DEF Open
<1>3. CASE ~ (n <= count[j])
  <2>1. j = k
    BY <1>3 DEF Hit, BucketsOK
  <2>2. n = count[k] + 1 /\ count[k] < Limit
    BY <1>1, <1>3, <2>1 DEF Hit, BucketsOK
  <2>3. <<0, n>> \in recent'[k]
    BY <2>2 DEF Hit, BucketsOK, Admits
  <2>4. Open(k, 0)' /\ 0 \in 0 .. Window - 1
    BY <1>1, <2>1 DEF Hit, BucketsOK, Open
  <2> QED
    BY <2>1, <2>3, <2>4
<1> QED
  BY <1>2, <1>3

LEMMA TickFills ==
    ASSUME BucketsOK, Filled, Tick
    PROVE  Filled'
<1> SUFFICES ASSUME NEW k \in Keys, NEW n \in 1 .. Limit, n <= count'[k]
             PROVE  \E d \in 0 .. Window - 1 : <<d, n>> \in recent'[k] /\ Open(k, d)'
  BY DEF Filled
<1>1. count[k] \in 0 .. Limit + 1 /\ left[k] \in 0 .. Window
      /\ Limit \in Nat \ {0} /\ Window \in Nat \ {0}
  BY LimitAssumption DEF BucketsOK
<1>2. left[k] > 1 /\ count'[k] = count[k] /\ left'[k] = left[k] - 1
  BY <1>1 DEF Tick
<1>3. PICK d \in 0 .. Window - 1 : <<d, n>> \in recent[k] /\ Open(k, d)
  BY <1>2 DEF Filled
<1>4. d + 1 \in 0 .. Window - 1 /\ Open(k, d + 1)'
  BY <1>1, <1>2, <1>3 DEF Open
<1>5. <<d + 1, n>> \in recent'[k]
  BY <1>1, <1>3, <1>4 DEF Tick, Older
<1> QED
  BY <1>4, <1>5

LEMMA FilledStep == TypeOK /\ Windows /\ Filled /\ [Next]_vars => Filled'
<1> SUFFICES ASSUME TypeOK, Windows, Filled, [Next]_vars PROVE Filled'
  OBVIOUS
<1>1. BucketsOK
  BY DEF TypeOK
<1>2. CASE UNCHANGED buckets
  BY <1>2 DEF buckets, Filled, Open
<1>3. ASSUME NEW k \in Keys, Hit(k) PROVE Filled'
  BY <1>1, <1>3, HitFills
<1>4. CASE Tick
  BY <1>1, <1>4, TickFills
<1>5. \/ UNCHANGED buckets
      \/ \E k \in Keys : Hit(k)
      \/ Tick
  BY ListAssumption DEF Next, vars, Insert, CommitInsert, Rollback, Delete, Begin,
                        Ask, Key, Other, Elapse
<1> QED
  BY <1>2, <1>3, <1>4, <1>5

LEMMA FilledBoundsRefusals == BucketsOK /\ Filled => RefusedOnlyAtLimit
<1> SUFFICES ASSUME BucketsOK, Filled, NEW k \in Keys, ~ Admits(k)
             PROVE  Cardinality(recent[k]) >= Limit
  BY DEF RefusedOnlyAtLimit
<1> DEFINE age(n) == CHOOSE d \in 0 .. Window - 1 : <<d, n>> \in recent[k]
           f == [n \in 1 .. Limit |-> <<age(n), n>>]
<1>1. \A n \in 1 .. Limit : <<age(n), n>> \in recent[k]
  BY LimitAssumption DEF BucketsOK, Filled, Admits
<1> HIDE DEF age
<1>2. f \in Injection(1 .. Limit, recent[k])
  BY <1>1 DEF Injection, IsInjective
<1>3. IsFiniteSet(recent[k])
  <2>1. IsFiniteSet(0 .. Window - 1) /\ IsFiniteSet(1 .. Limit)
    BY LimitAssumption, FS_Interval
  <2>2. IsFiniteSet(Hits)
    BY <2>1, FS_Product DEF Hits
  <2>3. recent[k] \subseteq Hits
    BY DEF BucketsOK
  <2> QED
    BY <2>2, <2>3, FS_Subset
<1>4. Cardinality(1 .. Limit) = Limit
  BY LimitAssumption, FS_Interval
<1>5. Cardinality(1 .. Limit) <= Cardinality(recent[k])
  BY <1>2, <1>3, FS_Injection
<1>6. Cardinality(recent[k]) \in Nat /\ Limit \in Nat
  BY <1>3, FS_CardinalityType, LimitAssumption
<1> QED
  BY <1>4, <1>5, <1>6

\* A caller is refused only when it has had its limit within the last window
\* (limiter.py:9).
THEOREM RefusalsAreDue == Spec => []RefusedOnlyAtLimit
<1>1. Init => Windows /\ Filled
  BY LimitAssumption
  DEF Init, InitBuckets, Windows, Counted, Numbered, Filled
<1>2. TypeOK => BucketsOK
  BY DEF TypeOK
<1> QED
  BY <1>1, <1>2, TypeInit, TypeStep, WindowsStep, FilledStep, FilledBoundsRefusals,
     PTL DEF Spec

-----------------------------------------------------------------------------
(***************************************************************************)
(* Ids.  A row that is gone does not come back, and one that is to come    *)
(* has not been seen.                                                      *)
(***************************************************************************)
Sequenced ==
    /\ rows \cup pending \subseteq 1 .. nextId - 1
    /\ rows \cap pending = {}

Tracked(w) ==
    /\ walk[w].was \ walk[w].gone \subseteq rows
    /\ walk[w].got \subseteq rows \cup walk[w].gone
    /\ walk[w].gone \cap (rows \cup pending) = {}
    /\ walk[w].came \cap pending = {}
    /\ walk[w].gone \cup walk[w].came \subseteq 1 .. nextId - 1

Untouched(w) ==
    /\ walk[w].offset = 0
    /\ walk[w].got = {} /\ walk[w].twice = {} /\ walk[w].was = {}
    /\ walk[w].came = {} /\ walk[w].gone = {}

History ==
    /\ Sequenced
    /\ \A w \in Callers : Walking(w) => Tracked(w)
    /\ \A w \in Callers : walk[w].pc = "idle" => Untouched(w)

LEMMA HistoryStep == TypeOK /\ History /\ [Next]_vars => History'
<1> SUFFICES ASSUME TypeOK, History, [Next]_vars PROVE History'
  OBVIOUS
<1> USE DEF History
<1>1. /\ nextId \in Nat \ {0} /\ rows \in SUBSET Ids /\ pending \in SUBSET Ids
      /\ MaxId \in Nat /\ walk \in [Callers -> Walks]
  BY ListAssumption DEF TypeOK
<1>2. ASSUME walk' = walk, rows' = rows, pending' \subseteq pending,
             nextId' = nextId
      PROVE  History'
  BY <1>2 DEF Sequenced, Tracked, Untouched, Walking
<1>3. CASE Insert
  <2>1. /\ pending' = pending \cup {nextId} /\ nextId' = nextId + 1
        /\ rows' = rows /\ walk' = walk
    BY <1>3 DEF Insert
  <2>2. Sequenced'
    <3>1. nextId' - 1 = nextId /\ 1 .. nextId - 1 \subseteq 1 .. nextId
          /\ nextId \in 1 .. nextId /\ nextId \notin 1 .. nextId - 1
      BY <1>1, <2>1
    <3> QED
      BY <2>1, <3>1 DEF Sequenced
  <2>3. ASSUME NEW w \in Callers, Walking(w) PROVE Tracked(w)'
    BY <1>1, <2>1, <2>3 DEF Tracked
  <2> QED
    BY <2>1, <2>2, <2>3 DEF Walking, Untouched
<1>4. ASSUME NEW n \in Ids, CommitInsert(n) PROVE History'
  <2>1. /\ n \in pending /\ pending' = pending \ {n} /\ rows' = rows \cup {n}
        /\ nextId' = nextId
    BY <1>4 DEF CommitInsert
  <2>2. \A w \in Callers : walk'[w] =
          IF Walking(w) THEN [walk[w] EXCEPT !.came = @ \cup {n}] ELSE walk[w]
    BY <1>4 DEF CommitInsert
  <2>3. Sequenced'
    BY <2>1 DEF Sequenced
  <2>4. ASSUME NEW w \in Callers, Walking(w) PROVE Tracked(w)'
    <3>1. /\ walk'[w].was = walk[w].was /\ walk'[w].got = walk[w].got
          /\ walk'[w].gone = walk[w].gone /\ walk'[w].came = walk[w].came \cup {n}
      BY <1>1, <2>2, <2>4 DEF Walks
    <3>2. Tracked(w) /\ n \in 1 .. nextId - 1
      BY <2>1, <2>4 DEF Sequenced
    <3> QED
      BY <2>1, <3>1, <3>2 DEF Tracked
  <2>5. ASSUME NEW w \in Callers
        PROVE  /\ Walking(w)' <=> Walking(w)
               /\ walk'[w].pc = "idle" => walk'[w] = walk[w]
    BY <1>1, <2>2 DEF Walking, Walks
  <2> QED
    BY <2>3, <2>4, <2>5 DEF Untouched
<1>5. ASSUME NEW n \in Ids, Delete(n) PROVE History'
  <2>1. /\ n \in rows /\ pending' = pending /\ rows' = rows \ {n}
        /\ nextId' = nextId
    BY <1>5 DEF Delete
  <2>2. \A w \in Callers : walk'[w] =
          IF Walking(w) THEN [walk[w] EXCEPT !.gone = @ \cup {n}] ELSE walk[w]
    BY <1>5 DEF Delete
  <2>3. Sequenced'
    BY <2>1 DEF Sequenced
  <2>4. ASSUME NEW w \in Callers, Walking(w) PROVE Tracked(w)'
    <3>1. /\ walk'[w].was = walk[w].was /\ walk'[w].got = walk[w].got
          /\ walk'[w].came = walk[w].came /\ walk'[w].gone = walk[w].gone \cup {n}
      BY <1>1, <2>2, <2>4 DEF Walks
    <3>2. Tracked(w) /\ n \in 1 .. nextId - 1 /\ n \notin pending
      BY <2>1, <2>4 DEF Sequenced
    <3> QED
      BY <2>1, <3>1, <3>2 DEF Tracked
  <2>5. ASSUME NEW w \in Callers
        PROVE  /\ Walking(w)' <=> Walking(w)
               /\ walk'[w].pc = "idle" => walk'[w] = walk[w]
    BY <1>1, <2>2 DEF Walking, Walks
  <2> QED
    BY <2>3, <2>4, <2>5 DEF Untouched
<1>6. ASSUME NEW v \in Callers, Begin(v) PROVE History'
  <2>1. /\ rows' = rows /\ pending' = pending /\ nextId' = nextId
        /\ walk[v].pc = "idle"
    BY <1>6 DEF Begin
  <2>2. /\ walk'[v].pc = "walking" /\ walk'[v].was = rows
        /\ walk'[v].got = walk[v].got /\ walk'[v].came = walk[v].came
        /\ walk'[v].gone = walk[v].gone
    BY <1>1, <1>6 DEF Begin, Walks
  <2>3. \A w \in Callers \ {v} : walk'[w] = walk[w]
    BY <1>1, <1>6 DEF Begin
  <2>4. Tracked(v)'
    BY <2>1, <2>2 DEF Untouched, Tracked
  <2> QED
    BY <2>1, <2>2, <2>3, <2>4 DEF Sequenced, Tracked, Untouched, Walking
<1>7. ASSUME NEW v \in Callers, Ask(v) PROVE History'
  <2>1. rows' = rows /\ pending' = pending /\ nextId' = nextId /\ Walking(v)
    BY <1>7 DEF Ask
  <2>2. CASE ~ Admits(Key(v))
    BY <1>2, <1>7, <2>1, <2>2 DEF Ask
  <2>3. CASE Admits(Key(v))
    <3>1. walk' = [walk EXCEPT ![v] = Shown(v)]
      BY <1>7, <2>3, AskEffect
    <3>2. /\ Shown(v).was = walk[v].was /\ Shown(v).gone = walk[v].gone
          /\ Shown(v).came = walk[v].came
          /\ Shown(v).got = walk[v].got \cup Page(walk[v].offset)
          /\ Shown(v).pc # "idle"
      BY <2>1 DEF Shown, Walking
    <3>3. walk'[v] = Shown(v) /\ \A w \in Callers \ {v} : walk'[w] = walk[w]
      BY <1>1, <3>1
    <3>4. Tracked(v)'
      BY <2>1, <3>2, <3>3 DEF Tracked, Page
    <3> QED
      BY <2>1, <3>2, <3>3, <3>4 DEF Sequenced, Tracked, Untouched, Walking
  <2> QED
    BY <2>2, <2>3
<1>8. /\ \A n \in Ids : Rollback(n) => pending' \subseteq pending /\ rows' = rows
             /\ walk' = walk /\ nextId' = nextId
      /\ \A k \in Keys : Other(k) => UNCHANGED <<rows, pending, nextId, walk>>
      /\ Elapse \/ UNCHANGED vars => UNCHANGED <<rows, pending, nextId, walk>>
  BY DEF Rollback, Other, Elapse, vars
<1> QED
  BY <1>2, <1>3, <1>4, <1>5, <1>6, <1>7, <1>8 DEF Next

-----------------------------------------------------------------------------
(***************************************************************************)
(* The account of a walk.  Rows that have slipped before the offset        *)
(* without being shown are paid for by deletions, rows that were pushed    *)
(* behind it after they were shown by late commits.                        *)
(***************************************************************************)
Accounted(T, S) ==
    /\ \A n \in T : \E m \in S : m < n
    /\ Cardinality(T) <= Cardinality(S)

\* one element more at most, and above d
GainsOne(T, T1, d) ==
    /\ \A x, y \in T1 \ T : x = y
    /\ \A x \in T1 \ T : d < x

Shifted(w) ==
    IF Walking(w)
      THEN {n \in (walk[w].was \ walk[w].gone) \ walk[w].got :
                Rank(n) < walk[w].offset}
      ELSE Missed(w)

Behind(w) ==
    IF Walking(w)
      THEN {n \in walk[w].got \cap rows : Rank(n) >= walk[w].offset} ELSE {}

Pushed(w) == walk[w].twice \cup Behind(w)

Accounts ==
    \A w \in Callers :
        Accounted(Shifted(w), walk[w].gone) /\ Accounted(Pushed(w), Late(w))

LEMMA AccountedLess ==
    ASSUME NEW S \in SUBSET Ids, NEW T \in SUBSET Ids, Accounted(T, S),
           NEW S1 \in SUBSET Ids, S \subseteq S1, NEW T1 \in SUBSET T
    PROVE  Accounted(T1, S1)
<1>1. IsFiniteSet(S1) /\ IsFiniteSet(T)
  BY IdsFinite
<1>2. /\ IsFiniteSet(S) /\ Cardinality(S) <= Cardinality(S1)
      /\ IsFiniteSet(T1) /\ Cardinality(T1) <= Cardinality(T)
  BY <1>1, FS_Subset
<1>3. /\ Cardinality(S) \in Nat /\ Cardinality(S1) \in Nat
      /\ Cardinality(T) \in Nat /\ Cardinality(T1) \in Nat
  BY <1>1, <1>2, FS_CardinalityType
<1>4. Cardinality(T1) <= Cardinality(S1)
  BY <1>2, <1>3 DEF Accounted
<1> QED
  BY <1>4 DEF Accounted

LEMMA AccountedMore ==
    ASSUME NEW S \in SUBSET Ids, NEW T \in SUBSET Ids, Accounted(T, S),
           NEW d \in Ids, d \notin S,
           NEW S1 \in SUBSET Ids, S \cup {d} \subseteq S1,
           NEW T1, GainsOne(T, T1, d)
    PROVE  Accounted(T1, S1)
<1>1. IsFiniteSet(S) /\ IsFiniteSet(S1) /\ IsFiniteSet(T)
  BY IdsFinite
<1> DEFINE X == T1 \ T
<1>2. IsFiniteSet(T1) /\ Cardinality(T1) <= Cardinality(T) + 1
  <2>1. T1 \subseteq T \cup X /\ \A x, y \in X : x = y
    BY DEF GainsOne
  <2> QED
    BY <1>1, <2>1, OneMore
<1>3. IsFiniteSet(S \cup {d}) /\ Cardinality(S \cup {d}) = Cardinality(S) + 1
  BY <1>1, FS_AddElement
<1>4. Cardinality(S \cup {d}) <= Cardinality(S1)
  BY <1>1, FS_Subset
<1>5. /\ Cardinality(S) \in Nat /\ Cardinality(S1) \in Nat
      /\ Cardinality(T) \in Nat /\ Cardinality(T1) \in Nat
  BY <1>1, <1>2, FS_CardinalityType
<1>6. Cardinality(T1) <= Cardinality(S1)
  BY <1>2, <1>3, <1>4, <1>5 DEF Accounted
<1>7. \A n \in T1 : \E m \in S1 : m < n
  BY DEF Accounted, GainsOne
<1> QED
  BY <1>6, <1>7 DEF Accounted

LEMMA AccountTypes ==
    ASSUME TypeOK, NEW w \in Callers
    PROVE  /\ walk[w] \in Walks /\ walk[w].offset \in Nat
           /\ walk[w].got \in SUBSET Ids /\ walk[w].twice \in SUBSET Ids
           /\ walk[w].was \in SUBSET Ids /\ walk[w].came \in SUBSET Ids
           /\ walk[w].gone \in SUBSET Ids
           /\ Shifted(w) \in SUBSET Ids /\ Pushed(w) \in SUBSET Ids
           /\ Late(w) \in SUBSET Ids
<1>1. walk[w] \in Walks
  BY DEF TypeOK
<1>2. /\ walk[w].offset \in Nat
      /\ walk[w].got \in SUBSET Ids /\ walk[w].twice \in SUBSET Ids
      /\ walk[w].was \in SUBSET Ids /\ walk[w].came \in SUBSET Ids
      /\ walk[w].gone \in SUBSET Ids
  BY <1>1 DEF Walks
<1> QED
  BY <1>1, <1>2 DEF Shifted, Missed, Pushed, Behind, Late

\* nothing that bears on a walk happens
LEMMA AccountKept ==
    ASSUME NEW w \in Callers, walk'[w] = walk[w], rows' = rows \/ ~ Walking(w)
    PROVE  /\ Shifted(w)' = Shifted(w) /\ Pushed(w)' = Pushed(w)
           /\ Late(w)' = Late(w)
<1>1. CASE rows' = rows
  BY <1>1 DEF Shifted, Missed, Pushed, Behind, Late, Walking, Rank
<1>2. CASE ~ Walking(w)
  BY <1>2 DEF Shifted, Missed, Pushed, Behind, Late, Walking
<1> QED
  BY <1>1, <1>2

LEMMA RankIsPlace == \A n : Rank(n) = Place(rows, n) /\ Rank(n)' = Place(rows', n)
BY DEF Rank, Place, Below

LEMMA DeleteAccounted ==
    ASSUME TypeOK, TypeOK', History, Accounts, NEW d \in Ids, Delete(d),
           NEW w \in Callers
    PROVE  /\ Accounted(Shifted(w)', walk'[w].gone)
           /\ Accounted(Pushed(w)', Late(w)')
<1>1. /\ d \in rows /\ rows' = rows \ {d} /\ rows \in SUBSET Ids
      /\ walk'[w] = IF Walking(w) THEN [walk[w] EXCEPT !.gone = @ \cup {d}]
                                  ELSE walk[w]
  BY DEF Delete, TypeOK
<1>2. CASE ~ Walking(w)
  BY <1>1, <1>2, AccountKept DEF Accounts
<1>3. CASE Walking(w)
  <2>1. /\ walk'[w].was = walk[w].was /\ walk'[w].got = walk[w].got
        /\ walk'[w].twice = walk[w].twice /\ walk'[w].came = walk[w].came
        /\ walk'[w].offset = walk[w].offset /\ walk'[w].pc = walk[w].pc
        /\ walk'[w].gone = walk[w].gone \cup {d}
    BY <1>1, <1>3, AccountTypes DEF Walks
  <2>2. Tracked(w)
    BY <1>3 DEF History
  <2>3. ASSUME NEW n \in Ids
        PROVE  /\ Rank(n) = IF d < n THEN Rank(n)' + 1 ELSE Rank(n)'
               /\ Rank(n)' \in Nat
    <3>1. rows' \in SUBSET Ids /\ d \in Ids \ rows' /\ rows' \cup {d} = rows
      BY <1>1
    <3>2. Place(rows, n) = IF d < n THEN Place(rows', n) + 1 ELSE Place(rows', n)
      BY <3>1, PlaceAfter
    <3>3. Place(rows', n) \in Nat
      BY <3>1, PlaceType
    <3> QED
      BY <3>2, <3>3, RankIsPlace
  <2> DEFINE o == walk[w].offset
             X == {n \in rows : Rank(n) = o /\ d < n}
  <2>4. Shifted(w)' \subseteq Shifted(w) \cup X
    <3> SUFFICES ASSUME NEW n \in Shifted(w)', n \notin Shifted(w) PROVE n \in X
      OBVIOUS
    <3>1. /\ n \in (walk[w].was \ walk[w].gone) \ walk[w].got /\ Rank(n)' < o
      BY <1>3, <2>1 DEF Shifted, Walking
    <3>2. n \in rows /\ n \in Ids
      BY <1>1, <2>2, <3>1 DEF Tracked
    <3>3. ~ (Rank(n) < o)
      BY <1>3, <3>1 DEF Shifted
    <3>4. o \in Nat
      BY AccountTypes
    <3> QED
      BY <2>3, <3>1, <3>2, <3>3, <3>4
  <2>5. ASSUME NEW x \in X, NEW y \in X PROVE x = y
    BY <1>1, PlacesDiffer, RankIsPlace
  <2>6. walk'[w].gone \in SUBSET Ids /\ walk[w].gone \in SUBSET Ids
        /\ Shifted(w) \in SUBSET Ids
    BY <1>1, <2>1, AccountTypes
  <2>7. d \notin walk[w].gone
    BY <1>1, <2>2 DEF Tracked
  <2>8. \A x \in X : d < x
    OBVIOUS
  <2>9. Accounted(Shifted(w), walk[w].gone) /\ Accounted(Pushed(w), Late(w))
    BY DEF Accounts
  <2>10. Accounted(Shifted(w)', walk'[w].gone)
    <3>1. walk[w].gone \cup {d} \subseteq walk'[w].gone
      BY <2>1
    <3>2. GainsOne(Shifted(w), Shifted(w)', d)
      BY <2>4, <2>5, <2>8 DEF GainsOne
    <3> QED
      BY <2>6, <2>7, <2>9, <3>1, <3>2, AccountedMore
  <2>11. Late(w)' = Late(w)
    BY <2>1 DEF Late
  <2>12. Pushed(w)' \subseteq Pushed(w)
    <3> SUFFICES ASSUME NEW n \in Behind(w)' PROVE n \in Behind(w)
      BY <2>1 DEF Pushed
    <3>1. n \in walk[w].got \cap rows /\ Rank(n)' >= o
      BY <1>1, <1>3, <2>1 DEF Behind, Walking
    <3>2. n \in Ids /\ o \in Nat
      BY <1>1, <3>1, AccountTypes
    <3>3. Rank(n) >= o
      BY <2>3, <3>1, <3>2
    <3> QED
      BY <1>3, <3>1, <3>3 DEF Behind
  <2>13. Accounted(Pushed(w)', Late(w)')
    BY <2>9, <2>11, <2>12, AccountTypes, AccountedLess
  <2> QED
    BY <2>10, <2>13
<1> QED
  BY <1>2, <1>3

LEMMA CommitAccounted ==
    ASSUME TypeOK, TypeOK', History, Accounts, NEW c \in Ids, CommitInsert(c),
           NEW w \in Callers
    PROVE  /\ Accounted(Shifted(w)', walk'[w].gone)
           /\ Accounted(Pushed(w)', Late(w)')
<1>1. /\ c \in pending /\ rows' = rows \cup {c} /\ rows \in SUBSET Ids
      /\ walk'[w] = IF Walking(w) THEN [walk[w] EXCEPT !.came = @ \cup {c}]
                                  ELSE walk[w]
  BY DEF CommitInsert, TypeOK
<1>2. CASE ~ Walking(w)
  BY <1>1, <1>2, AccountKept DEF Accounts
<1>3. CASE Walking(w)
  <2>1. /\ walk'[w].was = walk[w].was /\ walk'[w].got = walk[w].got
        /\ walk'[w].twice = walk[w].twice /\ walk'[w].gone = walk[w].gone
        /\ walk'[w].offset = walk[w].offset /\ walk'[w].pc = walk[w].pc
        /\ walk'[w].came = walk[w].came \cup {c}
    BY <1>1, <1>3, AccountTypes DEF Walks
  <2>2. /\ c \notin rows /\ c \notin walk[w].came /\ c \notin walk[w].got
        /\ walk[w].was \ walk[w].gone \subseteq rows
    BY <1>1, <1>3 DEF History, Sequenced, Tracked
  <2>3. ASSUME NEW n \in Ids
        PROVE  /\ Rank(n)' = IF c < n THEN Rank(n) + 1 ELSE Rank(n)
               /\ Rank(n) \in Nat
    <3>1. Place(rows \cup {c}, n) = IF c < n THEN Place(rows, n) + 1 ELSE Place(rows, n)
      BY <1>1, <2>2, PlaceAfter
    <3>2. Place(rows, n) \in Nat
      BY <1>1, PlaceType
    <3> QED
      BY <1>1, <3>1, <3>2, RankIsPlace
  <2> DEFINE o == walk[w].offset
  <2>4. o \in Nat
    BY AccountTypes
  <2>5. Accounted(Shifted(w), walk[w].gone) /\ Accounted(Pushed(w), Late(w))
    BY DEF Accounts
  <2>6. Shifted(w)' \subseteq Shifted(w)
    <3> SUFFICES ASSUME NEW n \in Shifted(w)' PROVE n \in Shifted(w)
      OBVIOUS
    <3>1. n \in (walk[w].was \ walk[w].gone) \ walk[w].got /\ Rank(n)' < o
      BY <1>3, <2>1 DEF Shifted, Walking
    <3>2. n \in Ids
      BY <1>1, <2>2, <3>1
    <3>3. Rank(n) < o
      BY <2>3, <2>4, <3>1, <3>2
    <3> QED
      BY <1>3, <3>1, <3>3 DEF Shifted
  <2>7. Accounted(Shifted(w)', walk'[w].gone)
    BY <2>1, <2>5, <2>6, AccountTypes, AccountedLess
  <2>8. ASSUME NEW n \in Pushed(w)' \ Pushed(w)
        PROVE  n \in rows /\ n \in walk[w].got /\ Rank(n) = o - 1 /\ c < n
    <3>1. n \in Behind(w)' /\ n \notin Behind(w)
      BY <2>1 DEF Pushed
    <3>2. n \in walk[w].got /\ n \in rows' /\ Rank(n)' >= o
      BY <1>3, <2>1, <3>1 DEF Behind, Walking
    <3>3. n \in rows /\ n \in Ids
      BY <1>1, <2>2, <3>2
    <3>4. ~ (Rank(n) >= o)
      BY <1>3, <3>1, <3>2, <3>3 DEF Behind
    <3> QED
      BY <2>3, <2>4, <3>2, <3>3, <3>4
  <2>9. /\ Late(w) \in SUBSET Ids /\ Late(w)' \in SUBSET Ids /\ Pushed(w) \in SUBSET Ids
        /\ Late(w) \subseteq Late(w)' /\ c \notin Late(w)
    <3>1. Late(w) \in SUBSET Ids /\ Pushed(w) \in SUBSET Ids
      BY AccountTypes
    <3>2. walk'[w].came \in SUBSET Ids
      BY <1>1, <2>1, AccountTypes
    <3>3. Late(w)' \in SUBSET Ids
      BY <3>2 DEF Late
    <3> QED
      BY <2>1, <2>2, <3>1, <3>3 DEF Late
  <2>10. CASE Pushed(w)' \ Pushed(w) = {}
    <3>1. Pushed(w)' \in SUBSET Pushed(w)
      BY <2>10
    <3> QED
      BY <2>5, <2>7, <2>9, <3>1, AccountedLess
  <2>11. CASE Pushed(w)' \ Pushed(w) # {}
    <3>1. c \in Late(w)'
      BY <2>1, <2>8, <2>11 DEF Late
    <3>2. Late(w) \cup {c} \subseteq Late(w)'
      BY <2>9, <3>1
    <3>3. \A x, y \in Pushed(w)' \ Pushed(w) : x = y
      BY <1>1, <2>8, PlacesDiffer, RankIsPlace
    <3>4. GainsOne(Pushed(w), Pushed(w)', c)
      BY <2>8, <3>3 DEF GainsOne
    <3>5. Accounted(Pushed(w)', Late(w)')
      BY <2>5, <2>9, <3>2, <3>4, AccountedMore
    <3> QED
      BY <2>7, <3>5
  <2> QED
    BY <2>10, <2>11
<1> QED
  BY <1>2, <1>3

LEMMA AskAccounted ==
    ASSUME TypeOK, TypeOK', History, Accounts, NEW w \in Callers, Ask(w),
           Admits(Key(w))
    PROVE  /\ Accounted(Shifted(w)', walk'[w].gone)
           /\ Accounted(Pushed(w)', Late(w)')
<1> DEFINE o == walk[w].offset
           page == Page(o)
<1>1. Walking(w) /\ rows' = rows /\ walk'[w] = Shown(w) /\ rows \in SUBSET Ids
  <2>1. walk' = [walk EXCEPT ![w] = Shown(w)]
    BY AskEffect
  <2>2. walk \in [Callers -> Walks] /\ rows \in SUBSET Ids
    BY DEF TypeOK
  <2>3. Walking(w) /\ rows' = rows
    BY DEF Ask
  <2> QED
    BY <2>1, <2>2, <2>3
<1>2. /\ walk'[w].was = walk[w].was /\ walk'[w].gone = walk[w].gone
      /\ walk'[w].came = walk[w].came /\ walk'[w].got = walk[w].got \cup page
      /\ walk'[w].twice = walk[w].twice \cup (walk[w].got \cap page)
      /\ walk'[w].offset = o + PageSize
      /\ walk'[w].pc = IF Cardinality(page) < PageSize THEN "done" ELSE "walking"
  BY <1>1 DEF Shown, Walking
<1>3. \A n \in rows : /\ Rank(n) \in Nat /\ Rank(n)' = Rank(n)
                      /\ n \in page <=> Rank(n) >= o /\ Rank(n) < o + PageSize
  <2>1. \A n \in rows : Rank(n) \in Nat
    BY <1>1, PlaceType, RankIsPlace
  <2>2. o \in Nat /\ PageSize \in Nat \ {0}
    BY AccountTypes, ListAssumption
  <2>3. \A n : Rank(n)' = Rank(n)
    BY <1>1, RankIsPlace
  <2> QED
    BY <2>1, <2>2, <2>3 DEF Page
<1>4. o \in Nat /\ PageSize \in Nat \ {0} /\ page \subseteq rows
  BY AccountTypes, ListAssumption DEF Page
<1>5. walk[w].was \ walk[w].gone \subseteq rows
  BY <1>1 DEF History, Tracked
<1>6. Accounted(Shifted(w), walk[w].gone) /\ Accounted(Pushed(w), Late(w))
  BY DEF Accounts
<1>7. Shifted(w)' \subseteq Shifted(w)
  <2> SUFFICES ASSUME NEW n \in Shifted(w)' PROVE n \in Shifted(w)
    OBVIOUS
  <2>1. n \in (walk[w].was \ walk[w].gone) \ (walk[w].got \cup page)
    BY <1>2 DEF Shifted, Missed, Walking
  <2>2. n \in rows
    BY <1>5, <2>1
  <2>3. Rank(n) < o + PageSize
    <3>1. CASE Cardinality(page) < PageSize
      BY <1>4, <2>2, <3>1, ShortPage
    <3>2. CASE ~ (Cardinality(page) < PageSize)
      <4>1. Walking(w)'
        BY <1>2, <3>2 DEF Walking
      <4>2. Rank(n)' < o + PageSize
        BY <1>2, <4>1 DEF Shifted
      <4> QED
        BY <1>3, <2>2, <4>2
    <3> QED
      BY <3>1, <3>2
  <2>4. Rank(n) < o
    BY <1>3, <1>4, <2>1, <2>2, <2>3
  <2> QED
    BY <1>1, <2>1, <2>4 DEF Shifted
<1>8. Pushed(w)' \subseteq Pushed(w)
  <2> SUFFICES ASSUME NEW n \in Pushed(w)', n \notin walk[w].twice
               PROVE  n \in Behind(w)
    BY DEF Pushed
  <2>1. CASE n \in walk[w].got \cap page
    BY <1>1, <1>3, <1>4, <2>1 DEF Behind
  <2>2. CASE n \notin walk[w].got \cap page
    <3>1. n \in Behind(w)'
      BY <1>2, <2>2 DEF Pushed
    <3>2. n \in (walk[w].got \cup page) /\ n \in rows /\ Rank(n)' >= o + PageSize
      BY <1>1, <1>2, <3>1 DEF Behind
    <3>3. Rank(n) >= o + PageSize
      BY <1>3, <3>2
    <3>4. n \notin page /\ Rank(n) >= o
      BY <1>3, <1>4, <3>2, <3>3
    <3> QED
      BY <1>1, <3>2, <3>4 DEF Behind
  <2> QED
    BY <2>1, <2>2
<1>9. Late(w) \subseteq Late(w)' /\ Late(w)' \in SUBSET Ids
  <2>1. walk'[w].came \in SUBSET Ids
    BY <1>2, AccountTypes
  <2> QED
    BY <1>2, <2>1 DEF Late
<1>10. Accounted(Shifted(w)', walk'[w].gone)
  BY <1>2, <1>6, <1>7, AccountTypes, AccountedLess
<1>11. Accounted(Pushed(w)', Late(w)')
  BY <1>6, <1>8, <1>9, AccountTypes, AccountedLess
<1> QED
  BY <1>10, <1>11

LEMMA NoAccount == Accounted({}, {})
<1>1. Cardinality({}) = 0
  BY FS_EmptySet
<1> QED
  BY <1>1 DEF Accounted

LEMMA BeginAccounted ==
    ASSUME TypeOK, History, NEW w \in Callers, Begin(w)
    PROVE  /\ Accounted(Shifted(w)', walk'[w].gone)
           /\ Accounted(Pushed(w)', Late(w)')
<1>1. /\ walk[w].pc = "idle" /\ rows' = rows /\ rows \in SUBSET Ids
      /\ walk' = [walk EXCEPT ![w].pc = "walking", ![w].was = rows]
  BY DEF Begin, TypeOK
<1>2. Untouched(w)
  BY <1>1 DEF History
<1>3. /\ walk'[w].pc = "walking" /\ walk'[w].offset = 0
      /\ walk'[w].got = {} /\ walk'[w].twice = {}
      /\ walk'[w].came = {} /\ walk'[w].gone = {} /\ walk'[w].was = rows
  BY <1>1, <1>2, AccountTypes DEF Untouched, Walks, TypeOK
<1>4. \A n \in rows : ~ (Rank(n)' < 0)
  <2>1. \A n \in rows : Rank(n)' \in Nat
    BY <1>1, PlaceType, RankIsPlace
  <2> QED
    BY <2>1
<1>5. Shifted(w)' = {}
  BY <1>3, <1>4 DEF Shifted, Walking
<1>6. Pushed(w)' = {} /\ Late(w)' = {}
  BY <1>3 DEF Pushed, Behind, Late
<1> QED
  BY <1>3, <1>5, <1>6, NoAccount

LEMMA AccountsStep ==
    TypeOK /\ TypeOK' /\ History /\ Accounts /\ [Next]_vars => Accounts'
<1> SUFFICES ASSUME TypeOK, TypeOK', History, Accounts, [Next]_vars,
                    NEW w \in Callers
             PROVE  /\ Accounted(Shifted(w)', walk'[w].gone)
                    /\ Accounted(Pushed(w)', Late(w)')
  BY DEF Accounts
<1>1. CASE walk'[w] = walk[w] /\ rows' = rows
  BY <1>1, AccountKept DEF Accounts
<1>2. CASE Insert \/ Elapse \/ (\E k \in Keys : Other(k)) \/ UNCHANGED vars
  BY <1>1, <1>2 DEF Insert, Elapse, Other, vars
<1>3. ASSUME NEW n \in Ids, CommitInsert(n) \/ Rollback(n) \/ Delete(n)
      PROVE  /\ Accounted(Shifted(w)', walk'[w].gone)
             /\ Accounted(Pushed(w)', Late(w)')
  <2>1. CASE Rollback(n)
    BY <1>1, <2>1 DEF Rollback
  <2> QED
    BY <1>3, <2>1, CommitAccounted, DeleteAccounted
<1>4. ASSUME NEW v \in Callers, Begin(v) \/ Ask(v), v # w
      PROVE  /\ Accounted(Shifted(w)', walk'[w].gone)
             /\ Accounted(Pushed(w)', Late(w)')
  <2>1. rows' = rows
    BY <1>4 DEF Begin, Ask
  <2>2. walk'[w] = walk[w]
    BY <1>4 DEF Begin, Ask, TypeOK
  <2> QED
    BY <1>1, <2>1, <2>2
<1>5. CASE Begin(w)
  BY <1>5, BeginAccounted
<1>6. CASE Ask(w)
  <2>1. CASE Admits(Key(w))
    BY <1>6, <2>1, AskAccounted
  <2>2. CASE ~ Admits(Key(w))
    BY <1>1, <1>6, <2>2 DEF Ask
  <2> QED
    BY <2>1, <2>2
<1> QED
  BY <1>2, <1>3, <1>4, <1>5, <1>6 DEF Next

LEMMA AccountsInit == Init => History /\ Accounts
<1> SUFFICES ASSUME Init PROVE History /\ Accounts
  OBVIOUS
<1>1. \A w \in Callers : walk[w].pc = "idle" /\ Untouched(w)
  BY DEF Init, Untouched
<1>2. History
  BY <1>1 DEF Init, History, Sequenced, Walking
<1>3. ASSUME NEW w \in Callers
      PROVE  /\ Shifted(w) = {} /\ walk[w].gone = {}
             /\ Pushed(w) = {} /\ Late(w) = {}
  BY <1>1 DEF Untouched, Shifted, Missed, Pushed, Behind, Late, Walking
<1> QED
  BY <1>2, <1>3, NoAccount DEF Accounts

LEMMA AccountsHold == Spec => [](TypeOK /\ Accounts)
<1>1. TypeOK /\ [Next]_vars => TypeOK'
  BY TypeStep
<1> QED
  BY <1>1, TypeInit, AccountsInit, HistoryStep, AccountsStep, PTL DEF Spec

\* A row that was there all the time is missed only behind a deleted one, and
\* there are no more of them than deletions (invoices.py:109, clients.py:17).
THEOREM SkipsAreOnlyDeletions == Spec => []SkipsAreDeletions
<1>1. TypeOK /\ Accounts => SkipsAreDeletions
  <2> SUFFICES ASSUME TypeOK, Accounts, NEW w \in Callers
               PROVE  Accounted(Missed(w), walk[w].gone)
    BY DEF SkipsAreDeletions, Accounted
  <2>1. Accounted(Shifted(w), walk[w].gone)
    BY DEF Accounts
  <2>2. Missed(w) \in SUBSET Shifted(w)
    BY DEF Shifted, Missed, Walking
  <2> QED
    BY <2>1, <2>2, AccountTypes, AccountedLess
<1> QED
  BY <1>1, AccountsHold, PTL

\* A row is shown twice only behind one inserted earlier and committed later,
\* and there are no more of them than such commits (invoices.py:109,
\* clients.py:17).
THEOREM RepeatsAreOnlyLateCommits == Spec => []RepeatsAreLateCommits
<1>1. TypeOK /\ Accounts => RepeatsAreLateCommits
  <2> SUFFICES ASSUME TypeOK, Accounts, NEW w \in Callers
               PROVE  Accounted(walk[w].twice, Late(w))
    BY DEF RepeatsAreLateCommits, Accounted
  <2>1. Accounted(Pushed(w), Late(w))
    BY DEF Accounts
  <2>2. walk[w].twice \in SUBSET Pushed(w)
    BY DEF Pushed
  <2> QED
    BY <2>1, <2>2, AccountTypes, AccountedLess
<1> QED
  BY <1>1, AccountsHold, PTL

=============================================================================
