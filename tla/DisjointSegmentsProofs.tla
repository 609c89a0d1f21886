------------------------- MODULE DisjointSegmentsProofs -------------------------
(***************************************************************************)
(* The table of disjoint segments: what inserting a segment does to it, for  *)
(* every buffer length and every size of the table, and that the loops over  *)
(* the array that holds it do the same.                                     *)
(***************************************************************************)
EXTENDS SegmentArray, FiniteSetTheorems, WellFoundedInduction, TLAPS

Touched(segments, new) == {s \in segments : Touches(s, new)}
Merging(segments, new) == Touched(segments, new) \cup {new}

\* A table as the code keeps it, without the limit on its size.
Disjoint(segments) ==
    /\ segments \in SUBSET Intervals
    /\ \A a \in segments : a.offset <= a.nextOffset
    /\ \A a, b \in segments : a # b => ~Touches(a, b)

IsSegment(new) == new \in Intervals /\ new.offset <= new.nextOffset

\* The hull of a new segment and the entries it touches begins where one of
\* them begins and ends where one of them ends: at most one entry reaches over
\* either end of the new segment.
LEMMA HullBounds ==
    ASSUME NEW segments, NEW new, Disjoint(segments), IsSegment(new)
    PROVE  LET T == Merging(segments, new)
           IN  /\ Hull(T) \in Intervals
               /\ \E s \in T : s.offset = Hull(T).offset
               /\ \E s \in T : s.nextOffset = Hull(T).nextOffset
               /\ \A s \in T : Hull(T).offset <= s.offset /\ s.nextOffset <= Hull(T).nextOffset
<1> DEFINE T == Merging(segments, new)
<1> DEFINE lows == {s.offset : s \in T}
<1> DEFINE highs == {s.nextOffset : s \in T}
<1>1. /\ T \in SUBSET Intervals
      /\ new \in T
      /\ \A s \in T : s.offset \in Int /\ s.nextOffset \in Int
      /\ \A s \in T : s.offset <= new.nextOffset /\ new.offset <= s.nextOffset
      /\ \A s \in T : s # new => s \in segments
      /\ new.offset <= new.nextOffset
  BY BufferAssumption DEF Merging, Touched, Touches, Disjoint, IsSegment, Intervals
<1>2. \E m \in lows : \A y \in lows : m <= y
  <2>1. CASE \E s \in T : s.offset < new.offset
    <3>1. PICK s \in T : s.offset < new.offset
      BY <2>1
    <3>2. ASSUME NEW t \in T PROVE s.offset <= t.offset
      <4>1. CASE t.offset >= new.offset
        BY <4>1, <3>1, <1>1
      <4>2. CASE t.offset < new.offset
        <5>1. s \in segments /\ t \in segments
          BY <3>1, <4>2, <1>1
        <5>2. Touches(s, t)
          BY <3>1, <4>2, <1>1 DEF Touches
        <5>3. s = t
          BY <5>1, <5>2 DEF Disjoint
        <5> QED BY <5>3, <1>1
      <4> QED BY <4>1, <4>2, <1>1
    <3> QED BY <3>1, <3>2
  <2>2. CASE \A s \in T : s.offset >= new.offset
    BY <2>2, <1>1
  <2> QED BY <2>1, <2>2, <1>1
<1>3. \E m \in highs : \A y \in highs : m >= y
  <2>1. CASE \E s \in T : s.nextOffset > new.nextOffset
    <3>1. PICK s \in T : s.nextOffset > new.nextOffset
      BY <2>1
    <3>2. ASSUME NEW t \in T PROVE s.nextOffset >= t.nextOffset
      <4>1. CASE t.nextOffset <= new.nextOffset
        BY <4>1, <3>1, <1>1
      <4>2. CASE t.nextOffset > new.nextOffset
        <5>1. s \in segments /\ t \in segments
          BY <3>1, <4>2, <1>1
        <5>2. Touches(s, t)
          BY <3>1, <4>2, <1>1 DEF Touches
        <5>3. s = t
          BY <5>1, <5>2 DEF Disjoint
        <5> QED BY <5>3, <1>1
      <4> QED BY <4>1, <4>2, <1>1
    <3> QED BY <3>1, <3>2
  <2>2. CASE \A s \in T : s.nextOffset <= new.nextOffset
    BY <2>2, <1>1
  <2> QED BY <2>1, <2>2, <1>1
<1>4. Min(lows) \in lows /\ \A y \in lows : Min(lows) <= y
  BY <1>2 DEF Min
<1>5. Max(highs) \in highs /\ \A y \in highs : Max(highs) >= y
  BY <1>3 DEF Max
<1>6. Hull(T) = [offset |-> Min(lows), nextOffset |-> Max(highs)]
  BY DEF Hull
<1>7. PICK s1 \in T, s2 \in T : s1.offset = Min(lows) /\ s2.nextOffset = Max(highs)
  BY <1>4, <1>5
<1>8. Hull(T) \in Intervals
  BY <1>1, <1>6, <1>7 DEF Intervals
<1>9. \A s \in T : Hull(T).offset <= s.offset /\ s.nextOffset <= Hull(T).nextOffset
  <2> SUFFICES ASSUME NEW s \in T
               PROVE  Hull(T).offset <= s.offset /\ s.nextOffset <= Hull(T).nextOffset
    OBVIOUS
  <2>1. s.offset \in lows /\ s.nextOffset \in highs
    OBVIOUS
  <2>2. Min(lows) <= s.offset /\ Max(highs) >= s.nextOffset
    BY <2>1, <1>4, <1>5
  <2>3. Max(highs) \in Int /\ s.nextOffset \in Int
    BY <1>1, <1>7
  <2> HIDE DEF lows, highs
  <2> QED BY <2>2, <2>3, <1>6
<1>10. (\E s \in T : s.offset = Hull(T).offset) /\ (\E s \in T : s.nextOffset = Hull(T).nextOffset)
  <2> HIDE DEF T, lows, highs
  <2> QED BY <1>6, <1>7
<1> QED BY <1>8, <1>9, <1>10

\* Inserting a segment leaves a table of disjoint intervals.
LEMMA InsertIsDisjoint ==
    ASSUME NEW segments, NEW new, Disjoint(segments), IsSegment(new)
    PROVE  Disjoint(manageDisjointSegmentInfo(segments, new))
<1> DEFINE T == Merging(segments, new)
<1> DEFINE h == Hull(T)
<1> DEFINE rest == segments \ Touched(segments, new)
<1>1. manageDisjointSegmentInfo(segments, new) = rest \cup {h}
  BY DEF manageDisjointSegmentInfo, Merging, Touched
<1>2. /\ h \in Intervals
      /\ \E s \in T : s.offset = h.offset
      /\ \E s \in T : s.nextOffset = h.nextOffset
      /\ \A s \in T : h.offset <= s.offset /\ s.nextOffset <= h.nextOffset
  BY HullBounds
<1>3. PICK u \in T, t \in T : u.offset = h.offset /\ t.nextOffset = h.nextOffset
  BY <1>2
<1> HIDE DEF h
<1>4. \A s \in T \cup rest : s \in Intervals /\ s.offset <= s.nextOffset
  BY DEF Merging, Touched, Disjoint, IsSegment
<1>5. \A s \in T \cup rest \cup {h} : s.offset \in Int /\ s.nextOffset \in Int
  BY <1>2, <1>4, BufferAssumption DEF Intervals
<1>6. h.offset <= h.nextOffset
  BY <1>2, <1>4, <1>5 DEF Merging
<1>7. ASSUME NEW s \in rest PROVE ~Touches(s, h)
  <2>1. ~Touches(s, new)
    BY DEF Touched
  <2>2. new \in T /\ \A v \in T : v # new => v \in segments /\ Touches(v, new) /\ ~Touches(s, v)
    BY DEF Merging, Touched, Disjoint
  <2>3. CASE s.nextOffset < new.offset
    <3>1. SUFFICES ASSUME h.offset <= s.nextOffset PROVE FALSE
      BY <1>5, <1>6 DEF Touches
    <3>2. u # new
      BY <3>1, <2>3, <1>3, <1>5, <2>2
    <3>3. u.offset <= s.nextOffset /\ new.offset <= u.nextOffset
      BY <3>1, <3>2, <2>2, <1>3 DEF Touches
    <3>4. Touches(s, u)
      BY <3>3, <2>3, <1>4, <1>5, <2>2 DEF Touches
    <3> QED BY <3>2, <3>4, <2>2
  <2>4. CASE new.nextOffset < s.offset
    <3>1. SUFFICES ASSUME s.offset <= h.nextOffset PROVE FALSE
      BY <1>5, <1>6 DEF Touches
    <3>2. t # new
      BY <3>1, <2>4, <1>3, <1>5, <2>2
    <3>3. s.offset <= t.nextOffset /\ t.offset <= new.nextOffset
      BY <3>1, <3>2, <2>2, <1>3 DEF Touches
    <3>4. Touches(s, t)
      BY <3>3, <2>4, <1>4, <1>5, <2>2 DEF Touches
    <3> QED BY <3>2, <3>4, <2>2
  <2> QED BY <2>1, <2>2, <2>3, <2>4, <1>5 DEF Touches
<1>8. \A a, b : Touches(a, b) <=> Touches(b, a)
  BY DEF Touches
<1> QED BY <1>1, <1>2, <1>4, <1>6, <1>7, <1>8 DEF Disjoint

\* The table does not outgrow its array.
LEMMA InsertFits ==
    ASSUME NEW segments, NEW new, Separate(segments), HasRoom(segments, new)
    PROVE  LET after == manageDisjointSegmentInfo(segments, new)
           IN  IsFiniteSet(after) /\ Cardinality(after) <= MaxDisjointSegments
<1> DEFINE touched == Touched(segments, new)
<1> DEFINE rest == segments \ touched
<1> DEFINE h == Hull(touched \cup {new})
<1>1. manageDisjointSegmentInfo(segments, new) = rest \cup {h}
  BY DEF manageDisjointSegmentInfo, Touched
<1>2. IsFiniteSet(segments) /\ Cardinality(segments) \in Nat
      /\ Cardinality(segments) <= MaxDisjointSegments
  BY FS_CardinalityType DEF Separate
<1>3. IsFiniteSet(rest) /\ Cardinality(rest) \in Nat /\ Cardinality(rest) <= Cardinality(segments)
  BY <1>2, FS_Subset, FS_CardinalityType
<1>4. Cardinality(rest) < MaxDisjointSegments
  <2>1. CASE touched = {}
    <3>1. rest = segments
      BY <2>1
    <3>2. Cardinality(segments) # MaxDisjointSegments
      BY <2>1 DEF HasRoom, Touched
    <3> QED BY <3>1, <3>2, <1>2, <1>3, BufferAssumption
  <2>2. CASE touched # {}
    <3>1. rest # segments
      BY <2>2 DEF Touched
    <3>2. Cardinality(rest) # Cardinality(segments)
      BY <3>1, <1>2, FS_Subset
    <3> QED BY <3>2, <1>2, <1>3, BufferAssumption
  <2> QED BY <2>1, <2>2
<1>5. IsFiniteSet(rest \cup {h}) /\ Cardinality(rest \cup {h}) <= Cardinality(rest) + 1
  <2> HIDE DEF rest, h
  <2>1. IsFiniteSet(rest \cup {h})
        /\ Cardinality(rest \cup {h}) = IF h \in rest THEN Cardinality(rest) ELSE Cardinality(rest) + 1
    BY <1>3, FS_AddElement
  <2> QED BY <2>1, <1>3
<1>6. Cardinality(rest \cup {h}) \in Nat
  BY <1>5, FS_CardinalityType
<1> QED BY <1>1, <1>3, <1>4, <1>5, <1>6, BufferAssumption

\* Inserting a segment claims no byte that neither the table nor it had.
LEMMA InsertClaimsNoMore ==
    ASSUME NEW segments, NEW new, Disjoint(segments), IsSegment(new),
           NEW a \in manageDisjointSegmentInfo(segments, new),
           NEW b \in Int, a.offset <= b, b < a.nextOffset
    PROVE  \E s \in segments \cup {new} : s.offset <= b /\ b < s.nextOffset
<1> DEFINE T == Merging(segments, new)
<1>1. CASE a \in segments
  BY <1>1
<1>2. CASE a = Hull(T)
  <2>1. PICK u \in T, t \in T : u.offset = a.offset /\ t.nextOffset = a.nextOffset
    BY <1>2, HullBounds
  <2>2. T \subseteq segments \cup {new}
    BY DEF Merging, Touched
  <2>3. \A s \in T : /\ s.offset \in Int /\ s.nextOffset \in Int
                     /\ s.offset <= new.nextOffset /\ new.offset <= s.nextOffset
    BY BufferAssumption DEF Merging, Touched, Touches, Disjoint, IsSegment, Intervals
  <2>4. new \in T
    BY DEF Merging
  <2>5. CASE b < new.offset
    BY <2>1, <2>2, <2>3, <2>4, <2>5
  <2>6. CASE b >= new.nextOffset
    BY <2>1, <2>2, <2>3, <2>4, <2>6
  <2>7. CASE new.offset <= b /\ b < new.nextOffset
    BY <2>7
  <2> QED BY <2>3, <2>4, <2>5, <2>6, <2>7
<1> QED BY <1>1, <1>2 DEF manageDisjointSegmentInfo, Merging, Touched

\* Inserting a segment forgets no byte the table had.
LEMMA InsertForgetsNothing ==
    ASSUME NEW segments, NEW new, Disjoint(segments), IsSegment(new), NEW a \in segments
    PROVE  \E c \in manageDisjointSegmentInfo(segments, new) :
               c.offset <= a.offset /\ a.nextOffset <= c.nextOffset
<1>1. CASE Touches(a, new)
  <2>1. a \in Merging(segments, new)
    BY <1>1 DEF Merging, Touched
  <2>2. Hull(Merging(segments, new)) \in manageDisjointSegmentInfo(segments, new)
    BY DEF manageDisjointSegmentInfo, Merging, Touched
  <2> QED BY <2>1, <2>2, HullBounds
<1>2. CASE ~Touches(a, new)
  <2>1. a \in manageDisjointSegmentInfo(segments, new)
    BY <1>2 DEF manageDisjointSegmentInfo
  <2>2. a.offset \in Int /\ a.nextOffset \in Int
    BY BufferAssumption DEF Disjoint, Intervals
  <2> QED BY <2>1, <2>2
<1> QED BY <1>1, <1>2

\* A table of one interval is as good as an empty one.
LEMMA OneEntryIsSeparate ==
    ASSUME NEW s \in Intervals, s.offset <= s.nextOffset
    PROVE  Separate({s})
<1>1. IsFiniteSet({s}) /\ Cardinality({s}) = 1
  BY FS_Singleton
<1>2. MaxDisjointSegments >= 1
  BY BufferAssumption
<1> QED BY <1>1, <1>2 DEF Separate

-----------------------------------------------------------------------------
(* The array of the table, and the loops over it *)

\* A set of natural numbers that is not empty has a first one.
LEMMA FirstNumber ==
    ASSUME NEW S, S \subseteq Nat, S # {}
    PROVE  \E x \in S : \A y \in S : x <= y
<1> DEFINE Before == {p \in Nat \X Nat : p[1] < p[2]}
<1>1. IsWellFoundedOn(Before, Nat)
  BY NatLessThanWellFounded DEF OpToRel
<1> HIDE DEF Before
<1>2. PICK x \in S : \A y \in S : <<y, x>> \notin Before
  BY <1>1, WFMin
<1>3. \A y \in S : ~(y < x)
  BY <1>2 DEF Before
<1> QED BY <1>2, <1>3

\* Induction up to k, for a set: the library's theorems take a predicate as a parameter.
LEMMA InductionUpTo ==
    ASSUME NEW S, NEW k \in Nat, 0 \in S, \A n \in 0..(k - 1) : n \in S => n + 1 \in S
    PROVE  k \in S
<1> DEFINE Outside == (0..k) \ S
<1>1. SUFFICES ASSUME k \notin S PROVE FALSE
  OBVIOUS
<1>2. Outside # {} /\ Outside \subseteq Nat
  BY <1>1
<1>3. PICK x \in Outside : \A y \in Outside : x <= y
  <2> HIDE DEF Outside
  <2> QED BY <1>2, FirstNumber
<1>4. x \in Nat /\ x # 0 /\ x <= k /\ x \notin S
  BY <1>3
<1>5. x - 1 \in 0..(k - 1) /\ x - 1 \notin Outside
  BY <1>3, <1>4
<1> QED BY <1>4, <1>5

\* The array as the code keeps it.
IsTable(table) ==
    /\ table \in Seq(Intervals)
    /\ \A i \in 1..Len(table) : table[i].offset <= table[i].nextOffset
    /\ \A i, j \in 1..Len(table) : i # j => ~Touches(table[i], table[j])

\* Its entries are a set of disjoint intervals, and none is there twice.
LEMMA TableIsDisjoint ==
    ASSUME NEW table, IsTable(table)
    PROVE  /\ Disjoint(ToSet(table))
           /\ IsFiniteSet(ToSet(table))
           /\ Cardinality(ToSet(table)) = Len(table)
<1>1. Len(table) \in Nat /\ DOMAIN table = 1..Len(table)
  BY DEF IsTable
<1>2. \A i \in 1..Len(table) : table[i] \in Intervals /\ table[i].offset <= table[i].nextOffset
  BY DEF IsTable
<1>3. ToSet(table) = {table[i] : i \in 1..Len(table)}
  BY <1>1 DEF ToSet
<1>4. Disjoint(ToSet(table))
  BY <1>2, <1>3 DEF Disjoint, IsTable
<1>5. \A i, j \in 1..Len(table) : table[i] = table[j] => i = j
  <2> SUFFICES ASSUME NEW i \in 1..Len(table), NEW j \in 1..Len(table), table[i] = table[j], i # j
               PROVE  FALSE
    OBVIOUS
  <2>1. ~Touches(table[i], table[i])
    BY DEF IsTable
  <2> QED BY <2>1, <1>2 DEF Touches
<1>6. table \in Bijection(1..Len(table), ToSet(table))
  <2>1. table \in [1..Len(table) -> ToSet(table)]
    BY <1>1, <1>3 DEF IsTable
  <2> QED BY <2>1, <1>3, <1>5 DEF Bijection, Injection, Surjection, IsInjective
<1>7. ExistsBijection(1..Len(table), ToSet(table))
  BY <1>6 DEF ExistsBijection
<1>8. IsFiniteSet(ToSet(table)) /\ Cardinality(ToSet(table)) = Len(table)
  BY <1>7, <1>1, FS_CountingElements, FS_Interval, FS_Bijection
<1> QED BY <1>4, <1>8

\* The first loop finds an entry that the new segment touches, if there is one.
LEMMA FirstTouchedIs ==
    ASSUME NEW table, IsTable(table), NEW new, IsSegment(new)
    PROVE  \/ /\ FirstTouched(table, new) = 0
              /\ \A i \in 1..Len(table) : ~Touches(table[i], new)
           \/ /\ FirstTouched(table, new) \in 1..Len(table)
              /\ Touches(table[FirstTouched(table, new)], new)
<1> DEFINE I == {i \in 1..Len(table) : ~(new.nextOffset < table[i].offset) /\ ~(new.offset > table[i].nextOffset)}
<1>1. FirstTouched(table, new) = IF I # {} THEN Min(I) ELSE 0
  BY DEF FirstTouched, SelectInSeq
<1>2. \A i \in 1..Len(table) : Touches(table[i], new) <=> i \in I
  <2>1. \A i \in 1..Len(table) : table[i] \in Intervals
    BY DEF IsTable
  <2> QED BY <2>1, BufferAssumption DEF Touches, Intervals, IsSegment
<1>3. Len(table) \in Nat
  BY DEF IsTable
<1> HIDE DEF I
<1>4. CASE I = {}
  BY <1>1, <1>2, <1>4
<1>5. CASE I # {}
  <2>2. I \subseteq 1..Len(table) /\ I \subseteq Nat
    BY <1>3 DEF I
  <2>4. \E x \in I : \A y \in I : x <= y
    BY <2>2, <1>5, FirstNumber
  <2>5. Min(I) \in I
    BY <2>4 DEF Min
  <2> QED BY <2>5, <2>2, <1>1, <1>2, <1>5
<1> QED BY <1>4, <1>5

\* An interval grown from the new segment and entries that it touches, ends where one of
\* these ends on either side, and touches another entry only if the new segment does.
LEMMA GrownTouches ==
    ASSUME NEW segments, NEW new, Disjoint(segments), IsSegment(new),
           NEW T, T \subseteq Merging(segments, new), new \in T,
           NEW g \in Intervals, NEW u \in T, NEW v \in T,
           g.offset = u.offset, g.nextOffset = v.nextOffset,
           g.offset <= new.offset, new.nextOffset <= g.nextOffset,
           NEW s \in segments, s \notin T \ {new}
    PROVE  Touches(s, g) <=> Touches(s, new)
<1>1. \A t \in T \cup {s, g} : t.offset \in Int /\ t.nextOffset \in Int
  BY BufferAssumption DEF Merging, Touched, Disjoint, IsSegment, Intervals
<1>2. s.offset <= s.nextOffset /\ new.offset <= new.nextOffset
  BY DEF Disjoint, IsSegment
<1>3. Touches(s, new) => Touches(s, g)
  BY <1>1 DEF Touches
<1>4. ASSUME Touches(s, g), ~Touches(s, new) PROVE FALSE
  <2>1. s # new
    BY <1>4, <1>2 DEF Touches
  <2>2. \A t \in T : t # new => t.offset <= new.nextOffset /\ new.offset <= t.nextOffset /\ ~Touches(s, t)
    BY <2>1 DEF Merging, Touched, Touches, Disjoint
  <2>3. CASE s.nextOffset < new.offset
    BY <2>2, <2>3, <1>1, <1>2, <1>4 DEF Touches
  <2>4. CASE new.nextOffset < s.offset
    BY <2>2, <2>4, <1>1, <1>2, <1>4 DEF Touches
  <2> QED BY <2>3, <2>4, <1>1, <1>4 DEF Touches
<1> QED BY <1>3, <1>4

\* The functions that Swallow and DeleteMarked unfold, up to k.
VisitedUpTo(f, table, w, k) ==
    f = [n \in 0..k |-> IF n = 0 THEN [working |-> table[w], segmentsToDelete |-> {}]
                                 ELSE Visit(table, w, f[n - 1], n)]

KeptUpTo(f, table, marked, k) ==
    f = [n \in 0..k |-> IF n = 0 THEN <<>>
                        ELSE IF n \in marked THEN f[n - 1] ELSE Append(f[n - 1], table[n])]

\* They exist, by induction on k.
LEMMA SwallowVisits ==
    ASSUME NEW table, Len(table) \in Nat, NEW w
    PROVE  \E f : VisitedUpTo(f, table, w, Len(table)) /\ Swallow(table, w) = f[Len(table)]
<1> DEFINE k == Len(table)
<1> DEFINE S == {i \in Nat : \E f : VisitedUpTo(f, table, w, i)}
<1>1. 0 \in S
  <2>1. VisitedUpTo([n \in 0..0 |-> [working |-> table[w], segmentsToDelete |-> {}]], table, w, 0)
    BY DEF VisitedUpTo
  <2> QED BY <2>1
<1>2. ASSUME NEW i \in 0..(k - 1), i \in S PROVE i + 1 \in S
  <2>1. PICK f : VisitedUpTo(f, table, w, i)
    BY <1>2
  <2> DEFINE g == [n \in 0..(i + 1) |-> IF n <= i THEN f[n] ELSE Visit(table, w, f[i], i + 1)]
  <2>2. \A n \in 0..i : f[n] = IF n = 0 THEN [working |-> table[w], segmentsToDelete |-> {}]
                               ELSE Visit(table, w, f[n - 1], n)
    BY <2>1 DEF VisitedUpTo
  <2>3. \A n \in 0..(i + 1) : g[n] = IF n = 0 THEN [working |-> table[w], segmentsToDelete |-> {}]
                                     ELSE Visit(table, w, g[n - 1], n)
    <3> SUFFICES ASSUME NEW n \in 0..(i + 1)
                 PROVE  g[n] = IF n = 0 THEN [working |-> table[w], segmentsToDelete |-> {}]
                               ELSE Visit(table, w, g[n - 1], n)
      OBVIOUS
    <3>1. CASE n <= i
      <4>1. n \in 0..i /\ g[n] = f[n] /\ (n # 0 => n - 1 \in 0..(i + 1) /\ n - 1 <= i)
        BY <3>1
      <4>2. n # 0 => g[n - 1] = f[n - 1]
        BY <4>1
      <4> HIDE DEF g
      <4> QED BY <2>2, <4>1, <4>2
    <3>2. CASE n = i + 1
      BY <3>2
    <3> QED BY <3>1, <3>2
  <2>4. VisitedUpTo(g, table, w, i + 1)
    BY <2>3 DEF VisitedUpTo
  <2> QED BY <2>4
<1> HIDE DEF S
<1>3. k \in S
  BY <1>1, <1>2, InductionUpTo
<1> DEFINE visited == CHOOSE f : VisitedUpTo(f, table, w, k)
<1>4. VisitedUpTo(visited, table, w, k)
  BY <1>3 DEF S
<1>5. Swallow(table, w) = visited[k]
  BY DEF Swallow, VisitedUpTo
<1> QED BY <1>4, <1>5

LEMMA DeleteMarkedKeeps ==
    ASSUME NEW table, Len(table) \in Nat, NEW marked
    PROVE  \E f : KeptUpTo(f, table, marked, Len(table)) /\ DeleteMarked(table, marked) = f[Len(table)]
<1> DEFINE k == Len(table)
<1> DEFINE S == {i \in Nat : \E f : KeptUpTo(f, table, marked, i)}
<1>1. 0 \in S
  <2>1. KeptUpTo([n \in 0..0 |-> <<>>], table, marked, 0)
    BY DEF KeptUpTo
  <2> QED BY <2>1
<1>2. ASSUME NEW i \in 0..(k - 1), i \in S PROVE i + 1 \in S
  <2>1. PICK f : KeptUpTo(f, table, marked, i)
    BY <1>2
  <2> DEFINE g == [n \in 0..(i + 1) |-> IF n <= i THEN f[n]
                                        ELSE IF n \in marked THEN f[i] ELSE Append(f[i], table[n])]
  <2>2. \A n \in 0..i : f[n] = IF n = 0 THEN <<>>
                               ELSE IF n \in marked THEN f[n - 1] ELSE Append(f[n - 1], table[n])
    BY <2>1 DEF KeptUpTo
  <2>3. \A n \in 0..(i + 1) : g[n] = IF n = 0 THEN <<>>
                                     ELSE IF n \in marked THEN g[n - 1] ELSE Append(g[n - 1], table[n])
    <3> SUFFICES ASSUME NEW n \in 0..(i + 1)
                 PROVE  g[n] = IF n = 0 THEN <<>>
                               ELSE IF n \in marked THEN g[n - 1] ELSE Append(g[n - 1], table[n])
      OBVIOUS
    <3>1. CASE n <= i
      BY <2>2, <3>1
    <3>2. CASE n = i + 1
      BY <3>2
    <3> QED BY <3>1, <3>2
  <2>4. KeptUpTo(g, table, marked, i + 1)
    BY <2>3 DEF KeptUpTo
  <2> QED BY <2>4
<1> HIDE DEF S
<1>3. k \in S
  BY <1>1, <1>2, InductionUpTo
<1> DEFINE kept == CHOOSE f : KeptUpTo(f, table, marked, k)
<1>4. KeptUpTo(kept, table, marked, k)
  BY <1>3 DEF S
<1>5. DeleteMarked(table, marked) = kept[k]
  BY DEF DeleteMarked, KeptUpTo
<1> QED BY <1>4, <1>5

\* What is kept of the entries at some places: each of them, at a place of its own.
KeptFrom(kept, table, places) ==
    /\ kept \in Seq(Intervals)
    /\ \A i \in places : \E j \in 1..Len(kept) : kept[j] = table[i]
    /\ \A j \in 1..Len(kept) : \E i \in places : kept[j] = table[i]
    /\ \A j1, j2 \in 1..Len(kept) : j1 # j2 =>
          \E i1, i2 \in places : i1 # i2 /\ kept[j1] = table[i1] /\ kept[j2] = table[i2]

\* One more entry is kept.
LEMMA OneMoreIsKept ==
    ASSUME NEW table, NEW places, NEW kept, KeptFrom(kept, table, places),
           NEW n, n \notin places, table[n] \in Intervals
    PROVE  /\ KeptFrom(Append(kept, table[n]), table, places \cup {n})
           /\ Len(Append(kept, table[n])) = Len(kept) + 1
<1> DEFINE next == Append(kept, table[n])
<1>1. /\ next \in Seq(Intervals)
      /\ Len(next) = Len(kept) + 1 /\ Len(kept) \in Nat
      /\ \A j \in 1..Len(kept) : next[j] = kept[j]
      /\ next[Len(kept) + 1] = table[n]
  BY DEF KeptFrom
<1> HIDE DEF next
<1>2. ASSUME NEW i \in places \cup {n}
      PROVE  \E j \in 1..Len(next) : next[j] = table[i]
  <2>1. CASE i = n
    BY <2>1, <1>1
  <2>2. CASE i \in places
    <3>1. PICK j \in 1..Len(kept) : kept[j] = table[i]
      BY <2>2 DEF KeptFrom
    <3> QED BY <3>1, <1>1
  <2> QED BY <2>1, <2>2
<1>3. \A j \in 1..Len(kept) : \E i \in places : next[j] = table[i]
  BY <1>1 DEF KeptFrom
<1>4. ASSUME NEW j \in 1..Len(next) PROVE \E i \in places \cup {n} : next[j] = table[i]
  BY <1>1, <1>3
<1>5. ASSUME NEW j1 \in 1..Len(next), NEW j2 \in 1..Len(next), j1 # j2
      PROVE  \E i1, i2 \in places \cup {n} :
                i1 # i2 /\ next[j1] = table[i1] /\ next[j2] = table[i2]
  <2>1. CASE j1 = Len(kept) + 1
    <3>1. j2 \in 1..Len(kept)
      BY <2>1, <1>1, <1>5
    <3> QED BY <3>1, <2>1, <1>1, <1>3
  <2>2. CASE j2 = Len(kept) + 1
    <3>1. j1 \in 1..Len(kept)
      BY <2>2, <1>1, <1>5
    <3> QED BY <3>1, <2>2, <1>1, <1>3
  <2>3. CASE j1 \in 1..Len(kept) /\ j2 \in 1..Len(kept)
    <3>1. PICK i1 \in places, i2 \in places :
             i1 # i2 /\ kept[j1] = table[i1] /\ kept[j2] = table[i2]
      BY <2>3, <1>5 DEF KeptFrom
    <3> QED BY <2>3, <3>1, <1>1
  <2> QED BY <2>1, <2>2, <2>3, <1>1
<1>6. KeptFrom(next, table, places \cup {n})
  BY <1>1, <1>2, <1>4, <1>5 DEF KeptFrom
<1> QED BY <1>1, <1>6 DEF next

LEMMA DeleteMarkedIs ==
    ASSUME NEW table \in Seq(Intervals), NEW marked
    PROVE  /\ KeptFrom(DeleteMarked(table, marked), table, (1..Len(table)) \ marked)
           /\ Len(DeleteMarked(table, marked)) <= Len(table)
<1>1. Len(table) \in Nat
  OBVIOUS
<1>2. PICK f : KeptUpTo(f, table, marked, Len(table)) /\ DeleteMarked(table, marked) = f[Len(table)]
  BY <1>1, DeleteMarkedKeeps
<1>3. \A n \in 0..Len(table) :
         f[n] = IF n = 0 THEN <<>>
                ELSE IF n \in marked THEN f[n - 1] ELSE Append(f[n - 1], table[n])
  BY <1>2 DEF KeptUpTo
<1> DEFINE S == {n \in Nat : KeptFrom(f[n], table, (1..n) \ marked) /\ Len(f[n]) <= n}
<1>4. 0 \in S
  <2>1. f[0] = <<>>
    BY <1>1, <1>3
  <2>2. KeptFrom(<<>>, table, {})
    BY DEF KeptFrom
  <2>3. (1..0) \ marked = {}
    OBVIOUS
  <2>4. Len(f[0]) <= 0
    BY <2>1
  <2> QED BY <2>1, <2>2, <2>3, <2>4
<1>5. ASSUME NEW n \in 0..(Len(table) - 1), n \in S PROVE n + 1 \in S
  <2>1. f[n + 1] = IF n + 1 \in marked THEN f[n] ELSE Append(f[n], table[n + 1])
    BY <1>1, <1>3
  <2> DEFINE before == (1..n) \ marked
  <2> DEFINE after == (1..(n + 1)) \ marked
  <2>2. /\ KeptFrom(f[n], table, before) /\ Len(f[n]) <= n
        /\ n \in Nat /\ table[n + 1] \in Intervals /\ Len(f[n]) \in Nat
    <3>1. KeptFrom(f[n], table, before) /\ Len(f[n]) <= n
      BY <1>5
    <3>2. n \in Nat /\ table[n + 1] \in Intervals
      BY <1>1
    <3>3. Len(f[n]) \in Nat
      BY <3>1 DEF KeptFrom
    <3> QED BY <3>1, <3>2, <3>3
  <2>3. CASE n + 1 \in marked
    <3>1. after = before
      BY <2>2, <2>3
    <3>2. f[n + 1] = f[n] /\ Len(f[n]) <= n + 1
      BY <2>1, <2>2, <2>3
    <3>3. KeptFrom(f[n + 1], table, after) /\ Len(f[n + 1]) <= n + 1
      <4> HIDE DEF before, after
      <4> QED BY <2>2, <3>1, <3>2
    <3> QED BY <3>3, <2>2
  <2>4. CASE n + 1 \notin marked
    <3>1. after = before \cup {n + 1} /\ n + 1 \notin before
      BY <2>2, <2>4
    <3>2. f[n + 1] = Append(f[n], table[n + 1])
      BY <2>1, <2>4
    <3>3. KeptFrom(f[n + 1], table, after) /\ Len(f[n + 1]) = Len(f[n]) + 1
      <4> HIDE DEF before, after
      <4> DEFINE m == n + 1
      <4>1. /\ KeptFrom(Append(f[n], table[m]), table, before \cup {m})
            /\ Len(Append(f[n], table[m])) = Len(f[n]) + 1
        <5> HIDE DEF m
        <5>1. table[m] \in Intervals /\ m \notin before
          BY <2>2, <3>1 DEF m
        <5> QED BY <2>2, <5>1, OneMoreIsKept
      <4>2. after = before \cup {m} /\ f[n + 1] = Append(f[n], table[m])
        BY <3>1, <3>2
      <4> QED
        <5> HIDE DEF m
        <5> QED BY <4>1, <4>2, Zenon
    <3>4. Len(f[n + 1]) <= n + 1
      BY <2>2, <3>3
    <3> QED BY <3>3, <3>4, <2>2
  <2> QED BY <2>3, <2>4
<1> HIDE DEF S
<1>6. Len(table) \in S
  BY <1>1, <1>4, <1>5, InductionUpTo
<1> QED BY <1>2, <1>6 DEF S

\* What the working entry is made of when the second loop has passed the first k entries:
\* the new segment, the entry it touched first, and those among the k that it touches.
WorkingParts(table, w, new, k) ==
    {new} \cup {table[i] : i \in {j \in 1..Len(table) : j = w \/ (j <= k /\ Touches(table[j], new))}}

\* The working entry is the hull of these, and they are what is marked.
Grown(table, w, new, k, acc) ==
    LET T == WorkingParts(table, w, new, k)
        g == acc.working
    IN  /\ acc.segmentsToDelete = {i \in 1..k : i # w /\ Touches(table[i], new)}
        /\ g \in Intervals
        /\ \E s \in T : g.offset = s.offset
        /\ \E s \in T : g.nextOffset = s.nextOffset
        /\ \A s \in T : g.offset <= s.offset /\ s.nextOffset <= g.nextOffset

\* One entry more keeps it so: the working entry touches it only if the new segment does.
LEMMA VisitGrows ==
    ASSUME NEW table, IsTable(table), NEW new, IsSegment(new),
           NEW w \in 1..Len(table), Touches(table[w], new),
           NEW fixed, \A i \in 1..Len(table) : i # w => fixed[i] = table[i],
           NEW k \in 0..(Len(table) - 1), NEW acc, Grown(table, w, new, k, acc)
    PROVE  Grown(table, w, new, k + 1, Visit(fixed, w, acc, k + 1))
<1> DEFINE T == WorkingParts(table, w, new, k)
<1> DEFINE next == WorkingParts(table, w, new, k + 1)
<1> DEFINE g == acc.working
<1> DEFINE n == k + 1
<1> DEFINE e == table[n]
<1> DEFINE marked == acc.segmentsToDelete
<1>1. /\ Len(table) \in Nat /\ k \in Nat /\ n \in 1..Len(table) /\ n # k /\ e \in Intervals
      /\ \A i \in 1..Len(table) : table[i] \in Intervals /\ table[i].offset <= table[i].nextOffset
  BY DEF IsTable
<1>2. /\ marked = {i \in 1..k : i # w /\ Touches(table[i], new)}
      /\ g \in Intervals
      /\ \A s \in T : g.offset <= s.offset /\ s.nextOffset <= g.nextOffset
  BY DEF Grown
<1>3. PICK u \in T, v \in T : g.offset = u.offset /\ g.nextOffset = v.nextOffset
  BY DEF Grown
<1>4. T \subseteq Merging(ToSet(table), new) /\ new \in T
  <2>1. \A i \in 1..Len(table) : table[i] \in ToSet(table)
    BY <1>1 DEF ToSet, IsTable
  <2> QED BY <2>1 DEF WorkingParts, Merging, Touched
<1>5. \A s \in T \cup {e, g} : s.offset \in Int /\ s.nextOffset \in Int
  BY <1>1, <1>2, BufferAssumption DEF WorkingParts, Intervals, IsSegment
<1>6. CASE n = w
  <2>1. Visit(fixed, w, acc, n) = acc
    BY <1>6 DEF Visit
  <2>2. next = T
    BY <1>1, <1>6 DEF WorkingParts
  <2>3. marked = {i \in 1..n : i # w /\ Touches(table[i], new)}
    BY <1>1, <1>2, <1>6
  <2> HIDE DEF T, next, g, n, marked
  <2>4. Grown(table, w, new, n, acc)
    BY <1>2, <1>3, <2>2, <2>3 DEF Grown, next, g, n, marked
  <2> QED BY <2>1, <2>4 DEF n
<1>7. CASE n # w
  <2>1. fixed[n] = e
    BY <1>1, <1>7
  <2>2. e \in ToSet(table) /\ e \notin T \ {new}
    <3>1. e \in ToSet(table)
      BY <1>1 DEF ToSet, IsTable
    <3>2. \A i \in 1..Len(table) : (i = w \/ i <= k) => i # n
      BY <1>1, <1>7
    <3>3. \A i \in 1..Len(table) : i # n => table[i] # e
      <4> SUFFICES ASSUME NEW i \in 1..Len(table), i # n, table[i] = e PROVE FALSE
        OBVIOUS
      <4>1. ~Touches(table[i], e)
        BY <1>1 DEF IsTable
      <4> QED BY <4>1, <1>1, <1>5 DEF Touches
    <3>4. \A s \in T : s = new \/ \E i \in 1..Len(table) : (i = w \/ i <= k) /\ s = table[i]
      BY DEF WorkingParts
    <3> QED BY <3>1, <3>2, <3>3, <3>4
  <2>3. Disjoint(ToSet(table))
    BY TableIsDisjoint
  <2>4. Touches(e, g) <=> Touches(e, new)
    <3> HIDE DEF T, g, e
    <3> QED BY <1>2, <1>3, <1>4, <2>2, <2>3, GrownTouches
  <2>5. Touches(e, g) <=> ~(e.nextOffset < g.offset \/ e.offset > g.nextOffset)
    BY <1>5 DEF Touches
  <2>6. CASE ~Touches(e, new)
    <3>1. Visit(fixed, w, acc, n) = acc
      BY <2>1, <2>4, <2>5, <2>6 DEF Visit
    <3>2. next = T
      BY <1>1, <1>7, <2>6 DEF WorkingParts
    <3>3. marked = {i \in 1..n : i # w /\ Touches(table[i], new)}
      BY <1>1, <1>2, <2>6
    <3> HIDE DEF T, next, g, n, marked
    <3>4. Grown(table, w, new, n, acc)
      BY <1>2, <1>3, <3>2, <3>3 DEF Grown, next, g, n, marked
    <3> QED BY <3>1, <3>4 DEF n
  <2>7. CASE Touches(e, new)
    <3> DEFINE bigger == Extended(g, e)
    <3>1. Visit(fixed, w, acc, n) = [working |-> bigger, segmentsToDelete |-> marked \cup {n}]
      BY <1>7, <2>1, <2>4, <2>5, <2>7 DEF Visit
    <3>2. next = T \cup {e}
      BY <1>1, <1>7, <2>7 DEF WorkingParts
    <3>3. marked \cup {n} = {i \in 1..n : i # w /\ Touches(table[i], new)}
      BY <1>1, <1>2, <1>7, <2>7
    <3>4. /\ bigger.offset = IF e.offset < g.offset THEN e.offset ELSE g.offset
          /\ bigger.nextOffset = IF e.nextOffset > g.nextOffset THEN e.nextOffset ELSE g.nextOffset
          /\ bigger \in Intervals
      BY <1>1, <1>2 DEF Extended, Intervals
    <3> DEFINE after == [working |-> bigger, segmentsToDelete |-> marked \cup {n}]
    <3>5. after.working = bigger /\ after.segmentsToDelete = marked \cup {n}
      OBVIOUS
    <3> HIDE DEF T, next, g, n, e, marked, bigger, after
    <3>6. \E s \in next : bigger.offset = s.offset
      BY <1>3, <3>2, <3>4
    <3>7. \E s \in next : bigger.nextOffset = s.nextOffset
      BY <1>3, <3>2, <3>4
    <3>8. \A s \in next : bigger.offset <= s.offset /\ s.nextOffset <= bigger.nextOffset
      BY <1>2, <1>5, <3>2, <3>4
    <3>9. Grown(table, w, new, n, after)
      BY <3>3, <3>4, <3>5, <3>6, <3>7, <3>8 DEF Grown, next, n
    <3> QED BY <3>1, <3>9 DEF n, after
  <2> QED BY <2>6, <2>7
<1> QED BY <1>6, <1>7

\* The other entries that the new segment touches.
AlsoTouched(table, w, new) == {i \in 1..Len(table) : i # w /\ Touches(table[i], new)}

\* One pass is enough: the working entry becomes the hull of all the new segment touches,
\* and the others of these are marked.
LEMMA SwallowIs ==
    ASSUME NEW table, IsTable(table), NEW new, IsSegment(new),
           NEW w \in 1..Len(table), Touches(table[w], new)
    PROVE  LET result == Swallow([table EXCEPT ![w] = Extended(@, new)], w)
           IN  /\ result.working = Hull(Merging(ToSet(table), new))
               /\ result.segmentsToDelete = AlsoTouched(table, w, new)
<1> DEFINE k == Len(table)
<1> DEFINE fixed == [table EXCEPT ![w] = Extended(@, new)]
<1>1. /\ k \in Nat /\ DOMAIN table = 1..k
      /\ \A i \in 1..k : table[i] \in Intervals /\ table[i].offset <= table[i].nextOffset
  BY DEF IsTable
<1>2. /\ fixed[w] = Extended(table[w], new)
      /\ \A i \in 1..k : i # w => fixed[i] = table[i]
      /\ Len(fixed) = k
  BY <1>1 DEF IsTable
<1> HIDE DEF fixed
<1>3. PICK f : VisitedUpTo(f, fixed, w, k) /\ Swallow(fixed, w) = f[k]
  BY <1>1, <1>2, SwallowVisits
<1>4. \A n \in 0..k : f[n] = IF n = 0 THEN [working |-> fixed[w], segmentsToDelete |-> {}]
                             ELSE Visit(fixed, w, f[n - 1], n)
  BY <1>3 DEF VisitedUpTo
<1> DEFINE S == {n \in Nat : Grown(table, w, new, n, f[n])}
<1>5. 0 \in S
  <2> DEFINE T == WorkingParts(table, w, new, 0)
  <2> DEFINE g == Extended(table[w], new)
  <2>1. f[0] = [working |-> g, segmentsToDelete |-> {}]
    <3>1. 0 \in 0..k /\ fixed[w] = g
      BY <1>1, <1>2
    <3> HIDE DEF g
    <3> QED BY <3>1, <1>4
  <2>2. f[0].working = g /\ f[0].segmentsToDelete = {}
    BY <2>1
  <2>3. T = {new, table[w]}
    BY <1>1 DEF WorkingParts
  <2>4. /\ table[w] \in Intervals /\ new \in Intervals
        /\ table[w].offset \in Int /\ table[w].nextOffset \in Int
        /\ new.offset \in Int /\ new.nextOffset \in Int
    BY <1>1, BufferAssumption DEF IsSegment, Intervals
  <2>5. /\ g.offset = IF new.offset < table[w].offset THEN new.offset ELSE table[w].offset
        /\ g.nextOffset = IF new.nextOffset > table[w].nextOffset THEN new.nextOffset
                          ELSE table[w].nextOffset
        /\ g \in Intervals
    BY <2>4 DEF Extended, Intervals
  <2> HIDE DEF T, g
  <2>6. \E s \in T : g.offset = s.offset
    BY <2>3, <2>5
  <2>7. \E s \in T : g.nextOffset = s.nextOffset
    BY <2>3, <2>5
  <2>8. \A s \in T : g.offset <= s.offset /\ s.nextOffset <= g.nextOffset
    BY <2>3, <2>4, <2>5
  <2>9. {i \in 1..0 : i # w /\ Touches(table[i], new)} = {}
    OBVIOUS
  <2>10. Grown(table, w, new, 0, f[0])
    BY <2>2, <2>5, <2>6, <2>7, <2>8, <2>9 DEF Grown, T
  <2> QED BY <2>10
<1>6. ASSUME NEW n \in 0..(k - 1), n \in S PROVE n + 1 \in S
  <2>1. n + 1 \in 0..k /\ n + 1 # 0 /\ (n + 1) - 1 = n /\ n \in Nat
    BY <1>1
  <2>2. f[n + 1] = Visit(fixed, w, f[n], n + 1)
    BY <1>4, <2>1
  <2>3. Grown(table, w, new, n, f[n])
    BY <1>6
  <2>4. Grown(table, w, new, n + 1, Visit(fixed, w, f[n], n + 1))
    BY <1>2, <2>3, VisitGrows
  <2> QED BY <2>1, <2>2, <2>4
<1> HIDE DEF S
<1>7. k \in S
  BY <1>1, <1>5, <1>6, InductionUpTo
<1>8. Grown(table, w, new, k, Swallow(fixed, w))
  BY <1>3, <1>7 DEF S
<1> DEFINE T == Merging(ToSet(table), new)
<1> DEFINE result == Swallow(fixed, w)
<1> DEFINE g == result.working
<1>9. WorkingParts(table, w, new, k) = T
  <2>1. ToSet(table) = {table[i] : i \in 1..k}
    BY <1>1 DEF ToSet
  <2> QED BY <1>1, <2>1 DEF WorkingParts, Merging, Touched
<1>10. /\ result.segmentsToDelete = {i \in 1..k : i # w /\ Touches(table[i], new)}
       /\ g \in Intervals
       /\ \E s \in T : g.offset = s.offset
       /\ \E s \in T : g.nextOffset = s.nextOffset
       /\ \A s \in T : g.offset <= s.offset /\ s.nextOffset <= g.nextOffset
  BY <1>8, <1>9 DEF Grown
<1>11. /\ Hull(T) \in Intervals
       /\ \E s \in T : s.offset = Hull(T).offset
       /\ \E s \in T : s.nextOffset = Hull(T).nextOffset
       /\ \A s \in T : Hull(T).offset <= s.offset /\ s.nextOffset <= Hull(T).nextOffset
  BY TableIsDisjoint, HullBounds
<1>12. g = Hull(T)
  <2> HIDE DEF g, T
  <2>1. g.offset = Hull(T).offset /\ g.nextOffset = Hull(T).nextOffset
    BY <1>10, <1>11, BufferAssumption DEF Intervals
  <2>2. \A a, b \in Intervals : a.offset = b.offset /\ a.nextOffset = b.nextOffset => a = b
    BY DEF Intervals
  <2> QED BY <2>1, <2>2, <1>10, <1>11
<1> QED BY <1>10, <1>12 DEF fixed, AlsoTouched

\* What manageDisjointSegmentInfo makes of the array is what it makes of the set of its
\* entries, and the array does not grow.
LEMMA MergedIs ==
    ASSUME NEW table, IsTable(table), NEW new, IsSegment(new),
           NEW w \in 1..Len(table), Touches(table[w], new)
    PROVE  LET after == Merged(table, w, new)
           IN  /\ IsTable(after)
               /\ ToSet(after) = manageDisjointSegmentInfo(ToSet(table), new)
               /\ Len(after) <= Len(table)
<1> DEFINE k == Len(table)
<1> DEFINE hull == Hull(Merging(ToSet(table), new))
<1> DEFINE marked == AlsoTouched(table, w, new)
<1> DEFINE merged == [table EXCEPT ![w] = hull]
<1> DEFINE after == Merged(table, w, new)
<1> DEFINE entries == manageDisjointSegmentInfo(ToSet(table), new)
<1>1. /\ k \in Nat /\ DOMAIN table = 1..k /\ table \in Seq(Intervals)
      /\ \A i \in 1..k : table[i] \in Intervals /\ table[i].offset <= table[i].nextOffset
      /\ \A i, j \in 1..k : i # j => ~Touches(table[i], table[j])
      /\ ToSet(table) = {table[i] : i \in 1..k}
  BY DEF IsTable, ToSet
<1>2. Disjoint(ToSet(table)) /\ Disjoint(entries)
  BY TableIsDisjoint, InsertIsDisjoint
<1>3. hull \in Intervals
  BY <1>2, HullBounds
<1>4. entries = (ToSet(table) \ Touched(ToSet(table), new)) \cup {hull}
  BY DEF manageDisjointSegmentInfo, Merging, Touched
<1>5. after = DeleteMarked(merged, marked)
  <2> DEFINE fixed == [table EXCEPT ![w] = Extended(@, new)]
  <2> DEFINE result == Swallow(fixed, w)
  <2>1. result.working = hull /\ result.segmentsToDelete = marked
    BY SwallowIs
  <2>2. after = DeleteMarked([fixed EXCEPT ![w] = result.working], result.segmentsToDelete)
    BY DEF Merged
  <2>3. [fixed EXCEPT ![w] = hull] = merged
    BY <1>1
  <2> HIDE DEF fixed, result, marked, hull, merged, after
  <2> QED BY <2>1, <2>2, <2>3
<1>6. /\ merged \in Seq(Intervals) /\ Len(merged) = k /\ merged[w] = hull
      /\ \A i \in 1..k : i # w => merged[i] = table[i]
  BY <1>1, <1>3
<1> HIDE DEF hull, merged, after, entries
<1> DEFINE places == (1..k) \ marked
<1>7. KeptFrom(after, merged, places) /\ Len(after) <= k
  BY <1>5, <1>6, DeleteMarkedIs
<1>8. w \in places /\ \A i \in 1..k : i \in places <=> i = w \/ ~Touches(table[i], new)
  BY DEF AlsoTouched
<1>9. \A i \in places : i \in 1..k
  OBVIOUS
<1> HIDE DEF places, marked
<1>10. \A i \in places : merged[i] \in entries
  BY <1>1, <1>4, <1>6, <1>8, <1>9 DEF Touched
<1>11. ToSet(after) = {after[j] : j \in 1..Len(after)} /\ after \in Seq(Intervals)
  <2>1. after \in Seq(Intervals)
    BY <1>7 DEF KeptFrom
  <2> QED BY <2>1 DEF ToSet
<1>12. ToSet(after) \subseteq entries
  <2> SUFFICES ASSUME NEW j \in 1..Len(after) PROVE after[j] \in entries
    BY <1>11
  <2>1. PICK i \in places : after[j] = merged[i]
    BY <1>7 DEF KeptFrom
  <2> QED BY <2>1, <1>10
<1>13. entries \subseteq ToSet(after)
  <2> SUFFICES ASSUME NEW e \in entries PROVE e \in ToSet(after)
    OBVIOUS
  <2>1. \E i \in places : e = merged[i]
    <3>1. CASE e = hull
      BY <3>1, <1>6, <1>8
    <3>2. CASE e # hull
      <4>1. PICK i \in 1..k : e = table[i] /\ ~Touches(table[i], new)
        BY <3>2, <1>1, <1>4 DEF Touched
      <4>2. i # w /\ i \in places
        BY <4>1, <1>8
      <4> QED BY <4>1, <4>2, <1>6
    <3> QED BY <3>1, <3>2
  <2>2. PICK j \in 1..Len(after) : e = after[j]
    BY <2>1, <1>7 DEF KeptFrom
  <2> QED BY <2>2, <1>11
<1>14. \A i1, i2 \in places : i1 # i2 => ~Touches(merged[i1], merged[i2])
  <2> SUFFICES ASSUME NEW i1 \in places, NEW i2 \in places, i1 # i2
               PROVE  ~Touches(merged[i1], merged[i2])
    OBVIOUS
  <2>1. CASE i1 # w /\ i2 # w
    BY <2>1, <1>1, <1>6, <1>9
  <2>2. ASSUME NEW i \in places, i # w PROVE ~Touches(merged[i], hull) /\ ~Touches(hull, merged[i])
    <3>1. merged[i] = table[i] /\ ~Touches(table[i], new) /\ table[i] \in ToSet(table)
      BY <2>2, <1>1, <1>6, <1>8, <1>9
    <3>2. Touches(hull, new)
      <4>1. /\ new \in Merging(ToSet(table), new)
            /\ \A s \in Merging(ToSet(table), new) :
                  hull.offset <= s.offset /\ s.nextOffset <= hull.nextOffset
        BY <1>2, HullBounds DEF Merging, hull
      <4>2. /\ new.offset \in Int /\ new.nextOffset \in Int /\ new.offset <= new.nextOffset
            /\ hull.offset \in Int /\ hull.nextOffset \in Int
        BY <1>3, BufferAssumption DEF IsSegment, Intervals
      <4> QED BY <4>1, <4>2 DEF Touches
    <3>3. merged[i] \in entries /\ hull \in entries /\ merged[i] # hull
      BY <3>1, <3>2, <1>4, <1>10
    <3> QED BY <3>3, <1>2 DEF Disjoint
  <2> QED BY <2>1, <2>2, <1>6
<1>15. \A j1, j2 \in 1..Len(after) : j1 # j2 => ~Touches(after[j1], after[j2])
  <2> SUFFICES ASSUME NEW j1 \in 1..Len(after), NEW j2 \in 1..Len(after), j1 # j2
               PROVE  ~Touches(after[j1], after[j2])
    OBVIOUS
  <2>1. PICK i1 \in places, i2 \in places :
           i1 # i2 /\ after[j1] = merged[i1] /\ after[j2] = merged[i2]
    BY <1>7 DEF KeptFrom
  <2> QED BY <2>1, <1>14
<1>16. \A j \in 1..Len(after) : after[j].offset <= after[j].nextOffset
  BY <1>2, <1>11, <1>12 DEF Disjoint
<1>17. IsTable(after)
  BY <1>11, <1>15, <1>16 DEF IsTable
<1> QED BY <1>7, <1>12, <1>13, <1>17 DEF after, entries

\* A segment that touches no entry is put behind them.
LEMMA AppendedIs ==
    ASSUME NEW table, IsTable(table), NEW new, IsSegment(new),
           \A i \in 1..Len(table) : ~Touches(table[i], new)
    PROVE  /\ IsTable(Append(table, new))
           /\ ToSet(Append(table, new)) = manageDisjointSegmentInfo(ToSet(table), new)
           /\ Len(Append(table, new)) = Len(table) + 1
<1> DEFINE after == Append(table, new)
<1>1. /\ Len(table) \in Nat /\ DOMAIN table = 1..Len(table) /\ table \in Seq(Intervals)
      /\ new \in Intervals /\ new.offset <= new.nextOffset
  BY DEF IsTable, IsSegment
<1>2. /\ after \in Seq(Intervals) /\ Len(after) = Len(table) + 1
      /\ DOMAIN after = 1..Len(after)
      /\ \A i \in 1..Len(table) : after[i] = table[i]
      /\ after[Len(table) + 1] = new
  BY <1>1
<1> HIDE DEF after
<1>3. \A i \in 1..Len(after) : i \in 1..Len(table) \/ i = Len(table) + 1
  BY <1>1, <1>2
<1>4. IsTable(after)
  <2>1. \A a, b : Touches(a, b) <=> Touches(b, a)
    BY DEF Touches
  <2>2. \A i \in 1..Len(after) : after[i].offset <= after[i].nextOffset
    BY <1>1, <1>2, <1>3 DEF IsTable
  <2>3. \A i, j \in 1..Len(after) : i # j => ~Touches(after[i], after[j])
    BY <1>2, <1>3, <2>1 DEF IsTable
  <2> QED BY <1>2, <2>2, <2>3 DEF IsTable
<1>5. ToSet(after) = ToSet(table) \cup {new}
  <2>1. ToSet(after) = {after[i] : i \in 1..Len(after)} /\ ToSet(table) = {table[i] : i \in 1..Len(table)}
    BY <1>1, <1>2 DEF ToSet
  <2> QED BY <2>1, <1>1, <1>2, <1>3
<1>6. Touched(ToSet(table), new) = {}
  BY <1>1 DEF ToSet, Touched
<1>7. Merging(ToSet(table), new) = {new}
  BY <1>6 DEF Merging
<1>8. Hull({new}) = new
  <2>1. /\ Hull({new}) \in Intervals
        /\ \E s \in {new} : s.offset = Hull({new}).offset
        /\ \E s \in {new} : s.nextOffset = Hull({new}).nextOffset
    BY <1>7, TableIsDisjoint, HullBounds
  <2> QED BY <2>1, <1>1 DEF Intervals
<1>9. manageDisjointSegmentInfo(ToSet(table), new) = ToSet(table) \cup {new}
  BY <1>6, <1>7, <1>8 DEF manageDisjointSegmentInfo, Touched, Merging
<1> QED BY <1>2, <1>4, <1>5, <1>9 DEF after

\* There is room for a segment in the array exactly when there is in the set.
LEMMA RoomInTheArray ==
    ASSUME NEW table, IsTable(table), NEW new, IsSegment(new)
    PROVE  HasRoom(ToSet(table), new) <=>
              FirstTouched(table, new) # 0 \/ Len(table) # MaxDisjointSegments
<1>1. Cardinality(ToSet(table)) = Len(table)
  BY TableIsDisjoint
<1>2. ToSet(table) = {table[i] : i \in 1..Len(table)} /\ Len(table) \in Nat
  BY DEF ToSet, IsTable
<1>3. FirstTouched(table, new) # 0 <=> \E s \in ToSet(table) : Touches(s, new)
  BY <1>2, FirstTouchedIs
<1> QED BY <1>1, <1>3 DEF HasRoom

=============================================================================
