------------------------- MODULE SegmentTreeProofs -------------------------
(***************************************************************************)
(* SegmentTree answers for the set of the inserted ids, for every set of   *)
(* ids and every sequence of calls of Insert.                              *)
(***************************************************************************)
EXTENDS SegmentTree, IdSetProofs

-----------------------------------------------------------------------------
(* The shape of segments_ between two calls: segments are not empty and are *)
(* separated by a gap.                                                      *)
Typed(m) ==
    /\ DOMAIN m \in SUBSET Nat
    /\ m \in [DOMAIN m -> Nat]
    /\ \A k \in DOMAIN m : k < m[k]

Apart(m) == \A j, k \in DOMAIN m : j < k => m[j] < k

Shape(m) == Typed(m) /\ Apart(m)

(* The shape inside a call: the segment c may touch its neighbours. *)
Near(m, c) ==
    /\ Typed(m)
    /\ c \in DOMAIN m
    /\ \A j, k \in DOMAIN m :
          j < k => m[j] <= k /\ (m[j] = k => j = c \/ k = c)

(* ... only the one after it. *)
NearNext(m, c) ==
    /\ Near(m, c)
    /\ \A j \in DOMAIN m : j < c => m[j] < c

Covers(m, x) == \E k \in DOMAIN m : k <= x /\ x < m[k]

(* The elements found by upper_bound, prev and next exist. *)
LEMMA FloorExists ==
    ASSUME NEW m, DOMAIN m \in SUBSET Nat, NEW x \in Nat, HasFloor(m, x)
    PROVE  /\ Floor(m, x) \in DOMAIN m
           /\ Floor(m, x) <= x
           /\ \A j \in DOMAIN m : j <= x => j <= Floor(m, x)
<1> DEFINE T == {k \in DOMAIN m : k <= x}
<1>1. T \in SUBSET Nat /\ T # {} /\ \A k \in T : k <= x
  BY DEF HasFloor
<1>2. PICK k \in T : \A j \in T : j <= k
  BY <1>1, MaxExists
<1>3. k \in DOMAIN m /\ k <= x /\ \A j \in DOMAIN m : j <= x => j <= k
  BY <1>2
<1> QED BY <1>3 DEF Floor

LEMMA PrevExists ==
    ASSUME NEW m, DOMAIN m \in SUBSET Nat, NEW c \in Nat, HasPrev(m, c)
    PROVE  /\ Prev(m, c) \in DOMAIN m
           /\ Prev(m, c) < c
           /\ \A j \in DOMAIN m : j < c => j <= Prev(m, c)
<1> DEFINE T == {k \in DOMAIN m : k < c}
<1>1. T \in SUBSET Nat /\ T # {} /\ \A k \in T : k <= c
  BY DEF HasPrev
<1>2. PICK k \in T : \A j \in T : j <= k
  BY <1>1, MaxExists
<1>3. k \in DOMAIN m /\ k < c /\ \A j \in DOMAIN m : j < c => j <= k
  BY <1>2
<1> QED BY <1>3 DEF Prev

LEMMA NextExists ==
    ASSUME NEW m, DOMAIN m \in SUBSET Nat, NEW c \in Nat, HasNext(m, c)
    PROVE  /\ Next(m, c) \in DOMAIN m
           /\ c < Next(m, c)
           /\ \A j \in DOMAIN m : c < j => Next(m, c) <= j
<1> DEFINE T == {k \in DOMAIN m : c < k}
<1>1. T \in SUBSET Nat /\ T # {}
  BY DEF HasNext
<1>2. PICK k \in T : \A j \in T : k <= j
  BY <1>1, MinExists
<1>3. k \in DOMAIN m /\ c < k /\ \A j \in DOMAIN m : c < j => k <= j
  BY <1>2
<1> QED BY <1>3 DEF Next

(* The test of Contains, and of Insert, is membership in a segment. *)
LEMMA FloorDecides ==
    ASSUME NEW m, Shape(m), NEW x \in Nat
    PROVE  (HasFloor(m, x) /\ x < m[Floor(m, x)]) <=> Covers(m, x)
<1>1. ASSUME HasFloor(m, x), x < m[Floor(m, x)] PROVE Covers(m, x)
  BY <1>1, FloorExists DEF Covers, Shape, Typed
<1>2. ASSUME Covers(m, x) PROVE HasFloor(m, x) /\ x < m[Floor(m, x)]
  <2>1. PICK k \in DOMAIN m : k <= x /\ x < m[k]
    BY <1>2 DEF Covers
  <2>2. HasFloor(m, x)
    BY <2>1 DEF HasFloor
  <2>3. Floor(m, x) \in DOMAIN m /\ Floor(m, x) <= x /\ k <= Floor(m, x)
    BY <2>1, <2>2, FloorExists DEF Shape, Typed
  <2>4. k = Floor(m, x)
    BY <2>1, <2>3 DEF Shape, Typed, Apart
  <2> QED BY <2>1, <2>2, <2>4
<1> QED BY <1>1, <1>2
-----------------------------------------------------------------------------
(* Absorbing the segment that begins where the segment a ends keeps the     *)
(* covered ids.                                                             *)
LEMMA AbsorbCovers ==
    ASSUME NEW m, Typed(m), NEW a \in DOMAIN m, m[a] \in DOMAIN m
    PROVE  /\ Typed(Absorb(m, a, m[a]))
           /\ \A y \in Nat : Covers(Absorb(m, a, m[a]), y) <=> Covers(m, y)
<1> DEFINE b == m[a]
           n == Absorb(m, a, b)
<1>1. /\ DOMAIN n = DOMAIN m \ {b}
      /\ \A k \in DOMAIN n : n[k] = IF k = a THEN m[b] ELSE m[k]
  BY DEF Absorb
<1>2. /\ a \in Nat /\ b \in Nat /\ a < b /\ b < m[b] /\ m[b] \in Nat
      /\ DOMAIN m \in SUBSET Nat
      /\ \A k \in DOMAIN m : m[k] \in Nat /\ k < m[k]
  BY DEF Typed
<1>3. a \in DOMAIN n /\ n[a] = m[b]
  BY <1>1, <1>2
<1>4. n \in [DOMAIN n -> Nat]
  <2>1. n = [k \in DOMAIN m \ {b} |-> IF k = a THEN m[b] ELSE m[k]]
    BY DEF Absorb
  <2> QED BY <2>1, <1>2
<1>5. \A k \in DOMAIN n : k < n[k]
  BY <1>1, <1>2
<1>6. Typed(n)
  BY <1>1, <1>2, <1>4, <1>5 DEF Typed
<1>7. ASSUME NEW y \in Nat, Covers(n, y) PROVE Covers(m, y)
  <2>1. PICK k \in DOMAIN n : k <= y /\ y < n[k]
    BY <1>7 DEF Covers
  <2>2. CASE k # a
    BY <2>1, <2>2, <1>1 DEF Covers
  <2>3. CASE k = a
    <3>1. a <= y /\ y < m[b]
      BY <2>1, <2>3, <1>3
    <3>2. (a <= y /\ y < m[a]) \/ (b <= y /\ y < m[b])
      BY <3>1, <1>2
    <3> QED BY <3>2 DEF Covers
  <2> QED BY <2>2, <2>3
<1>8. ASSUME NEW y \in Nat, Covers(m, y) PROVE Covers(n, y)
  <2>1. PICK k \in DOMAIN m : k <= y /\ y < m[k]
    BY <1>8 DEF Covers
  <2>2. CASE k # a /\ k # b
    BY <2>1, <2>2, <1>1 DEF Covers
  <2>3. CASE k = a \/ k = b
    <3>1. a <= y /\ y < n[a]
      BY <2>1, <2>3, <1>2, <1>3
    <3> QED BY <3>1, <1>3 DEF Covers
  <2> QED BY <2>2, <2>3
<1> QED BY <1>6, <1>7, <1>8

(* First stage of Insert: x is covered by a new or by a longer segment.     *)
LEMMA AttachStage ==
    ASSUME NEW m, Shape(m), NEW x \in Nat, ~Exists(m, x)
    PROVE  /\ Near(Attached(m, x), Current(m, x))
           /\ \A y \in Nat : Covers(Attached(m, x), y) <=> Covers(m, y) \/ y = x
<1>0. /\ DOMAIN m \in SUBSET Nat
      /\ \A k \in DOMAIN m : m[k] \in Nat /\ k < m[k]
      /\ \A j, k \in DOMAIN m : j < k => m[j] < k
  BY DEF Shape, Typed, Apart
<1>1. CASE IsNew(m, x)
  <2> DEFINE n == Open(m, x)
  <2>1. Attached(m, x) = n /\ Current(m, x) = x
    BY <1>1 DEF Attached, Current
  <2>2. /\ n = [k \in DOMAIN m \cup {x} |-> IF k = x THEN x + 1 ELSE m[k]]
        /\ DOMAIN n = DOMAIN m \cup {x}
        /\ n[x] = x + 1
        /\ \A k \in DOMAIN m : k # x => n[k] = m[k]
    BY DEF Open
  <2>3. \A k \in DOMAIN m : k <= x => m[k] < x
    <3>1. SUFFICES ASSUME NEW k \in DOMAIN m, k <= x PROVE m[k] < x
      OBVIOUS
    <3>2. HasFloor(m, x)
      BY <3>1 DEF HasFloor
    <3>3. /\ Floor(m, x) \in DOMAIN m /\ Floor(m, x) <= x
          /\ k <= Floor(m, x)
      BY <3>1, <3>2, <1>0, FloorExists
    <3>4. m[Floor(m, x)] < x
      BY <1>1, <3>2, <3>3, <1>0 DEF IsNew
    <3> QED BY <3>1, <3>3, <3>4, <1>0
  <2>4. x \notin DOMAIN m
    BY <2>3, <1>0
  <2>5. Typed(n)
    <3>1. n \in [DOMAIN n -> Nat]
      BY <2>2, <1>0
    <3> QED BY <3>1, <2>2, <1>0 DEF Typed
  <2>6. \A j, k \in DOMAIN n :
            j < k => n[j] <= k /\ (n[j] = k => j = x \/ k = x)
    <3>1. SUFFICES ASSUME NEW j \in DOMAIN n, NEW k \in DOMAIN n, j < k
                   PROVE  n[j] <= k /\ (n[j] = k => j = x \/ k = x)
      OBVIOUS
    <3>2. j \in Nat /\ k \in Nat
      BY <2>2, <1>0
    <3>3. CASE j = x
      BY <3>1, <3>2, <3>3, <2>2
    <3>4. CASE k = x /\ j # x
      BY <3>1, <3>2, <3>4, <2>2, <2>3, <1>0
    <3>5. CASE k # x /\ j # x
      BY <3>1, <3>2, <3>5, <2>2, <1>0
    <3> QED BY <3>3, <3>4, <3>5
  <2>7. \A y \in Nat : Covers(n, y) <=> Covers(m, y) \/ y = x
    <3>1. ASSUME NEW y \in Nat, Covers(n, y) PROVE Covers(m, y) \/ y = x
      BY <3>1, <2>2, <1>0 DEF Covers
    <3>2. ASSUME NEW y \in Nat, Covers(m, y) \/ y = x PROVE Covers(n, y)
      BY <3>2, <2>2, <2>4, <1>0 DEF Covers
    <3> QED BY <3>1, <3>2
  <2> QED BY <2>1, <2>2, <2>5, <2>6, <2>7 DEF Near
<1>2. CASE ~IsNew(m, x)
  <2> DEFINE f == Floor(m, x)
             n == [m EXCEPT ![f] = x + 1]
  <2>1. Attached(m, x) = n /\ Current(m, x) = f
    BY <1>2 DEF Attached, Current
  <2>2. HasFloor(m, x)
    BY <1>2 DEF IsNew
  <2>3. f \in DOMAIN m /\ f <= x /\ \A j \in DOMAIN m : j <= x => j <= f
    BY <2>2, <1>0, FloorExists
  <2>4. m[f] = x
    BY <1>2, <2>2, <2>3, <1>0 DEF IsNew, Exists
  <2>5. /\ DOMAIN n = DOMAIN m
        /\ n[f] = x + 1
        /\ \A k \in DOMAIN m : k # f => n[k] = m[k]
    BY <2>3
  <2>6. Typed(n)
    <3>1. n \in [DOMAIN n -> Nat]
      BY <2>3, <1>0 DEF Shape, Typed
    <3> QED BY <3>1, <2>3, <2>5, <1>0 DEF Typed
  <2>7. \A j, k \in DOMAIN n :
            j < k => n[j] <= k /\ (n[j] = k => j = f \/ k = f)
    <3>1. SUFFICES ASSUME NEW j \in DOMAIN n, NEW k \in DOMAIN n, j < k
                   PROVE  n[j] <= k /\ (n[j] = k => j = f \/ k = f)
      OBVIOUS
    <3>2. j \in Nat /\ k \in Nat /\ f \in Nat
      BY <2>3, <2>5, <1>0
    <3>3. CASE j = f
      <4>1. ~(k <= x)
        BY <2>3, <2>5, <3>1, <3>2, <3>3
      <4> QED BY <4>1, <3>2, <3>3, <2>5
    <3>4. CASE j # f
      BY <3>1, <3>2, <3>4, <2>5, <1>0
    <3> QED BY <3>3, <3>4
  <2>8. \A y \in Nat : Covers(n, y) <=> Covers(m, y) \/ y = x
    <3>1. ASSUME NEW y \in Nat, Covers(n, y) PROVE Covers(m, y) \/ y = x
      <4>1. PICK k \in DOMAIN n : k <= y /\ y < n[k]
        BY <3>1 DEF Covers
      <4>2. CASE k = f
        BY <4>1, <4>2, <2>3, <2>4, <2>5, <1>0 DEF Covers
      <4>3. CASE k # f
        BY <4>1, <4>3, <2>5 DEF Covers
      <4> QED BY <4>2, <4>3
    <3>2. ASSUME NEW y \in Nat, Covers(m, y) PROVE Covers(n, y)
      <4>1. PICK k \in DOMAIN m : k <= y /\ y < m[k]
        BY <3>2 DEF Covers
      <4>2. y < n[k]
        BY <4>1, <2>3, <2>4, <2>5, <1>0
      <4> QED BY <4>1, <4>2, <2>5 DEF Covers
    <3>3. Covers(n, x)
      BY <2>3, <2>5 DEF Covers
    <3> QED BY <3>1, <3>2, <3>3
  <2> QED BY <2>1, <2>3, <2>5, <2>6, <2>7, <2>8 DEF Near
<1> QED BY <1>1, <1>2

(* Second stage: afterwards no segment ends where the current one begins.   *)
LEMMA PrevStage ==
    ASSUME NEW m, NEW c, Near(m, c)
    PROVE  /\ NearNext(MergePrev(m, c), Merged(m, c))
           /\ \A y \in Nat : Covers(MergePrev(m, c), y) <=> Covers(m, y)
<1>0. /\ Typed(m) /\ c \in DOMAIN m /\ c \in Nat
      /\ DOMAIN m \in SUBSET Nat
      /\ \A k \in DOMAIN m : m[k] \in Nat /\ k < m[k]
      /\ \A j, k \in DOMAIN m :
            j < k => m[j] <= k /\ (m[j] = k => j = c \/ k = c)
  BY DEF Near, Typed
<1>1. CASE ~MeetsPrev(m, c)
  <2>1. MergePrev(m, c) = m /\ Merged(m, c) = c
    BY <1>1 DEF MergePrev, Merged
  <2>2. ASSUME NEW j \in DOMAIN m, j < c PROVE m[j] < c
    <3>1. HasPrev(m, c)
      BY <2>2 DEF HasPrev
    <3>2. Prev(m, c) \in DOMAIN m /\ Prev(m, c) < c /\ j <= Prev(m, c)
      BY <2>2, <3>1, <1>0, PrevExists
    <3>3. m[Prev(m, c)] # c
      BY <1>1, <3>1 DEF MeetsPrev
    <3>4. m[Prev(m, c)] < c
      BY <3>2, <3>3, <1>0
    <3>5. CASE j = Prev(m, c)
      BY <3>4, <3>5
    <3>6. CASE j < Prev(m, c)
      BY <3>2, <3>6, <1>0
    <3> QED BY <3>2, <3>5, <3>6, <1>0
  <2> QED BY <2>1, <2>2 DEF NearNext
<1>2. CASE MeetsPrev(m, c)
  <2> DEFINE a == Prev(m, c)
             n == Absorb(m, a, c)
  <2>1. MergePrev(m, c) = n /\ Merged(m, c) = a
    BY <1>2 DEF MergePrev, Merged
  <2>2. a \in DOMAIN m /\ a < c /\ m[a] = c
    BY <1>2, <1>0, PrevExists DEF MeetsPrev
  <2>3. Typed(n) /\ \A y \in Nat : Covers(n, y) <=> Covers(m, y)
    BY <2>2, <1>0, AbsorbCovers
  <2>4. /\ DOMAIN n = DOMAIN m \ {c}
        /\ n[a] = m[c]
        /\ \A k \in DOMAIN n : k # a => n[k] = m[k]
    BY <2>2, <1>0 DEF Absorb
  <2>5. \A j, k \in DOMAIN n :
            j < k => n[j] <= k /\ (n[j] = k => j = a \/ k = a)
    <3>1. SUFFICES ASSUME NEW j \in DOMAIN n, NEW k \in DOMAIN n, j < k
                   PROVE  n[j] <= k /\ (n[j] = k => j = a \/ k = a)
      OBVIOUS
    <3>2. j \in DOMAIN m /\ k \in DOMAIN m /\ j # c /\ k # c
      BY <2>4
    <3>3. CASE j = a
      <4>1. c < k
        BY <3>1, <3>2, <3>3, <2>2, <1>0
      <4> QED BY <4>1, <3>2, <3>3, <2>4, <1>0
    <3>4. CASE j # a
      BY <3>1, <3>2, <3>4, <2>4, <1>0
    <3> QED BY <3>3, <3>4
  <2>6. \A j \in DOMAIN n : j < a => n[j] < a
    <3>1. SUFFICES ASSUME NEW j \in DOMAIN n, j < a PROVE n[j] < a
      OBVIOUS
    <3>2. j \in DOMAIN m /\ j # c /\ j # a /\ n[j] = m[j]
      BY <3>1, <2>4, <2>2, <1>0
    <3> QED BY <3>1, <3>2, <2>2, <1>0
  <2>7. a \in DOMAIN n
    BY <2>2, <2>4, <1>0
  <2> QED BY <2>1, <2>3, <2>5, <2>6, <2>7 DEF NearNext, Near
<1> QED BY <1>1, <1>2

(* Last stage: all segments are apart again. *)
LEMMA NextStage ==
    ASSUME NEW m, NEW c, NearNext(m, c)
    PROVE  /\ Shape(MergeNext(m, c))
           /\ \A y \in Nat : Covers(MergeNext(m, c), y) <=> Covers(m, y)
<1>0. /\ Typed(m) /\ c \in DOMAIN m /\ c \in Nat
      /\ DOMAIN m \in SUBSET Nat
      /\ \A k \in DOMAIN m : m[k] \in Nat /\ k < m[k]
      /\ \A j, k \in DOMAIN m :
            j < k => m[j] <= k /\ (m[j] = k => j = c \/ k = c)
      /\ \A j \in DOMAIN m : j < c => m[j] < c
  BY DEF NearNext, Near, Typed
<1>1. CASE ~(HasNext(m, c) /\ Next(m, c) = m[c])
  <2>1. MergeNext(m, c) = m
    BY <1>1 DEF MergeNext
  <2>2. ASSUME NEW k \in DOMAIN m, c < k PROVE m[c] < k
    <3>1. HasNext(m, c)
      BY <2>2 DEF HasNext
    <3>2. Next(m, c) \in DOMAIN m /\ c < Next(m, c) /\ Next(m, c) <= k
      BY <2>2, <3>1, <1>0, NextExists
    <3>3. Next(m, c) # m[c]
      BY <1>1, <3>1
    <3> QED BY <3>2, <3>3, <1>0
  <2>3. ASSUME NEW j \in DOMAIN m, NEW k \in DOMAIN m, j < k
        PROVE  m[j] < k
    <3>1. CASE j = c
      BY <2>2, <2>3, <3>1
    <3>2. CASE j # c
      BY <2>3, <3>2, <1>0
    <3> QED BY <3>1, <3>2
  <2> QED BY <2>1, <2>3, <1>0 DEF Shape, Apart
<1>2. CASE HasNext(m, c) /\ Next(m, c) = m[c]
  <2> DEFINE b == m[c]
             n == Absorb(m, c, b)
  <2>1. MergeNext(m, c) = n
    BY <1>2 DEF MergeNext
  <2>2. b \in DOMAIN m /\ c < b /\ \A j \in DOMAIN m : c < j => b <= j
    BY <1>2, <1>0, NextExists
  <2>3. Typed(n) /\ \A y \in Nat : Covers(n, y) <=> Covers(m, y)
    BY <2>2, <1>0, AbsorbCovers
  <2>4. /\ DOMAIN n = DOMAIN m \ {b}
        /\ n[c] = m[b]
        /\ \A k \in DOMAIN n : k # c => n[k] = m[k]
    BY <2>2, <1>0 DEF Absorb
  <2>5. \A j, k \in DOMAIN n : j < k => n[j] < k
    <3>1. SUFFICES ASSUME NEW j \in DOMAIN n, NEW k \in DOMAIN n, j < k
                   PROVE  n[j] < k
      OBVIOUS
    <3>2. j \in DOMAIN m /\ k \in DOMAIN m /\ j # b /\ k # b
      BY <2>4
    <3>3. CASE j = c
      <4>1. b < k
        BY <3>1, <3>2, <3>3, <2>2, <1>0
      <4> QED BY <4>1, <3>2, <3>3, <2>2, <2>4, <1>0
    <3>4. CASE j # c
      BY <3>1, <3>2, <3>4, <2>4, <1>0
    <3> QED BY <3>3, <3>4
  <2> QED BY <2>1, <2>3, <2>5 DEF Shape, Apart
<1> QED BY <1>1, <1>2

(* Insert adds x and nothing else to the covered ids, and keeps the shape.  *)
LEMMA ExtendedCovers ==
    ASSUME NEW m, Shape(m), NEW x \in Nat, ~Exists(m, x)
    PROVE  /\ Shape(Extended(m, x))
           /\ \A y \in Nat : Covers(Extended(m, x), y) <=> Covers(m, y) \/ y = x
<1> DEFINE m1 == Attached(m, x)
           c1 == Current(m, x)
           m2 == MergePrev(m1, c1)
           c2 == Merged(m1, c1)
<1>1. Near(m1, c1) /\ \A y \in Nat : Covers(m1, y) <=> Covers(m, y) \/ y = x
  BY AttachStage
<1>2. NearNext(m2, c2) /\ \A y \in Nat : Covers(m2, y) <=> Covers(m1, y)
  BY <1>1, PrevStage
<1>3. /\ Shape(MergeNext(m2, c2))
      /\ \A y \in Nat : Covers(MergeNext(m2, c2), y) <=> Covers(m2, y)
  BY <1>2, NextStage
<1>4. Extended(m, x) = MergeNext(m2, c2)
  BY DEF Extended
<1> HIDE DEF m1, c1, m2, c2
<1> QED BY <1>1, <1>2, <1>3, <1>4

(* An id exists for Insert when a segment covers it. *)
LEMMA ExistsIffCovers ==
    ASSUME NEW m, Shape(m), NEW x \in Nat
    PROVE  Exists(m, x) <=> Covers(m, x)
<1>1. Exists(m, x) => HasFloor(m, x) /\ x < m[Floor(m, x)]
  BY DEF Exists, IsNew
<1>2. ASSUME HasFloor(m, x), x < m[Floor(m, x)] PROVE Exists(m, x)
  <2>1. m[Floor(m, x)] \in Nat
    BY <1>2, FloorExists DEF Shape, Typed
  <2> QED BY <1>2, <2>1 DEF Exists, IsNew
<1> QED BY <1>1, <1>2, FloorDecides
-----------------------------------------------------------------------------
(* The inductive invariant. *)
TreeInv ==
    /\ Shape(segments)
    /\ inserted \in SUBSET Items
    /\ IsFiniteSet(inserted)
    /\ \A y \in Nat : Covers(segments, y) <=> y \in inserted
    /\ count = Cardinality(inserted)
    /\ result \in BOOLEAN

LEMMA TreeInvInit == Init => TreeInv
<1> SUFFICES ASSUME Init PROVE TreeInv
  OBVIOUS
<1>1. DOMAIN segments = {}
  BY DEF Init
<1>2. Shape(segments)
  BY <1>1 DEF Init, Shape, Typed, Apart
<1>3. IsFiniteSet({}) /\ Cardinality({}) = 0
  BY FS_EmptySet
<1> QED BY <1>1, <1>2, <1>3 DEF Init, TreeInv, Covers

LEMMA TreeInvStep == TreeInv /\ [Step]_vars => TreeInv'
<1> SUFFICES ASSUME TreeInv, [Step]_vars PROVE TreeInv'
  OBVIOUS
<1>1. CASE UNCHANGED vars
  BY <1>1 DEF TreeInv, vars
<1>2. ASSUME NEW x \in Items, Insert(x) PROVE TreeInv'
  <2>1. x \in Nat /\ Shape(segments)
    BY ItemsAssumption DEF TreeInv
  <2>2. inserted' = inserted \cup {x} /\ inserted' \in SUBSET Items
    BY <1>2 DEF Insert, TreeInv
  <2>3. CASE Exists(segments, x)
    <3>1. x \in inserted
      BY <2>1, <2>3, ExistsIffCovers DEF TreeInv
    <3>2. inserted' = inserted
      BY <2>2, <3>1
    <3>3. UNCHANGED <<segments, count>> /\ result' = FALSE
      BY <1>2, <2>3 DEF Insert
    <3> QED BY <3>2, <3>3 DEF TreeInv
  <2>4. CASE ~Exists(segments, x)
    <3>1. /\ segments' = Extended(segments, x)
          /\ count' = count + 1
          /\ result' = TRUE
      BY <1>2, <2>4 DEF Insert
    <3>2. /\ Shape(segments')
          /\ \A y \in Nat : Covers(segments', y) <=> Covers(segments, y) \/ y = x
      BY <2>1, <2>4, <3>1, ExtendedCovers
    <3>3. x \notin inserted
      BY <2>1, <2>4, ExistsIffCovers DEF TreeInv
    <3>4. IsFiniteSet(inserted') /\ Cardinality(inserted') = Cardinality(inserted) + 1
      BY <2>2, <3>3, FS_AddElement DEF TreeInv
    <3>5. \A y \in Nat : Covers(segments', y) <=> y \in inserted'
      BY <2>2, <3>2 DEF TreeInv
    <3> QED BY <2>2, <3>1, <3>2, <3>4, <3>5 DEF TreeInv
  <2> QED BY <2>3, <2>4
<1> QED BY <1>1, <1>2 DEF Step

(* The segments begin at the ids whose predecessor was not inserted. *)
LEMMA Starts ==
    ASSUME TreeInv
    PROVE  DOMAIN segments = {x \in inserted : x - 1 \notin inserted}
<1>0. /\ DOMAIN segments \in SUBSET Nat
      /\ \A k \in DOMAIN segments : segments[k] \in Nat /\ k < segments[k]
      /\ \A j, k \in DOMAIN segments : j < k => segments[j] < k
      /\ inserted \in SUBSET Nat
      /\ \A y \in Nat : Covers(segments, y) <=> y \in inserted
  BY ItemsAssumption DEF TreeInv, Shape, Typed, Apart
<1>1. ASSUME NEW k \in DOMAIN segments
      PROVE  k \in inserted /\ k - 1 \notin inserted
  <2>1. k \in Nat /\ k < segments[k]
    BY <1>0
  <2>2. k \in inserted
    BY <1>0, <2>1 DEF Covers
  <2>3. ASSUME k - 1 \in inserted PROVE FALSE
    <3>1. PICK j \in DOMAIN segments : j <= k - 1 /\ k - 1 < segments[j]
      BY <1>0, <2>3 DEF Covers
    <3>2. j \in Nat /\ segments[j] \in Nat
      BY <1>0
    <3>3. j < k /\ ~(segments[j] < k)
      BY <2>1, <3>1, <3>2
    <3> QED BY <1>0, <3>3
  <2> QED BY <2>2, <2>3
<1>2. ASSUME NEW x \in inserted, x - 1 \notin inserted
      PROVE  x \in DOMAIN segments
  <2>1. x \in Nat
    BY <1>0
  <2>2. PICK k \in DOMAIN segments : k <= x /\ x < segments[k]
    BY <1>0, <2>1 DEF Covers
  <2>3. k \in Nat /\ segments[k] \in Nat
    BY <1>0
  <2>4. CASE k = x
    BY <2>4
  <2>5. CASE k < x
    <3>1. x - 1 \in Nat /\ k <= x - 1 /\ x - 1 < segments[k]
      BY <2>1, <2>2, <2>3, <2>5
    <3> QED BY <1>0, <1>2, <3>1 DEF Covers
  <2> QED BY <2>1, <2>2, <2>3, <2>4, <2>5
<1> QED BY <1>1, <1>2

LEMMA TreeInvMeaning == TreeInv => TypeOK /\ AnswersForSet
<1> SUFFICES ASSUME TreeInv PROVE TypeOK /\ AnswersForSet
  OBVIOUS
<1>1. count = Cardinality(inserted) /\ count \in Nat
  BY FS_CardinalityType DEF TreeInv
<1>2. TypeOK
  BY <1>1 DEF TypeOK, TreeInv, Shape, Typed
<1>3. \A x \in Items : Contains(x) <=> x \in inserted
  <2>1. ASSUME NEW x \in Items PROVE Contains(x) <=> x \in inserted
    <3>1. x \in Nat
      BY ItemsAssumption
    <3>2. Contains(x) <=> Covers(segments, x)
      BY <3>1, FloorDecides DEF TreeInv, Contains
    <3> QED BY <3>1, <3>2 DEF TreeInv
  <2> QED BY <2>1
<1>4. Cardinality(DOMAIN segments) = SegmentsCount(inserted)
  BY Starts DEF SegmentsCount
<1> QED BY <1>1, <1>2, <1>3, <1>4 DEF AnswersForSet

LEMMA TreeInvAlways == Spec => []TreeInv
  BY TreeInvInit, TreeInvStep, PTL DEF Spec

(* SegmentTree keeps its types, and no segment is empty. *)
THEOREM TypeCorrect == Spec => []TypeOK
  BY TreeInvAlways, TreeInvMeaning, PTL

(* Contains, SegmentsCount and Count answer for the set of inserted ids,    *)
(* whatever the ids and the order of the calls of Insert.                   *)
THEOREM TreeAnswersForSet == Spec => []AnswersForSet
  BY TreeInvAlways, TreeInvMeaning, PTL

(* Insert returns true exactly for an id that was not there. *)
THEOREM TreeTellsNew == Spec => InsertTellsNew
<1>1. TreeInv /\ [Step]_vars => [result' <=> inserted' # inserted]_vars
  <2>1. SUFFICES ASSUME TreeInv, NEW x \in Items, Insert(x)
                 PROVE  result' <=> inserted' # inserted
    BY DEF Step
  <2>2. Exists(segments, x) <=> x \in inserted
    <3>1. x \in Nat
      BY ItemsAssumption
    <3> QED BY <2>1, <3>1, ExistsIffCovers DEF TreeInv
  <2>3. inserted' = inserted \cup {x}
    BY <2>1 DEF Insert
  <2>4. CASE Exists(segments, x)
    BY <2>1, <2>2, <2>3, <2>4 DEF Insert
  <2>5. CASE ~Exists(segments, x)
    BY <2>1, <2>2, <2>3, <2>5 DEF Insert
  <2> QED BY <2>4, <2>5
<1> QED BY <1>1, TreeInvAlways, PTL DEF Spec, InsertTellsNew
=============================================================================
