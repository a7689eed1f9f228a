---------------------------- MODULE IdSetProofs ----------------------------
(***************************************************************************)
(* Facts about sets of ids.                                                *)
(***************************************************************************)
EXTENDS IdSet, FiniteSetTheorems, WellFoundedInduction, TLAPS

LessThan == {ss \in Nat \X Nat : ss[1] < ss[2]}

(* A set of naturals that is not empty has a least element. *)
LEMMA MinExists ==
    ASSUME NEW T \in SUBSET Nat, T # {}
    PROVE  \E x \in T : \A y \in T : x <= y
<1>1. IsWellFoundedOn(LessThan, Nat)
  BY NatLessThanWellFounded DEF OpToRel, LessThan
<1>2. PICK x \in T : \A y \in T : ~(<<y, x>> \in LessThan)
  BY <1>1, WFMin
<1>3. \A y \in T : x <= y
  <2> TAKE y \in T
  <2>1. x \in Nat /\ y \in Nat
    OBVIOUS
  <2>2. ~(y < x)
    BY <1>2, <2>1 DEF LessThan
  <2> QED BY <2>1, <2>2
<1> QED BY <1>3

(* A bounded one has a greatest element. *)
LEMMA MaxExists ==
    ASSUME NEW T \in SUBSET Nat, T # {}, NEW n \in Nat, \A x \in T : x <= n
    PROVE  \E x \in T : \A y \in T : y <= x
<1> DEFINE U == {u \in Nat : \A y \in T : y <= u}
<1>1. n \in U
  OBVIOUS
<1>2. PICK u \in U : \A v \in U : u <= v
  BY <1>1, MinExists
<1>3. u \in T
  <2>1. SUFFICES ASSUME u \notin T PROVE FALSE
    OBVIOUS
  <2>2. PICK y \in T : TRUE
    OBVIOUS
  <2>3. \A z \in T : z < u
    BY <1>2, <2>1
  <2>4. u - 1 \in U
    BY <2>2, <2>3, <1>2
  <2> QED BY <2>4, <1>2
<1> QED BY <1>2, <1>3

(* The exit condition of WaitForFinAndFlyingMsg and WaitForFlyingAck means  *)
(* what their comments say: every id from 1 to n is there.                  *)
THEOREM CompleteMeansAll ==
    ASSUME NEW S, NEW b \in Nat, S \subseteq 1 .. b, NEW n \in Nat,
           Complete(S, n)
    PROVE  1 .. n \subseteq S
<1> DEFINE Starts == {x \in S : x - 1 \notin S}
<1>0. n \in S /\ 1 \in S
  BY DEF Complete
<1>1. SUFFICES ASSUME NEW k \in 1 .. n, k \notin S PROVE FALSE
  OBVIOUS
<1> DEFINE T == {x \in S : k < x}
<1>2. T \in SUBSET Nat /\ T # {}
  <2>1. k \in Int /\ k <= n /\ k # n
    BY <1>0, <1>1
  <2>2. n \in T
    BY <1>0, <2>1
  <2>3. \A x \in S : x \in Nat
    OBVIOUS
  <2>4. T \in SUBSET Nat
    BY <2>3
  <2> QED BY <2>2, <2>4
<1>3. PICK m \in T : \A y \in T : m <= y
  BY <1>2, MinExists
<1>4. m \in Starts /\ 1 \in Starts /\ m # 1
  BY <1>0, <1>1, <1>3
<1>5. IsFiniteSet(Starts)
  <2>1. IsFiniteSet(1 .. b)
    BY FS_Interval
  <2> QED BY <2>1, FS_Subset
<1>6. IsFiniteSet({m}) /\ Cardinality({m}) = 1
  BY FS_Singleton
<1>7. Cardinality({m} \cup {1}) = 2
  <2>1. 1 \notin {m}
    BY <1>4
  <2>2. Cardinality({m} \cup {1}) = Cardinality({m}) + 1
    BY <1>6, <2>1, FS_AddElement, Zenon
  <2> QED BY <1>6, <2>2
<1>8. Cardinality({m} \cup {1}) <= Cardinality(Starts)
  BY <1>4, <1>5, FS_Subset
<1>9. Cardinality(Starts) \in Nat
  BY <1>5, FS_CardinalityType
<1> QED BY <1>7, <1>8, <1>9 DEF Complete, SegmentsCount
=============================================================================
