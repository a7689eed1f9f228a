---------------------------- MODULE SegmentTree ----------------------------
(***************************************************************************)
(* yacl/utils/segment_tree.h: SegmentTree, the set of ids that a Channel   *)
(* has received, seen acknowledged or finished sending.  segments maps the *)
(* first id of each segment to the id after its last one (std::map         *)
(* segments_, [key, value)).                                               *)
(***************************************************************************)
EXTENDS IdSet

CONSTANT Items   \* the ids that may be inserted

ASSUME ItemsAssumption == Items \subseteq Nat

VARIABLES
    segments,   \* segments_
    count,      \* count_
    result,     \* the value that the last call of Insert returned
    inserted    \* history: the ids that were inserted

vars == <<segments, count, result, inserted>>
-----------------------------------------------------------------------------
(* std::prev(upper_bound(x)): the last segment that begins at or before x.  *)
HasFloor(m, x) == \E k \in DOMAIN m : k <= x
Floor(m, x) ==
    CHOOSE k \in DOMAIN m : k <= x /\ \A j \in DOMAIN m : j <= x => j <= k

(* std::prev and std::next of the segment that begins at c. *)
HasPrev(m, c) == \E k \in DOMAIN m : k < c
Prev(m, c) ==
    CHOOSE k \in DOMAIN m : k < c /\ \A j \in DOMAIN m : j < c => j <= k
HasNext(m, c) == \E k \in DOMAIN m : c < k
Next(m, c) ==
    CHOOSE k \in DOMAIN m : c < k /\ \A j \in DOMAIN m : c < j => k <= j

(* The seeded defect "a new segment ends where it begins". *)
OpenEmpty(m, x) == [k \in DOMAIN m \cup {x} |-> IF k = x THEN x ELSE m[k]]

(* segments_.insert({x, x + 1}), and the segment a absorbing the segment b. *)
Open(m, x) == [k \in DOMAIN m \cup {x} |-> IF k = x THEN x + 1 ELSE m[k]]
Absorb(m, a, b) == [k \in DOMAIN m \ {b} |-> IF k = a THEN m[b] ELSE m[k]]

(* "new segment": x lies in no segment and does not extend one. *)
IsNew(m, x) == ~HasFloor(m, x) \/ x > m[Floor(m, x)]

(* The seeded defect "the end of a segment belongs to it". *)
ExistsAtEnd(m, x) == ~IsNew(m, x) /\ x <= m[Floor(m, x)]

(* "exist item" *)
Exists(m, x) == ~IsNew(m, x) /\ x < m[Floor(m, x)]

Current(m, x) == IF IsNew(m, x) THEN x ELSE Floor(m, x)

Attached(m, x) ==
    IF IsNew(m, x) THEN Open(m, x) ELSE [m EXCEPT ![Floor(m, x)] = x + 1]

(* "try merge segment": with the segment before, ... *)
MeetsPrev(m, c) == HasPrev(m, c) /\ m[Prev(m, c)] = c
MergePrev(m, c) == IF MeetsPrev(m, c) THEN Absorb(m, Prev(m, c), c) ELSE m
Merged(m, c) == IF MeetsPrev(m, c) THEN Prev(m, c) ELSE c

(* The seeded defect "the segment after is not merged". *)
MergeNextNot(m, c) == m

(* ... and with the segment after. *)
MergeNext(m, c) ==
    IF HasNext(m, c) /\ Next(m, c) = m[c] THEN Absorb(m, c, Next(m, c)) ELSE m

Extended(m, x) ==
    LET m1 == Attached(m, x)
        c1 == Current(m, x)
    IN  MergeNext(MergePrev(m1, c1), Merged(m1, c1))

Contains(x) == HasFloor(segments, x) /\ x < segments[Floor(segments, x)]
-----------------------------------------------------------------------------
Init ==
    /\ segments = << >>
    /\ count = 0
    /\ result = FALSE
    /\ inserted = {}

Insert(x) ==
    /\ IF Exists(segments, x)
         THEN /\ result' = FALSE
              /\ UNCHANGED <<segments, count>>
         ELSE /\ result' = TRUE
              /\ segments' = Extended(segments, x)
              /\ count' = count + 1
    /\ inserted' = inserted \cup {x}

Step == \E x \in Items : Insert(x)

Spec == Init /\ [][Step]_vars
-----------------------------------------------------------------------------
(* segments maps the first id of a segment to a later id, and count, result *)
(* and inserted have their types.                                           *)
TypeOK ==
    /\ DOMAIN segments \in SUBSET Nat
    /\ segments \in [DOMAIN segments -> Nat]
    /\ \A k \in DOMAIN segments : k < segments[k]
    /\ count \in Nat
    /\ result \in BOOLEAN
    /\ inserted \in SUBSET Items

(* Whatever the order of the calls of Insert and however often an id comes  *)
(* back, Contains, SegmentsCount and Count answer for the set of the ids    *)
(* that were inserted: this is what the waits of Channel rely on.           *)
AnswersForSet ==
    /\ \A x \in Items : Contains(x) <=> x \in inserted
    /\ Cardinality(DOMAIN segments) = SegmentsCount(inserted)
    /\ count = Cardinality(inserted)

(* Insert returns true exactly for an id that was not there: the duplicate  *)
(* test of OnNormalMessage and OnMessage.                                   *)
InsertTellsNew == [][result' <=> inserted' # inserted]_vars
=============================================================================
