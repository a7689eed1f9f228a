---------------------------- MODULE ReliableLink ----------------------------
(***************************************************************************)
(* What a pair of channels promises to the applications on both ends,      *)
(* whatever the transport does.  Messages are numbered in the order in     *)
(* which they were accepted for sending; a party that has begun to close   *)
(* sends and receives no more.  A message is handed to the receiving       *)
(* application, or dropped by a receiver that has begun to close, and never*)
(* both and never twice: until the receiver begins to close, nothing is    *)
(* dropped.  When a party has closed, both have begun to, and each message *)
(* of either met one of the two fates.                                     *)
(***************************************************************************)
EXTENDS Naturals

VARIABLES
    sent,       \* sent[p]: how many messages p has sent
    delivered,  \* delivered[p]: the messages that p's application received
    dropped,    \* dropped[p]: the messages that p dropped while closing
    closing,    \* the parties whose WaitLinkTaskFinish has begun
    closed      \* the parties whose WaitLinkTaskFinish has returned

rlVars == <<sent, delivered, dropped, closing, closed>>

Ends == {0, 1}

(* The messages to p whose fate is known, and the others. *)
Settled(p) == delivered[p] \cup dropped[p]
Pending(p) == (1 .. sent[1 - p]) \ Settled(p)

RLInit ==
    /\ sent = [p \in Ends |-> 0]
    /\ delivered = [p \in Ends |-> {}]
    /\ dropped = [p \in Ends |-> {}]
    /\ closing = {}
    /\ closed = {}

RLSend(p) ==
    /\ p \notin closing
    /\ sent' = [sent EXCEPT ![p] = @ + 1]
    /\ UNCHANGED <<delivered, dropped, closing, closed>>

RLRecv(p) ==
    /\ p \notin closing
    /\ \E s \in Pending(p) : delivered' = [delivered EXCEPT ![p] = @ \cup {s}]
    /\ UNCHANGED <<sent, dropped, closing, closed>>

(* Closing begins, and drops what came and was not read. *)
RLBeginClose(p) ==
    /\ p \notin closing
    /\ closing' = closing \cup {p}
    /\ \E S \in SUBSET Pending(p) : dropped' = [dropped EXCEPT ![p] = @ \cup S]
    /\ UNCHANGED <<sent, delivered, closed>>

(* What comes later is dropped on arrival. *)
RLDrop(p) ==
    /\ p \in closing
    /\ \E s \in Pending(p) : dropped' = [dropped EXCEPT ![p] = @ \cup {s}]
    /\ UNCHANGED <<sent, delivered, closing, closed>>

RLClose(p) ==
    /\ closing = Ends
    /\ \A q \in Ends : Pending(q) = {}
    /\ closed' = closed \cup {p}
    /\ UNCHANGED <<sent, delivered, dropped, closing>>

RLNext ==
    \E p \in Ends :
        RLSend(p) \/ RLRecv(p) \/ RLBeginClose(p) \/ RLDrop(p) \/ RLClose(p)

RLSpec == RLInit /\ [][RLNext]_rlVars
=============================================================================
