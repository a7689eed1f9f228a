-------------------------- MODULE DeliveryProofs --------------------------
(***************************************************************************)
(* Exactly-once delivery and sound acknowledgements of Channel, for any    *)
(* number of contexts, messages, retries and faults.                       *)
(***************************************************************************)
EXTENDS SenderProofs, LedgerProofs, StockProofs

(* The queue and the buffer keep holding messages of kind MSG only. *)
KindsKept ==
    \A p \in Party :
        /\ \A i \in DOMAIN send_msgs'[p] : send_msgs'[p][i].kind = "MSG"
        /\ \A r \in recv_msgs'[p] : r.kind = "MSG"

LEMMA KindsQuiet ==
    ASSUME AckInv, UNCHANGED send_msgs,
           \A p \in Party : recv_msgs'[p] \subseteq recv_msgs[p]
    PROVE  KindsKept
  BY DEF AckInv, KindsKept

LEMMA PushKinds ==
    ASSUME TypeOK, AckInv, NEW p \in Party, NEW c \in Ctx, SendPush(p, c)
    PROVE  KindsKept
<1> DEFINE new == Normal(<<c, nsend[p][c]>>, seq[p][c])
<1>1. new \in Msg /\ new.kind = "MSG"
  <2>1. nsend[p][c] \in Nat /\ seq[p][c] \in Nat
    BY DEF TypeOK
  <2>2. new \in Msg
    BY <2>1, MsgTyped
  <2> QED BY <2>2 DEF Normal
<1>2. send_msgs' = [send_msgs EXCEPT ![p] = Append(@, new)] /\ UNCHANGED recv_msgs
  BY DEF SendPush, recvVars
<1> HIDE DEF new
<1>3. ASSUME NEW q \in Party, NEW i \in DOMAIN send_msgs'[q]
      PROVE  send_msgs'[q][i].kind = "MSG"
  <2>1. send_msgs[q] \in Seq(Msg)
    BY DEF TypeOK
  <2>2. CASE q = p
    <3>1. send_msgs'[q] = Append(send_msgs[q], new)
      BY <1>2, <2>2 DEF TypeOK
    <3>2. i \in DOMAIN Append(send_msgs[q], new)
      BY <1>3, <3>1, Zenon
    <3>3. \/ i \in DOMAIN send_msgs[q] /\ Append(send_msgs[q], new)[i] = send_msgs[q][i]
          \/ Append(send_msgs[q], new)[i] = new
      BY <1>1, <2>1, <3>2, AppendAt, Zenon
    <3>4. \A j \in DOMAIN send_msgs[q] : send_msgs[q][j].kind = "MSG"
      BY Zenon DEF AckInv
    <3> QED BY <1>1, <3>1, <3>3, <3>4, Zenon
  <2>3. CASE q # p
    BY <1>2, <1>3, <2>3 DEF AckInv, TypeOK
  <2> QED BY <2>2, <2>3
<1> QED BY <1>2, <1>3 DEF KindsKept, AckInv

LEMMA PopKinds ==
    ASSUME TypeOK, AckInv, NEW p \in Party, send_msgs[p] # << >>,
           send_msgs' = [send_msgs EXCEPT ![p] = Tail(@)], UNCHANGED recv_msgs
    PROVE  KindsKept
<1>1. ASSUME NEW q \in Party, NEW i \in DOMAIN send_msgs'[q]
      PROVE  send_msgs'[q][i].kind = "MSG"
  <2>1. send_msgs[q] \in Seq(Msg)
    BY DEF TypeOK
  <2>2. CASE q = p
    <3>1. send_msgs'[q] = Tail(send_msgs[q])
      BY <2>2 DEF TypeOK
    <3>2. send_msgs[q] # << >> /\ i \in DOMAIN Tail(send_msgs[q])
      BY <1>1, <2>2, <3>1, Zenon
    <3>3. i + 1 \in DOMAIN send_msgs[q] /\ Tail(send_msgs[q])[i] = send_msgs[q][i + 1]
      BY <2>1, <3>2, TailAt, Zenon
    <3> QED BY <3>1, <3>3 DEF AckInv
  <2>3. CASE q # p
    BY <1>1, <2>3 DEF AckInv, TypeOK
  <2> QED BY <2>2, <2>3
<1> QED BY <1>1 DEF KindsKept, AckInv

LEMMA SendThreadKinds ==
    ASSUME TypeOK, AckInv, NEW p \in Party, SendThread(p)
    PROVE  KindsKept
<1>1. UNCHANGED recv_msgs
  BY Zenon DEF SendThread, SenderPop, SenderStop, SenderThrottleReturn,
         SenderThrottleTimeout, SenderDrain, SenderExit, SenderCatch, recvVars
<1>2. CASE SenderPop(p) \/ SenderDrain(p)
  <2>1. send_msgs[p] # << >> /\ send_msgs' = [send_msgs EXCEPT ![p] = Tail(@)]
    BY <1>2 DEF SenderPop, SenderDrain
  <2> QED BY <1>1, <2>1, PopKinds
<1>3. CASE SenderStop(p) \/ SenderThrottleReturn(p) \/ SenderThrottleTimeout(p)
             \/ SenderExit(p) \/ SenderCatch(p)
  <2>1. UNCHANGED send_msgs
    BY <1>3 DEF SenderStop, SenderThrottleReturn, SenderThrottleTimeout, SenderExit,
                SenderCatch
  <2> QED BY <1>1, <2>1, KindsQuiet
<1> QED BY <1>2, <1>3 DEF SendThread

LEMMA StartFailureKinds ==
    ASSUME TypeOK, AckInv, NEW p \in Party, StartFailure(p)
    PROVE  KindsKept
<1>1. UNCHANGED recv_msgs
  BY Zenon DEF StartFailure, SenderStartFails, OnUnwantedFails, RecvAckFails,
         StopReceivingFails, SendFinFails, CloseStep, recvVars
<1>2. CASE SenderStartFails(p)
  <2>1. send_msgs[p] # << >> /\ send_msgs' = [send_msgs EXCEPT ![p] = Tail(@)]
    BY <1>2 DEF SenderStartFails
  <2> QED BY <1>1, <2>1, PopKinds
<1>3. CASE ~SenderStartFails(p)
  <2>1. UNCHANGED send_msgs
    BY <1>3, Zenon DEF StartFailure, OnUnwantedFails, RecvAckFails,
         StopReceivingFails, SendFinFails, CloseStep, sendVars
  <2> QED BY <1>1, <2>1, KindsQuiet
<1> QED BY <1>2, <1>3

LEMMA RequestKinds ==
    ASSUME TypeOK, AckInv, NEW q \in Party, OnRequest(q)
    PROVE  KindsKept
<1>1. PICK m \in net :
        /\ OnAck(m, q) \/ OnFin(m, q) \/ OnDuplicate(m, q)
             \/ OnNormalMessage(m, q) \/ OnUnwanted(m, q)
        /\ UNCHANGED <<finished_ids, exited, faults, sendVars, appVars, consumed>>
  BY DEF OnRequest
<1>2. UNCHANGED send_msgs
  BY <1>1 DEF sendVars
<1>3. CASE OnAck(m, q) \/ OnFin(m, q) \/ OnDuplicate(m, q) \/ OnUnwanted(m, q)
  <2>1. UNCHANGED recv_msgs
    BY <1>3 DEF OnAck, OnFin, OnDuplicate, OnUnwanted, recvVars
  <2> QED BY <1>2, <2>1, KindsQuiet
<1>4. CASE OnNormalMessage(m, q)
  <2>1. CASE KeyInUse(m, q)
    <3>1. UNCHANGED recv_msgs
      BY <1>4, <2>1, Zenon DEF OnNormalMessage
    <3> QED BY <1>2, <3>1, KindsQuiet
  <2>2. CASE ~KeyInUse(m, q)
    <3>1. recv_msgs' = [recv_msgs EXCEPT ![q] = @ \cup {m.msg}]
      BY <1>4, <2>2, Zenon DEF OnNormalMessage
    <3>2. m.msg.kind = "MSG"
      BY <1>4 DEF OnNormalMessage
    <3> QED BY <1>2, <3>1, <3>2 DEF KindsKept, AckInv, TypeOK
  <2> QED BY <2>1, <2>2
<1> QED BY <1>1, <1>3, <1>4

LEMMA ThreadKinds ==
    ASSUME TypeOK, AckInv, NEW p \in Party, NEW c \in Ctx,
           Call(p, c) \/ ThreadSend(p, c) \/ ThreadRecv(p, c) \/ ThreadClose(p, c)
    PROVE  KindsKept
<1>1. CASE SendPush(p, c)
  BY <1>1, PushKinds
<1>2. CASE ~SendPush(p, c)
  <2>1. UNCHANGED send_msgs
    <3>1. CASE Call(p, c)
      BY <3>1, Zenon DEF Call, SendBegin, StopReceivingAndAckUnreadMsgs, sendVars
    <3>2. CASE ThreadSend(p, c)
      BY <1>2, <3>2, Zenon DEF ThreadSend, SendNumber, SendReturn,
         SendAsyncThrottledReturn, SendAsyncThrottledTimeout, sendVars
    <3>3. CASE ThreadRecv(p, c)
      BY <3>3, Zenon DEF ThreadRecv, RecvTake, RecvAck, RecvWait, RecvTimeout, sendVars
    <3>4. CASE ThreadClose(p, c)
      BY <3>4, Zenon DEF ThreadClose, SendFin, WaitForFinAndFlyingMsg,
         WaitAsyncSendToFinish, WaitForFlyingAck, CloseStep, sendVars
    <3> QED BY <3>1, <3>2, <3>3, <3>4
  <2>2. \A q \in Party : recv_msgs'[q] \subseteq recv_msgs[q]
    <3>0. recv_msgs \in [Party -> SUBSET Msg]
      BY DEF TypeOK
    <3>1. CASE RecvTake(p, c)
      <4>1. \E r \in recv_msgs[p] : recv_msgs' = [recv_msgs EXCEPT ![p] = @ \ {r}]
        BY <3>1, ZenonT(30) DEF RecvTake, Awaited
      <4> QED BY <3>0, <4>1
    <3>2. CASE StopReceivingAndAckUnreadMsgs(p, c)
      <4>1. recv_msgs' = [recv_msgs EXCEPT ![p] = {}]
        BY <3>2 DEF StopReceivingAndAckUnreadMsgs
      <4> QED BY <3>0, <4>1
    <3>3. CASE ~RecvTake(p, c) /\ ~StopReceivingAndAckUnreadMsgs(p, c)
      <4>1. UNCHANGED recv_msgs
        BY <1>2, <3>3, Zenon
        DEF Call, SendBegin, ThreadRecv, RecvAck, RecvWait, RecvTimeout,
           ThreadClose, SendFin, WaitForFinAndFlyingMsg, WaitAsyncSendToFinish,
           WaitForFlyingAck, CloseStep, ThreadSend, SendNumber, SendReturn,
           SendAsyncThrottledReturn, SendAsyncThrottledTimeout, recvVars
      <4> QED BY <4>1
    <3> QED BY <3>1, <3>2, <3>3
  <2> QED BY <2>1, <2>2, KindsQuiet
<1> QED BY <1>1, <1>2

(* Nothing takes an acknowledgement back. *)
AcksKept == \A p \in Party : acked[p] \subseteq acked'[p]

LEMMA AckFrame ==
    ASSUME AckInv, NothingPushed, KindsKept, AcksKept, UNCHANGED received_ack_ids
    PROVE  AckInv'
<1>1. ASSUME NEW p \in Party, NEW m \in Msg, m.kind = "ACK", Carries(p, m)'
      PROVE  m.seq \in acked'[p]
  BY <1>1 DEF NothingPushed, Kept, AckInv, AcksKept
<1>2. \A p \in Party : received_ack_ids'[p] \subseteq acked'[Peer(p)]
  BY PeerIsParty DEF AckInv, AcksKept
<1> QED BY <1>1, <1>2 DEF KindsKept, AckInv

LEMMA PushAck ==
    ASSUME TypeOK, AckInv, NEW p \in Party, NEW c \in Ctx, SendPush(p, c)
    PROVE  AckInv'
<1>1. KindsKept
  BY PushKinds
<1>2. UNCHANGED <<tasks, net, recv_msgs, received_ack_ids, acked>>
  BY DEF SendPush, taskVars, recvVars, histVars
<1>3. ASSUME NEW q \in Party, NEW m \in Msg, m.kind = "ACK", Carries(q, m)'
      PROVE  m.seq \in acked[q]
  <2>1. Carries(q, m)
    BY <1>1, <1>2, <1>3 DEF Carries, KindsKept
  <2> QED BY <1>3, <2>1 DEF AckInv
<1> QED BY <1>1, <1>2, <1>3 DEF KindsKept, AckInv

LEMMA RequestAck ==
    ASSUME TypeOK, AckInv, NEW q \in Party, OnRequest(q)
    PROVE  AckInv'
<1>1. NothingPushed /\ KindsKept
  BY RequestKeeps, RequestKinds
<1>2. PICK m \in net :
        /\ q = Peer(m.src)
        /\ OnAck(m, q) \/ OnFin(m, q) \/ OnDuplicate(m, q)
             \/ OnNormalMessage(m, q) \/ OnUnwanted(m, q)
  BY DEF OnRequest
<1>3. CASE ~OnAck(m, q)
  <2>1. UNCHANGED received_ack_ids
    BY <1>2, <1>3 DEF OnFin, OnDuplicate, OnNormalMessage, OnUnwanted, recvVars
  <2>2. AcksKept
    <3>1. CASE OnUnwanted(m, q)
      BY <3>1 DEF OnUnwanted, AcksKept, TypeOK
    <3>2. CASE OnFin(m, q) \/ OnDuplicate(m, q) \/ OnNormalMessage(m, q)
      BY <3>2 DEF OnFin, OnDuplicate, OnNormalMessage, AcksKept
    <3> QED BY <1>2, <1>3, <3>1, <3>2
  <2> QED BY <1>1, <2>1, <2>2, AckFrame
<1>4. CASE OnAck(m, q)
  <2>1. /\ m.msg.kind = "ACK"
        /\ received_ack_ids' = [received_ack_ids EXCEPT ![q] = @ \cup {m.msg.seq}]
        /\ UNCHANGED acked
    BY <1>4 DEF OnAck
  <2>2. m.src \in Party /\ m.msg \in Msg /\ m.src = Peer(q) /\ Carries(m.src, m.msg)
    BY <1>2, PeerIsParty DEF TypeOK, Copy, Carries
  <2>3. m.msg.seq \in acked[Peer(q)]
    BY <2>1, <2>2 DEF AckInv
  <2>4. \A p \in Party : received_ack_ids'[p] \subseteq acked'[Peer(p)]
    BY <2>1, <2>3 DEF AckInv, TypeOK
  <2>5. ASSUME NEW p \in Party, NEW n \in Msg, n.kind = "ACK", Carries(p, n)'
        PROVE  n.seq \in acked'[p]
    BY <1>1, <2>1, <2>5 DEF NothingPushed, Kept, AckInv
  <2> QED BY <1>1, <2>4, <2>5 DEF KindsKept, AckInv
<1> QED BY <1>3, <1>4

LEMMA AckStep ==
    ASSUME TypeOK, AckInv, Next
    PROVE  AckInv'
<1>1. ASSUME NEW p \in Party, NEW c \in Ctx, ~SendPush(p, c),
             Call(p, c) \/ ThreadSend(p, c) \/ ThreadRecv(p, c) \/ ThreadClose(p, c)
      PROVE  AckInv'
  <2>1. NothingPushed /\ KindsKept
    BY <1>1, ThreadKeeps, ThreadKinds
  <2>2. UNCHANGED received_ack_ids
    BY <1>1, Zenon
    DEF  Call, SendBegin, StopReceivingAndAckUnreadMsgs, ThreadRecv, RecvTake,
         RecvAck, RecvWait, RecvTimeout, ThreadClose, SendFin, WaitForFinAndFlyingMsg,
         WaitAsyncSendToFinish, WaitForFlyingAck, CloseStep, ThreadSend, SendNumber,
         SendReturn, SendAsyncThrottledReturn, SendAsyncThrottledTimeout, recvVars
  <2>3. AcksKept
    <3>1. CASE RecvAck(p, c)
      BY <3>1 DEF RecvAck, AcksKept, TypeOK
    <3>2. CASE StopReceivingAndAckUnreadMsgs(p, c)
      BY <3>2 DEF StopReceivingAndAckUnreadMsgs, AcksKept, TypeOK
    <3>3. CASE ~RecvAck(p, c) /\ ~StopReceivingAndAckUnreadMsgs(p, c)
      <4>1. UNCHANGED acked
        BY <1>1, <3>3, Zenon
        DEF Call, SendBegin, ThreadRecv, RecvTake, RecvWait, RecvTimeout,
           ThreadClose, SendFin, WaitForFinAndFlyingMsg, WaitAsyncSendToFinish,
           WaitForFlyingAck, CloseStep, ThreadSend, SendNumber, SendReturn,
           SendAsyncThrottledReturn, SendAsyncThrottledTimeout, histVars
      <4> QED BY <4>1 DEF AcksKept
    <3> QED BY <3>1, <3>2, <3>3
  <2> QED BY <2>1, <2>2, <2>3, AckFrame
<1>2. ASSUME NEW p \in Party, NEW c \in Ctx, SendPush(p, c)
      PROVE  AckInv'
  BY <1>2, PushAck
<1>3. ASSUME NEW p \in Party,
             SendThread(p) \/ TaskDone(p) \/ TaskRetry(p) \/ TaskGiveUp(p)
      PROVE  AckInv'
  <2>1. NothingPushed
    BY <1>3, SendThreadKeeps, TaskKeeps
  <2>2. UNCHANGED <<received_ack_ids, acked>>
    BY <1>3, Zenon DEF SendThread, SenderPop, SenderStop, SenderThrottleReturn,
         SenderThrottleTimeout, SenderDrain, SenderExit, SenderCatch, TaskDone,
         TaskRetry, TaskGiveUp, recvVars, histVars
  <2>3. KindsKept
    <3>1. CASE SendThread(p)
      BY <3>1, SendThreadKinds
    <3>2. CASE TaskDone(p) \/ TaskRetry(p) \/ TaskGiveUp(p)
      <4>1. UNCHANGED <<send_msgs, recv_msgs>>
        BY <3>2 DEF TaskDone, TaskRetry, TaskGiveUp, sendVars, recvVars
      <4> QED BY <4>1, KindsQuiet
    <3> QED BY <1>3, <3>1, <3>2
  <2> QED BY <2>1, <2>2, <2>3, AckFrame DEF AcksKept
<1>4. ASSUME NEW p \in Party, OnRequest(p)
      PROVE  AckInv'
  BY <1>4, RequestAck
<1>5. CASE Finished
  BY <1>5 DEF Finished, AckInv, Carries, vars, sendVars, recvVars, taskVars, histVars
<1>6. ASSUME NEW p \in Party, StartFailure(p)
      PROVE  AckInv'
  <2>1. NothingPushed /\ KindsKept
    BY <1>6, StartFailureKeeps, StartFailureKinds
  <2>2. UNCHANGED received_ack_ids
    BY <1>6, Zenon DEF StartFailure, SenderStartFails, OnUnwantedFails, RecvAckFails,
         StopReceivingFails, SendFinFails, CloseStep, recvVars
  <2>3. AcksKept
    <3>1. CASE \E c \in Ctx : StopReceivingFails(p, c)
      BY <3>1 DEF StopReceivingFails, AcksKept, TypeOK
    <3>2. CASE ~\E c \in Ctx : StopReceivingFails(p, c)
      <4>1. UNCHANGED acked
        BY <1>6, <3>2, Zenon DEF StartFailure, SenderStartFails, OnUnwantedFails,
           RecvAckFails, SendFinFails, CloseStep, histVars
      <4> QED BY <4>1 DEF AcksKept
    <3> QED BY <3>1, <3>2
  <2> QED BY <2>1, <2>2, <2>3, AckFrame
<1> QED BY <1>1, <1>2, <1>3, <1>4, <1>5, <1>6, Zenon DEF Next
-----------------------------------------------------------------------------
LEMMA DeliveryInit == Init => DeliveryInv
<1> SUFFICES ASSUME Init PROVE DeliveryInv
  OBVIOUS
<1>1. TypeOK
  BY TypeInit
<1>2. \A p \in Party, m \in Msg : ~Carries(p, m)
  <2>1. \A p \in Party : DOMAIN send_msgs[p] = {}
    BY DEF Init
  <2> QED BY <2>1, PeerIsParty DEF Init, Carries
<1>3. SenderInv
  BY <1>2 DEF Init, SenderInv, Posted, Fresh, SendOps
<1>4. AckInv
  BY <1>2, PeerIsParty DEF Init, AckInv
<1>5. \A p \in Party : Unread(p) = {} /\ InHand(p) = {}
  BY DEF Init, Unread, InHand
<1>6. \A p \in Party : Ledger(p)
  BY <1>5 DEF Init, Ledger
<1>7. \A p \in Party : Stock(p)
  BY <1>5 DEF Init, Stock
<1> QED BY <1>1, <1>3, <1>4, <1>6, <1>7 DEF DeliveryInv

LEMMA DeliveryStep == DeliveryInv /\ [Next]_vars => DeliveryInv'
<1> SUFFICES ASSUME DeliveryInv, [Next]_vars PROVE DeliveryInv'
  OBVIOUS
<1>1. TypeOK /\ TypeOK'
  BY TypeStep DEF DeliveryInv
<1>2. CASE Next
  <2>1. SenderInv' /\ AckInv'
    BY <1>1, <1>2, SenderStep, AckStep DEF DeliveryInv
  <2>2. \A p \in Party : Stock(p)'
    BY <1>1, <1>2, StockStep DEF DeliveryInv
  <2>3. StartMayFail \/ \A p \in Party : Ledger(p)'
    BY <1>1, <1>2, LedgerStep DEF DeliveryInv
  <2> QED BY <1>1, <2>1, <2>2, <2>3 DEF DeliveryInv
<1>3. CASE UNCHANGED vars
  <2>1. UNCHANGED <<msg_seq_id, send_msgs, tasks, net, recv_msgs, received_msg_ids,
                    received_ack_ids, pc, seq, nsend, acked, consumed>>
    BY <1>3 DEF vars, sendVars, recvVars, taskVars, appVars, histVars
  <2>2. /\ StartMayFail \/ \A p \in Party : Ledger(p)'
        /\ \A p \in Party : Stock(p)'
    <3>1. StartMayFail \/ \A p \in Party : Ledger(p)'
      BY <2>1, LedgerOther DEF DeliveryInv
    <3>2. \A p \in Party : Stock(p)'
      BY <1>1, <2>1, NothingStoredUnchanged, StockFrame DEF DeliveryInv
    <3> QED BY <3>1, <3>2
  <2>3. \A p \in Party, m \in Msg : Carries(p, m)' = Carries(p, m)
    BY <2>1 DEF Carries
  <2>4. \A p \in Party : Posted(p)' = Posted(p)
    BY <2>3 DEF Posted
  <2>5. SenderInv'
    <3>1. \A p \in Party : \A m \in Posted(p) : Numbered(p, m)'
      BY <2>1 DEF DeliveryInv, SenderInv, Numbered
    <3>2. \A p \in Party, c \in Ctx : Fresh(p, c)'
      BY <2>1, <2>4 DEF DeliveryInv, SenderInv, Fresh
    <3> QED BY <2>4, <3>1, <3>2 DEF DeliveryInv, SenderInv
  <2>6. AckInv'
    BY <2>1, <2>3 DEF DeliveryInv, AckInv
  <2> QED BY <1>1, <2>2, <2>5, <2>6 DEF DeliveryInv
<1> QED BY <1>2, <1>3

LEMMA DeliveryAlways == Spec => []DeliveryInv
  BY DeliveryInit, DeliveryStep, PTL DEF Spec

(* Each received id is in the buffer, in the hands of one Recv or           *)
(* acknowledged, and in one of these only, whatever was retried, late or    *)
(* reordered (OnNormalMessage, Recv, StopReceivingAndAckUnreadMsgs), as     *)
(* long as the tasks of SubmitSendTask start.                               *)
THEOREM ChannelExactlyOnce ==
    ASSUME ~StartMayFail
    PROVE  Spec => []ExactlyOnce
<1>1. DeliveryInv => ExactlyOnce
  BY DEF DeliveryInv, Ledger, ExactlyOnce
<1> QED BY <1>1, DeliveryAlways, PTL

(* What a party counts as acknowledged was sent, received by the peer, and  *)
(* taken from the peer's recv_msgs_, as long as the tasks start.            *)
THEOREM ChannelAckSound ==
    ASSUME ~StartMayFail
    PROVE  Spec => []AckSound
<1>1. DeliveryInv => AckSound
  <2> SUFFICES ASSUME DeliveryInv, NEW p \in Party
               PROVE  /\ received_ack_ids[p] \subseteq acked[Peer(p)]
                      /\ acked[Peer(p)] \subseteq
                           received_msg_ids[Peer(p)] \ Unread(Peer(p))
                      /\ received_msg_ids[Peer(p)] \subseteq 1 .. msg_seq_id[p]
    BY DEF AckSound
  <2>1. received_ack_ids[p] \subseteq acked[Peer(p)]
    BY DEF DeliveryInv, AckInv
  <2>2. Ledger(Peer(p)) /\ Peer(Peer(p)) = p
    BY PeerIsParty DEF DeliveryInv
  <2> QED BY <2>1, <2>2 DEF Ledger
<1> QED BY <1>1, DeliveryAlways, PTL

(* A message that is new for the receiver never finds its key in use, so    *)
(* OnNormalMessage never throws and a message is never lost that way.       *)
THEOREM ChannelNoDuplicateKey == Spec => []NoDuplicateKey
<1>1. DeliveryInv => NoDuplicateKey
  <2> SUFFICES ASSUME DeliveryInv, NEW m \in net, m.msg.kind = "MSG",
                      m.msg.seq \notin received_msg_ids[Peer(m.src)],
                      NEW r \in recv_msgs[Peer(m.src)], r.key = m.msg.key
               PROVE  FALSE
    BY DEF NoDuplicateKey, KeyInUse
  <2>1. /\ m.src \in Party /\ m.msg \in Msg
        /\ recv_msgs \in [Party -> SUBSET Msg]
    BY DEF DeliveryInv, TypeOK, Copy
  <2>2. m.msg \in Posted(m.src) /\ r \in Posted(m.src)
    BY <2>1, PeerIsParty DEF Posted, Carries, DeliveryInv, AckInv
  <2>3. r = m.msg
    BY <2>1, <2>2 DEF DeliveryInv, SenderInv
  <2>4. m.msg.seq \in Unread(Peer(m.src)) /\ Stock(Peer(m.src))
    BY <2>1, <2>3, PeerIsParty DEF Unread, DeliveryInv
  <2> QED BY <2>4 DEF Stock
<1> QED BY <1>1, DeliveryAlways, PTL

(* A message that Recv took is never in recv_msgs_ again, so no two Recvs   *)
(* return it, also when its acknowledgement is lost because the task does   *)
(* not start and when closing throws half way.                              *)
THEOREM ChannelNeverTakenTwice == Spec => []NeverTakenTwice
<1>1. DeliveryInv => NeverTakenTwice
  BY DEF DeliveryInv, Stock, NeverTakenTwice
<1> QED BY <1>1, DeliveryAlways, PTL
=============================================================================
