---------------------------- MODULE LedgerProofs ----------------------------
(***************************************************************************)
(* Every received id of Channel is accounted for (Ledger).                 *)
(***************************************************************************)
EXTENDS DeliveryInvariant, ChannelProofs

(* Steps at which the receivers take, store and acknowledge nothing. *)
Quiet ==
    /\ UNCHANGED <<recv_msgs, received_msg_ids, acked, consumed>>
    /\ \A p \in Party : msg_seq_id[p] <= msg_seq_id'[p]
    /\ \A p \in Party, c \in Ctx :
          /\ (pc'[p][c] = "send_ack") = (pc[p][c] = "send_ack")
          /\ pc[p][c] = "send_ack" => seq'[p][c] = seq[p][c]

LEMMA LedgerQuiet ==
    ASSUME TypeOK, TypeOK', Quiet, NEW p \in Party, Ledger(p)
    PROVE  Ledger(p)'
<1>1. Unread(p)' = Unread(p)
  BY DEF Quiet, Unread
<1>2. InHand(p)' = InHand(p)
  BY DEF Quiet, InHand
<1>3. received_msg_ids[p] \subseteq 1 .. msg_seq_id'[Peer(p)]
  <2>1. /\ msg_seq_id[Peer(p)] \in Nat /\ msg_seq_id'[Peer(p)] \in Nat
        /\ msg_seq_id[Peer(p)] <= msg_seq_id'[Peer(p)]
    BY PeerIsParty DEF Quiet, TypeOK
  <2> QED BY <2>1 DEF Ledger
<1>4. \A c, d \in Ctx : (pc'[p][c] = "send_ack" /\ pc'[p][d] = "send_ack"
                           /\ seq'[p][c] = seq'[p][d]) => c = d
  BY DEF Quiet, Ledger
<1>5. UNCHANGED <<recv_msgs, received_msg_ids, acked, consumed>>
  BY DEF Quiet
<1> QED BY <1>1, <1>2, <1>3, <1>4, <1>5 DEF Ledger

(* A thread that moves to and from a place other than SendAck is quiet.     *)
LEMMA MovesQuiet ==
    ASSUME TypeOK, NEW p \in Party, NEW c \in Ctx, NEW v, v # "send_ack",
           pc[p][c] # "send_ack", pc' = [pc EXCEPT ![p][c] = v],
           UNCHANGED <<recv_msgs, received_msg_ids, acked, consumed, msg_seq_id>>,
           UNCHANGED seq \/ \E s : seq' = [seq EXCEPT ![p][c] = s]
    PROVE  Quiet
<1>0. pc \in [Party -> [Ctx -> ThreadPc]] /\ seq \in [Party -> [Ctx -> Nat]]
  BY DEF TypeOK
<1>1. \A q \in Party : msg_seq_id[q] <= msg_seq_id'[q]
  <2>1. msg_seq_id \in [Party -> Nat]
    BY DEF TypeOK
  <2> QED BY <2>1
<1>2. pc'[p][c] # "send_ack"
  BY <1>0
<1>3. \A q \in Party, d \in Ctx : (q # p \/ d # c) => pc'[q][d] = pc[q][d]
  BY <1>0
<1>4. \A q \in Party, d \in Ctx : (q # p \/ d # c) => seq'[q][d] = seq[q][d]
  BY <1>0
<1> QED BY <1>1, <1>2, <1>3, <1>4 DEF Quiet

LEMMA ThreadQuiet ==
    ASSUME TypeOK, NEW p \in Party, NEW c \in Ctx,
           \/ SendBegin(p, c) \/ ThreadSend(p, c) \/ RecvWait(p, c) \/ RecvTimeout(p, c)
           \/ ThreadClose(p, c)
    PROVE  Quiet
<1>1. CASE SendBegin(p, c)
  <2>1. PICK op \in Modes : pc' = [pc EXCEPT ![p][c] = op]
    BY <1>1, Zenon DEF SendBegin
  <2>2. op # "send_ack" /\ pc[p][c] # "send_ack"
    <3>1. op \in SendOps
      BY ConstantsAssumption
    <3>2. pc[p][c] = "idle"
      BY <1>1 DEF SendBegin
    <3> QED BY <3>1, <3>2 DEF SendOps
  <2>3. /\ UNCHANGED <<recv_msgs, received_msg_ids, acked, consumed, msg_seq_id>>
        /\ \E s : seq' = [seq EXCEPT ![p][c] = s]
    BY <1>1, Zenon DEF SendBegin, sendVars, recvVars, histVars
  <2> QED BY <2>1, <2>2, <2>3, MovesQuiet, Zenon
<1>2. CASE SendNumber(p, c)
  <2>1. /\ UNCHANGED <<recv_msgs, received_msg_ids, acked, consumed, pc>>
        /\ msg_seq_id' = [msg_seq_id EXCEPT ![p] = @ + 1]
        /\ \E s : seq' = [seq EXCEPT ![p][c] = s]
    BY <1>2, Zenon DEF SendNumber, recvVars, histVars
  <2>2. pc[p][c] # "send_ack"
    BY <1>2 DEF SendNumber, SendOps
  <2>3. \A q \in Party : msg_seq_id[q] <= msg_seq_id'[q]
    <3>1. msg_seq_id \in [Party -> Nat]
      BY DEF TypeOK
    <3> QED BY <2>1, <3>1
  <2>4. \A q \in Party, d \in Ctx : (q # p \/ d # c) => seq'[q][d] = seq[q][d]
    <3>1. seq \in [Party -> [Ctx -> Nat]]
      BY DEF TypeOK
    <3> QED BY <2>1, <3>1
  <2> QED BY <2>1, <2>2, <2>3, <2>4 DEF Quiet
<1>3. CASE SendPush(p, c)
  <2>1. PICK v \in {"wait_sent", "wait_window", "idle"} : pc' = [pc EXCEPT ![p][c] = v]
    BY <1>3, Zenon DEF SendPush
  <2>2. pc[p][c] # "send_ack"
    BY <1>3 DEF SendPush, SendOps
  <2>3. UNCHANGED <<recv_msgs, received_msg_ids, acked, consumed, msg_seq_id, seq>>
    BY <1>3 DEF SendPush, recvVars, histVars
  <2> QED BY <2>1, <2>2, <2>3, MovesQuiet, Zenon
<1>4. CASE \/ SendReturn(p, c) \/ SendAsyncThrottledReturn(p, c)
           \/ SendAsyncThrottledTimeout(p, c)
  <2>1. /\ pc[p][c] # "send_ack" /\ pc' = [pc EXCEPT ![p][c] = "idle"]
        /\ UNCHANGED <<recv_msgs, received_msg_ids, acked, consumed, msg_seq_id, seq>>
    BY <1>4 DEF SendReturn, SendAsyncThrottledReturn, SendAsyncThrottledTimeout,
                sendVars, recvVars, histVars
  <2> QED BY <2>1, MovesQuiet, Zenon
<1>5. CASE RecvWait(p, c) \/ RecvTimeout(p, c)
  <2>1. PICK v \in {"wait_msg", "idle"} : pc' = [pc EXCEPT ![p][c] = v]
    BY <1>5 DEF RecvWait, RecvTimeout
  <2>2. /\ pc[p][c] # "send_ack"
        /\ UNCHANGED <<recv_msgs, received_msg_ids, acked, consumed, msg_seq_id, seq>>
    BY <1>5 DEF RecvWait, RecvTimeout, sendVars, recvVars, histVars
  <2> QED BY <2>1, <2>2, MovesQuiet, Zenon
<1>6. CASE ThreadClose(p, c)
  <2>1. PICK to \in {"wait_fin", "join", "wait_acks", "closed"} :
             pc' = [pc EXCEPT ![p][c] = to]
    BY <1>6 DEF ThreadClose, SendFin, WaitForFinAndFlyingMsg,
                WaitAsyncSendToFinish, WaitForFlyingAck, CloseStep
  <2>2. /\ pc[p][c] # "send_ack"
        /\ UNCHANGED <<recv_msgs, received_msg_ids, acked, consumed, msg_seq_id>>
        /\ UNCHANGED seq \/ \E s : seq' = [seq EXCEPT ![p][c] = s]
    BY <1>6 DEF ThreadClose, SendFin, WaitForFinAndFlyingMsg,
                WaitAsyncSendToFinish, WaitForFlyingAck, CloseStep, sendVars,
                recvVars, histVars
  <2> QED BY <2>1, <2>2, MovesQuiet, Zenon
<1> QED BY <1>1, <1>2, <1>3, <1>4, <1>5, <1>6 DEF ThreadSend

LEMMA PartyQuiet ==
    ASSUME TypeOK, NEW p \in Party,
           SendThread(p) \/ TaskDone(p) \/ TaskRetry(p) \/ TaskGiveUp(p)
    PROVE  Quiet
<1>1. UNCHANGED <<recv_msgs, received_msg_ids, acked, consumed, msg_seq_id, pc, seq>>
  <2>1. CASE SendThread(p)
    BY <2>1 DEF SendThread, SenderPop, SenderStop, SenderThrottleReturn,
                SenderThrottleTimeout, SenderDrain, SenderExit, SenderCatch, appVars,
                recvVars, histVars
  <2>2. CASE TaskDone(p) \/ TaskRetry(p) \/ TaskGiveUp(p)
    BY <2>2 DEF TaskDone, TaskRetry, TaskGiveUp, sendVars, appVars, recvVars,
                histVars
  <2> QED BY <2>1, <2>2
<1>2. \A q \in Party : msg_seq_id[q] <= msg_seq_id'[q]
  <2>1. msg_seq_id \in [Party -> Nat]
    BY DEF TypeOK
  <2> QED BY <1>1, <2>1
<1> QED BY <1>1, <1>2 DEF Quiet

(* What only changes the ledger of q leaves the ledger of its peer alone.   *)
LEMMA LedgerOther ==
    ASSUME NEW p \in Party, Ledger(p),
           recv_msgs'[p] = recv_msgs[p],
           received_msg_ids'[p] = received_msg_ids[p],
           acked'[p] = acked[p],
           consumed'[p] = consumed[p],
           pc'[p] = pc[p],
           seq'[p] = seq[p],
           UNCHANGED msg_seq_id
    PROVE  Ledger(p)'
<1>1. Unread(p)' = Unread(p)
  BY DEF Unread
<1>2. InHand(p)' = InHand(p)
  BY DEF InHand
<1> QED BY <1>1, <1>2 DEF Ledger

LEMMA RequestLedger ==
    ASSUME TypeOK, TypeOK', SenderInv, AckInv, \A p \in Party : Ledger(p),
           NEW q \in Party, OnRequest(q)
    PROVE  \A p \in Party : Ledger(p)'
<1>0. /\ received_msg_ids[q] \subseteq 1 .. msg_seq_id[Peer(q)]
      /\ received_msg_ids[q] = Unread(q) \cup InHand(q) \cup acked[q]
      /\ Unread(q) \cap (InHand(q) \cup acked[q] \cup consumed[q]) = {}
      /\ InHand(q) \cap acked[q] = {}
      /\ InHand(q) \subseteq consumed[q]
      /\ consumed[q] \subseteq received_msg_ids[q]
  BY DEF Ledger
<1>1. PICK m \in net :
        /\ q = Peer(m.src)
        /\ OnAck(m, q) \/ OnFin(m, q) \/ OnDuplicate(m, q)
             \/ OnNormalMessage(m, q) \/ OnUnwanted(m, q)
        /\ UNCHANGED <<finished_ids, exited, faults, sendVars, appVars, consumed>>
  BY DEF OnRequest
<1>2. UNCHANGED <<pc, seq, msg_seq_id, consumed>>
  BY <1>1 DEF sendVars, appVars
<1>3. m.src \in Party /\ m.msg \in Msg /\ m.src = Peer(q) /\ Carries(m.src, m.msg)
  BY <1>1, PeerIsParty DEF TypeOK, Copy, Carries
<1>4. CASE OnAck(m, q) \/ OnFin(m, q) \/ OnDuplicate(m, q)
  <2>1. UNCHANGED <<recv_msgs, received_msg_ids, acked>>
    BY <1>4 DEF OnAck, OnFin, OnDuplicate, recvVars
  <2> QED BY <1>2, <2>1, LedgerOther
<1>5. CASE OnNormalMessage(m, q) \/ OnUnwanted(m, q)
  <2>1. m.msg \in Posted(Peer(q)) /\ m.msg.seq \in 1 .. msg_seq_id[Peer(q)]
    BY <1>3, <1>5 DEF OnNormalMessage, OnUnwanted, Posted, SenderInv, Numbered
  <2>2. /\ m.msg.seq \notin received_msg_ids[q]
        /\ received_msg_ids' = [received_msg_ids EXCEPT ![q] = @ \cup {m.msg.seq}]
    BY <1>5 DEF OnNormalMessage, OnUnwanted, Insert
  <2>3. InHand(q)' = InHand(q)
    BY <1>2 DEF InHand
  <2>4. Ledger(q)'
    <3>1. CASE OnNormalMessage(m, q)
      <4>1. ~KeyInUse(m, q)
        <5>1. SUFFICES ASSUME NEW r \in recv_msgs[q], r.key = m.msg.key
                       PROVE  FALSE
          BY DEF KeyInUse
        <5>2. r \in Posted(Peer(q))
          BY PeerIsParty DEF Posted, AckInv, Carries, TypeOK
        <5>3. r = m.msg
          BY <2>1, <5>1, <5>2, PeerIsParty DEF SenderInv
        <5>4. m.msg.seq \in Unread(q)
          BY <5>3 DEF Unread
        <5> QED BY <1>0, <2>2, <5>4
      <4>2. recv_msgs' = [recv_msgs EXCEPT ![q] = @ \cup {m.msg}]
        BY <3>1, <4>1, Zenon DEF OnNormalMessage
      <4>3. UNCHANGED acked
        BY <3>1 DEF OnNormalMessage
      <4>4. Unread(q)' = Unread(q) \cup {m.msg.seq}
        <5>1. recv_msgs \in [Party -> SUBSET Msg]
          BY DEF TypeOK
        <5>2. recv_msgs'[q] = recv_msgs[q] \cup {m.msg}
          BY <4>2, <5>1
        <5> QED BY <5>2 DEF Unread
      <4>5. received_msg_ids'[q] = received_msg_ids[q] \cup {m.msg.seq}
        <5>1. received_msg_ids \in [Party -> SUBSET Nat]
          BY DEF TypeOK
        <5> QED BY <2>2, <5>1
      <4>6. \A c, d \in Ctx : (pc'[q][c] = "send_ack" /\ pc'[q][d] = "send_ack"
                                 /\ seq'[q][c] = seq'[q][d]) => c = d
        BY <1>2 DEF Ledger
      <4>7. received_msg_ids'[q] \subseteq 1 .. msg_seq_id'[Peer(q)]
        BY <1>0, <1>2, <2>1, <4>5
      <4>8. m.msg.seq \notin InHand(q) \cup acked[q] \cup consumed[q]
        BY <1>0, <2>2
      <4>9. /\ Unread(q)' \cap (InHand(q) \cup acked[q] \cup consumed[q]) = {}
            /\ received_msg_ids'[q] = Unread(q)' \cup InHand(q) \cup acked[q]
        BY <1>0, <4>4, <4>5, <4>8
      <4>10. /\ InHand(q) \cap acked[q] = {} /\ InHand(q) \subseteq consumed[q]
             /\ consumed[q] \subseteq received_msg_ids'[q]
        BY <1>0, <4>5
      <4> QED BY <1>2, <2>3, <4>3, <4>6, <4>7, <4>9, <4>10 DEF Ledger
    <3>2. CASE OnUnwanted(m, q)
      <4>1. UNCHANGED recv_msgs /\ acked' = [acked EXCEPT ![q] = @ \cup {m.msg.seq}]
        BY <3>2 DEF OnUnwanted
      <4>2. Unread(q)' = Unread(q)
        BY <4>1 DEF Unread
      <4>3. /\ received_msg_ids'[q] = received_msg_ids[q] \cup {m.msg.seq}
            /\ acked'[q] = acked[q] \cup {m.msg.seq}
        <5>1. received_msg_ids \in [Party -> SUBSET Nat] /\ acked \in [Party -> SUBSET Nat]
          BY DEF TypeOK
        <5> QED BY <2>2, <4>1, <5>1
      <4>4. \A c, d \in Ctx : (pc'[q][c] = "send_ack" /\ pc'[q][d] = "send_ack"
                                 /\ seq'[q][c] = seq'[q][d]) => c = d
        BY <1>2 DEF Ledger
      <4>5. received_msg_ids'[q] \subseteq 1 .. msg_seq_id'[Peer(q)]
        BY <1>0, <1>2, <2>1, <4>3
      <4>6. m.msg.seq \notin InHand(q) \cup Unread(q)
        BY <1>0, <2>2
      <4>7. /\ Unread(q) \cap (InHand(q) \cup acked'[q] \cup consumed[q]) = {}
            /\ received_msg_ids'[q] = Unread(q) \cup InHand(q) \cup acked'[q]
        BY <1>0, <4>3, <4>6
      <4>8. /\ InHand(q) \cap acked'[q] = {} /\ InHand(q) \subseteq consumed[q]
            /\ consumed[q] \subseteq received_msg_ids'[q]
        BY <1>0, <4>3, <4>6
      <4> QED BY <1>2, <2>3, <4>2, <4>4, <4>5, <4>7, <4>8 DEF Ledger
    <3> QED BY <1>5, <3>1, <3>2
  <2>5. ASSUME NEW p \in Party, p # q PROVE Ledger(p)'
    <3>1. /\ recv_msgs'[p] = recv_msgs[p]
          /\ acked'[p] = acked[p]
      <4>1. CASE OnNormalMessage(m, q)
        <5>1. CASE KeyInUse(m, q)
          BY <4>1, <5>1, Zenon DEF OnNormalMessage
        <5>2. CASE ~KeyInUse(m, q)
          <6>1. recv_msgs' = [recv_msgs EXCEPT ![q] = @ \cup {m.msg}] /\ UNCHANGED acked
            BY <4>1, <5>2, Zenon DEF OnNormalMessage
          <6>2. recv_msgs \in [Party -> SUBSET Msg]
            BY DEF TypeOK
          <6> QED BY <2>5, <6>1, <6>2
        <5> QED BY <5>1, <5>2
      <4>2. CASE OnUnwanted(m, q)
        <5>1. acked \in [Party -> SUBSET Nat]
          BY DEF TypeOK
        <5> QED BY <2>5, <4>2, <5>1 DEF OnUnwanted
      <4> QED BY <1>5, <4>1, <4>2
    <3>2. received_msg_ids'[p] = received_msg_ids[p]
      <4>1. received_msg_ids \in [Party -> SUBSET Nat]
        BY DEF TypeOK
      <4> QED BY <2>2, <2>5, <4>1
    <3> QED BY <1>2, <3>1, <3>2, LedgerOther
  <2> QED BY <2>4, <2>5
<1> QED BY <1>1, <1>4, <1>5

(* Recv takes one message: the other messages in the buffer have other ids. *)
LEMMA RecvTakeLedger ==
    ASSUME TypeOK, TypeOK', SenderInv, AckInv, \A p \in Party : Ledger(p),
           NEW q \in Party, NEW c \in Ctx, RecvTake(q, c)
    PROVE  \A p \in Party : Ledger(p)'
<1>0. /\ received_msg_ids[q] \subseteq 1 .. msg_seq_id[Peer(q)]
      /\ received_msg_ids[q] = Unread(q) \cup InHand(q) \cup acked[q]
      /\ Unread(q) \cap (InHand(q) \cup acked[q] \cup consumed[q]) = {}
      /\ InHand(q) \cap acked[q] = {}
      /\ InHand(q) \subseteq consumed[q]
      /\ consumed[q] \subseteq received_msg_ids[q]
  BY DEF Ledger
<1>1. PICK r \in recv_msgs[q] :
        /\ recv_msgs' = [recv_msgs EXCEPT ![q] = @ \ {r}]
        /\ seq' = [seq EXCEPT ![q][c] = r.seq]
        /\ consumed' = [consumed EXCEPT ![q] = @ \cup {r.seq}]
  BY Zenon DEF RecvTake, Awaited
<1>2. /\ pc[q][c] # "send_ack"
      /\ pc' = [pc EXCEPT ![q][c] = "send_ack"]
      /\ UNCHANGED <<msg_seq_id, received_msg_ids, acked>>
  BY DEF RecvTake, sendVars
<1>3. /\ pc \in [Party -> [Ctx -> ThreadPc]]
      /\ seq \in [Party -> [Ctx -> Nat]]
      /\ recv_msgs \in [Party -> SUBSET Msg]
      /\ consumed \in [Party -> SUBSET Nat]
  BY DEF TypeOK
<1>4. /\ recv_msgs'[q] = recv_msgs[q] \ {r}
      /\ consumed'[q] = consumed[q] \cup {r.seq}
      /\ pc'[q][c] = "send_ack" /\ seq'[q][c] = r.seq
      /\ \A d \in Ctx : d # c => pc'[q][d] = pc[q][d] /\ seq'[q][d] = seq[q][d]
  <2>1. recv_msgs'[q] = recv_msgs[q] \ {r} /\ consumed'[q] = consumed[q] \cup {r.seq}
    BY <1>1, <1>3
  <2>2. /\ pc'[q][c] = "send_ack"
        /\ \A d \in Ctx : d # c => pc'[q][d] = pc[q][d]
    BY <1>2, <1>3
  <2>3. /\ seq'[q][c] = r.seq
        /\ \A d \in Ctx : d # c => seq'[q][d] = seq[q][d]
    BY <1>1, <1>3
  <2> QED BY <2>1, <2>2, <2>3
<1>5. \A s \in recv_msgs[q] : s.seq = r.seq => s = r
  <2>1. \A s \in recv_msgs[q] : s \in Posted(Peer(q))
    BY <1>3, PeerIsParty DEF Posted, AckInv, Carries
  <2> QED BY <2>1, PeerIsParty DEF SenderInv
<1>6. Unread(q)' = Unread(q) \ {r.seq} /\ r.seq \in Unread(q)
  BY <1>4, <1>5 DEF Unread
<1>7. InHand(q)' = InHand(q) \cup {r.seq}
  BY <1>2, <1>4 DEF InHand
<1>8. Ledger(q)'
  <2>1. ASSUME NEW d \in Ctx, NEW e \in Ctx, pc'[q][d] = "send_ack",
               pc'[q][e] = "send_ack", seq'[q][d] = seq'[q][e]
        PROVE  d = e
    <3>1. r.seq \notin InHand(q)
      BY <1>0, <1>6
    <3>2. \A f \in Ctx : f # c /\ pc'[q][f] = "send_ack" => seq'[q][f] \in InHand(q)
      BY <1>4 DEF InHand
    <3>3. CASE d # c /\ e # c
      <4>1. /\ pc[q][d] = "send_ack" /\ pc[q][e] = "send_ack"
            /\ seq[q][d] = seq[q][e]
        BY <1>4, <2>1, <3>3, Zenon
      <4>2. \A f, g \in Ctx : (pc[q][f] = "send_ack" /\ pc[q][g] = "send_ack"
                                 /\ seq[q][f] = seq[q][g]) => f = g
        BY Zenon DEF Ledger
      <4> QED BY <4>1, <4>2, Zenon
    <3>4. CASE d = c \/ e = c
      BY <1>4, <2>1, <3>1, <3>2, <3>4
    <3> QED BY <3>3, <3>4
  <2>2. r.seq \notin InHand(q) \cup acked[q] \cup consumed[q]
    BY <1>0, <1>6
  <2>3. /\ received_msg_ids[q] \subseteq 1 .. msg_seq_id[Peer(q)]
        /\ received_msg_ids[q] = Unread(q)' \cup InHand(q)' \cup acked[q]
    BY <1>0, <1>6, <1>7
  <2>4. Unread(q)' \cap (InHand(q)' \cup acked[q] \cup consumed'[q]) = {}
    BY <1>0, <1>4, <1>6, <1>7
  <2>5. InHand(q)' \cap acked[q] = {} /\ InHand(q)' \subseteq consumed'[q]
    BY <1>0, <1>4, <1>7, <2>2
  <2>6. consumed'[q] \subseteq received_msg_ids[q]
    BY <1>0, <1>4, <1>6
  <2> QED BY <1>2, <2>1, <2>3, <2>4, <2>5, <2>6 DEF Ledger
<1>9. ASSUME NEW p \in Party, p # q PROVE Ledger(p)'
  <2>1. /\ recv_msgs'[p] = recv_msgs[p] /\ consumed'[p] = consumed[p]
        /\ pc'[p] = pc[p] /\ seq'[p] = seq[p]
    <3>1. recv_msgs'[p] = recv_msgs[p] /\ consumed'[p] = consumed[p]
      BY <1>1, <1>3, <1>9
    <3>2. pc'[p] = pc[p]
      BY <1>2, <1>3, <1>9
    <3>3. seq'[p] = seq[p]
      BY <1>1, <1>3, <1>9
    <3> QED BY <3>1, <3>2, <3>3
  <2> QED BY <1>2, <2>1, LedgerOther
<1> QED BY <1>8, <1>9

LEMMA RecvAckLedger ==
    ASSUME TypeOK, TypeOK', \A p \in Party : Ledger(p),
           NEW q \in Party, NEW c \in Ctx, RecvAck(q, c)
    PROVE  \A p \in Party : Ledger(p)'
<1>0. /\ received_msg_ids[q] \subseteq 1 .. msg_seq_id[Peer(q)]
      /\ received_msg_ids[q] = Unread(q) \cup InHand(q) \cup acked[q]
      /\ Unread(q) \cap (InHand(q) \cup acked[q] \cup consumed[q]) = {}
      /\ InHand(q) \cap acked[q] = {}
      /\ InHand(q) \subseteq consumed[q]
      /\ consumed[q] \subseteq received_msg_ids[q]
  BY DEF Ledger
<1>1. /\ pc[q][c] = "send_ack"
      /\ acked' = [acked EXCEPT ![q] = @ \cup {seq[q][c]}]
      /\ pc' = [pc EXCEPT ![q][c] = "idle"]
      /\ UNCHANGED <<msg_seq_id, recv_msgs, received_msg_ids, consumed, seq>>
  BY DEF RecvAck, sendVars, recvVars
<1>2. /\ pc \in [Party -> [Ctx -> ThreadPc]]
      /\ acked \in [Party -> SUBSET Nat]
  BY Zenon DEF TypeOK
<1>3. /\ acked'[q] = acked[q] \cup {seq[q][c]}
      /\ pc'[q][c] = "idle"
      /\ \A d \in Ctx : d # c => pc'[q][d] = pc[q][d]
  <2>1. acked'[q] = acked[q] \cup {seq[q][c]}
    BY <1>1, <1>2
  <2>2. /\ pc'[q][c] = "idle"
        /\ \A d \in Ctx : d # c => pc'[q][d] = pc[q][d]
    BY <1>1, <1>2
  <2> QED BY <2>1, <2>2
<1>4. Unread(q)' = Unread(q)
  BY <1>1 DEF Unread
<1>5. InHand(q)' = InHand(q) \ {seq[q][c]} /\ seq[q][c] \in InHand(q)
  <2>1. \A d \in Ctx : d # c /\ pc[q][d] = "send_ack" => seq[q][d] # seq[q][c]
    BY <1>1 DEF Ledger
  <2> QED BY <1>1, <1>3, <2>1 DEF InHand
<1>6. Ledger(q)'
  <2>1. \A d, e \in Ctx : (pc'[q][d] = "send_ack" /\ pc'[q][e] = "send_ack"
                             /\ seq[q][d] = seq[q][e]) => d = e
    <3>1. \A d \in Ctx : pc'[q][d] = "send_ack" => pc[q][d] = "send_ack"
      BY <1>3
    <3>2. \A d, e \in Ctx : (pc[q][d] = "send_ack" /\ pc[q][e] = "send_ack"
                               /\ seq[q][d] = seq[q][e]) => d = e
      BY Zenon DEF Ledger
    <3> QED BY <3>1, <3>2, Zenon
  <2>2. received_msg_ids[q] = Unread(q) \cup InHand(q)' \cup acked'[q]
    BY <1>0, <1>3, <1>5
  <2>3. Unread(q) \cap (InHand(q)' \cup acked'[q] \cup consumed[q]) = {}
    BY <1>0, <1>3, <1>5
  <2>4. InHand(q)' \cap acked'[q] = {} /\ InHand(q)' \subseteq consumed[q]
    BY <1>0, <1>3, <1>5
  <2>5. /\ received_msg_ids[q] \subseteq 1 .. msg_seq_id[Peer(q)]
        /\ consumed[q] \subseteq received_msg_ids[q]
    BY <1>0
  <2> QED BY <1>1, <1>4, <2>1, <2>2, <2>3, <2>4, <2>5 DEF Ledger
<1>7. ASSUME NEW p \in Party, p # q PROVE Ledger(p)'
  <2>1. acked'[p] = acked[p] /\ pc'[p] = pc[p]
    BY <1>1, <1>2, <1>7
  <2> QED BY <1>1, <2>1, LedgerOther
<1> QED BY <1>6, <1>7

LEMMA StopLedger ==
    ASSUME TypeOK, TypeOK', \A p \in Party : Ledger(p),
           NEW q \in Party, NEW c \in Ctx, StopReceivingAndAckUnreadMsgs(q, c)
    PROVE  \A p \in Party : Ledger(p)'
<1>0. /\ received_msg_ids[q] \subseteq 1 .. msg_seq_id[Peer(q)]
      /\ received_msg_ids[q] = Unread(q) \cup InHand(q) \cup acked[q]
      /\ Unread(q) \cap (InHand(q) \cup acked[q] \cup consumed[q]) = {}
      /\ InHand(q) \cap acked[q] = {}
      /\ InHand(q) \subseteq consumed[q]
      /\ consumed[q] \subseteq received_msg_ids[q]
  BY DEF Ledger
<1>1. /\ pc[q][c] = "idle"
      /\ acked' = [acked EXCEPT ![q] = @ \cup Unread(q)]
      /\ recv_msgs' = [recv_msgs EXCEPT ![q] = {}]
      /\ pc' = [pc EXCEPT ![q][c] = "send_fin"]
      /\ UNCHANGED <<msg_seq_id, received_msg_ids, consumed, seq>>
  BY DEF StopReceivingAndAckUnreadMsgs, sendVars
<1>2. /\ pc \in [Party -> [Ctx -> ThreadPc]]
      /\ acked \in [Party -> SUBSET Nat]
      /\ recv_msgs \in [Party -> SUBSET Msg]
  BY DEF TypeOK
<1>3. /\ acked'[q] = acked[q] \cup Unread(q)
      /\ \A d \in Ctx : (pc'[q][d] = "send_ack") = (pc[q][d] = "send_ack")
  <2>1. acked'[q] = acked[q] \cup Unread(q)
    BY <1>1, <1>2
  <2>2. /\ pc'[q][c] = "send_fin"
        /\ \A d \in Ctx : d # c => pc'[q][d] = pc[q][d]
    BY <1>1, <1>2
  <2> QED BY <1>1, <2>1, <2>2
<1>4. Unread(q)' = {}
  BY <1>1, <1>2 DEF Unread
<1>5. InHand(q)' = InHand(q)
  BY <1>1, <1>3 DEF InHand
<1>6. Ledger(q)'
  <2>1. \A d, e \in Ctx : (pc'[q][d] = "send_ack" /\ pc'[q][e] = "send_ack"
                             /\ seq[q][d] = seq[q][e]) => d = e
    <3>1. \A d, e \in Ctx : (pc[q][d] = "send_ack" /\ pc[q][e] = "send_ack"
                               /\ seq[q][d] = seq[q][e]) => d = e
      BY Zenon DEF Ledger
    <3> QED BY <1>3, <3>1, Zenon
  <2>2. /\ received_msg_ids[q] = InHand(q) \cup acked'[q]
        /\ InHand(q) \cap acked'[q] = {}
    BY <1>0, <1>3
  <2>3. /\ received_msg_ids[q] \subseteq 1 .. msg_seq_id[Peer(q)]
        /\ InHand(q) \subseteq consumed[q]
        /\ consumed[q] \subseteq received_msg_ids[q]
    BY <1>0
  <2> QED BY <1>1, <1>4, <1>5, <2>1, <2>2, <2>3 DEF Ledger
<1>7. ASSUME NEW p \in Party, p # q PROVE Ledger(p)'
  <2>1. acked'[p] = acked[p] /\ pc'[p] = pc[p] /\ recv_msgs'[p] = recv_msgs[p]
    BY <1>1, <1>2, <1>7
  <2> QED BY <1>1, <2>1, LedgerOther
<1> QED BY <1>6, <1>7

LEMMA LedgerStep ==
    ASSUME ~StartMayFail,
           TypeOK, TypeOK', SenderInv, AckInv, \A p \in Party : Ledger(p), Next
    PROVE  \A p \in Party : Ledger(p)'
<1>1. ASSUME NEW p \in Party, NEW c \in Ctx,
             Call(p, c) \/ ThreadSend(p, c) \/ ThreadRecv(p, c) \/ ThreadClose(p, c)
      PROVE  \A q \in Party : Ledger(q)'
  <2>1. CASE StopReceivingAndAckUnreadMsgs(p, c)
    BY <2>1, StopLedger
  <2>2. CASE RecvTake(p, c)
    BY <2>2, RecvTakeLedger
  <2>3. CASE RecvAck(p, c)
    BY <2>3, RecvAckLedger
  <2>4. CASE \/ SendBegin(p, c) \/ ThreadSend(p, c) \/ RecvWait(p, c) \/ RecvTimeout(p, c)
             \/ ThreadClose(p, c)
    BY <2>4, ThreadQuiet, LedgerQuiet
  <2> QED BY <1>1, <2>1, <2>2, <2>3, <2>4 DEF Call, ThreadRecv
<1>2. ASSUME NEW p \in Party,
             SendThread(p) \/ TaskDone(p) \/ TaskRetry(p) \/ TaskGiveUp(p)
      PROVE  \A q \in Party : Ledger(q)'
  BY <1>2, PartyQuiet, LedgerQuiet
<1>3. ASSUME NEW p \in Party, OnRequest(p)
      PROVE  \A q \in Party : Ledger(q)'
  BY <1>3, RequestLedger
<1>4. CASE Finished
  BY <1>4, LedgerOther DEF Finished, vars, sendVars, recvVars, appVars, histVars
<1>5. \A p \in Party : ~StartFailure(p)
  BY Zenon DEF StartFailure, SenderStartFails, OnUnwantedFails, RecvAckFails,
               StopReceivingFails, SendFinFails, StartFails
<1> QED BY <1>1, <1>2, <1>3, <1>4, <1>5 DEF Next
=============================================================================
