---------------------------- MODULE StockProofs ----------------------------
(***************************************************************************)
(* What Recv took is never stored again (Stock), also when tasks do not    *)
(* start.                                                                  *)
(***************************************************************************)
EXTENDS DeliveryInvariant, ChannelProofs

(* Steps that store and take nothing.  The closing step clears the buffer.  *)
NothingStored ==
    /\ UNCHANGED <<received_msg_ids, consumed>>
    /\ \A p \in Party : recv_msgs'[p] \subseteq recv_msgs[p]
    /\ \A p \in Party : msg_seq_id[p] <= msg_seq_id'[p]

LEMMA StockFrame ==
    ASSUME TypeOK, TypeOK', NothingStored, NEW p \in Party, Stock(p)
    PROVE  Stock(p)'
<1>1. Unread(p)' \subseteq Unread(p)
  BY DEF NothingStored, Unread
<1>2. /\ msg_seq_id[Peer(p)] \in Nat /\ msg_seq_id'[Peer(p)] \in Nat
      /\ msg_seq_id[Peer(p)] <= msg_seq_id'[Peer(p)]
  BY PeerIsParty DEF NothingStored, TypeOK
<1>3. received_msg_ids[p] \subseteq 1 .. msg_seq_id'[Peer(p)]
  BY <1>2 DEF Stock
<1>4. UNCHANGED <<received_msg_ids, consumed>>
  BY DEF NothingStored
<1> QED BY <1>1, <1>3, <1>4 DEF Stock

LEMMA NothingStoredUnchanged ==
    ASSUME TypeOK, UNCHANGED <<received_msg_ids, consumed, recv_msgs, msg_seq_id>>
    PROVE  NothingStored
<1>1. \A p \in Party : msg_seq_id[p] \in Nat
  BY DEF TypeOK
<1> QED BY <1>1 DEF NothingStored

LEMMA PartyStores ==
    ASSUME TypeOK, NEW p \in Party,
           SendThread(p) \/ TaskDone(p) \/ TaskRetry(p) \/ TaskGiveUp(p)
    PROVE  NothingStored
<1>1. UNCHANGED <<received_msg_ids, consumed, recv_msgs, msg_seq_id>>
  <2>1. CASE SendThread(p)
    BY <2>1, ZenonT(30) DEF SendThread, SenderPop, SenderStop, SenderThrottleReturn,
         SenderThrottleTimeout, SenderDrain, SenderExit, SenderCatch, recvVars, histVars
  <2>2. CASE TaskDone(p) \/ TaskRetry(p) \/ TaskGiveUp(p)
    BY <2>2, Zenon DEF TaskDone, TaskRetry, TaskGiveUp, sendVars, recvVars, histVars
  <2> QED BY <2>1, <2>2
<1> QED BY <1>1, NothingStoredUnchanged

LEMMA ThreadStores ==
    ASSUME TypeOK, NEW p \in Party, NEW c \in Ctx, ~RecvTake(p, c),
           Call(p, c) \/ ThreadSend(p, c) \/ ThreadRecv(p, c) \/ ThreadClose(p, c)
    PROVE  NothingStored
<1>1. CASE SendNumber(p, c)
  <2>1. /\ msg_seq_id' = [msg_seq_id EXCEPT ![p] = @ + 1]
        /\ UNCHANGED <<received_msg_ids, consumed, recv_msgs>>
    BY <1>1 DEF SendNumber, recvVars, histVars
  <2>2. msg_seq_id \in [Party -> Nat]
    BY DEF TypeOK
  <2>3. \A q \in Party : msg_seq_id[q] <= msg_seq_id'[q]
    BY <2>1, <2>2
  <2> QED BY <2>1, <2>3 DEF NothingStored
<1>2. CASE StopReceivingAndAckUnreadMsgs(p, c)
  <2>1. /\ recv_msgs' = [recv_msgs EXCEPT ![p] = {}]
        /\ UNCHANGED <<received_msg_ids, consumed, msg_seq_id>>
    BY <1>2, Zenon DEF StopReceivingAndAckUnreadMsgs, sendVars
  <2>2. msg_seq_id \in [Party -> Nat] /\ recv_msgs \in [Party -> SUBSET Msg]
    BY DEF TypeOK
  <2>3. \A q \in Party : recv_msgs'[q] \subseteq recv_msgs[q]
    BY <2>1, <2>2
  <2>4. \A q \in Party : msg_seq_id[q] <= msg_seq_id'[q]
    BY <2>1, <2>2
  <2> QED BY <2>1, <2>3, <2>4 DEF NothingStored
<1>3. CASE ~SendNumber(p, c) /\ ~StopReceivingAndAckUnreadMsgs(p, c)
  <2>1. UNCHANGED <<received_msg_ids, consumed, recv_msgs, msg_seq_id>>
    <3>1. CASE Call(p, c) \/ ThreadSend(p, c)
      BY <1>3, <3>1, Zenon DEF Call, SendBegin, ThreadSend, SendPush, SendReturn,
         SendAsyncThrottledReturn, SendAsyncThrottledTimeout, sendVars, recvVars, histVars
    <3>2. CASE ThreadRecv(p, c)
      BY <3>2, Zenon DEF ThreadRecv, RecvAck, RecvWait, RecvTimeout, sendVars, recvVars,
                         histVars
    <3>3. CASE ThreadClose(p, c)
      BY <3>3, Zenon DEF ThreadClose, SendFin, WaitForFinAndFlyingMsg,
         WaitAsyncSendToFinish, WaitForFlyingAck, CloseStep, sendVars, recvVars, histVars
    <3> QED BY <3>1, <3>2, <3>3
  <2> QED BY <2>1, NothingStoredUnchanged
<1> QED BY <1>1, <1>2, <1>3

(* A message that is new for party q is recorded, and stored at most.       *)
Arrives(q, m) ==
    /\ m.kind = "MSG"
    /\ m.seq \notin received_msg_ids[q]
    /\ received_msg_ids' = [received_msg_ids EXCEPT ![q] = @ \cup {m.seq}]
    /\ UNCHANGED recv_msgs \/ recv_msgs' = [recv_msgs EXCEPT ![q] = @ \cup {m}]
    /\ UNCHANGED <<consumed, msg_seq_id>>

LEMMA ArrivesStock ==
    ASSUME TypeOK, SenderInv, \A p \in Party : Stock(p), NEW q \in Party, NEW m \in Msg,
           Arrives(q, m), Carries(Peer(q), m), NEW p \in Party
    PROVE  Stock(p)'
<1>1. m.seq \in 1 .. msg_seq_id[Peer(q)]
  <2>1. m \in Posted(Peer(q))
    BY DEF Arrives, Posted
  <2> QED BY <2>1, PeerIsParty DEF SenderInv, Numbered
<1>2. /\ recv_msgs \in [Party -> SUBSET Msg]
      /\ received_msg_ids \in [Party -> SUBSET Nat]
  BY DEF TypeOK
<1>3. CASE p = q
  <2>1. received_msg_ids'[q] = received_msg_ids[q] \cup {m.seq}
    BY <1>2 DEF Arrives
  <2>2. Unread(q)' \subseteq Unread(q) \cup {m.seq}
    <3>1. recv_msgs'[q] \subseteq recv_msgs[q] \cup {m}
      BY <1>2 DEF Arrives
    <3> QED BY <3>1 DEF Unread
  <2>3. m.seq \notin consumed[q]
    BY DEF Arrives, Stock
  <2>4. UNCHANGED <<consumed, msg_seq_id>>
    BY DEF Arrives
  <2>5. /\ received_msg_ids[q] \subseteq 1 .. msg_seq_id[Peer(q)]
        /\ Unread(q) \cup consumed[q] \subseteq received_msg_ids[q]
        /\ Unread(q) \cap consumed[q] = {}
    BY DEF Stock
  <2>6. received_msg_ids'[q] \subseteq 1 .. msg_seq_id[Peer(q)]
    BY <1>1, <2>1, <2>5
  <2>7. /\ Unread(q)' \cup consumed[q] \subseteq received_msg_ids'[q]
        /\ Unread(q)' \cap consumed[q] = {}
    BY <2>1, <2>2, <2>3, <2>5
  <2> QED BY <1>3, <2>4, <2>6, <2>7 DEF Stock
<1>4. CASE p # q
  <2>1. /\ recv_msgs'[p] = recv_msgs[p]
        /\ received_msg_ids'[p] = received_msg_ids[p]
    BY <1>2, <1>4 DEF Arrives
  <2>2. Unread(p)' = Unread(p)
    BY <2>1 DEF Unread
  <2> QED BY <2>1, <2>2 DEF Stock, Arrives
<1> QED BY <1>3, <1>4

LEMMA RequestStock ==
    ASSUME TypeOK, TypeOK', SenderInv, \A p \in Party : Stock(p), NEW q \in Party,
           OnRequest(q) \/ OnUnwantedFails(q)
    PROVE  \A p \in Party : Stock(p)'
<1>0. \A m \in net : q = Peer(m.src) => m.msg \in Msg /\ Carries(Peer(q), m.msg)
  BY PeerIsParty DEF TypeOK, Copy, Carries
<1>1. CASE OnRequest(q)
  <2>1. PICK m \in net :
          /\ q = Peer(m.src)
          /\ OnAck(m, q) \/ OnFin(m, q) \/ OnDuplicate(m, q)
               \/ OnNormalMessage(m, q) \/ OnUnwanted(m, q)
          /\ UNCHANGED <<finished_ids, exited, faults, sendVars, appVars, consumed>>
    BY <1>1 DEF OnRequest
  <2>2. UNCHANGED <<msg_seq_id, consumed>>
    BY <2>1 DEF sendVars
  <2>3. CASE OnAck(m, q) \/ OnFin(m, q) \/ OnDuplicate(m, q)
    <3>1. UNCHANGED <<received_msg_ids, recv_msgs>>
      BY <2>3 DEF OnAck, OnFin, OnDuplicate, recvVars
    <3> QED BY <2>2, <3>1, NothingStoredUnchanged, StockFrame
  <2>4. CASE OnNormalMessage(m, q) \/ OnUnwanted(m, q)
    <3>1. Arrives(q, m.msg)
      BY <2>2, <2>4, Zenon DEF OnNormalMessage, OnUnwanted, Insert, Arrives
    <3> QED BY <1>0, <2>1, <3>1, ArrivesStock
  <2> QED BY <2>1, <2>3, <2>4
<1>2. CASE OnUnwantedFails(q)
  <2>1. PICK m \in net : q = Peer(m.src) /\ Arrives(q, m.msg)
    BY <1>2, Zenon DEF OnUnwantedFails, Insert, Arrives, sendVars, histVars
  <2> QED BY <1>0, <2>1, ArrivesStock
<1> QED BY <1>1, <1>2

(* The message that Recv takes is the only one in the buffer with its id.   *)
LEMMA RecvTakeStock ==
    ASSUME TypeOK, TypeOK', SenderInv, AckInv, \A p \in Party : Stock(p),
           NEW q \in Party, NEW c \in Ctx, RecvTake(q, c), NEW p \in Party
    PROVE  Stock(p)'
<1>1. PICK r \in recv_msgs[q] :
        /\ recv_msgs' = [recv_msgs EXCEPT ![q] = @ \ {r}]
        /\ consumed' = [consumed EXCEPT ![q] = @ \cup {r.seq}]
  BY Zenon DEF RecvTake, Awaited
<1>2. UNCHANGED <<msg_seq_id, received_msg_ids>>
  BY DEF RecvTake, sendVars
<1>3. recv_msgs \in [Party -> SUBSET Msg] /\ consumed \in [Party -> SUBSET Nat]
  BY DEF TypeOK
<1>4. CASE p = q
  <2>1. \A s \in recv_msgs[q] : s.seq = r.seq => s = r
    <3>1. \A s \in recv_msgs[q] : s \in Posted(Peer(q))
      BY <1>3, PeerIsParty DEF Posted, AckInv, Carries
    <3> QED BY <3>1, PeerIsParty DEF SenderInv
  <2>2. recv_msgs'[q] = recv_msgs[q] \ {r} /\ consumed'[q] = consumed[q] \cup {r.seq}
    BY <1>1, <1>3
  <2>3. Unread(q)' = Unread(q) \ {r.seq} /\ r.seq \in Unread(q)
    BY <2>1, <2>2 DEF Unread
  <2>4. /\ received_msg_ids[q] \subseteq 1 .. msg_seq_id[Peer(q)]
        /\ Unread(q) \cup consumed[q] \subseteq received_msg_ids[q]
        /\ Unread(q) \cap consumed[q] = {}
    BY DEF Stock
  <2>5. /\ Unread(q)' \cup consumed'[q] \subseteq received_msg_ids[q]
        /\ Unread(q)' \cap consumed'[q] = {}
    BY <2>2, <2>3, <2>4
  <2> QED BY <1>2, <1>4, <2>4, <2>5 DEF Stock
<1>5. CASE p # q
  <2>1. recv_msgs'[p] = recv_msgs[p] /\ consumed'[p] = consumed[p]
    BY <1>1, <1>3, <1>5
  <2>2. Unread(p)' = Unread(p)
    BY <2>1 DEF Unread
  <2> QED BY <1>2, <2>1, <2>2 DEF Stock
<1> QED BY <1>4, <1>5

LEMMA StockStep ==
    ASSUME TypeOK, TypeOK', SenderInv, AckInv, \A p \in Party : Stock(p), Next
    PROVE  \A p \in Party : Stock(p)'
<1>1. ASSUME NEW q \in Party, NEW c \in Ctx,
             Call(q, c) \/ ThreadSend(q, c) \/ ThreadRecv(q, c) \/ ThreadClose(q, c)
      PROVE  \A p \in Party : Stock(p)'
  <2>1. CASE RecvTake(q, c)
    BY <2>1, RecvTakeStock
  <2>2. CASE ~RecvTake(q, c)
    BY <1>1, <2>2, ThreadStores, StockFrame
  <2> QED BY <2>1, <2>2
<1>2. ASSUME NEW q \in Party,
             SendThread(q) \/ TaskDone(q) \/ TaskRetry(q) \/ TaskGiveUp(q)
      PROVE  \A p \in Party : Stock(p)'
  BY <1>2, PartyStores, StockFrame
<1>3. ASSUME NEW q \in Party, OnRequest(q) \/ OnUnwantedFails(q)
      PROVE  \A p \in Party : Stock(p)'
  BY <1>3, RequestStock
<1>4. ASSUME NEW q \in Party, StartFailure(q), ~OnUnwantedFails(q)
      PROVE  \A p \in Party : Stock(p)'
  <2>1. UNCHANGED <<received_msg_ids, consumed, recv_msgs, msg_seq_id>>
    BY <1>4, Zenon DEF StartFailure, SenderStartFails, RecvAckFails, StopReceivingFails,
                       SendFinFails, CloseStep, sendVars, recvVars, histVars
  <2> QED BY <2>1, NothingStoredUnchanged, StockFrame
<1>5. CASE Finished
  <2>1. UNCHANGED <<received_msg_ids, consumed, recv_msgs, msg_seq_id>>
    BY <1>5 DEF Finished, vars, sendVars, recvVars, histVars
  <2> QED BY <2>1, NothingStoredUnchanged, StockFrame
<1> QED BY <1>1, <1>2, <1>3, <1>4, <1>5, Zenon DEF Next
=============================================================================
