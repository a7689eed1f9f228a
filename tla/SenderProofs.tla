---------------------------- MODULE SenderProofs ----------------------------
(***************************************************************************)
(* The messages of Channel that are under way: no step loses track of one  *)
(* of them, and numbers and keys identify them (SenderInv).                *)
(***************************************************************************)
EXTENDS DeliveryInvariant, ChannelProofs

(* What a step may add to the messages under way: acknowledgements that     *)
(* were made, and FINs.                                                     *)
Kept(p, m) ==
    Carries(p, m) \/ m.kind = "FIN" \/ (m.kind = "ACK" /\ m.seq \in acked'[p])

NothingPushed == \A p \in Party, m \in Msg : Carries(p, m)' => Kept(p, m)

(* Submitting what is carried, or acknowledgements that are made. *)
LEMMA SubmitKeeps ==
    ASSUME TypeOK, NEW p \in Party, NEW M \in SUBSET Msg, SubmitSendTasks(p, M),
           \A m \in M : Kept(p, m),
           \A q \in Party : recv_msgs'[q] \subseteq recv_msgs[q],
           \A q \in Party : \A i \in DOMAIN send_msgs'[q] :
               \E j \in DOMAIN send_msgs[q] : send_msgs'[q][i] = send_msgs[q][j]
    PROVE  NothingPushed
<1>1. SUFFICES ASSUME NEW q \in Party, NEW m \in Msg, Carries(q, m)'
               PROVE  Kept(q, m)
  BY DEF NothingPushed
<1>2. ASSUME NEW i \in DOMAIN send_msgs'[q], send_msgs'[q][i] = m
      PROVE  Carries(q, m)
  BY <1>2 DEF Carries
<1>3. ASSUME NEW tk \in tasks'[q], tk.msg = m PROVE Kept(q, m)
  <2>1. CASE tk \in tasks[q]
    BY <1>3, <2>1 DEF Carries, Kept
  <2>2. CASE tk \notin tasks[q]
    <3>1. q = p /\ \E n \in M : tk = NewTask(n)
      BY <1>3, <2>2 DEF SubmitSendTasks, TypeOK
    <3> QED BY <1>3, <3>1 DEF NewTask
  <2> QED BY <2>1, <2>2
<1>4. ASSUME NEW k \in net', k.src = q, k.msg = m PROVE Kept(q, m)
  <2>1. CASE k \in net
    BY <1>4, <2>1 DEF Carries, Kept
  <2>2. CASE k \notin net
    <3>1. \E n \in M : k = NewCopy(p, n)
      BY <1>4, <2>2 DEF SubmitSendTasks
    <3> QED BY <1>4, <3>1 DEF NewCopy
  <2> QED BY <2>1, <2>2
<1>5. ASSUME m \in recv_msgs'[Peer(q)] PROVE Carries(q, m)
  BY <1>5, PeerIsParty DEF Carries
<1> QED BY <1>1, <1>2, <1>3, <1>4, <1>5 DEF Carries, Kept

(* Steps that only remove tasks and copies, or repeat a message that is     *)
(* carried.                                                                 *)
LEMMA RepeatKeeps ==
    ASSUME TypeOK, UNCHANGED send_msgs,
           \A q \in Party : \A tk \in tasks'[q] : Kept(q, tk.msg),
           \A k \in net' : Kept(k.src, k.msg),
           \A q \in Party : \A r \in recv_msgs'[Peer(q)] : Kept(q, r)
    PROVE  NothingPushed
<1>1. SUFFICES ASSUME NEW q \in Party, NEW m \in Msg, Carries(q, m)'
               PROVE  Kept(q, m)
  BY DEF NothingPushed
<1> QED BY <1>1 DEF Carries, Kept

LEMMA AnsweredKeeps ==
    ASSUME TypeOK, NEW m \in net, NEW q \in Party
    PROVE  /\ Answered(m) \in [Party -> SUBSET Task]
           /\ \A tk \in Answered(m)[q] : \E t \in tasks[q] : t.msg = tk.msg
<1>1. m \in Copy /\ m.src \in Party
  BY DEF TypeOK, Copy
<1>2. Answered(m) \in [Party -> SUBSET Task]
  BY <1>1, AnsweredTyped
<1>3. ASSUME NEW tk \in Answered(m)[q]
      PROVE  \E t \in tasks[q] : t.msg = tk.msg
  <2>1. CASE q # m.src
    BY <1>1, <1>3, <2>1 DEF Answered, TypeOK
  <2>2. CASE q = m.src
    <3>1. tk \in Replied(m)
      BY <1>1, <1>3, <2>2 DEF Answered, TypeOK
    <3>2. PICK t \in tasks[m.src] :
            tk = [t EXCEPT !.replied = @ \/ CopyOf(m.src, t) = m]
      BY <3>1 DEF Replied
    <3>3. t \in Task
      BY <1>1 DEF TypeOK
    <3>4. tk.msg = t.msg
      BY <3>2, <3>3 DEF Task
    <3> QED BY <2>2, <3>4
  <2> QED BY <2>1, <2>2
<1> QED BY <1>2, <1>3

LEMMA RequestKeeps ==
    ASSUME TypeOK, NEW q \in Party, OnRequest(q)
    PROVE  NothingPushed
<1>1. PICK m \in net :
        /\ q = Peer(m.src)
        /\ OnAck(m, q) \/ OnFin(m, q) \/ OnDuplicate(m, q)
             \/ OnNormalMessage(m, q) \/ OnUnwanted(m, q)
        /\ UNCHANGED <<finished_ids, exited, faults, sendVars, appVars, consumed>>
  BY DEF OnRequest
<1>2. m \in Copy /\ m.src \in Party /\ m.msg \in Msg /\ m.src = Peer(q)
  BY <1>1, PeerIsParty DEF TypeOK, Copy
<1>3. UNCHANGED send_msgs
  BY <1>1 DEF sendVars
<1>4. \A p \in Party : \A tk \in Answered(m)[p] : Carries(p, tk.msg)
  BY AnsweredKeeps DEF Carries
<1>5. \A k \in net : Carries(k.src, k.msg)
  BY DEF Carries
<1>6. \A p \in Party : \A r \in recv_msgs[Peer(p)] : Carries(p, r)
  BY DEF Carries
<1>7. CASE OnAck(m, q) \/ OnFin(m, q) \/ OnDuplicate(m, q)
  <2>1. tasks' = Answered(m) /\ net' = net \ {m} /\ recv_msgs' = recv_msgs
    BY <1>7 DEF OnAck, OnFin, OnDuplicate, recvVars
  <2> QED BY <1>3, <1>4, <1>5, <1>6, <2>1, RepeatKeeps DEF Kept
<1>8. CASE OnNormalMessage(m, q)
  <2>1. net' = net \ {m}
    BY <1>8 DEF OnNormalMessage
  <2>2. CASE KeyInUse(m, q)
    <3>1. UNCHANGED <<recv_msgs, tasks>>
      BY <1>8, <2>2, Zenon DEF OnNormalMessage
    <3>2. \A p \in Party : \A tk \in tasks[p] : Carries(p, tk.msg)
      BY DEF Carries
    <3> QED BY <1>3, <1>5, <1>6, <2>1, <3>1, <3>2, RepeatKeeps DEF Kept
  <2>3. CASE ~KeyInUse(m, q)
    <3>1. /\ recv_msgs' = [recv_msgs EXCEPT ![q] = @ \cup {m.msg}]
          /\ tasks' = Answered(m)
      BY <1>8, <2>3, Zenon DEF OnNormalMessage
    <3>2. ASSUME NEW p \in Party, NEW r \in recv_msgs'[Peer(p)]
          PROVE  Carries(p, r)
      <4>1. r \in recv_msgs[Peer(p)] \/ (Peer(p) = q /\ r = m.msg)
        BY <3>1, <3>2, PeerIsParty DEF TypeOK
      <4>2. Peer(p) = q => p = m.src
        BY <1>2, PeerIsParty
      <4> QED BY <4>1, <4>2, <1>5, <1>6
    <3> QED BY <1>3, <1>4, <1>5, <2>1, <3>1, <3>2, RepeatKeeps DEF Kept
  <2> QED BY <2>2, <2>3
<1>9. CASE OnUnwanted(m, q)
  <2>1. /\ tasks' = [Answered(m) EXCEPT ![q] = @ \cup {NewTask(Ack(m.msg.seq))}]
        /\ net' = (net \ {m}) \cup {NewCopy(q, Ack(m.msg.seq))}
        /\ recv_msgs' = recv_msgs
        /\ acked' = [acked EXCEPT ![q] = @ \cup {m.msg.seq}]
    BY <1>9 DEF OnUnwanted
  <2>2. Kept(q, Ack(m.msg.seq))
    BY <2>1 DEF Kept, Ack, TypeOK
  <2>3. ASSUME NEW p \in Party, NEW tk \in tasks'[p] PROVE Kept(p, tk.msg)
    <3>1. tk \in Answered(m)[p] \/ (p = q /\ tk = NewTask(Ack(m.msg.seq)))
      BY <2>1, <2>3, AnsweredKeeps
    <3>2. CASE tk \in Answered(m)[p]
      BY <3>2, <1>4 DEF Kept
    <3>3. CASE p = q /\ tk = NewTask(Ack(m.msg.seq))
      BY <3>3, <2>2 DEF NewTask
    <3> QED BY <3>1, <3>2, <3>3
  <2>4. ASSUME NEW k \in net' PROVE Kept(k.src, k.msg)
    <3>1. CASE k \in net
      BY <3>1, <1>5 DEF Kept
    <3>2. CASE k = NewCopy(q, Ack(m.msg.seq))
      BY <3>2, <2>2 DEF NewCopy
    <3> QED BY <2>1, <3>1, <3>2
  <2> QED BY <1>3, <1>6, <2>1, <2>3, <2>4, RepeatKeeps DEF Kept
<1> QED BY <1>1, <1>7, <1>8, <1>9

LEMMA TaskKeeps ==
    ASSUME TypeOK, NEW p \in Party, TaskDone(p) \/ TaskRetry(p) \/ TaskGiveUp(p)
    PROVE  NothingPushed
<1>1. /\ \A q \in Party : \A tk \in tasks[q] : Kept(q, tk.msg)
      /\ \A k \in net : Kept(k.src, k.msg)
      /\ \A q \in Party : \A r \in recv_msgs[Peer(q)] : Kept(q, r)
  BY DEF Carries, Kept
<1>2. UNCHANGED <<send_msgs, recv_msgs>>
  BY DEF TaskDone, TaskRetry, TaskGiveUp, sendVars, recvVars
<1>3. CASE TaskDone(p)
  <2>1. net' = net /\ \A q \in Party : tasks'[q] \subseteq tasks[q]
    BY <1>3 DEF TaskDone, Finish, TypeOK
  <2> QED BY <1>1, <1>2, <2>1, RepeatKeeps
<1>4. CASE TaskRetry(p)
  <2>1. PICK tk \in tasks[p] :
          /\ tasks' = [tasks EXCEPT ![p] = (@ \ {tk}) \cup {Again(tk)}]
          /\ \E left \in Survivors(p, tk) : net' = left \cup {CopyOf(p, Again(tk))}
    BY <1>4, Zenon DEF TaskRetry
  <2>2. Again(tk).msg = tk.msg /\ Kept(p, tk.msg)
    BY <1>1 DEF Again
  <2>3. CopyOf(p, Again(tk)).src = p /\ CopyOf(p, Again(tk)).msg = tk.msg
    BY <2>2 DEF CopyOf
  <2>4. \A q \in Party : \A t \in tasks'[q] :
            t \in tasks[q] \/ (q = p /\ t = Again(tk))
    BY <2>1 DEF TypeOK
  <2>5. \A k \in net' : k \in net \/ k = CopyOf(p, Again(tk))
    BY <2>1 DEF Survivors
  <2>6. \A q \in Party : \A t \in tasks'[q] : Kept(q, t.msg)
    BY <1>1, <2>2, <2>4
  <2>7. \A k \in net' : Kept(k.src, k.msg)
    BY <1>1, <2>2, <2>3, <2>5
  <2> QED BY <1>1, <1>2, <2>6, <2>7, RepeatKeeps
<1>5. CASE TaskGiveUp(p)
  <2>1. \A k \in net' : k \in net
    BY <1>5 DEF TaskGiveUp, Survivors
  <2>2. \A q \in Party : tasks'[q] \subseteq tasks[q]
    <3>1. CASE ExitIfAsyncError
      BY <1>5, <3>1 DEF TaskGiveUp
    <3>2. CASE ~ExitIfAsyncError
      <4>1. PICK tk \in tasks[p] : Finish(p, tk)
        BY <1>5, <3>2 DEF TaskGiveUp
      <4> QED BY <4>1 DEF Finish, TypeOK
    <3> QED BY <3>1, <3>2
  <2> QED BY <1>1, <1>2, <2>1, <2>2, RepeatKeeps
<1> QED BY <1>3, <1>4, <1>5

(* A pop leaves in the queues what was in them. *)
LEMMA PopKeeps ==
    ASSUME TypeOK, NEW p \in Party, send_msgs[p] # << >>,
           send_msgs' = [send_msgs EXCEPT ![p] = Tail(@)],
           NEW q \in Party, NEW i \in DOMAIN send_msgs'[q]
    PROVE  \E j \in DOMAIN send_msgs[q] : send_msgs'[q][i] = send_msgs[q][j]
<1>1. send_msgs[p] \in Seq(Msg)
  BY DEF TypeOK
<1>2. CASE q = p
  <2>1. send_msgs'[q] = Tail(send_msgs[q])
    BY <1>2 DEF TypeOK
  <2>2. i \in DOMAIN Tail(send_msgs[p])
    BY <1>2, <2>1, Zenon
  <2>3. i + 1 \in DOMAIN send_msgs[p] /\ Tail(send_msgs[p])[i] = send_msgs[p][i + 1]
    BY <1>1, <2>2, TailAt, Zenon
  <2> QED BY <1>2, <2>1, <2>3, Zenon
<1>3. CASE q # p
  BY <1>3 DEF TypeOK
<1> QED BY <1>2, <1>3

LEMMA SendThreadKeeps ==
    ASSUME TypeOK, NEW p \in Party, SendThread(p)
    PROVE  NothingPushed
<1>1. /\ \A q \in Party : \A tk \in tasks[q] : Kept(q, tk.msg)
      /\ \A k \in net : Kept(k.src, k.msg)
      /\ \A q \in Party : \A r \in recv_msgs[Peer(q)] : Kept(q, r)
  BY DEF Carries, Kept
<1>2. UNCHANGED recv_msgs
  BY DEF SendThread, SenderPop, SenderStop, SenderThrottleReturn,
         SenderThrottleTimeout, SenderDrain, SenderExit, SenderCatch, recvVars
<1>3. CASE SenderPop(p) \/ SenderDrain(p)
  <2> DEFINE h == Head(send_msgs[p])
  <2>1. /\ send_msgs[p] # << >>
        /\ SubmitSendTasks(p, {h})
        /\ send_msgs' = [send_msgs EXCEPT ![p] = Tail(@)]
    BY <1>3 DEF SenderPop, SenderDrain
  <2>2. send_msgs[p] \in Seq(Msg)
    BY DEF TypeOK
  <2>3. h \in Msg /\ h = send_msgs[p][1] /\ 1 \in DOMAIN send_msgs[p]
    BY <2>1, <2>2
  <2>4. Kept(p, h)
    BY <2>3 DEF Carries, Kept
  <2>6. ASSUME NEW q \in Party, NEW i \in DOMAIN send_msgs'[q]
        PROVE  \E j \in DOMAIN send_msgs[q] : send_msgs'[q][i] = send_msgs[q][j]
    BY <2>1, <2>6, PopKeeps, Zenon
  <2> HIDE DEF h
  <2> QED BY <1>2, <2>1, <2>3, <2>4, <2>6, SubmitKeeps
<1>4. CASE SenderStop(p) \/ SenderThrottleReturn(p) \/ SenderThrottleTimeout(p)
             \/ SenderExit(p) \/ SenderCatch(p)
  <2>1. UNCHANGED <<send_msgs, tasks, net>>
    BY <1>4 DEF SenderStop, SenderThrottleReturn, SenderThrottleTimeout,
                SenderExit, SenderCatch, taskVars
  <2> QED BY <1>1, <1>2, <2>1, RepeatKeeps
<1> QED BY <1>3, <1>4 DEF SendThread

LEMMA StartFailureKeeps ==
    ASSUME TypeOK, NEW p \in Party, StartFailure(p)
    PROVE  NothingPushed
<1>1. /\ \A q \in Party : \A tk \in tasks[q] : Kept(q, tk.msg)
      /\ \A k \in net : Kept(k.src, k.msg)
      /\ \A q \in Party : \A r \in recv_msgs[Peer(q)] : Kept(q, r)
  BY DEF Carries, Kept
<1>2. CASE SenderStartFails(p)
  <2>1. /\ send_msgs[p] # << >>
        /\ send_msgs' = [send_msgs EXCEPT ![p] = Tail(@)]
        /\ UNCHANGED <<tasks, net, recv_msgs>>
    BY <1>2, Zenon DEF SenderStartFails, recvVars
  <2>2. ASSUME NEW q \in Party, NEW i \in DOMAIN send_msgs'[q]
        PROVE  \E j \in DOMAIN send_msgs[q] : send_msgs'[q][i] = send_msgs[q][j]
    BY <2>1, <2>2, PopKeeps, Zenon
  <2>3. ASSUME NEW q \in Party, NEW m, Carries(q, m)' PROVE Carries(q, m)
    <3>1. CASE \E i \in DOMAIN send_msgs'[q] : m = send_msgs'[q][i]
      BY <2>2, <3>1, Zenon DEF Carries
    <3>2. CASE ~\E i \in DOMAIN send_msgs'[q] : m = send_msgs'[q][i]
      BY <2>1, <2>3, <3>2 DEF Carries
    <3> QED BY <3>1, <3>2
  <2> QED BY <2>3, Zenon DEF NothingPushed, Kept
<1>3. CASE OnUnwantedFails(p) \/ \E c \in Ctx : RecvAckFails(p, c) \/ SendFinFails(p, c)
  <2>1. /\ net' \subseteq net /\ UNCHANGED <<send_msgs, recv_msgs>>
        /\ UNCHANGED tasks \/ \E m \in net : tasks' = Answered(m)
    BY <1>3, Zenon DEF OnUnwantedFails, RecvAckFails, SendFinFails, CloseStep, sendVars,
                       recvVars
  <2>2. /\ \A q \in Party : \A tk \in tasks'[q] : Kept(q, tk.msg)
        /\ \A k \in net' : Kept(k.src, k.msg)
        /\ \A q \in Party : \A r \in recv_msgs'[Peer(q)] : Kept(q, r)
    <3>1. \A q \in Party : \A tk \in tasks'[q] : \E t \in tasks[q] : t.msg = tk.msg
      BY <2>1, AnsweredKeeps, Zenon
    <3> QED BY <1>1, <2>1, <3>1
  <2> QED BY <2>1, <2>2, RepeatKeeps
<1>4. ASSUME NEW c \in Ctx, StopReceivingFails(p, c) PROVE NothingPushed
  <2>1. PICK S \in SUBSET Unread(p) :
          /\ tasks' = [tasks EXCEPT ![p] = @ \cup {NewTask(Ack(s)) : s \in S}]
          /\ net' = net \cup {NewCopy(p, Ack(s)) : s \in S}
          /\ acked' = [acked EXCEPT ![p] = @ \cup S]
    BY <1>4, Zenon DEF StopReceivingFails
  <2>2. UNCHANGED <<send_msgs, recv_msgs>>
    BY <1>4, Zenon DEF StopReceivingFails, sendVars, recvVars
  <2>3. \A s \in S : Kept(p, Ack(s))
    BY <2>1 DEF Kept, Ack, TypeOK
  <2>4. ASSUME NEW q \in Party, NEW tk \in tasks'[q] PROVE Kept(q, tk.msg)
    <3>1. tk \in tasks[q] \/ (q = p /\ \E s \in S : tk = NewTask(Ack(s)))
      BY <2>1, <2>4 DEF TypeOK
    <3>2. \A s \in S : NewTask(Ack(s)).msg = Ack(s)
      BY DEF NewTask
    <3> QED BY <1>1, <2>3, <3>1, <3>2, Zenon
  <2>5. ASSUME NEW k \in net' PROVE Kept(k.src, k.msg)
    <3>1. k \in net \/ \E s \in S : k = NewCopy(p, Ack(s))
      BY <2>1, <2>5
    <3>2. \A s \in S : NewCopy(p, Ack(s)).msg = Ack(s) /\ NewCopy(p, Ack(s)).src = p
      BY DEF NewCopy
    <3> QED BY <1>1, <2>3, <3>1, <3>2, Zenon
  <2>6. \A q \in Party : \A r \in recv_msgs'[Peer(q)] : Kept(q, r)
    BY <1>1, <2>2
  <2> QED BY <2>2, <2>4, <2>5, <2>6, RepeatKeeps, Zenon
<1> QED BY <1>2, <1>3, <1>4, Zenon DEF StartFailure

LEMMA ThreadKeeps ==
    ASSUME TypeOK, NEW p \in Party, NEW c \in Ctx,
           \/ Call(p, c) \/ ThreadRecv(p, c) \/ ThreadClose(p, c)
           \/ ThreadSend(p, c) /\ ~SendPush(p, c)
    PROVE  NothingPushed
<1>1. /\ \A q \in Party : \A tk \in tasks[q] : Kept(q, tk.msg)
      /\ \A k \in net : Kept(k.src, k.msg)
      /\ \A q \in Party : \A r \in recv_msgs[Peer(q)] : Kept(q, r)
  BY DEF Carries, Kept
<1>2. UNCHANGED send_msgs
  BY Zenon DEF Call, SendBegin, StopReceivingAndAckUnreadMsgs, ThreadRecv, RecvTake,
         RecvAck, RecvWait, RecvTimeout, ThreadClose, SendFin, WaitForFinAndFlyingMsg,
         WaitAsyncSendToFinish, WaitForFlyingAck, ThreadSend, SendNumber,
         SendReturn, SendAsyncThrottledReturn, SendAsyncThrottledTimeout, sendVars
<1>3. \A q \in Party : \A i \in DOMAIN send_msgs'[q] :
          \E j \in DOMAIN send_msgs[q] : send_msgs'[q][i] = send_msgs[q][j]
  BY <1>2
<1>4. CASE RecvAck(p, c)
  <2>1. {Ack(seq[p][c])} \in SUBSET Msg
    BY MsgTyped DEF TypeOK
  <2>2. Kept(p, Ack(seq[p][c]))
    BY <1>4 DEF RecvAck, Kept, Ack, TypeOK
  <2>3. SubmitSendTasks(p, {Ack(seq[p][c])}) /\ UNCHANGED recv_msgs
    BY <1>4 DEF RecvAck, recvVars
  <2> QED BY <1>3, <2>1, <2>2, <2>3, SubmitKeeps, Zenon
<1>5. CASE StopReceivingAndAckUnreadMsgs(p, c)
  <2> DEFINE M == {Ack(s) : s \in Unread(p)}
  <2>1. Unread(p) \in SUBSET Nat
    BY UnreadTyped
  <2>2. M \in SUBSET Msg
    BY <2>1, MsgTyped, Zenon
  <2>3. \A m \in M : Kept(p, m)
    <3>1. acked \in [Party -> SUBSET Nat]
      BY DEF TypeOK
    <3>2. Unread(p) \subseteq acked'[p]
      BY <1>5, <3>1 DEF StopReceivingAndAckUnreadMsgs
    <3>3. \A s \in Unread(p) : Kept(p, Ack(s))
      BY <3>2 DEF Kept, Ack
    <3> QED BY <3>3, Zenon
  <2>4. /\ SubmitSendTasks(p, M)
        /\ \A q \in Party : recv_msgs'[q] \subseteq recv_msgs[q]
    BY <1>5 DEF StopReceivingAndAckUnreadMsgs, TypeOK
  <2> HIDE DEF M
  <2> QED BY <1>3, <2>2, <2>3, <2>4, SubmitKeeps, Zenon
<1>6. CASE SendFin(p, c)
  <2>1. {Fin(msg_seq_id[p])} \in SUBSET Msg
    BY MsgTyped DEF TypeOK
  <2>2. Kept(p, Fin(msg_seq_id[p]))
    BY Zenon DEF Kept, Fin
  <2>3. SubmitSendTasks(p, {Fin(msg_seq_id[p])}) /\ UNCHANGED recv_msgs
    BY <1>6 DEF SendFin, CloseStep, recvVars
  <2> QED BY <1>3, <2>1, <2>2, <2>3, SubmitKeeps, Zenon
<1>7. CASE RecvTake(p, c)
  <2>1. UNCHANGED <<tasks, net>> /\ \A q \in Party : recv_msgs'[q] \subseteq recv_msgs[q]
    BY <1>7 DEF RecvTake, taskVars, TypeOK
  <2> QED BY <1>1, <1>2, <2>1, PeerIsParty, RepeatKeeps, Zenon
<1>8. CASE \/ SendBegin(p, c) \/ RecvWait(p, c) \/ RecvTimeout(p, c)
           \/ WaitForFinAndFlyingMsg(p, c) \/ WaitAsyncSendToFinish(p, c)
           \/ WaitForFlyingAck(p, c)
           \/ ThreadSend(p, c) /\ ~SendPush(p, c)
  <2>1. UNCHANGED <<tasks, net, recv_msgs>>
    BY <1>8, Zenon DEF SendBegin, RecvWait, RecvTimeout, WaitForFinAndFlyingMsg,
         WaitAsyncSendToFinish, WaitForFlyingAck, CloseStep, ThreadSend,
         SendNumber, SendReturn, SendAsyncThrottledReturn,
         SendAsyncThrottledTimeout, taskVars, recvVars
  <2> QED BY <1>1, <1>2, <2>1, RepeatKeeps
<1> QED BY <1>4, <1>5, <1>6, <1>7, <1>8 DEF Call, ThreadRecv, ThreadClose
-----------------------------------------------------------------------------
LEMMA PostedKept ==
    ASSUME NothingPushed
    PROVE  \A p \in Party : Posted(p)' \subseteq Posted(p)
  BY DEF NothingPushed, Kept, Posted

(* A step that numbers and pushes nothing. *)
LEMMA SenderFrame ==
    ASSUME TypeOK, TypeOK', SenderInv, NothingPushed,
           UNCHANGED <<msg_seq_id, nsend>>,
           \A p \in Party, c \in Ctx : pc'[p][c] \in SendOps =>
               pc[p][c] \in SendOps /\ seq'[p][c] = seq[p][c]
    PROVE  SenderInv'
<1>1. \A p \in Party : Posted(p)' \subseteq Posted(p)
  BY PostedKept
<1>2. \A k \in Key : k[1] \in Ctx
  BY DEF Key
<1>3. ASSUME NEW p \in Party, NEW m \in Posted(p)' PROVE Numbered(p, m)'
  BY <1>1, <1>2, <1>3 DEF SenderInv, Numbered
<1>4. ASSUME NEW p \in Party, NEW c \in Ctx PROVE Fresh(p, c)'
  BY <1>1, <1>4 DEF SenderInv, Fresh
<1> QED BY <1>1, <1>3, <1>4 DEF SenderInv

LEMMA SendBeginSender ==
    ASSUME TypeOK, TypeOK', SenderInv, NEW p \in Party, NEW c \in Ctx, SendBegin(p, c)
    PROVE  SenderInv'
<1>1. NothingPushed
  BY ThreadKeeps DEF Call
<1>2. \A q \in Party : Posted(q)' \subseteq Posted(q)
  BY <1>1, PostedKept
<1>3. /\ pc[p][c] = "idle"
      /\ \A q \in Party, d \in Ctx : (q # p \/ d # c) =>
            /\ pc'[q][d] = pc[q][d]
            /\ nsend'[q][d] = nsend[q][d]
            /\ seq'[q][d] = seq[q][d]
      /\ nsend'[p][c] = nsend[p][c] + 1
      /\ seq'[p][c] = 0
      /\ UNCHANGED msg_seq_id
  <2>1. PICK op \in Modes : pc' = [pc EXCEPT ![p][c] = op]
    BY Zenon DEF SendBegin
  <2>2. /\ pc[p][c] = "idle"
        /\ nsend' = [nsend EXCEPT ![p][c] = @ + 1]
        /\ seq' = [seq EXCEPT ![p][c] = 0]
        /\ UNCHANGED msg_seq_id
    BY DEF SendBegin, sendVars
  <2>3. /\ pc \in [Party -> [Ctx -> ThreadPc]]
        /\ seq \in [Party -> [Ctx -> Nat]]
        /\ nsend \in [Party -> [Ctx -> Nat]]
    BY DEF TypeOK
  <2> QED BY <2>1, <2>2, <2>3
<1>4. ASSUME NEW q \in Party, NEW m \in Posted(q)' PROVE Numbered(q, m)'
  <2>1. Numbered(q, m)
    BY <1>2, <1>4 DEF SenderInv
  <2>2. m.key[1] \in Ctx /\ m.key[2] \in Nat
    BY <2>1 DEF Numbered, Key
  <2>3. nsend[q][m.key[1]] \in Nat
    <3>1. nsend \in [Party -> [Ctx -> Nat]]
      BY DEF TypeOK
    <3> QED BY <2>2, <3>1
  <2>4. CASE q = p /\ m.key[1] = c
    <3>1. m.key[2] < nsend'[q][m.key[1]]
      <4>1. m.key[2] <= nsend[q][m.key[1]]
        BY <2>1 DEF Numbered
      <4>2. nsend'[q][m.key[1]] = nsend[q][m.key[1]] + 1
        BY <1>3, <2>4
      <4> QED BY <2>2, <2>3, <4>1, <4>2
    <3>2. m.key[2] <= nsend'[q][m.key[1]]
      <4>1. nsend'[q][m.key[1]] \in Nat
        BY <1>3, <2>3, <2>4
      <4> QED BY <2>2, <3>1, <4>1
    <3>3. m.seq \in 1 .. msg_seq_id'[q] /\ m.key \in Key
      BY <1>3, <2>1 DEF Numbered
    <3> QED BY <3>1, <3>2, <3>3 DEF Numbered
  <2>5. CASE ~(q = p /\ m.key[1] = c)
    BY <1>3, <2>1, <2>2, <2>3, <2>5 DEF Numbered
  <2> QED BY <2>4, <2>5
<1>5. ASSUME NEW q \in Party, NEW d \in Ctx PROVE Fresh(q, d)'
  <2>1. CASE q = p /\ d = c
    <3>1. msg_seq_id[q] \in Nat
      BY DEF TypeOK
    <3>2. ASSUME NEW m \in Posted(q)' PROVE m.seq # 0
      BY <1>2, <3>1, <3>2 DEF SenderInv, Numbered
    <3> QED BY <1>3, <2>1, <3>1, <3>2 DEF Fresh
  <2>2. CASE ~(q = p /\ d = c)
    <3>1. pc'[q][d] = pc[q][d] /\ seq'[q][d] = seq[q][d] /\ Fresh(q, d)
      BY <1>3, <2>2 DEF SenderInv
    <3>2. ASSUME NEW e \in Ctx, pc'[q][d] \in SendOps, pc'[q][e] \in SendOps,
                 seq'[q][d] = seq'[q][e]
          PROVE  seq'[q][d] = 0 \/ d = e
      <4>1. CASE q = p /\ e = c
        BY <1>3, <3>2, <4>1
      <4>2. CASE ~(q = p /\ e = c)
        BY <1>3, <3>1, <3>2, <4>2 DEF Fresh
      <4> QED BY <4>1, <4>2
    <3> QED BY <1>2, <1>3, <3>1, <3>2 DEF Fresh
  <2> QED BY <2>1, <2>2
<1> QED BY <1>2, <1>4, <1>5 DEF SenderInv

LEMMA SendNumberSender ==
    ASSUME TypeOK, TypeOK', SenderInv, NEW p \in Party, NEW c \in Ctx, SendNumber(p, c)
    PROVE  SenderInv'
<1>1. NothingPushed
  <2>1. ~SendPush(p, c)
    BY DEF SendNumber, SendPush
  <2> QED BY <2>1, ThreadKeeps DEF ThreadSend
<1>2. \A q \in Party : Posted(q)' \subseteq Posted(q)
  BY <1>1, PostedKept
<1>3. /\ \A q \in Party, d \in Ctx : (q # p \/ d # c) => seq'[q][d] = seq[q][d]
      /\ \A q \in Party : q # p => msg_seq_id'[q] = msg_seq_id[q]
      /\ msg_seq_id'[p] = msg_seq_id[p] + 1
      /\ seq'[p][c] = msg_seq_id[p] + 1
      /\ UNCHANGED <<pc, nsend>>
  <2>1. /\ msg_seq_id' = [msg_seq_id EXCEPT ![p] = @ + 1]
        /\ seq' = [seq EXCEPT ![p][c] = msg_seq_id[p] + 1]
        /\ UNCHANGED <<pc, nsend>>
    BY DEF SendNumber
  <2>2. /\ msg_seq_id \in [Party -> Nat]
        /\ seq \in [Party -> [Ctx -> Nat]]
    BY DEF TypeOK
  <2> QED BY <2>1, <2>2
<1>4. \A q \in Party : /\ msg_seq_id[q] \in Nat /\ msg_seq_id'[q] \in Nat
                       /\ msg_seq_id[q] <= msg_seq_id'[q]
  <2>1. msg_seq_id \in [Party -> Nat]
    BY DEF TypeOK
  <2> QED BY <1>3, <2>1
<1>5. ASSUME NEW q \in Party, NEW m \in Posted(q)' PROVE Numbered(q, m)'
  <2>1. Numbered(q, m)
    BY <1>2, <1>5 DEF SenderInv
  <2>2. m.seq \in 1 .. msg_seq_id'[q]
    BY <1>4, <2>1 DEF Numbered
  <2> QED BY <1>3, <2>1, <2>2 DEF Numbered
<1>6. ASSUME NEW q \in Party, NEW d \in Ctx PROVE Fresh(q, d)'
  <2>1. \A m \in Posted(q)' : m.seq \in 1 .. msg_seq_id[q]
    BY <1>2 DEF SenderInv, Numbered
  <2>2. \A e \in Ctx : pc[q][e] \in SendOps => seq[q][e] <= msg_seq_id[q]
    BY DEF SenderInv, Fresh
  <2>3. \A e \in Ctx : seq[q][e] \in Nat
    BY DEF TypeOK
  <2>4. CASE q = p /\ d = c
    BY <1>3, <1>4, <2>1, <2>2, <2>3, <2>4 DEF Fresh
  <2>5. CASE ~(q = p /\ d = c)
    <3>1. seq'[q][d] = seq[q][d] /\ Fresh(q, d)
      <4>1. Fresh(q, d)
        BY Zenon DEF SenderInv
      <4>2. seq'[q][d] = seq[q][d]
        BY <1>3, <2>5, Zenon
      <4> QED BY <4>1, <4>2
    <3>2. ASSUME NEW e \in Ctx, pc[q][d] \in SendOps, pc[q][e] \in SendOps,
                 seq'[q][d] = seq'[q][e]
          PROVE  seq'[q][d] = 0 \/ d = e
      <4>1. CASE q = p /\ e = c
        BY <1>3, <1>4, <2>2, <2>3, <3>1, <3>2, <4>1
      <4>2. CASE ~(q = p /\ e = c)
        BY <1>3, <3>1, <3>2, <4>2 DEF Fresh
      <4> QED BY <4>1, <4>2
    <3>3. pc[q][d] \in SendOps => seq'[q][d] <= msg_seq_id'[q]
      <4>1. pc[q][d] \in SendOps => seq[q][d] <= msg_seq_id[q]
        BY <2>2
      <4>2. seq[q][d] \in Nat /\ msg_seq_id[q] \in Nat /\ msg_seq_id'[q] \in Nat
             /\ msg_seq_id[q] <= msg_seq_id'[q]
        BY <1>4, <2>3
      <4>3. seq'[q][d] = seq[q][d]
        BY <3>1
      <4>4. seq[q][d] <= msg_seq_id[q] => seq[q][d] <= msg_seq_id'[q]
        BY <4>2
      <4> QED BY <4>1, <4>3, <4>4, Zenon
    <3>4. pc[q][d] \in SendOps => \A m \in Posted(q)' : m.seq # seq'[q][d]
      BY <1>2, <3>1, Zenon DEF Fresh
    <3>5. UNCHANGED pc
      BY <1>3
    <3> QED BY <3>2, <3>3, <3>4, <3>5, Zenon DEF Fresh
  <2> QED BY <2>4, <2>5
<1> QED BY <1>2, <1>5, <1>6 DEF SenderInv

LEMMA SendPushSender ==
    ASSUME TypeOK, TypeOK', SenderInv, NEW p \in Party, NEW c \in Ctx, SendPush(p, c)
    PROVE  SenderInv'
<1> DEFINE new == Normal(<<c, nsend[p][c]>>, seq[p][c])
<1>1. /\ pc[p][c] \in SendOps
      /\ seq[p][c] > 0
      /\ send_msgs' = [send_msgs EXCEPT ![p] = Append(@, new)]
      /\ UNCHANGED <<msg_seq_id, seq, nsend, tasks, net, recv_msgs>>
  BY DEF SendPush, taskVars, recvVars
<1>2. /\ \A q \in Party, d \in Ctx : (q # p \/ d # c) => pc'[q][d] = pc[q][d]
      /\ pc'[p][c] \notin SendOps
  <2>1. PICK v \in {"wait_sent", "wait_window", "idle"} : pc' = [pc EXCEPT ![p][c] = v]
    BY Zenon DEF SendPush
  <2>2. v \notin SendOps
    BY DEF SendOps
  <2>3. pc \in [Party -> [Ctx -> ThreadPc]]
    BY DEF TypeOK
  <2> QED BY <2>1, <2>2, <2>3
<1>3. /\ new.kind = "MSG" /\ new.key = <<c, nsend[p][c]>> /\ new.seq = seq[p][c]
      /\ new \in Msg
  <2>1. nsend[p][c] \in Nat /\ seq[p][c] \in Nat
    BY DEF TypeOK
  <2>2. new \in Msg
    BY <2>1, MsgTyped
  <2> QED BY <2>2 DEF Normal
<1> HIDE DEF new
<1>4. /\ \A q \in Party : q # p => Posted(q)' \subseteq Posted(q)
      /\ Posted(p)' \subseteq Posted(p) \cup {new}
  <2>1. ASSUME NEW q \in Party, NEW i \in DOMAIN send_msgs'[q]
        PROVE  \/ \E j \in DOMAIN send_msgs[q] : send_msgs'[q][i] = send_msgs[q][j]
               \/ q = p /\ send_msgs'[q][i] = new
    <3>1. send_msgs[q] \in Seq(Msg)
      BY DEF TypeOK
    <3>2. CASE q = p
      <4>1. send_msgs'[q] = Append(send_msgs[q], new)
        BY <1>1, <3>2 DEF TypeOK
      <4>2. i \in DOMAIN Append(send_msgs[q], new)
        BY <2>1, <4>1, Zenon
      <4>3. \/ i \in DOMAIN send_msgs[q] /\ Append(send_msgs[q], new)[i] = send_msgs[q][i]
            \/ Append(send_msgs[q], new)[i] = new
        BY <1>3, <3>1, <4>2, AppendAt, Zenon
      <4> QED BY <3>2, <4>1, <4>3, Zenon
    <3>3. CASE q # p
      BY <1>1, <2>1, <3>3 DEF TypeOK
    <3> QED BY <3>2, <3>3
  <2>2. ASSUME NEW q \in Party, NEW m, Carries(q, m)'
        PROVE  Carries(q, m) \/ (q = p /\ m = new)
    BY <1>1, <2>1, <2>2, Zenon DEF Carries
  <2> QED BY <2>2 DEF Posted
<1>5. /\ c \in Ctx /\ nsend[p][c] \in Nat /\ seq[p][c] \in Nat /\ msg_seq_id[p] \in Nat
      /\ seq[p][c] <= msg_seq_id[p]
  <2>1. nsend[p][c] \in Nat /\ seq[p][c] \in Nat /\ msg_seq_id[p] \in Nat
    <3>1. /\ nsend \in [Party -> [Ctx -> Nat]] /\ seq \in [Party -> [Ctx -> Nat]]
          /\ msg_seq_id \in [Party -> Nat]
      BY Zenon DEF TypeOK
    <3> QED BY <3>1
  <2>2. Fresh(p, c)
    BY Zenon DEF SenderInv
  <2> QED BY <1>1, <2>1, <2>2 DEF Fresh
<1>6. ASSUME NEW m \in Posted(p) PROVE m.key # new.key /\ m.seq # new.seq
  <2>1. Numbered(p, m) /\ m.seq # seq[p][c]
    BY <1>1, <1>6, Zenon DEF SenderInv, Fresh
  <2>2. m.key[1] = c => m.key[2] < nsend[p][c]
    BY <1>1, <2>1 DEF Numbered
  <2>3. SUFFICES ASSUME m.key = <<c, nsend[p][c]>> PROVE FALSE
    BY <1>3, <2>1
  <2>4. m.key[1] = c /\ m.key[2] = nsend[p][c]
    <3>1. <<c, nsend[p][c]>>[1] = c /\ <<c, nsend[p][c]>>[2] = nsend[p][c]
      OBVIOUS
    <3> QED BY <2>3, <3>1, Zenon
  <2> QED BY <1>5, <2>2, <2>4
<1>7. ASSUME NEW q \in Party, NEW m \in Posted(q)' PROVE Numbered(q, m)'
  <2>1. CASE m \in Posted(q)
    <3>1. Numbered(q, m)
      BY <2>1 DEF SenderInv
    <3>2. m.key[1] \in Ctx
      BY <3>1 DEF Numbered, Key
    <3>3. pc'[q][m.key[1]] \in SendOps => pc[q][m.key[1]] \in SendOps
      BY <1>2, <3>2
    <3> QED BY <1>1, <3>1, <3>3 DEF Numbered
  <2>2. CASE q = p /\ m = new
    <3>1. m.key \in Key /\ m.key[1] = c /\ m.key[2] = nsend[p][c]
      <4>1. m.key = <<c, nsend[p][c]>>
        BY <1>3, <2>2, Zenon
      <4> QED BY <1>5, <4>1 DEF Key
    <3>2. m.seq \in 1 .. msg_seq_id'[p]
      <4>1. m.seq = seq[p][c] /\ UNCHANGED msg_seq_id
        BY <1>1, <1>3, <2>2
      <4> QED BY <1>1, <1>5, <4>1
    <3>3. m.key[2] <= nsend'[p][m.key[1]] /\ pc'[p][m.key[1]] \notin SendOps
      <4>1. m.key[2] <= nsend[p][c]
        BY <1>5, <3>1
      <4>2. nsend' = nsend /\ pc'[p][c] \notin SendOps
        BY <1>1, <1>2, Zenon
      <4> QED BY <3>1, <4>1, <4>2, Zenon
    <3> QED BY <2>2, <3>1, <3>2, <3>3 DEF Numbered
  <2> QED BY <1>4, <1>7, <2>1, <2>2
<1>8. ASSUME NEW q \in Party, NEW m \in Posted(q)', NEW n \in Posted(q)',
             m.key = n.key \/ m.seq = n.seq
      PROVE  m = n
  BY <1>4, <1>6, <1>8 DEF SenderInv
<1>9. ASSUME NEW q \in Party, NEW d \in Ctx, pc'[q][d] \in SendOps PROVE Fresh(q, d)'
  <2>1. (q # p \/ d # c) /\ pc[q][d] \in SendOps /\ Fresh(q, d)
    BY <1>2, <1>9 DEF SenderInv
  <2>2. q = p => seq[q][d] # new.seq
    <3>1. SUFFICES ASSUME q = p, seq[p][d] = seq[p][c] PROVE FALSE
      BY <1>3
    <3>2. Fresh(p, d) /\ pc[p][d] \in SendOps /\ d # c /\ seq[p][d] # 0
      <4>1. seq[p][c] # 0
        <5>1. seq[p][c] > 0 /\ seq[p][c] \in Nat
          BY <1>1, <1>5, Zenon
        <5> QED BY <5>1
      <4> QED BY <2>1, <3>1, <4>1, Zenon
    <3> QED BY <1>1, <3>1, <3>2, Zenon DEF Fresh
  <2>3. \A m \in Posted(q)' : m.seq # seq[q][d]
    BY <1>4, <2>1, <2>2 DEF Fresh
  <2>4. \A e \in Ctx : pc'[q][e] \in SendOps => pc[q][e] \in SendOps
    BY <1>2
  <2> QED BY <1>1, <2>1, <2>3, <2>4 DEF Fresh
<1>10. \A q \in Party, d \in Ctx : Fresh(q, d)'
  BY <1>9 DEF Fresh
<1> QED BY <1>7, <1>8, <1>10 DEF SenderInv
-----------------------------------------------------------------------------
(* Steps that leave the threads in SendOps, and the numbering, alone. *)
SendersKept ==
    /\ UNCHANGED <<msg_seq_id, nsend>>
    /\ \A p \in Party, c \in Ctx : pc'[p][c] \in SendOps =>
           pc[p][c] \in SendOps /\ seq'[p][c] = seq[p][c]

LEMMA PartySendersKept ==
    ASSUME NEW p \in Party,
           SendThread(p) \/ TaskDone(p) \/ TaskRetry(p) \/ TaskGiveUp(p) \/ OnRequest(p)
    PROVE  SendersKept
<1>1. UNCHANGED <<msg_seq_id, nsend, pc, seq>>
  <2>1. CASE SendThread(p)
    BY <2>1, ZenonT(30) DEF SendThread, SenderPop, SenderStop, SenderThrottleReturn,
                SenderThrottleTimeout, SenderDrain, SenderExit, SenderCatch, appVars
  <2>2. CASE TaskDone(p) \/ TaskRetry(p) \/ TaskGiveUp(p) \/ OnRequest(p)
    BY <2>2, Zenon DEF TaskDone, TaskRetry, TaskGiveUp, OnRequest, sendVars, appVars
  <2> QED BY <2>1, <2>2
<1> QED BY <1>1 DEF SendersKept

(* A thread that leaves or is outside the Send operations disturbs none.    *)
LEMMA LeavesSenders ==
    ASSUME TypeOK, NEW p \in Party, NEW c \in Ctx, NEW v, v \notin SendOps,
           pc' = [pc EXCEPT ![p][c] = v],
           UNCHANGED <<msg_seq_id, nsend>>,
           UNCHANGED seq \/ \E s : seq' = [seq EXCEPT ![p][c] = s]
    PROVE  SendersKept
<1>0. pc \in [Party -> [Ctx -> ThreadPc]] /\ seq \in [Party -> [Ctx -> Nat]]
  BY DEF TypeOK
<1>1. \A q \in Party, d \in Ctx : (q # p \/ d # c) => pc'[q][d] = pc[q][d]
  BY <1>0
<1>2. pc'[p][c] \notin SendOps
  BY <1>0
<1>3. \A q \in Party, d \in Ctx : (q # p \/ d # c) => seq'[q][d] = seq[q][d]
  BY <1>0
<1> QED BY <1>1, <1>2, <1>3 DEF SendersKept

LEMMA ThreadSendersKept ==
    ASSUME TypeOK, NEW p \in Party, NEW c \in Ctx,
           \/ SendReturn(p, c) \/ SendAsyncThrottledReturn(p, c)
           \/ SendAsyncThrottledTimeout(p, c)
           \/ ThreadRecv(p, c) \/ StopReceivingAndAckUnreadMsgs(p, c)
           \/ ThreadClose(p, c)
    PROVE  SendersKept
<1>0. /\ "idle" \notin SendOps /\ "wait_msg" \notin SendOps /\ "send_ack" \notin SendOps
      /\ "send_fin" \notin SendOps
      /\ \A to \in {"wait_fin", "join", "wait_acks", "closed"} : to \notin SendOps
  BY DEF SendOps
<1>1. CASE \/ SendReturn(p, c) \/ SendAsyncThrottledReturn(p, c)
           \/ SendAsyncThrottledTimeout(p, c)
  <2>1. pc' = [pc EXCEPT ![p][c] = "idle"] /\ UNCHANGED <<msg_seq_id, nsend, seq>>
    BY <1>1 DEF SendReturn, SendAsyncThrottledReturn, SendAsyncThrottledTimeout,
                sendVars
  <2> QED BY <1>0, <2>1, LeavesSenders, Zenon
<1>2. CASE RecvTake(p, c)
  <2>1. /\ pc' = [pc EXCEPT ![p][c] = "send_ack"]
        /\ UNCHANGED <<msg_seq_id, nsend>>
        /\ \E s : seq' = [seq EXCEPT ![p][c] = s]
    BY <1>2, Zenon DEF RecvTake, sendVars
  <2> QED BY <1>0, <2>1, LeavesSenders, Zenon
<1>3. CASE RecvAck(p, c) \/ RecvTimeout(p, c)
  <2>1. pc' = [pc EXCEPT ![p][c] = "idle"] /\ UNCHANGED <<msg_seq_id, nsend, seq>>
    BY <1>3 DEF RecvAck, RecvTimeout, sendVars
  <2> QED BY <1>0, <2>1, LeavesSenders, Zenon
<1>4. CASE RecvWait(p, c)
  <2>1. pc' = [pc EXCEPT ![p][c] = "wait_msg"] /\ UNCHANGED <<msg_seq_id, nsend, seq>>
    BY <1>4 DEF RecvWait, sendVars
  <2> QED BY <1>0, <2>1, LeavesSenders, Zenon
<1>5. CASE StopReceivingAndAckUnreadMsgs(p, c)
  <2>1. pc' = [pc EXCEPT ![p][c] = "send_fin"] /\ UNCHANGED <<msg_seq_id, nsend, seq>>
    BY <1>5 DEF StopReceivingAndAckUnreadMsgs, sendVars
  <2> QED BY <1>0, <2>1, LeavesSenders, Zenon
<1>6. CASE ThreadClose(p, c)
  <2>1. PICK to \in {"wait_fin", "join", "wait_acks", "closed"} :
             pc' = [pc EXCEPT ![p][c] = to]
    BY <1>6, Zenon DEF ThreadClose, SendFin, WaitForFinAndFlyingMsg,
                WaitAsyncSendToFinish, WaitForFlyingAck, CloseStep
  <2>2. /\ UNCHANGED <<msg_seq_id, nsend>>
        /\ UNCHANGED seq \/ \E s : seq' = [seq EXCEPT ![p][c] = s]
    BY <1>6, Zenon DEF ThreadClose, SendFin, WaitForFinAndFlyingMsg,
                WaitAsyncSendToFinish, WaitForFlyingAck, CloseStep, sendVars
  <2> QED BY <1>0, <2>1, <2>2, LeavesSenders, ZenonT(30)
<1> QED BY <1>1, <1>2, <1>3, <1>4, <1>5, <1>6 DEF ThreadRecv

LEMMA StartFailureSendersKept ==
    ASSUME TypeOK, NEW p \in Party, StartFailure(p)
    PROVE  SendersKept
<1>1. CASE \/ SenderStartFails(p) \/ OnUnwantedFails(p)
           \/ \E c \in Ctx : StopReceivingFails(p, c)
  <2>1. UNCHANGED <<msg_seq_id, nsend, pc, seq>>
    BY <1>1, Zenon DEF SenderStartFails, OnUnwantedFails, StopReceivingFails,
                       sendVars, appVars
  <2> QED BY <2>1, Zenon DEF SendersKept
<1>2. ASSUME NEW c \in Ctx, RecvAckFails(p, c) \/ SendFinFails(p, c)
      PROVE  SendersKept
  <2>1. pc' = [pc EXCEPT ![p][c] = "idle"] /\ UNCHANGED <<msg_seq_id, nsend, seq>>
    BY <1>2, Zenon DEF RecvAckFails, SendFinFails, CloseStep, sendVars
  <2>2. "idle" \notin SendOps
    BY DEF SendOps
  <2> QED BY <2>1, <2>2, LeavesSenders, Zenon
<1> QED BY <1>1, <1>2, Zenon DEF StartFailure

LEMMA SenderStep ==
    ASSUME TypeOK, TypeOK', SenderInv, Next
    PROVE  SenderInv'
<1>1. ASSUME NEW p \in Party, NEW c \in Ctx,
             Call(p, c) \/ ThreadSend(p, c) \/ ThreadRecv(p, c) \/ ThreadClose(p, c)
      PROVE  SenderInv'
  <2>1. CASE SendBegin(p, c)
    BY <2>1, SendBeginSender
  <2>2. CASE SendNumber(p, c)
    BY <2>2, SendNumberSender
  <2>3. CASE SendPush(p, c)
    BY <2>3, SendPushSender
  <2>4. CASE ~SendBegin(p, c) /\ ~SendNumber(p, c) /\ ~SendPush(p, c)
    <3>1. NothingPushed
      BY <1>1, <2>4, ThreadKeeps
    <3>2. SendersKept
      BY <1>1, <2>4, ThreadSendersKept DEF Call, ThreadSend
    <3> QED BY <3>1, <3>2, SenderFrame DEF SendersKept
  <2> QED BY <2>1, <2>2, <2>3, <2>4
<1>2. ASSUME NEW p \in Party,
             SendThread(p) \/ TaskDone(p) \/ TaskRetry(p) \/ TaskGiveUp(p)
               \/ OnRequest(p) \/ StartFailure(p)
      PROVE  SenderInv'
  <2>1. NothingPushed
    BY <1>2, SendThreadKeeps, TaskKeeps, RequestKeeps, StartFailureKeeps
  <2>2. SendersKept
    BY <1>2, PartySendersKept, StartFailureSendersKept
  <2> QED BY <2>1, <2>2, SenderFrame, Zenon DEF SendersKept
<1>3. CASE Finished
  <2>1. NothingPushed
    BY <1>3 DEF Finished, NothingPushed, Kept, Carries, vars, sendVars,
                taskVars, recvVars
  <2>2. SendersKept
    BY <1>3 DEF Finished, SendersKept, vars, sendVars, appVars
  <2> QED BY <2>1, <2>2, SenderFrame DEF SendersKept
<1> QED BY <1>1, <1>2, <1>3 DEF Next
=============================================================================
