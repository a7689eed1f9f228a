--------------------------- MODULE ChannelProofs ---------------------------
(***************************************************************************)
(* Type correctness of Channel, for any number of contexts, messages,      *)
(* retries and faults and any throttle window.                             *)
(***************************************************************************)
EXTENDS Channel, IdSetProofs

(* A message makes a well-typed task and a well-typed copy. *)
LEMMA NewTyped ==
    ASSUME NEW m \in Msg, NEW p \in Party
    PROVE  NewTask(m) \in Task /\ NewCopy(p, m) \in Copy
  BY DEF NewTask, NewCopy, Task, Copy

LEMMA MsgTyped ==
    ASSUME NEW n \in Nat
    PROVE  /\ Ack(n) \in Msg /\ Fin(n) \in Msg
           /\ \A c \in Ctx, k \in Nat : Normal(<<c, k>>, n) \in Msg
  BY DEF Ack, Fin, Normal, Msg, Key

(* Submitting messages keeps the types of tasks and net. *)
LEMMA SubmitTyped ==
    ASSUME TypeOK, NEW p \in Party, NEW M \in SUBSET Msg, SubmitSendTasks(p, M)
    PROVE  /\ tasks' \in [Party -> SUBSET Task]
           /\ net' \in SUBSET Copy
           /\ UNCHANGED <<finished_ids, exited, faults>>
<1>1. {NewTask(m) : m \in M} \in SUBSET Task
  BY NewTyped
<1>2. {NewCopy(p, m) : m \in M} \in SUBSET Copy
  BY NewTyped
<1> QED BY <1>1, <1>2 DEF SubmitSendTasks, TypeOK

(* A response keeps the type of tasks. *)
LEMMA AnsweredTyped ==
    ASSUME TypeOK, NEW m \in Copy
    PROVE  Answered(m) \in [Party -> SUBSET Task]
<1>1. m.src \in Party
  BY DEF Copy
<1>2. ASSUME NEW tk \in tasks[m.src]
      PROVE  [tk EXCEPT !.replied = @ \/ CopyOf(m.src, tk) = m] \in Task
  <2>1. tk \in Task
    BY <1>1 DEF TypeOK
  <2> QED BY <2>1, Zenon DEF Task
<1>3. Replied(m) \in SUBSET Task
  BY <1>2 DEF Replied
<1> QED BY <1>1, <1>3 DEF Answered, TypeOK

LEMMA FinishTyped ==
    ASSUME TypeOK, NEW p \in Party, NEW tk \in tasks[p], Finish(p, tk)
    PROVE  /\ tasks' \in [Party -> SUBSET Task]
           /\ finished_ids' \in [Party -> SUBSET Nat]
<1>1. tk \in Task /\ tk.msg.seq \in Nat
  BY DEF TypeOK, Task, Msg
<1> QED BY <1>1 DEF Finish, TypeOK

(* What a queue holds after a push and after a pop. *)
LEMMA AppendAt ==
    ASSUME NEW S, NEW s \in Seq(S), NEW e \in S, NEW i \in DOMAIN Append(s, e)
    PROVE  \/ i \in DOMAIN s /\ Append(s, e)[i] = s[i]
           \/ i = Len(s) + 1 /\ Append(s, e)[i] = e
<1>1. /\ Len(s) \in Nat /\ DOMAIN s = 1 .. Len(s)
      /\ DOMAIN Append(s, e) = 1 .. Len(s) + 1
  OBVIOUS
<1> QED BY <1>1

LEMMA TailAt ==
    ASSUME NEW S, NEW s \in Seq(S), s # << >>, NEW i \in DOMAIN Tail(s)
    PROVE  i + 1 \in DOMAIN s /\ Tail(s)[i] = s[i + 1]
<1>1. /\ Len(s) \in Nat /\ DOMAIN s = 1 .. Len(s)
      /\ DOMAIN Tail(s) = 1 .. Len(s) - 1
  OBVIOUS
<1> QED BY <1>1

LEMMA PeerIsParty ==
    \A p \in Party : Peer(p) \in Party /\ Peer(Peer(p)) = p /\ Peer(p) # p
  BY DEF Party, Peer

LEMMA UnreadTyped ==
    ASSUME TypeOK, NEW p \in Party
    PROVE  Unread(p) \in SUBSET Nat
<1>1. recv_msgs[p] \in SUBSET Msg
  BY DEF TypeOK
<1>2. \A r \in recv_msgs[p] : r.seq \in Nat
  BY <1>1 DEF Msg
<1> QED BY <1>2 DEF Unread
-----------------------------------------------------------------------------
(* The sending operations. *)
LEMMA SendTyped ==
    ASSUME TypeOK, NEW p \in Party, NEW c \in Ctx,
           SendBegin(p, c) \/ ThreadSend(p, c)
    PROVE  TypeOK'
<1>1. CASE SendBegin(p, c)
  <2>1. PICK op \in Modes : pc' = [pc EXCEPT ![p][c] = op]
    BY <1>1, Zenon DEF SendBegin
  <2>2. op \in ThreadPc
    BY ConstantsAssumption DEF ThreadPc
  <2>3. pc \in [Party -> [Ctx -> ThreadPc]]
    BY DEF TypeOK
  <2>4. pc' \in [Party -> [Ctx -> ThreadPc]]
    BY <2>1, <2>2, <2>3
  <2>5. nsend' \in [Party -> [Ctx -> Nat]] /\ seq' \in [Party -> [Ctx -> Nat]]
    <3>1. nsend \in [Party -> [Ctx -> Nat]] /\ seq \in [Party -> [Ctx -> Nat]]
      BY DEF TypeOK
    <3> QED BY <1>1, <3>1 DEF SendBegin
  <2>6. UNCHANGED <<sendVars, recvVars, taskVars, histVars, waiting_finish, nrecv>>
    BY <1>1 DEF SendBegin
  <2> QED BY <2>4, <2>5, <2>6, Zenon DEF TypeOK, sendVars, recvVars, taskVars, histVars
<1>2. CASE SendNumber(p, c)
  <2>1. msg_seq_id' \in [Party -> Nat] /\ seq' \in [Party -> [Ctx -> Nat]]
    <3>1. msg_seq_id \in [Party -> Nat] /\ seq \in [Party -> [Ctx -> Nat]]
      BY DEF TypeOK
    <3> QED BY <1>2, <3>1 DEF SendNumber
  <2>2. UNCHANGED <<send_msgs, send_thread_stopped, sender, throttled, recvVars,
                    taskVars, histVars, waiting_finish, pc, nsend, nrecv>>
    BY <1>2 DEF SendNumber
  <2> QED BY <2>1, <2>2, Zenon DEF TypeOK, recvVars, taskVars, histVars
<1>3. CASE SendPush(p, c)
  <2>1. Normal(<<c, nsend[p][c]>>, seq[p][c]) \in Msg
    BY MsgTyped DEF TypeOK
  <2>2. send_msgs' \in [Party -> Seq(Msg)]
    BY <1>3, <2>1 DEF SendPush, TypeOK
  <2>3. pc' \in [Party -> [Ctx -> ThreadPc]]
    BY <1>3 DEF SendPush, TypeOK, ThreadPc, SendOps
  <2> QED BY <1>3, <2>2, <2>3, Zenon
          DEF SendPush, TypeOK, recvVars, taskVars, histVars
<1>4. CASE SendReturn(p, c)
  BY <1>4 DEF SendReturn, TypeOK, ThreadPc, sendVars, recvVars, taskVars, histVars
<1>5. CASE SendAsyncThrottledReturn(p, c)
  BY <1>5 DEF SendAsyncThrottledReturn, TypeOK, ThreadPc, sendVars, recvVars,
              taskVars, histVars
<1>6. CASE SendAsyncThrottledTimeout(p, c)
  BY <1>6 DEF SendAsyncThrottledTimeout, TypeOK, ThreadPc, sendVars, recvVars,
              taskVars, histVars
<1> QED BY <1>1, <1>2, <1>3, <1>4, <1>5, <1>6 DEF ThreadSend

(* The send thread. *)
LEMMA SendThreadTyped ==
    ASSUME TypeOK, NEW p \in Party, SendThread(p)
    PROVE  TypeOK'
<1>0. ASSUME send_msgs[p] # << >>
      PROVE  Head(send_msgs[p]) \in Msg /\ Tail(send_msgs[p]) \in Seq(Msg)
  <2>1. send_msgs[p] \in Seq(Msg)
    BY DEF TypeOK
  <2> QED BY <1>0, <2>1
<1>1. CASE SenderPop(p)
  <2>1. {Head(send_msgs[p])} \in SUBSET Msg /\ Head(send_msgs[p]).seq \in Nat
    BY <1>0, <1>1 DEF SenderPop, Msg
  <2>2. /\ tasks' \in [Party -> SUBSET Task]
        /\ net' \in SUBSET Copy
        /\ UNCHANGED <<finished_ids, exited, faults>>
    BY <1>1, <2>1, SubmitTyped DEF SenderPop
  <2>3. send_msgs' \in [Party -> Seq(Msg)]
    BY <1>0, <1>1 DEF SenderPop, TypeOK
  <2>4. sender' \in [Party -> SenderPc]
    BY <1>1 DEF SenderPop, LoopTest, TypeOK, SenderPc
  <2> QED BY <1>1, <2>1, <2>2, <2>3, <2>4
          DEF SenderPop, TypeOK, SenderPc, recvVars, appVars, histVars
<1>2. CASE SenderStop(p)
  BY <1>2 DEF SenderStop, TypeOK, SenderPc, recvVars, taskVars, appVars, histVars
<1>3. CASE SenderThrottleReturn(p)
  BY <1>3 DEF SenderThrottleReturn, LoopTest, TypeOK, SenderPc, recvVars, taskVars,
              appVars, histVars
<1>4. CASE SenderThrottleTimeout(p)
  BY <1>4 DEF SenderThrottleTimeout, TypeOK, SenderPc, recvVars, appVars, histVars
<1>5. CASE SenderDrain(p)
  <2>1. {Head(send_msgs[p])} \in SUBSET Msg
    BY <1>0, <1>5 DEF SenderDrain
  <2>2. /\ tasks' \in [Party -> SUBSET Task]
        /\ net' \in SUBSET Copy
        /\ UNCHANGED <<finished_ids, exited, faults>>
    BY <1>5, <2>1, SubmitTyped DEF SenderDrain
  <2>3. send_msgs' \in [Party -> Seq(Msg)]
    BY <1>0, <1>5 DEF SenderDrain, TypeOK
  <2> QED BY <1>5, <2>2, <2>3
          DEF SenderDrain, TypeOK, recvVars, appVars, histVars
<1>6. CASE SenderExit(p)
  BY <1>6, Zenon DEF SenderExit, TypeOK, SenderPc, recvVars, taskVars, appVars, histVars
<1>7. CASE SenderCatch(p)
  BY <1>7 DEF SenderCatch, TypeOK, SenderPc, recvVars, appVars, histVars
<1> QED BY <1>1, <1>2, <1>3, <1>4, <1>5, <1>6, <1>7 DEF SendThread

(* The SendTasks. *)
LEMMA TaskTyped ==
    ASSUME TypeOK, NEW p \in Party, TaskDone(p) \/ TaskRetry(p) \/ TaskGiveUp(p)
    PROVE  TypeOK'
<1>0. ASSUME NEW tk \in tasks[p]
      PROVE  tk \in Task /\ tk.attempt \in Nat /\ tk.msg \in Msg
             /\ Survivors(p, tk) \subseteq SUBSET Copy
  BY <1>0 DEF TypeOK, Task, Survivors
<1>1. CASE TaskDone(p)
  <2>1. PICK tk \in tasks[p] :
          /\ Finish(p, tk)
          /\ UNCHANGED <<net, exited, faults, sendVars, recvVars, appVars, histVars>>
    BY <1>1 DEF TaskDone
  <2>2. /\ tasks' \in [Party -> SUBSET Task]
        /\ finished_ids' \in [Party -> SUBSET Nat]
    BY <2>1, FinishTyped
  <2> QED BY <2>1, <2>2 DEF TypeOK, sendVars, recvVars, appVars, histVars
<1>2. CASE TaskRetry(p)
  <2>1. PICK tk \in tasks[p] :
          /\ Fault
          /\ tasks' = [tasks EXCEPT ![p] = (@ \ {tk}) \cup {Again(tk)}]
          /\ \E left \in Survivors(p, tk) : net' = left \cup {CopyOf(p, Again(tk))}
          /\ UNCHANGED <<finished_ids, exited, sendVars, recvVars, appVars, histVars>>
    BY <1>2, Zenon DEF TaskRetry
  <2>2. tk \in Task /\ Survivors(p, tk) \subseteq SUBSET Copy
    BY <1>0
  <2>3. Again(tk) \in Task
    BY <2>2 DEF Task, Again
  <2>4. CopyOf(p, Again(tk)) \in Copy
    BY <2>3 DEF CopyOf, Copy, Task
  <2>5. tasks' \in [Party -> SUBSET Task] /\ net' \in SUBSET Copy
    BY <2>1, <2>2, <2>3, <2>4 DEF TypeOK
  <2>6. faults' \in Nat
    BY <2>1 DEF Fault, TypeOK
  <2> QED BY <2>1, <2>5, <2>6 DEF TypeOK, sendVars, recvVars, appVars, histVars
<1>3. CASE TaskGiveUp(p)
  <2>1. PICK tk \in tasks[p] :
          /\ Fault
          /\ net' \in Survivors(p, tk)
          /\ IF ExitIfAsyncError
               THEN /\ exited' = exited \cup {p}
                    /\ UNCHANGED <<tasks, finished_ids>>
               ELSE /\ Finish(p, tk)
                    /\ UNCHANGED exited
          /\ UNCHANGED <<sendVars, recvVars, appVars, histVars>>
    BY <1>3 DEF TaskGiveUp
  <2>2. net' \in SUBSET Copy /\ faults' \in Nat
    BY <1>0, <2>1 DEF Fault, TypeOK
  <2>3. /\ tasks' \in [Party -> SUBSET Task]
        /\ finished_ids' \in [Party -> SUBSET Nat]
        /\ exited' \in SUBSET Party
    <3>1. CASE ExitIfAsyncError
      BY <2>1, <3>1 DEF TypeOK
    <3>2. CASE ~ExitIfAsyncError
      BY <2>1, <3>2, FinishTyped DEF TypeOK
    <3> QED BY <3>1, <3>2
  <2> QED BY <2>1, <2>2, <2>3 DEF TypeOK, sendVars, recvVars, appVars, histVars
<1> QED BY <1>1, <1>2, <1>3

(* The handlers of requests. *)
LEMMA RequestTyped ==
    ASSUME TypeOK, NEW q \in Party, OnRequest(q)
    PROVE  TypeOK'
<1>1. PICK m \in net :
        /\ q = Peer(m.src)
        /\ OnAck(m, q) \/ OnFin(m, q) \/ OnDuplicate(m, q)
             \/ OnNormalMessage(m, q) \/ OnUnwanted(m, q)
        /\ UNCHANGED <<finished_ids, exited, faults, sendVars, appVars, consumed>>
  BY DEF OnRequest
<1>2. m \in Copy /\ m.msg \in Msg /\ m.msg.seq \in Nat /\ net \ {m} \in SUBSET Copy
  BY DEF TypeOK, Copy, Msg
<1>3. Answered(m) \in [Party -> SUBSET Task]
  BY <1>2, AnsweredTyped
<1>4. CASE OnAck(m, q)
  <2>1. received_ack_ids' \in [Party -> SUBSET Nat]
    <3>1. received_ack_ids \in [Party -> SUBSET Nat]
      BY DEF TypeOK
    <3> QED BY <1>2, <1>4, <3>1 DEF OnAck, Insert
  <2>2. /\ tasks' = Answered(m) /\ net' = net \ {m}
        /\ UNCHANGED <<recv_msgs, received_msg_ids, received_fin, peer_sent_msg_count,
                       acked>>
    BY <1>4 DEF OnAck
  <2> QED BY <1>1, <1>2, <1>3, <2>1, <2>2 DEF TypeOK, sendVars, appVars
<1>5. CASE OnFin(m, q)
  <2>1. /\ received_fin' \in [Party -> BOOLEAN]
        /\ peer_sent_msg_count' \in [Party -> Nat]
    <3>1. /\ received_fin \in [Party -> BOOLEAN]
          /\ peer_sent_msg_count \in [Party -> Nat]
      BY DEF TypeOK
    <3> QED BY <1>2, <1>5, <3>1 DEF OnFin
  <2>2. /\ tasks' = Answered(m) /\ net' = net \ {m}
        /\ UNCHANGED <<recv_msgs, received_msg_ids, received_ack_ids, acked>>
    BY <1>5 DEF OnFin
  <2> QED BY <1>1, <1>2, <1>3, <2>1, <2>2 DEF TypeOK, sendVars, appVars
<1>6. CASE OnDuplicate(m, q)
  <2>1. tasks' = Answered(m) /\ net' = net \ {m} /\ UNCHANGED <<recvVars, acked>>
    BY <1>6, Zenon DEF OnDuplicate
  <2> QED BY <1>1, <1>2, <1>3, <2>1 DEF TypeOK, recvVars, sendVars, appVars
<1>7. CASE OnNormalMessage(m, q)
  <2>1. /\ tasks' \in [Party -> SUBSET Task]
        /\ recv_msgs' \in [Party -> SUBSET Msg]
    <3>1. CASE KeyInUse(m, q)
      BY <1>7, <3>1 DEF OnNormalMessage, TypeOK
    <3>2. CASE ~KeyInUse(m, q)
      <4>1. /\ recv_msgs' = [recv_msgs EXCEPT ![q] = @ \cup {m.msg}]
            /\ tasks' = Answered(m)
        BY <1>7, <3>2, Zenon DEF OnNormalMessage
      <4> QED BY <1>2, <1>3, <4>1 DEF TypeOK
    <3> QED BY <3>1, <3>2
  <2>2. received_msg_ids' \in [Party -> SUBSET Nat]
    <3>1. received_msg_ids \in [Party -> SUBSET Nat]
      BY DEF TypeOK
    <3> QED BY <1>2, <1>7, <3>1 DEF OnNormalMessage, Insert
  <2>3. /\ net' = net \ {m}
        /\ UNCHANGED <<received_ack_ids, received_fin, peer_sent_msg_count, acked>>
    BY <1>7, Zenon DEF OnNormalMessage
  <2> QED BY <1>1, <1>2, <2>1, <2>2, <2>3, Zenon DEF TypeOK, sendVars, appVars
<1>8. CASE OnUnwanted(m, q)
  <2>1. NewTask(Ack(m.msg.seq)) \in Task /\ NewCopy(q, Ack(m.msg.seq)) \in Copy
    BY <1>2, MsgTyped, NewTyped
  <2>2. tasks' \in [Party -> SUBSET Task] /\ net' \in SUBSET Copy
    BY <1>2, <1>3, <1>8, <2>1 DEF OnUnwanted
  <2>3. /\ received_msg_ids' \in [Party -> SUBSET Nat]
        /\ acked' \in [Party -> SUBSET Nat]
    <3>1. /\ received_msg_ids \in [Party -> SUBSET Nat]
          /\ acked \in [Party -> SUBSET Nat]
      BY DEF TypeOK
    <3> QED BY <1>2, <1>8, <3>1 DEF OnUnwanted, Insert
  <2>4. UNCHANGED <<recv_msgs, received_ack_ids, received_fin, peer_sent_msg_count>>
    BY <1>8 DEF OnUnwanted
  <2> QED BY <1>1, <2>2, <2>3, <2>4 DEF TypeOK, sendVars, appVars
<1> QED BY <1>1, <1>4, <1>5, <1>6, <1>7, <1>8

(* Recv. *)
LEMMA RecvTyped ==
    ASSUME TypeOK, NEW p \in Party, NEW c \in Ctx, ThreadRecv(p, c)
    PROVE  TypeOK'
<1>1. CASE RecvTake(p, c)
  <2>1. PICK r \in recv_msgs[p] :
          /\ recv_msgs' = [recv_msgs EXCEPT ![p] = @ \ {r}]
          /\ seq' = [seq EXCEPT ![p][c] = r.seq]
          /\ consumed' = [consumed EXCEPT ![p] = @ \cup {r.seq}]
    BY <1>1, Zenon DEF RecvTake, Awaited
  <2>2. r.seq \in Nat
    BY DEF TypeOK, Msg
  <2>3. /\ pc' = [pc EXCEPT ![p][c] = "send_ack"]
        /\ nrecv' = [nrecv EXCEPT ![p][c] = @ + 1]
        /\ UNCHANGED <<sendVars, received_msg_ids, received_ack_ids, received_fin,
                       peer_sent_msg_count, taskVars, acked, waiting_finish, nsend>>
    BY <1>1 DEF RecvTake
  <2>4. /\ pc' \in [Party -> [Ctx -> ThreadPc]]
        /\ nrecv' \in [Party -> [Ctx -> Nat]]
        /\ seq' \in [Party -> [Ctx -> Nat]]
    BY <2>1, <2>2, <2>3 DEF TypeOK, ThreadPc
  <2>5. recv_msgs' \in [Party -> SUBSET Msg] /\ consumed' \in [Party -> SUBSET Nat]
    BY <2>1, <2>2 DEF TypeOK
  <2> QED BY <2>3, <2>4, <2>5, Zenon DEF TypeOK, sendVars, taskVars
<1>2. CASE RecvAck(p, c)
  <2>1. seq[p][c] \in Nat /\ {Ack(seq[p][c])} \in SUBSET Msg
    BY MsgTyped DEF TypeOK
  <2>2. /\ tasks' \in [Party -> SUBSET Task]
        /\ net' \in SUBSET Copy
        /\ UNCHANGED <<finished_ids, exited, faults>>
    BY <1>2, <2>1, SubmitTyped DEF RecvAck
  <2> QED BY <1>2, <2>1, <2>2, Zenon DEF RecvAck, TypeOK, ThreadPc, sendVars, recvVars
<1>3. CASE RecvTimeout(p, c)
  <2>1. /\ nrecv' \in [Party -> [Ctx -> Nat]]
        /\ pc' \in [Party -> [Ctx -> ThreadPc]]
    BY <1>3 DEF RecvTimeout, TypeOK, ThreadPc
  <2> QED BY <1>3, <2>1, Zenon
          DEF RecvTimeout, TypeOK, sendVars, recvVars, taskVars, histVars
<1>4. CASE RecvWait(p, c)
  BY <1>4 DEF RecvWait, TypeOK, ThreadPc, sendVars, recvVars, taskVars, histVars
<1> QED BY <1>1, <1>2, <1>3, <1>4 DEF ThreadRecv

(* WaitLinkTaskFinish. *)
LEMMA CloseTyped ==
    ASSUME TypeOK, NEW p \in Party, NEW c \in Ctx,
           StopReceivingAndAckUnreadMsgs(p, c) \/ ThreadClose(p, c)
    PROVE  TypeOK'
<1>1. CASE StopReceivingAndAckUnreadMsgs(p, c)
  <2>1. Unread(p) \in SUBSET Nat
    BY UnreadTyped
  <2>2. {Ack(s) : s \in Unread(p)} \in SUBSET Msg
    BY <2>1, MsgTyped
  <2>3. /\ tasks' \in [Party -> SUBSET Task]
        /\ net' \in SUBSET Copy
        /\ UNCHANGED <<finished_ids, exited, faults>>
    BY <1>1, <2>2, SubmitTyped DEF StopReceivingAndAckUnreadMsgs
  <2> QED BY <1>1, <2>1, <2>3, Zenon
          DEF StopReceivingAndAckUnreadMsgs, TypeOK, ThreadPc, sendVars
<1>2. CASE SendFin(p, c)
  <2>1. {Fin(msg_seq_id[p])} \in SUBSET Msg
    BY MsgTyped DEF TypeOK
  <2>2. /\ tasks' \in [Party -> SUBSET Task]
        /\ net' \in SUBSET Copy
        /\ UNCHANGED <<finished_ids, exited, faults>>
    BY <1>2, <2>1, SubmitTyped DEF SendFin
  <2> QED BY <1>2, <2>2, Zenon
          DEF SendFin, CloseStep, TypeOK, ThreadPc, sendVars, recvVars, histVars
<1>3. CASE WaitForFinAndFlyingMsg(p, c)
  BY <1>3 DEF WaitForFinAndFlyingMsg, CloseStep, TypeOK, ThreadPc, recvVars,
              taskVars, histVars
<1>4. CASE WaitAsyncSendToFinish(p, c)
  BY <1>4 DEF WaitAsyncSendToFinish, CloseStep, TypeOK, ThreadPc, sendVars,
              recvVars, taskVars, histVars
<1>5. CASE WaitForFlyingAck(p, c)
  BY <1>5 DEF WaitForFlyingAck, CloseStep, TypeOK, ThreadPc, sendVars,
              recvVars, taskVars, histVars
<1> QED BY <1>1, <1>2, <1>3, <1>4, <1>5 DEF ThreadClose

(* The callers of SubmitSendTask when the task does not start. *)
LEMMA StartFailureTyped ==
    ASSUME TypeOK, NEW p \in Party, StartFailure(p)
    PROVE  TypeOK'
<1>0. StartFails => faults' \in Nat
  BY DEF StartFails, Fault, TypeOK
<1>1. CASE SenderStartFails(p)
  <2>1. /\ Head(send_msgs[p]) \in Msg
        /\ Tail(send_msgs[p]) \in Seq(Msg)
    <3>1. send_msgs[p] \in Seq(Msg) /\ send_msgs[p] # << >>
      BY <1>1 DEF SenderStartFails, TypeOK
    <3> QED BY <3>1
  <2>2. Head(send_msgs[p]).seq \in Nat
    BY <2>1 DEF Msg
  <2>3. send_msgs' \in [Party -> Seq(Msg)]
    BY <1>1, <2>1 DEF SenderStartFails, TypeOK
  <2>4. finished_ids' \in [Party -> SUBSET Nat]
    BY <1>1, <2>2 DEF SenderStartFails, TypeOK
  <2>5. sender' \in [Party -> SenderPc]
    BY <1>1 DEF SenderStartFails, TypeOK, SenderPc
  <2>6. /\ StartFails
        /\ UNCHANGED <<msg_seq_id, send_thread_stopped, throttled, recvVars, tasks,
                       net, exited, appVars, histVars>>
    BY <1>1, Zenon DEF SenderStartFails
  <2> QED BY <1>0, <2>3, <2>4, <2>5, <2>6, Zenon DEF TypeOK, recvVars, appVars, histVars
<1>2. CASE OnUnwantedFails(p)
  <2>1. PICK m \in net :
          /\ StartFails
          /\ Insert(m, p)
          /\ net' = net \ {m}
          /\ \/ tasks' = Answered(m) /\ UNCHANGED exited
             \/ exited' = exited \cup {p} /\ UNCHANGED tasks
          /\ UNCHANGED <<finished_ids, sendVars, appVars, histVars, recv_msgs,
                         received_ack_ids, received_fin, peer_sent_msg_count>>
    BY <1>2, Zenon DEF OnUnwantedFails
  <2>2. m.msg.seq \in Nat /\ net' \in SUBSET Copy
    BY <2>1 DEF TypeOK, Copy, Msg
  <2>3. received_msg_ids' \in [Party -> SUBSET Nat]
    <3>1. received_msg_ids \in [Party -> SUBSET Nat]
      BY DEF TypeOK
    <3> QED BY <2>1, <2>2, <3>1 DEF Insert
  <2>4. tasks' \in [Party -> SUBSET Task] /\ exited' \in SUBSET Party
    <3>1. Answered(m) \in [Party -> SUBSET Task]
      BY <2>1, AnsweredTyped DEF TypeOK
    <3> QED BY <2>1, <3>1 DEF TypeOK
  <2> QED BY <1>0, <2>1, <2>2, <2>3, <2>4, Zenon DEF TypeOK, sendVars, appVars, histVars
<1>3. ASSUME NEW c \in Ctx, RecvAckFails(p, c) PROVE TypeOK'
  <2>1. pc' \in [Party -> [Ctx -> ThreadPc]]
    BY <1>3 DEF RecvAckFails, TypeOK, ThreadPc
  <2> QED BY <1>0, <1>3, <2>1, Zenon DEF RecvAckFails, TypeOK, sendVars, recvVars, histVars
<1>4. ASSUME NEW c \in Ctx, StopReceivingFails(p, c) PROVE TypeOK'
  <2>1. PICK S \in SUBSET Unread(p) :
          /\ tasks' = [tasks EXCEPT ![p] = @ \cup {NewTask(Ack(s)) : s \in S}]
          /\ net' = net \cup {NewCopy(p, Ack(s)) : s \in S}
          /\ acked' = [acked EXCEPT ![p] = @ \cup S]
    BY <1>4, Zenon DEF StopReceivingFails
  <2>2. S \in SUBSET Nat
    BY UnreadTyped
  <2>3. \A s \in S : NewTask(Ack(s)) \in Task /\ NewCopy(p, Ack(s)) \in Copy
    BY <2>2, MsgTyped, NewTyped
  <2>4. /\ tasks' \in [Party -> SUBSET Task]
        /\ net' \in SUBSET Copy
        /\ acked' \in [Party -> SUBSET Nat]
    BY <2>1, <2>2, <2>3 DEF TypeOK
  <2>5. waiting_finish' \in [Party -> BOOLEAN]
    BY <1>4 DEF StopReceivingFails, TypeOK
  <2>6. /\ StartFails
        /\ UNCHANGED <<sendVars, recvVars, finished_ids, exited, pc, seq, nsend, nrecv,
                       consumed>>
    BY <1>4, Zenon DEF StopReceivingFails
  <2> QED BY <1>0, <2>4, <2>5, <2>6, Zenon DEF TypeOK, sendVars, recvVars
<1>5. ASSUME NEW c \in Ctx, SendFinFails(p, c) PROVE TypeOK'
  <2>1. pc' \in [Party -> [Ctx -> ThreadPc]]
    BY <1>5 DEF SendFinFails, CloseStep, TypeOK, ThreadPc
  <2> QED BY <1>0, <1>5, <2>1, Zenon
          DEF SendFinFails, CloseStep, TypeOK, sendVars, recvVars, histVars
<1> QED BY <1>1, <1>2, <1>3, <1>4, <1>5, Zenon DEF StartFailure
-----------------------------------------------------------------------------
LEMMA TypeInit == Init => TypeOK
  BY DEF Init, TypeOK, SenderPc, ThreadPc

LEMMA TypeStutter == TypeOK /\ UNCHANGED vars => TypeOK'
  BY DEF TypeOK, vars, sendVars, recvVars, taskVars, appVars, histVars

LEMMA TypeStep == TypeOK /\ [Next]_vars => TypeOK'
<1> SUFFICES ASSUME TypeOK, [Next]_vars PROVE TypeOK'
  OBVIOUS
<1>1. ASSUME NEW p \in Party, NEW c \in Ctx,
             Call(p, c) \/ ThreadSend(p, c) \/ ThreadRecv(p, c) \/ ThreadClose(p, c)
      PROVE  TypeOK'
  BY <1>1, SendTyped, RecvTyped, CloseTyped DEF Call
<1>2. ASSUME NEW p \in Party,
             SendThread(p) \/ TaskDone(p) \/ TaskRetry(p) \/ TaskGiveUp(p)
               \/ OnRequest(p) \/ StartFailure(p)
      PROVE  TypeOK'
  BY <1>2, SendThreadTyped, TaskTyped, RequestTyped, StartFailureTyped
<1>3. CASE Finished \/ UNCHANGED vars
  BY <1>3, TypeStutter DEF Finished
<1> QED BY <1>1, <1>2, <1>3 DEF Next

(* Every variable of the two channels keeps its type. *)
THEOREM ChannelTypeCorrect == Spec => []TypeOK
  BY TypeInit, TypeStep, PTL DEF Spec
=============================================================================
