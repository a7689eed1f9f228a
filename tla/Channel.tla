------------------------------ MODULE Channel ------------------------------
(***************************************************************************)
(* yacl/link/transport/channel.{h,cc}: the two Channel objects that        *)
(* connect a pair of parties, and the RPC transport between them.          *)
(*                                                                         *)
(* A party sends keyed messages to its peer.  SendAsync, SendAsyncThrottled*)
(* and Send number a message (msg_seq_id_) and push it on the send queue;  *)
(* the send thread pops messages in queue order and starts one SendTask per*)
(* message; tasks run concurrently, so requests reach the peer in any      *)
(* order, and a request that times out is retried although it may have     *)
(* been (or may still be) delivered.  The receiver drops a sequence id it  *)
(* has seen, stores the message until Recv takes it, and acknowledges it   *)
(* then.  WaitLinkTaskFinish closes the channel: both ends exchange FIN    *)
(* with the number of messages they sent, and wait for every message and   *)
(* every acknowledgement.                                                  *)
(*                                                                         *)
(* A party runs one thread per Context (context.cc: a Context is used by   *)
(* one thread; Spawn gives other threads contexts that share the channel). *)
(* The n-th message that context c sends has the key <<c, n>>, which is    *)
(* what NextP2PId produces, and the peer's context c asks for it by that   *)
(* key.  Payloads are not modelled: a value is identified by its key.      *)
(***************************************************************************)
EXTENDS IdSet, Sequences

CONSTANTS
    Ctx,               \* the contexts of a party, one thread each
    MsgLimit,          \* bound: messages that each context of a party sends
    Modes,             \* the sending operations that the threads use
    Window,            \* throttle_window_size_
    ExitIfAsyncError,  \* exit_if_async_error_
    MaxRetry,          \* retry_options_.max_retry
    RetryAll,          \* should_retry accepts every LinkError
    MaxFaults,         \* bound: requests, and starts of a SendTask, that fail
    ThrottleMayTimeout,\* a full window may outlast recv_timeout_ms_
    StartMayFail       \* bthread_start_background may fail

Party == {0, 1}
Peer(p) == 1 - p
SendOps == {"SendAsync", "SendAsyncThrottled", "Send"}

ASSUME ConstantsAssumption ==
    /\ MsgLimit \in [Party -> Nat]
    /\ Modes \subseteq SendOps
    /\ Window \in Nat
    /\ ExitIfAsyncError \in BOOLEAN
    /\ MaxRetry \in Nat
    /\ RetryAll \in BOOLEAN
    /\ MaxFaults \in Nat
    /\ ThrottleMayTimeout \in BOOLEAN
    /\ StartMayFail \in BOOLEAN

VARIABLES
    msg_seq_id,          \* number of sequence ids handed out
    send_msgs,           \* MessageQueue::queue_
    send_thread_stopped, \* send_thread_stopped_, and MessageQueue::stopped_
    sender,              \* control state of the send thread
    throttled,           \* the wait_count of the send thread's ThrottleWindowWait
    tasks,               \* the SendTasks that run (running_tasks_ of them)
    finished_ids,        \* SendTaskSynchronizer::finished_ids_
    net,                 \* request copies on their way to the peer's OnRequest
    recv_msgs,           \* recv_msgs_
    received_msg_ids,    \* received_msg_ids_
    received_ack_ids,    \* received_ack_ids_
    received_fin,        \* received_fin_
    peer_sent_msg_count, \* peer_sent_msg_count_
    waiting_finish,      \* waiting_finish_
    pc,                  \* control state of each context's thread
    seq,                 \* the seq_id (or sent_msg_count) local to a thread's call
    nsend, nrecv,        \* messages a context sent and asked for
    acked,               \* history: ids for which SendAck was called
    consumed,            \* history: ids that Recv took out of recv_msgs_
    exited,              \* parties whose process called exit(-1)
    faults               \* failed requests and starts so far

sendVars == <<msg_seq_id, send_msgs, send_thread_stopped, sender, throttled>>
recvVars == <<recv_msgs, received_msg_ids, received_ack_ids, received_fin,
              peer_sent_msg_count>>
taskVars == <<tasks, finished_ids, net, exited, faults>>
appVars == <<waiting_finish, pc, seq, nsend, nrecv>>
histVars == <<acked, consumed>>
vars == <<sendVars, recvVars, taskVars, appVars, histVars>>
-----------------------------------------------------------------------------
(* Messages.  A FIN carries the number of messages sent in its seq field,   *)
(* an ACK the acknowledged id.                                              *)
Key == Ctx \X Nat
NoKey == <<>>
Msg == [kind : {"MSG", "ACK", "FIN"}, seq : Nat, key : Key \cup {NoKey}]
Normal(k, s) == [kind |-> "MSG", seq |-> s, key |-> k]
Ack(s) == [kind |-> "ACK", seq |-> s, key |-> NoKey]

(* The seeded defect "the count in a FIN is one too small". *)
FinShort(n) == [kind |-> "FIN", seq |-> n - 1, key |-> NoKey]

Fin(n) == [kind |-> "FIN", seq |-> n, key |-> NoKey]

(* A SendTask in SendRequestWithRetry: its retry_count, and whether the     *)
(* response of the current attempt is on its way back.                      *)
Task == [msg : Msg, attempt : Nat, replied : BOOLEAN]
Copy == [src : Party, msg : Msg, attempt : Nat]

NewTask(m) == [msg |-> m, attempt |-> 0, replied |-> FALSE]
NewCopy(p, m) == [src |-> p, msg |-> m, attempt |-> 0]
CopyOf(p, tk) == [src |-> p, msg |-> tk.msg, attempt |-> tk.attempt]

(* SubmitSendTask of each message of M: the bthread of the task starts.     *)
(* StartFails is the other outcome of the call, which throws; what becomes  *)
(* of its caller is an action of its own for each caller.                   *)
SubmitSendTasks(p, M) ==
    /\ tasks' = [tasks EXCEPT ![p] = @ \cup {NewTask(m) : m \in M}]
    /\ net' = net \cup {NewCopy(p, m) : m \in M}
    /\ UNCHANGED <<finished_ids, exited, faults>>

Fault ==
    /\ faults < MaxFaults
    /\ faults' = faults + 1

StartFails == StartMayFail /\ Fault

Running(p) == p \notin exited

ThreadPc == SendOps \cup
    {"idle", "wait_sent", "wait_window", "wait_msg", "send_ack", "send_fin", "wait_fin",
     "join", "wait_acks", "closed"}
SenderPc == {"pop", "wait_window", "drain", "failed", "exited"}

Init ==
    /\ msg_seq_id = [p \in Party |-> 0]
    /\ send_msgs = [p \in Party |-> << >>]
    /\ send_thread_stopped = [p \in Party |-> FALSE]
    /\ sender = [p \in Party |-> "pop"]
    /\ throttled = [p \in Party |-> 0]
    /\ tasks = [p \in Party |-> {}]
    /\ finished_ids = [p \in Party |-> {}]
    /\ net = {}
    /\ recv_msgs = [p \in Party |-> {}]
    /\ received_msg_ids = [p \in Party |-> {}]
    /\ received_ack_ids = [p \in Party |-> {}]
    /\ received_fin = [p \in Party |-> FALSE]
    /\ peer_sent_msg_count = [p \in Party |-> 0]
    /\ waiting_finish = [p \in Party |-> FALSE]
    /\ pc = [p \in Party |-> [c \in Ctx |-> "idle"]]
    /\ seq = [p \in Party |-> [c \in Ctx |-> 0]]
    /\ nsend = [p \in Party |-> [c \in Ctx |-> 0]]
    /\ nrecv = [p \in Party |-> [c \in Ctx |-> 0]]
    /\ acked = [p \in Party |-> {}]
    /\ consumed = [p \in Party |-> {}]
    /\ exited = {}
    /\ faults = 0
-----------------------------------------------------------------------------
(* The sending operations, called by the thread of context c.               *)

(* Checks of Send, SendAsync and SendAsyncThrottled.  The check of          *)
(* waiting_finish_, the fetch_add and the push are three steps.             *)
SendBegin(p, c) ==
    /\ Running(p)
    /\ pc[p][c] = "idle"
    /\ nsend[p][c] < MsgLimit[p]
    /\ ~waiting_finish[p]
    /\ \E op \in Modes : pc' = [pc EXCEPT ![p][c] = op]
    /\ nsend' = [nsend EXCEPT ![p][c] = @ + 1]
    /\ seq' = [seq EXCEPT ![p][c] = 0]
    /\ UNCHANGED <<sendVars, recvVars, taskVars, histVars, waiting_finish, nrecv>>

(* seq_id = msg_seq_id_.fetch_add(1) + 1 *)
SendNumber(p, c) ==
    /\ Running(p)
    /\ pc[p][c] \in SendOps
    /\ seq[p][c] = 0
    /\ msg_seq_id' = [msg_seq_id EXCEPT ![p] = @ + 1]
    /\ seq' = [seq EXCEPT ![p][c] = msg_seq_id[p] + 1]
    /\ UNCHANGED <<send_msgs, send_thread_stopped, sender, throttled, recvVars,
                   taskVars, histVars, waiting_finish, pc, nsend, nrecv>>

(* The seeded defect "one message more than the window may fly". *)
BlockedLate(p, wait_count) ==
    Window # 0 /\ Cardinality(received_ack_ids[p]) + Window < wait_count

(* The seeded defect "the window is one message too small". *)
BlockedEarly(p, wait_count) ==
    Window # 0 /\ Cardinality(received_ack_ids[p]) + Window <= wait_count + 1

(* The loop condition of ThrottleWindowWait. *)
Blocked(p, wait_count) ==
    Window # 0 /\ Cardinality(received_ack_ids[p]) + Window <= wait_count

(* send_msgs_.Push.  Send then waits for its task, and SendAsyncThrottled   *)
(* for the throttle window.  The window never fills up for a given message, *)
(* so a thread that finds room now does not wait.                           *)
SendPush(p, c) ==
    /\ Running(p)
    /\ pc[p][c] \in SendOps
    /\ seq[p][c] > 0
    /\ send_msgs' = [send_msgs EXCEPT
                       ![p] = Append(@, Normal(<<c, nsend[p][c]>>, seq[p][c]))]
    /\ pc' = [pc EXCEPT ![p][c] =
                 IF @ = "Send" THEN "wait_sent"
                 ELSE IF @ = "SendAsyncThrottled" /\ Blocked(p, seq[p][c])
                        THEN "wait_window" ELSE "idle"]
    /\ UNCHANGED <<msg_seq_id, send_thread_stopped, sender, throttled, recvVars,
                   taskVars, histVars, waiting_finish, seq, nsend, nrecv>>

(* WaitSeqIdSendFinished lets Send return. *)
SendReturn(p, c) ==
    /\ Running(p)
    /\ pc[p][c] = "wait_sent"
    /\ seq[p][c] \in finished_ids[p]
    /\ pc' = [pc EXCEPT ![p][c] = "idle"]
    /\ UNCHANGED <<sendVars, recvVars, taskVars, histVars, waiting_finish, seq,
                   nsend, nrecv>>

(* ThrottleWindowWait in SendAsyncThrottled: it returns when the window has *)
(* room, or throws to the caller when a wait lasted recv_timeout_ms_, even  *)
(* if there is room at last.                                                *)
SendAsyncThrottledReturn(p, c) ==
    /\ Running(p)
    /\ pc[p][c] = "wait_window"
    /\ ~Blocked(p, seq[p][c])
    /\ pc' = [pc EXCEPT ![p][c] = "idle"]
    /\ UNCHANGED <<sendVars, recvVars, taskVars, histVars, waiting_finish, seq,
                   nsend, nrecv>>

SendAsyncThrottledTimeout(p, c) ==
    /\ Running(p)
    /\ pc[p][c] = "wait_window"
    /\ ThrottleMayTimeout
    /\ pc' = [pc EXCEPT ![p][c] = "idle"]
    /\ UNCHANGED <<sendVars, recvVars, taskVars, histVars, waiting_finish, seq,
                   nsend, nrecv>>
-----------------------------------------------------------------------------
(* The send thread. *)

LoopTest(p) == IF send_thread_stopped[p] THEN "drain" ELSE "pop"

(* Pop(true) returns a message; it is submitted and the thread waits for    *)
(* the throttle window.                                                     *)
SenderPop(p) ==
    /\ Running(p)
    /\ sender[p] = "pop"
    /\ send_msgs[p] # << >>
    /\ SubmitSendTasks(p, {Head(send_msgs[p])})
    /\ throttled' = [throttled EXCEPT ![p] = Head(send_msgs[p]).seq]
    /\ send_msgs' = [send_msgs EXCEPT ![p] = Tail(@)]
    /\ sender' = [sender EXCEPT
                    ![p] = IF Blocked(p, Head(send_msgs[p]).seq) THEN "wait_window"
                           ELSE LoopTest(p)]
    /\ UNCHANGED <<msg_seq_id, send_thread_stopped, recvVars, appVars, histVars>>

(* The loop ends: the test of send_thread_stopped_ comes after it was set,  *)
(* at once or when Pop(true) was woken up and had nothing to return.        *)
SenderStop(p) ==
    /\ Running(p)
    /\ sender[p] = "pop"
    /\ send_thread_stopped[p]
    /\ sender' = [sender EXCEPT ![p] = "drain"]
    /\ UNCHANGED <<msg_seq_id, send_msgs, send_thread_stopped, throttled,
                   recvVars, taskVars, appVars, histVars>>

SenderThrottleReturn(p) ==
    /\ Running(p)
    /\ sender[p] = "wait_window"
    /\ ~Blocked(p, throttled[p])
    /\ sender' = [sender EXCEPT ![p] = LoopTest(p)]
    /\ UNCHANGED <<msg_seq_id, send_msgs, send_thread_stopped, throttled,
                   recvVars, taskVars, appVars, histVars>>

(* The exception of a ThrottleWindowWait that times out leaves SendThread:  *)
(* the process exits, or it goes on without a send thread.                  *)
SenderThrottleTimeout(p) ==
    /\ Running(p)
    /\ sender[p] = "wait_window"
    /\ ThrottleMayTimeout
    /\ sender' = [sender EXCEPT ![p] = "exited"]
    /\ exited' = IF ExitIfAsyncError THEN exited \cup {p} ELSE exited
    /\ UNCHANGED <<msg_seq_id, send_msgs, send_thread_stopped, throttled,
                   recvVars, tasks, finished_ids, net, faults, appVars, histVars>>

(* "link is closing, send all pending msgs": no throttling any more. *)
SenderDrain(p) ==
    /\ Running(p)
    /\ sender[p] = "drain"
    /\ send_msgs[p] # << >>
    /\ SubmitSendTasks(p, {Head(send_msgs[p])})
    /\ send_msgs' = [send_msgs EXCEPT ![p] = Tail(@)]
    /\ UNCHANGED <<msg_seq_id, send_thread_stopped, sender, throttled, recvVars,
                   appVars, histVars>>

(* The task of a popped message does not start.  The destructor of the task *)
(* notifies its end, so the id counts as finished although it was not sent, *)
(* and the exception leaves SendThread ...                                  *)
SenderStartFails(p) ==
    /\ Running(p)
    /\ sender[p] \in {"pop", "drain"}
    /\ send_msgs[p] # << >>
    /\ StartFails
    /\ send_msgs' = [send_msgs EXCEPT ![p] = Tail(@)]
    /\ finished_ids' = [finished_ids EXCEPT ![p] = @ \cup {Head(send_msgs[p]).seq}]
    /\ sender' = [sender EXCEPT ![p] = "failed"]
    /\ UNCHANGED <<msg_seq_id, send_thread_stopped, throttled, recvVars, tasks,
                   net, exited, appVars, histVars>>

(* ... and is caught in StartSendThread. *)
SenderCatch(p) ==
    /\ Running(p)
    /\ sender[p] = "failed"
    /\ sender' = [sender EXCEPT ![p] = "exited"]
    /\ exited' = IF ExitIfAsyncError THEN exited \cup {p} ELSE exited
    /\ UNCHANGED <<msg_seq_id, send_msgs, send_thread_stopped, throttled,
                   recvVars, tasks, finished_ids, net, faults, appVars, histVars>>

SenderExit(p) ==
    /\ Running(p)
    /\ sender[p] = "drain"
    /\ send_msgs[p] = << >>
    /\ sender' = [sender EXCEPT ![p] = "exited"]
    /\ UNCHANGED <<msg_seq_id, send_msgs, send_thread_stopped, throttled,
                   recvVars, taskVars, appVars, histVars>>
-----------------------------------------------------------------------------
(* SendTasks and the transport.                                             *)

(* SendImpl returned: the destructor of the task notifies its end. *)
Finish(p, tk) ==
    /\ tasks' = [tasks EXCEPT ![p] = @ \ {tk}]
    /\ finished_ids' = [finished_ids EXCEPT
                          ![p] = @ \cup IF tk.msg.kind = "MSG" THEN {tk.msg.seq}
                                                               ELSE {}]

TaskDone(p) ==
    \E tk \in tasks[p] :
        /\ Running(p)
        /\ tk.replied
        /\ Finish(p, tk)
        /\ UNCHANGED <<net, exited, faults, sendVars, recvVars, appVars, histVars>>

(* A request fails with a LinkError: it was lost, or it is late and may     *)
(* still be delivered, or its response was lost.                            *)
Survivors(p, tk) == {net, net \ {CopyOf(p, tk)}}

(* SendRequestWithRetry tries again. *)
Again(tk) == [msg |-> tk.msg, attempt |-> tk.attempt + 1, replied |-> FALSE]

TaskRetry(p) ==
    \E tk \in tasks[p] :
        /\ Running(p)
        /\ Fault
        /\ tk.attempt < MaxRetry
        /\ tasks' = [tasks EXCEPT ![p] = (@ \ {tk}) \cup {Again(tk)}]
        /\ \E left \in Survivors(p, tk) : net' = left \cup {CopyOf(p, Again(tk))}
        /\ UNCHANGED <<finished_ids, exited, sendVars, recvVars, appVars, histVars>>

(* The seeded defect "exit_if_async_error_ is not looked at". *)
TaskGiveUpAnyway(p) ==
    \E tk \in tasks[p] :
        /\ Running(p)
        /\ Fault
        /\ ~RetryAll \/ tk.attempt >= MaxRetry
        /\ net' \in Survivors(p, tk)
        /\ Finish(p, tk)
        /\ UNCHANGED <<exited, sendVars, recvVars, appVars, histVars>>

(* SendRequestWithRetry throws: SendTask::Proc logs the error and exits the *)
(* process or lets the task end as if the message had been sent.            *)
TaskGiveUp(p) ==
    \E tk \in tasks[p] :
        /\ Running(p)
        /\ Fault
        /\ ~RetryAll \/ tk.attempt >= MaxRetry
        /\ net' \in Survivors(p, tk)
        /\ IF ExitIfAsyncError
             THEN /\ exited' = exited \cup {p}
                  /\ UNCHANGED <<tasks, finished_ids>>
             ELSE /\ Finish(p, tk)
                  /\ UNCHANGED exited
        /\ UNCHANGED <<sendVars, recvVars, appVars, histVars>>

(* The response of copy m makes the task whose current attempt it is end.   *)
Replied(m) ==
    {[tk EXCEPT !.replied = @ \/ CopyOf(m.src, tk) = m] : tk \in tasks[m.src]}

Answered(m) == [tasks EXCEPT ![m.src] = Replied(m)]
-----------------------------------------------------------------------------
(* OnRequest, which runs OnMessage under msg_mutex_, at party q.            *)

OnAck(m, q) ==
    /\ m.msg.kind = "ACK"
    /\ received_ack_ids' = [received_ack_ids EXCEPT ![q] = @ \cup {m.msg.seq}]
    /\ tasks' = Answered(m)
    /\ net' = net \ {m}
    /\ UNCHANGED <<recv_msgs, received_msg_ids, received_fin,
                   peer_sent_msg_count, acked>>

OnFin(m, q) ==
    /\ m.msg.kind = "FIN"
    /\ received_fin' = [received_fin EXCEPT ![q] = TRUE]
    /\ peer_sent_msg_count' =
         [peer_sent_msg_count EXCEPT ![q] = IF received_fin[q] THEN @
                                                               ELSE m.msg.seq]
    /\ tasks' = Answered(m)
    /\ net' = net \ {m}
    /\ UNCHANGED <<recv_msgs, received_msg_ids, received_ack_ids, acked>>

(* A sequence id that was seen before is ignored. *)
OnDuplicate(m, q) ==
    /\ m.msg.kind = "MSG"
    /\ m.msg.seq \in received_msg_ids[q]
    /\ tasks' = Answered(m)
    /\ net' = net \ {m}
    /\ UNCHANGED <<recvVars, acked>>

(* The seeded defect "the id is not recorded". *)
InsertNot(m, q) == UNCHANGED received_msg_ids

Insert(m, q) ==
    received_msg_ids' = [received_msg_ids EXCEPT ![q] = @ \cup {m.msg.seq}]

KeyInUse(m, q) == \E r \in recv_msgs[q] : r.key = m.msg.key

(* The seeded defect "no test for a repeated id". *)
OnNormalMessageAgain(m, q) ==
    /\ m.msg.kind = "MSG"
    /\ ~waiting_finish[q]
    /\ Insert(m, q)
    /\ IF KeyInUse(m, q)
         THEN UNCHANGED <<recv_msgs, tasks>>
         ELSE /\ recv_msgs' = [recv_msgs EXCEPT ![q] = @ \cup {m.msg}]
              /\ tasks' = Answered(m)
    /\ net' = net \ {m}
    /\ UNCHANGED <<received_ack_ids, received_fin, peer_sent_msg_count, acked>>

(* The message is stored.  When its key is in use OnNormalMessage throws    *)
(* after the id was inserted (never, by NoDuplicateKey: what the RPC server *)
(* makes of the exception is immaterial).                                   *)
OnNormalMessage(m, q) ==
    /\ m.msg.kind = "MSG"
    /\ m.msg.seq \notin received_msg_ids[q]
    /\ ~waiting_finish[q]
    /\ Insert(m, q)
    /\ IF KeyInUse(m, q)
         THEN UNCHANGED <<recv_msgs, tasks>>
         ELSE /\ recv_msgs' = [recv_msgs EXCEPT ![q] = @ \cup {m.msg}]
              /\ tasks' = Answered(m)
    /\ net' = net \ {m}
    /\ UNCHANGED <<received_ack_ids, received_fin, peer_sent_msg_count, acked>>

(* The seeded defect "a message is dropped before its id is recorded". *)
OnUnwantedFirst(m, q) ==
    /\ m.msg.kind = "MSG"
    /\ m.msg.seq \notin received_msg_ids[q]
    /\ waiting_finish[q]
    /\ acked' = [acked EXCEPT ![q] = @ \cup {m.msg.seq}]
    /\ tasks' = [Answered(m) EXCEPT ![q] = @ \cup {NewTask(Ack(m.msg.seq))}]
    /\ net' = (net \ {m}) \cup {NewCopy(q, Ack(m.msg.seq))}
    /\ UNCHANGED recvVars

(* The seeded defect "messages are dropped although nobody closes". *)
OnUnwantedAlways(m, q) ==
    /\ m.msg.kind = "MSG"
    /\ m.msg.seq \notin received_msg_ids[q]
    /\ Insert(m, q)
    /\ acked' = [acked EXCEPT ![q] = @ \cup {m.msg.seq}]
    /\ tasks' = [Answered(m) EXCEPT ![q] = @ \cup {NewTask(Ack(m.msg.seq))}]
    /\ net' = (net \ {m}) \cup {NewCopy(q, Ack(m.msg.seq))}
    /\ UNCHANGED <<recv_msgs, received_ack_ids, received_fin, peer_sent_msg_count>>

(* While the channel closes a message is acknowledged and dropped. *)
OnUnwanted(m, q) ==
    /\ m.msg.kind = "MSG"
    /\ m.msg.seq \notin received_msg_ids[q]
    /\ waiting_finish[q]
    /\ Insert(m, q)
    /\ acked' = [acked EXCEPT ![q] = @ \cup {m.msg.seq}]
    /\ tasks' = [Answered(m) EXCEPT ![q] = @ \cup {NewTask(Ack(m.msg.seq))}]
    /\ net' = (net \ {m}) \cup {NewCopy(q, Ack(m.msg.seq))}
    /\ UNCHANGED <<recv_msgs, received_ack_ids, received_fin, peer_sent_msg_count>>

(* The acknowledgement does not start: SendAck throws after the id was      *)
(* inserted.  Nothing in Push catches it.  When the RPC server does, the    *)
(* guard of Push has sent the response, made before; else the process ends. *)
OnUnwantedFails(q) ==
    \E m \in net :
        /\ q = Peer(m.src)
        /\ Running(q)
        /\ m.msg.kind = "MSG"
        /\ m.msg.seq \notin received_msg_ids[q]
        /\ waiting_finish[q]
        /\ StartFails
        /\ Insert(m, q)
        /\ net' = net \ {m}
        /\ \/ tasks' = Answered(m) /\ UNCHANGED exited
           \/ exited' = exited \cup {q} /\ UNCHANGED tasks
        /\ UNCHANGED <<finished_ids, sendVars, appVars, histVars, recv_msgs,
                       received_ack_ids, received_fin, peer_sent_msg_count>>

OnRequest(q) ==
    \E m \in net :
        /\ q = Peer(m.src)
        /\ Running(q)
        /\ OnAck(m, q) \/ OnFin(m, q) \/ OnDuplicate(m, q)
             \/ OnNormalMessage(m, q) \/ OnUnwanted(m, q)
        /\ UNCHANGED <<finished_ids, exited, faults, sendVars, appVars, consumed>>
-----------------------------------------------------------------------------
(* Recv, called by the thread of context c for the next message that the    *)
(* peer's context c sends.                                                  *)

Awaited(p, c) == {r \in recv_msgs[p] : r.key = <<c, nrecv[p][c] + 1>>}

(* The message is not there: the call waits on msg_db_cond_. *)
RecvWait(p, c) ==
    /\ Running(p)
    /\ pc[p][c] = "idle"
    /\ nrecv[p][c] < MsgLimit[Peer(p)]
    /\ Awaited(p, c) = {}
    /\ pc' = [pc EXCEPT ![p][c] = "wait_msg"]
    /\ UNCHANGED <<sendVars, recvVars, taskVars, histVars, waiting_finish, seq,
                   nsend, nrecv>>

(* The message is there: it is erased from recv_msgs_ under the lock ... *)
RecvTake(p, c) ==
    /\ Running(p)
    /\ pc[p][c] \in {"idle", "wait_msg"}
    /\ nrecv' = [nrecv EXCEPT ![p][c] = @ + 1]
    /\ \E r \in Awaited(p, c) :
           /\ recv_msgs' = [recv_msgs EXCEPT ![p] = @ \ {r}]
           /\ seq' = [seq EXCEPT ![p][c] = r.seq]
           /\ consumed' = [consumed EXCEPT ![p] = @ \cup {r.seq}]
    /\ pc' = [pc EXCEPT ![p][c] = "send_ack"]
    /\ UNCHANGED <<sendVars, received_msg_ids, received_ack_ids, received_fin,
                   peer_sent_msg_count, taskVars, acked, waiting_finish, nsend>>

(* ... and acknowledged after it is released. *)
RecvAck(p, c) ==
    /\ Running(p)
    /\ pc[p][c] = "send_ack"
    /\ SubmitSendTasks(p, {Ack(seq[p][c])})
    /\ acked' = [acked EXCEPT ![p] = @ \cup {seq[p][c]}]
    /\ pc' = [pc EXCEPT ![p][c] = "idle"]
    /\ UNCHANGED <<sendVars, recvVars, consumed, waiting_finish, seq, nsend, nrecv>>

(* Or its task does not start, and Recv throws: the message is gone. *)
RecvAckFails(p, c) ==
    /\ Running(p)
    /\ pc[p][c] = "send_ack"
    /\ StartFails
    /\ pc' = [pc EXCEPT ![p][c] = "idle"]
    /\ UNCHANGED <<sendVars, recvVars, tasks, finished_ids, net, exited,
                   waiting_finish, seq, nsend, nrecv, histVars>>

(* A wait lasted recv_timeout_ms_: Recv throws, even if the message has     *)
(* come at last.                                                            *)
RecvTimeout(p, c) ==
    /\ Running(p)
    /\ pc[p][c] = "wait_msg"
    /\ nrecv' = [nrecv EXCEPT ![p][c] = @ + 1]
    /\ pc' = [pc EXCEPT ![p][c] = "idle"]
    /\ UNCHANGED <<sendVars, recvVars, taskVars, histVars, waiting_finish, seq,
                   nsend>>
-----------------------------------------------------------------------------
(* WaitLinkTaskFinish, called once by one of the threads.  A wait for a     *)
(* condition that stays true is one step with what follows it.              *)

Unread(p) == {r.seq : r \in recv_msgs[p]}

(* The seeded defect "unread messages are dropped without acknowledgement". *)
StopReceiving(p, c) ==
    /\ Running(p)
    /\ pc[p][c] = "idle"
    /\ ~waiting_finish[p]
    /\ waiting_finish' = [waiting_finish EXCEPT ![p] = TRUE]
    /\ recv_msgs' = [recv_msgs EXCEPT ![p] = {}]
    /\ pc' = [pc EXCEPT ![p][c] = "send_fin"]
    /\ UNCHANGED <<sendVars, received_msg_ids, received_ack_ids, received_fin,
                   peer_sent_msg_count, taskVars, seq, nsend, nrecv, histVars>>

StopReceivingAndAckUnreadMsgs(p, c) ==
    /\ Running(p)
    /\ pc[p][c] = "idle"
    /\ ~waiting_finish[p]
    /\ waiting_finish' = [waiting_finish EXCEPT ![p] = TRUE]
    /\ SubmitSendTasks(p, {Ack(s) : s \in Unread(p)})
    /\ acked' = [acked EXCEPT ![p] = @ \cup Unread(p)]
    /\ recv_msgs' = [recv_msgs EXCEPT ![p] = {}]
    /\ pc' = [pc EXCEPT ![p][c] = "send_fin"]
    /\ UNCHANGED <<sendVars, received_msg_ids, received_ack_ids, received_fin,
                   peer_sent_msg_count, seq, nsend, nrecv, consumed>>

(* One of the acknowledgements does not start: WaitLinkTaskFinish throws    *)
(* with waiting_finish_ set, and recv_msgs_ keeps the messages, those that  *)
(* were acknowledged (S, the ones the loop came to first) included.         *)
StopReceivingFails(p, c) ==
    /\ Running(p)
    /\ pc[p][c] = "idle"
    /\ ~waiting_finish[p]
    /\ StartFails
    /\ waiting_finish' = [waiting_finish EXCEPT ![p] = TRUE]
    /\ \E S \in SUBSET Unread(p) :
           /\ S # Unread(p)
           /\ tasks' = [tasks EXCEPT ![p] = @ \cup {NewTask(Ack(s)) : s \in S}]
           /\ net' = net \cup {NewCopy(p, Ack(s)) : s \in S}
           /\ acked' = [acked EXCEPT ![p] = @ \cup S]
    /\ UNCHANGED <<sendVars, recvVars, finished_ids, exited, pc, seq, nsend, nrecv,
                   consumed>>

CloseStep(p, c, from, to) ==
    /\ Running(p)
    /\ pc[p][c] = from
    /\ pc' = [pc EXCEPT ![p][c] = to]
    /\ UNCHANGED <<recvVars, waiting_finish, nsend, nrecv, histVars>>

(* WaitForFinAndFlyingMsg sends FIN with the number of messages sent, ... *)
SendFin(p, c) ==
    /\ CloseStep(p, c, "send_fin", "wait_fin")
    /\ SubmitSendTasks(p, {Fin(msg_seq_id[p])})
    /\ UNCHANGED <<sendVars, seq>>

(* ... or throws when the task of FIN does not start, ... *)
SendFinFails(p, c) ==
    /\ CloseStep(p, c, "send_fin", "idle")
    /\ StartFails
    /\ UNCHANGED <<sendVars, tasks, finished_ids, net, exited, seq>>

(* The seeded defect "the messages the FIN announces are not waited for". *)
WaitForFin(p, c) ==
    /\ CloseStep(p, c, "wait_fin", "join")
    /\ received_fin[p]
    /\ send_thread_stopped' = [send_thread_stopped EXCEPT ![p] = TRUE]
    /\ UNCHANGED <<msg_seq_id, send_msgs, sender, throttled, taskVars, seq>>

(* ... and waits for the FIN of the peer and the messages it announces.     *)
(* WaitAsyncSendToFinish then stops the send thread, ...                    *)
WaitForFinAndFlyingMsg(p, c) ==
    /\ CloseStep(p, c, "wait_fin", "join")
    /\ received_fin[p]
    /\ \/ peer_sent_msg_count[p] = 0
       \/ Complete(received_msg_ids[p], peer_sent_msg_count[p])
    /\ send_thread_stopped' = [send_thread_stopped EXCEPT ![p] = TRUE]
    /\ UNCHANGED <<msg_seq_id, send_msgs, sender, throttled, taskVars, seq>>

(* ... joins it and waits for the tasks.  WaitForFlyingAck reads msg_seq_id_*)
(* (sent_msg_count) and waits for the acknowledgements.                     *)
WaitAsyncSendToFinish(p, c) ==
    /\ CloseStep(p, c, "join", "wait_acks")
    /\ sender[p] = "exited"
    /\ tasks[p] = {}
    /\ seq' = [seq EXCEPT ![p][c] = msg_seq_id[p]]
    /\ UNCHANGED <<sendVars, taskVars>>

(* The seeded defects "acknowledgements are not waited for" and "only the   *)
(* last one is".                                                            *)
WaitForFlyingAckNot(p, c) ==
    /\ CloseStep(p, c, "wait_acks", "closed")
    /\ UNCHANGED <<sendVars, taskVars, seq>>

WaitForLastAck(p, c) ==
    /\ CloseStep(p, c, "wait_acks", "closed")
    /\ seq[p][c] = 0 \/ seq[p][c] \in received_ack_ids[p]
    /\ UNCHANGED <<sendVars, taskVars, seq>>

WaitForFlyingAck(p, c) ==
    /\ CloseStep(p, c, "wait_acks", "closed")
    /\ seq[p][c] = 0 \/ Complete(received_ack_ids[p], seq[p][c])
    /\ UNCHANGED <<sendVars, taskVars, seq>>
-----------------------------------------------------------------------------
Closed(p) == \E c \in Ctx : pc[p][c] = "closed"
Closing(p) == \E c \in Ctx : pc[p][c] \in
    {"send_fin", "wait_fin", "join", "wait_acks", "closed"}

(* Everybody has left and nothing is on its way. *)
Finished ==
    /\ \A p \in Party : Closed(p) /\ tasks[p] = {}
    /\ net = {}
    /\ UNCHANGED vars

ThreadSend(p, c) ==
    SendNumber(p, c) \/ SendPush(p, c) \/ SendReturn(p, c)
      \/ SendAsyncThrottledReturn(p, c) \/ SendAsyncThrottledTimeout(p, c)

ThreadRecv(p, c) ==
    RecvWait(p, c) \/ RecvTake(p, c) \/ RecvAck(p, c) \/ RecvTimeout(p, c)

ThreadClose(p, c) ==
    SendFin(p, c) \/ WaitForFinAndFlyingMsg(p, c)
      \/ WaitAsyncSendToFinish(p, c) \/ WaitForFlyingAck(p, c)

Call(p, c) == SendBegin(p, c) \/ StopReceivingAndAckUnreadMsgs(p, c)

SendThread(p) ==
    SenderPop(p) \/ SenderStop(p)
      \/ SenderThrottleReturn(p) \/ SenderThrottleTimeout(p)
      \/ SenderDrain(p) \/ SenderExit(p) \/ SenderCatch(p)

(* The five callers of SubmitSendTask when the bthread does not start. *)
StartFailure(p) ==
    \/ SenderStartFails(p)
    \/ OnUnwantedFails(p)
    \/ \E c \in Ctx : RecvAckFails(p, c) \/ StopReceivingFails(p, c)
                         \/ SendFinFails(p, c)

Next ==
    \/ \E p \in Party :
          \/ \E c \in Ctx : Call(p, c) \/ ThreadSend(p, c) \/ ThreadRecv(p, c)
                              \/ ThreadClose(p, c)
          \/ SendThread(p) \/ TaskDone(p) \/ TaskRetry(p) \/ TaskGiveUp(p)
          \/ OnRequest(p) \/ StartFailure(p)
    \/ Finished

Spec == Init /\ [][Next]_vars
-----------------------------------------------------------------------------
(* Fairness.  Threads, bthreads and the RPC server keep running.  The       *)
(* decisions to send and to close, and the faults, are not forced.          *)
Fairness ==
    \A p \in Party :
        /\ \A c \in Ctx :
              /\ WF_vars(SendNumber(p, c) \/ SendPush(p, c) \/ SendReturn(p, c)
                           \/ SendAsyncThrottledReturn(p, c))
              /\ WF_vars(RecvAck(p, c))
              /\ WF_vars(ThreadClose(p, c))
        /\ WF_vars(SendThread(p))
        /\ WF_vars(TaskDone(p))
        /\ WF_vars(OnRequest(p))

FairSpec == Spec /\ Fairness
-----------------------------------------------------------------------------
(* Properties. *)

(* Every variable keeps its type: the state of the two Channel objects, of  *)
(* their send threads and tasks, and of the requests in between.            *)
TypeOK ==
    /\ msg_seq_id \in [Party -> Nat]
    /\ send_msgs \in [Party -> Seq(Msg)]
    /\ send_thread_stopped \in [Party -> BOOLEAN]
    /\ sender \in [Party -> SenderPc]
    /\ throttled \in [Party -> Nat]
    /\ tasks \in [Party -> SUBSET Task]
    /\ finished_ids \in [Party -> SUBSET Nat]
    /\ net \in SUBSET Copy
    /\ recv_msgs \in [Party -> SUBSET Msg]
    /\ received_msg_ids \in [Party -> SUBSET Nat]
    /\ received_ack_ids \in [Party -> SUBSET Nat]
    /\ received_fin \in [Party -> BOOLEAN]
    /\ peer_sent_msg_count \in [Party -> Nat]
    /\ waiting_finish \in [Party -> BOOLEAN]
    /\ pc \in [Party -> [Ctx -> ThreadPc]]
    /\ seq \in [Party -> [Ctx -> Nat]]
    /\ nsend \in [Party -> [Ctx -> Nat]]
    /\ nrecv \in [Party -> [Ctx -> Nat]]
    /\ acked \in [Party -> SUBSET Nat]
    /\ consumed \in [Party -> SUBSET Nat]
    /\ exited \in SUBSET Party
    /\ faults \in Nat

(* Ids that a Recv has taken and is about to acknowledge. *)
InHand(p) == {seq[p][c] : c \in {d \in Ctx : pc[p][d] = "send_ack"}}

(* Retried, late and reordered requests never make the receiver lose track  *)
(* of a message: a received id is buffered, or in the hands of one Recv, or *)
(* acknowledged, and exactly one of these; what Recv returned is not in the *)
(* buffer again.  (OnNormalMessage, Recv, StopReceivingAndAckUnreadMsgs.)   *)
ExactlyOnce ==
    \A p \in Party :
        /\ received_msg_ids[p] = Unread(p) \cup InHand(p) \cup acked[p]
        /\ Unread(p) \cap (InHand(p) \cup acked[p] \cup consumed[p]) = {}
        /\ InHand(p) \cap acked[p] = {}

(* What a party counts as acknowledged, and so leaves the throttle window   *)
(* and lets WaitForFlyingAck end, has been sent, was received by the peer,  *)
(* and is no longer in the peer's recv_msgs_.                               *)
AckSound ==
    \A p \in Party :
        /\ received_ack_ids[p] \subseteq acked[Peer(p)]
        /\ acked[Peer(p)] \subseteq received_msg_ids[Peer(p)] \ Unread(Peer(p))
        /\ received_msg_ids[Peer(p)] \subseteq 1 .. msg_seq_id[p]

(* The request of task message m has had its effect at party p. *)
Processed(p, m) ==
    CASE m.kind = "MSG" -> m.seq \in received_msg_ids[p]
      [] m.kind = "ACK" -> m.seq \in received_ack_ids[p]
      [] m.kind = "FIN" -> received_fin[p]

(* "after all, we can safely close server port and exit": when              *)
(* WaitLinkTaskFinish has returned at p, every message of p has reached the *)
(* peer, and the peer has nothing more to tell p: its queue is empty, it    *)
(* owes no acknowledgement, and the requests it still runs were processed.  *)
CloseIsSafe ==
    \A p \in Party : Closed(p) =>
        /\ 1 .. msg_seq_id[p] \subseteq acked[Peer(p)]
        /\ 1 .. msg_seq_id[Peer(p)] \subseteq received_msg_ids[p]
        /\ send_msgs[Peer(p)] = << >>
        /\ \A tk \in tasks[Peer(p)] : Processed(p, tk.msg)

(* The exception "do not use same key for multiple msg" is never thrown     *)
(* when the contexts number their keys, whatever is retried or late.        *)
NoDuplicateKey ==
    \A m \in net :
        (m.msg.kind = "MSG" /\ m.msg.seq \notin received_msg_ids[Peer(m.src)])
            => ~KeyInUse(m, Peer(m.src))

(* The messages that p gave to a SendTask and that were not acknowledged.   *)
Flying(p) ==
    ((1 .. msg_seq_id[p])
       \ ({send_msgs[p][i].seq : i \in DOMAIN send_msgs[p]}
            \cup {seq[p][c] : c \in {d \in Ctx : pc[p][d] \in SendOps}}))
      \ received_ack_ids[p]

(* ThrottleWindowWait: until the channel closes, at most                    *)
(* throttle_window_size_ messages fly.                                      *)
FlyingBounded ==
    \A p \in Party :
        (Window # 0 /\ ~send_thread_stopped[p]) => Cardinality(Flying(p)) <= Window

(* "if there are more than limited size messages are flying, SendAsync will *)
(* block" (context.h): the send thread waits for the window only while as   *)
(* many messages as the window allows are flying.                           *)
BlockedOnlyWhenWindowFull ==
    \A p \in Party :
        (sender[p] = "wait_window" /\ Blocked(p, throttled[p]))
            => Cardinality(Flying(p)) >= Window

(* No failure makes Recv take a message twice, not even when closing threw  *)
(* half way and left acknowledged messages in recv_msgs_: what Recv took is *)
(* recorded as received, and never stored again by a retried or late copy.  *)
NeverTakenTwice ==
    \A p \in Party :
        /\ consumed[p] \subseteq received_msg_ids[p]
        /\ Unread(p) \cap consumed[p] = {}

(* The thread of context c returns from Send. *)
ReturnsFromSend(p, c) == pc[p][c] = "wait_sent" /\ pc'[p][c] = "idle"

(* Send "return[s] when the message is successfully pushed into peer's recv *)
(* buffer" (IChannel::Send) as far as the peer is not closing: when Send    *)
(* returns, the message is in the peer's recv_msgs_ or a Recv took it from  *)
(* there, unless the peer has begun to close and acknowledged the message   *)
(* (OnNormalMessage drops it then, StopReceivingAndAckUnreadMsgs clears it).*)
SendReturnsDelivered ==
    [][\A p \in Party, c \in Ctx : ReturnsFromSend(p, c) =>
         \/ seq[p][c] \in Unread(Peer(p)) \cup consumed[Peer(p)]
         \/ waiting_finish[Peer(p)] /\ seq[p][c] \in acked[Peer(p)]]_vars

(* When both parties call WaitLinkTaskFinish, both calls return. *)
CloseCompletes ==
    (\A p \in Party : Closing(p)) ~> (\A p \in Party : Closed(p))

(* The pair of channels does what ReliableLink promises: until the receiver *)
(* sets waiting_finish_ nothing is dropped, a party that set it sends and   *)
(* receives no more, and WaitLinkTaskFinish returns when both have set it   *)
(* and every message was handed over or dropped.                            *)
RL == INSTANCE ReliableLink WITH
        sent <- msg_seq_id,
        delivered <- consumed,
        dropped <- [p \in Party |-> acked[p] \ consumed[p]],
        closing <- {p \in Party : waiting_finish[p]},
        closed <- {p \in Party : Closed(p)}

ImplementsReliableLink == RL!RLSpec
=============================================================================
