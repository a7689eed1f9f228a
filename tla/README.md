# A TLA+ verification of yacl's link layer

YACL is a C++ library for multi-party computation. Most of it is numeric code;
the part in which several threads, processes and a network interact is the
*link* layer (`yacl/link`), by which the parties exchange messages. This project
models that layer, beginning with its core, the pair of `Channel` objects that
connect two parties, and the `SegmentTree` on which the channel's waits rely.

## The system

### Components and their state

| Part | Files | State | Operations |
|---|---|---|---|
| Channel | `link/transport/channel.{h,cc}` | send queue, send thread, running tasks, `recv_msgs_`, three segment trees (received, acknowledged, finished ids), FIN flag and count, throttle window, closing and aborting flags | `SendAsync`, `SendAsyncThrottled`, `Send`, `Recv`, `OnRequest`, `WaitLinkTaskFinish`, `Abort`, `TestSend`, `TestRecv` |
| Chunked messages | `channel.cc:180-312, 476-540` | window of running pushes, first exception, partial messages | `SendChunked`, `OnChunkedMessage` |
| Segment tree | `utils/segment_tree.h` | map of segments, count | `Insert`, `Contains`, `SegmentsCount`, `Count` |
| RPC transports | `brpc_link.cc`, `interconnection_link.cc` | server, peer host | `SendRequest`, dispatch to `OnRequest` |
| Black-box transport | `brpc_blackbox_link.cc` | receiver threads, `is_recv_` | `Start`, `Stop`, polling |
| In-memory channel | `channel_mem.cc` | `recv_msgs_`, `finished_` | as Channel |
| Context | `link/context.cc` | id counters, channels, ranks | `ConnectToMesh`, `Spawn`, `SubWorld`, sends and receives |
| Collectives | `link/algorithm/*` | none of their own | `Barrier`, `Broadcast`, `AllGather`, `Gather`, `Scatter` |
| Thread pool, parallel loops | `utils/thread_pool.*`, `utils/parallel.*` | task queue, stop flag | `Submit`, worker loop, `parallel_for` |
| OT store | `kernel/type/*` | buffer, slice counters | `Slice`, `NextSlice`, `Reset` |

The cryptographic primitives, the kernel algorithms, mathematics, I/O and base
types are numeric or sequential code; `PROJECT.json` lists each with the reason
why it is not modelled.

### How the core works

A sending operation numbers the message with `msg_seq_id_` and pushes it on a
queue. The send thread pops it, starts a `SendTask` (a bthread) that performs
the RPC with retries, and then waits until fewer than `throttle_window_size_`
messages are unacknowledged. At the peer `OnRequest` drops a repeated number,
stores the message under its key, and `Recv` takes it from there and sends an
acknowledgement, itself a task. `WaitLinkTaskFinish` closes: it acknowledges and
drops what nobody read, sends FIN with the number of messages sent, waits for
the peer's FIN and for the messages it announces, stops the send thread, waits
for the tasks, and waits for all acknowledgements.

What makes this hard: tasks run concurrently, so nothing arrives in order, FIN
included; a request that timed out may have been delivered, or may be delivered
after its retry; a message meets the receiver before, during or after its
closing; threads that share a channel interleave between numbering and pushing;
both ends wait for each other without timeouts; failures are swallowed or end
the process according to `exit_if_async_error_`. `PROJECT.json` lists these as
hazards, with the line where each bites.

## Modules

| Module | What it is |
|---|---|
| `IdSet` | what a user of the segment tree sees: a set of ids, the number of its segments, and the test `Complete` of the closing waits |
| `SegmentTree` | the tree itself, a map from the first id of a segment to the id after its last one; `Insert` with its extension and merging |
| `ReliableLink` | what two connected channels promise: each accepted message is handed over, or dropped by a receiver that has begun to close, never both, never twice; a party that has begun to close neither sends nor receives; a close returns when both have begun to and every message of either met its fate |
| `Channel` | two parties, their threads, send threads, tasks and requests under way; implements `ReliableLink` |
| `MCChannel` | instances for TLC |
| `SendHistory` | `Channel` with a history of what was put into `recv_msgs_`, for the documented promise of `Send` |
| `DeliveryInvariant` | the inductive invariant of the delivery theorems |
| `IdSetProofs`, `SegmentTreeProofs`, `ChannelProofs` | theorems about ids, the segment tree, the types of `Channel` |
| `SenderProofs`, `StockProofs`, `LedgerProofs`, `DeliveryProofs` | the delivery theorems: messages under way, buffered and taken ids, received ids, and all together |

### Channel: state and steps

Variables carry the names of the members they model, indexed by party. Beside
them: `tasks` holds the running `SendTask`s (their number is `running_tasks_`),
`net` the copies of requests on their way, `pc` and `seq` the control state and
the local variable `seq_id` (or `sent_msg_count`) of each thread, `sender` and
`throttled` those of the send thread. `acked` and `consumed` are history.

- A party has one application thread per context in `Ctx`. It sends, receives
  and closes in any order the code permits; a context sends at most
  `MsgLimit[p]` messages. The key of a message is what `Context::NextP2PId`
  gives, the context and a counter; values are identified by keys.
- A sending operation is three steps: checks, `fetch_add`, `Push`. `Send` then
  waits for the end of its task, `SendAsyncThrottled` for the window.
- `SubmitSendTask` creates the task and the first copy of its request. The
  copy is delivered at any time, by `OnRequest`, whose five cases are those of
  `OnMessage` and `OnNormalMessage` under `msg_mutex_`.
- The bthread of a task may not start (`StartFails`, allowed by the constant
  `StartMayFail`). `SubmitSendTask` then throws, and the destructor of the task
  marks its id as finished. Each of the five callers has an action for it: the
  send thread loses the message it popped and ends, in two steps, so that a
  `Send` can return in between (`SenderStartFails`, `SenderCatch`); `Recv` throws
  after it took the message, without an acknowledgement (`RecvAckFails`);
  `OnNormalMessage` throws after it recorded the id of a message it drops, and
  the process ends or the prepared response is sent, according to what the RPC
  server does with the exception (`OnUnwantedFails`); the close throws with
  `waiting_finish_` set and `recv_msgs_` not cleared after any of its
  acknowledgements (`StopReceivingFails`, in which the order of the keys is
  left open), or before FIN (`SendFinFails`).
- A request fails (`Fault`) when it, or its response, is lost, or when it is
  late, in which case the copy remains under way. `TaskRetry` and `TaskGiveUp`
  are the two outcomes in `SendRequestWithRetry`; the second exits the process
  or ends the task as `SendTask::Proc` does.
- `Recv` takes the message and, after the unlock, acknowledges it. A wait that
  timed out throws without looking again, as the code does, both here and in
  `ThrottleWindowWait`.
- `WaitLinkTaskFinish` is one step for each of its waits.

Condition variables are abstracted to the conditions that are waited for: a
step that needs the condition is enabled when it holds. Lost wakeups, which
can only come from `Abort` and `SetThrottleWindowSize` (every other change is made and notified under the mutex
that the waiter holds), are left to the planned module `Wakeup`. Segment trees
are sets, which `SegmentTree` justifies. A thread calls `WaitLinkTaskFinish`
once per party, also when the call threw.

`ReliableLink` is implemented with `sent` as `msg_seq_id`, `delivered` as
`consumed`, `dropped` as what was acknowledged and never taken, `closing` as the
parties with `waiting_finish` set and `closed` as those whose close returned.
Its step `RLDrop` needs a receiver in `closing`, and `RLSend` a sender that is
not, so a channel that acknowledges and drops messages while nobody closes does
not implement it. This is checked for one context, for which no thread closes
while another sends, and for tasks that start: with several contexts a sender
that passed the closing test can number its message late, and after a failed
start an acknowledged message can still be read.

## Runs

| Run | Configuration | Question |
|---|---|---|
| `channel_delivery` | two messages one way, one fault of any kind, one retry, a policy that may refuse to retry, failures swallowed | Is a received id in exactly one place, are acknowledgements sound, is a returned close safe, is the duplicate-key exception unreachable, and do the channels implement `ReliableLink`? |
| `channel_close` | one message each way, window 1, no fault, weak fairness | Do both calls of `WaitLinkTaskFinish` return, without deadlock, whatever was read or not? |
| `channel_throttle` | three messages one way, any sending operation, window 1, one fault or timeouts, a failing party exits | Does the window bound what flies, does the sender block only when it is full, do gaps among received ids never end a wait? When `Send` returns, is the message in the peer's `recv_msgs_` or taken from it, unless the peer has begun to close? |
| `channel_start_failure` | two messages one way, failures swallowed, one fault, which may be a task that does not start | Is a returned close still safe, and is no message taken twice, when an acknowledgement, a message or FIN was never sent and its caller threw? |
| `segment_tree` | all orders and repetitions of eight ids | Does the tree answer like a set? |
| `channel_send_closing` (violation) | one message, no fault | `Send` returns "when the message is successfully pushed into peer's recv buffer" (`channel.h:62-63`), whatever the peer does |
| `channel_send_swallowed` (violation) | failures swallowed | the same promise, for a peer that is not closing |
| `channel_send_unstarted` (violation) | one task that does not start, a failing party exits | the same promise, for a peer that is not closing |
| `channel_throttle_shared` (violation) | two contexts of one message each, window 1 | The sender blocks "if there are more than limited size messages are flying" (`context.h:108-110`) |

All properties hold in the five passing runs. The four violations are
disagreements between the code and its documentation:

- A message that reaches a peer which has begun to close is acknowledged and
  dropped, and `Send` returns as if it had been stored. `SendReturnsBuffered`
  states the documentation as it is written; `SendReturnsDelivered`, which
  `channel_throttle` checks, excludes the closing peer.
- A `SendTask` whose request failed for good is finished like any other unless
  `exit_if_async_error_` is set, so `Send` returns although nothing was
  delivered.
- A `SendTask` that does not start is destroyed, which marks its id as finished.
  `Send` can return before the exception ends the process, even with
  `exit_if_async_error_`. `channel_throttle` assumes that tasks start.
- Contexts made by `Spawn` share channels. Two threads can push in the opposite
  order of their numbers; the send thread then waits, on behalf of the higher
  number, for an acknowledgement of the lower one, which is behind it in the
  queue. Nothing flies, and the wait only ends by its timeout, with which the
  send thread ends too. The other runs have one context.

### Bounds

Two messages are the least with which messages are reordered, a gap appears
among the received ids, and FIN overtakes one of them while the other is there;
three with a window of one make the send thread block, be released and block
again, and leave gaps of both kinds. One fault gives a lost request, a late one
delivered before or after the retry or after the message was read, and a lost
response; in `channel_start_failure` it also gives one failed start in any of the
five callers, with a close that acknowledged one of two unread messages before
it threw. One message each way lets both ends be sender and receiver while they
close. Eight ids reach every way in which an insertion meets a segment: inside,
at either end, between two, apart. `channel_delivery`, `channel_throttle` and
`channel_start_failure` do not check deadlock: after a message, an acknowledgement
or FIN was lost for good or a process exited, the untimed waits of the peer's
close really never end.

### Fairness

`channel_close` assumes weak fairness of the steps that a scheduled thread or
bthread performs by itself: the remaining steps of a call that was made, the
steps of a close, the send thread, the end of a task and the execution of a
request that the RPC server has. The decisions to send, to receive or to close
are free, and neither timeouts nor faults are forced. Weak fairness is enough as
no wait condition, once true, becomes false again.

## Proofs

The theorems hold for every number of contexts, messages, retries and faults,
every window and every setting of the flags, but for the two that assume
`~StartMayFail`; otherwise they assume only that the constants have their types
(`ConstantsAssumption`, `ItemsAssumption`).

- `CompleteMeansAll`: one segment that contains 1 and *n* contains all ids from
  1 to *n*. The argument takes the least missing id above 1 and finds a second
  segment above it.
- `TypeCorrect`, `TreeAnswersForSet`, `TreeTellsNew` for the segment tree. The
  inductive invariant `TreeInv` says that segments are not empty, that there is
  a gap between each and the next, and that they cover exactly the inserted ids.
  The gap is needed: without it a merge could be missed and the number of
  segments would not be that of the set. Lemmas say what extension, opening and
  each of the two merges do to the covered ids and to the gaps.
- `ChannelTypeCorrect`: `TypeOK` is inductive.
- `ChannelExactlyOnce`, `ChannelAckSound`, `ChannelNoDuplicateKey` and
  `ChannelNeverTakenTwice` from one inductive invariant, `DeliveryInv`. It adds
  to the properties that every message somewhere between the sender's queue and
  the receiver's buffer has a number that was handed out, that numbers and keys
  identify such messages (`SenderInv`), that acknowledgements under way are for
  acknowledged ids (`AckInv`), that what is buffered or was taken is recorded as
  received and not both (`Stock`), and that received ids are accounted for and no
  two threads have the same id in hand (`Ledger`). A copy that comes late would
  otherwise be able to reuse a number or a key. The steps are grouped by what
  they add to the messages under way: nothing, an acknowledgement or FIN, or the
  message that a thread pushes.
  `Ledger` holds only while tasks start, and so the first two theorems assume
  `~StartMayFail`: a close that threw half way leaves acknowledged messages in
  `recv_msgs_`, and a `Recv` that threw leaves an id that is in no place at all.
  The other two need `Stock` only and hold in any case.

Only model-checked: `CloseIsSafe`, `FlyingBounded`, `BlockedOnlyWhenWindowFull`,
`SendReturnsDelivered` and the refinement (proofs planned, some for a single
context), and `CloseCompletes` (liveness is beyond the prover).

## Plan

Modelled next, each with an abstract promise where it has one:

1. `ChunkedSend`: the window of parallel chunk requests, the exception that is
   looked at after a wait, duplicate and late chunks, reassembly.
2. `Wakeup`: condition variables, `Abort`, `SetThrottleWindowSize`, the two
   joins of the send thread; what `Abort` guarantees to blocked calls.
3. `ChannelMem` as a second implementation of `ReliableLink`; `Mesh` for
   `ConnectToMesh`, `TestSend` and `TestRecv`, and the retry intervals.
4. `Collectives` over the abstract link: every party returns, with the value
   that the algorithm promises, for every number of parties in the bound.
5. `Blackbox`: receiver loop, start and stop.
6. `ThreadPool` and the partition of `parallel_for`; `OtStore` slices.
7. For `Channel`: a thread that closes while another sends, and the life of a
   process whose send thread ended by a timeout.

Proved next: `CloseIsSafe` and `ReliableLink` refinement for a single context
(with several, a sender that passed the closing test can number a message after
the count was read), `FlyingBounded`, and the safety of the new modules.
