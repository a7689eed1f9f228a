------------------------- MODULE DeliveryInvariant --------------------------
(***************************************************************************)
(* The invariant of Channel from which exactly-once delivery and the       *)
(* soundness of acknowledgements follow.                                   *)
(***************************************************************************)
EXTENDS Channel

(* Message m of party p is in its send queue, in one of its tasks, on the   *)
(* way to the peer, or in the peer's recv_msgs_.                            *)
Carries(p, m) ==
    \/ \E i \in DOMAIN send_msgs[p] : send_msgs[p][i] = m
    \/ \E tk \in tasks[p] : tk.msg = m
    \/ \E k \in net : k.src = p /\ k.msg = m
    \/ m \in recv_msgs[Peer(p)]

Posted(p) == {m \in Msg : m.kind = "MSG" /\ Carries(p, m)}

(* Numbers and keys identify the messages of a party, and the message that  *)
(* a thread is about to push has a new number and a new key.                *)
Numbered(p, m) ==
    /\ m.seq \in 1 .. msg_seq_id[p]
    /\ m.key \in Key
    /\ m.key[2] <= nsend[p][m.key[1]]
    /\ pc[p][m.key[1]] \in SendOps => m.key[2] < nsend[p][m.key[1]]

Fresh(p, c) ==
    pc[p][c] \in SendOps =>
        /\ seq[p][c] <= msg_seq_id[p]
        /\ \A m \in Posted(p) : m.seq # seq[p][c]
        /\ \A d \in Ctx : (pc[p][d] \in SendOps /\ seq[p][c] = seq[p][d])
                             => seq[p][c] = 0 \/ c = d

SenderInv ==
    \A p \in Party :
        /\ \A m \in Posted(p) : Numbered(p, m)
        /\ \A m, n \in Posted(p) : m.key = n.key \/ m.seq = n.seq => m = n
        /\ \A c \in Ctx : Fresh(p, c)

(* Queues hold messages only, and the acknowledgements on their way or      *)
(* received were made.                                                      *)
AckInv ==
    \A p \in Party :
        /\ \A i \in DOMAIN send_msgs[p] : send_msgs[p][i].kind = "MSG"
        /\ \A r \in recv_msgs[p] : r.kind = "MSG"
        /\ \A m \in Msg : m.kind = "ACK" /\ Carries(p, m) => m.seq \in acked[p]
        /\ received_ack_ids[p] \subseteq acked[Peer(p)]

(* What is buffered or was taken by Recv is recorded as received, and not   *)
(* both buffered and taken.                                                 *)
Stock(p) ==
    /\ received_msg_ids[p] \subseteq 1 .. msg_seq_id[Peer(p)]
    /\ Unread(p) \cup consumed[p] \subseteq received_msg_ids[p]
    /\ Unread(p) \cap consumed[p] = {}

(* The received ids are accounted for, as long as tasks start. *)
Ledger(p) ==
    /\ received_msg_ids[p] \subseteq 1 .. msg_seq_id[Peer(p)]
    /\ received_msg_ids[p] = Unread(p) \cup InHand(p) \cup acked[p]
    /\ Unread(p) \cap (InHand(p) \cup acked[p] \cup consumed[p]) = {}
    /\ InHand(p) \cap acked[p] = {}
    /\ InHand(p) \subseteq consumed[p]
    /\ consumed[p] \subseteq received_msg_ids[p]
    /\ \A c, d \in Ctx : (pc[p][c] = "send_ack" /\ pc[p][d] = "send_ack"
                            /\ seq[p][c] = seq[p][d]) => c = d

DeliveryInv ==
    /\ TypeOK
    /\ SenderInv
    /\ AckInv
    /\ \A p \in Party : Stock(p)
    /\ StartMayFail \/ \A p \in Party : Ledger(p)
=============================================================================
