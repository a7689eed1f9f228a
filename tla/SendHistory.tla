---------------------------- MODULE SendHistory ----------------------------
(***************************************************************************)
(* Channel with a history variable, for what the documentation of          *)
(* IChannel::Send says of the peer's recv buffer.  Once a closing peer has *)
(* cleared the buffer, the variables of Channel do not tell a message that *)
(* was in it from one that was dropped on arrival.                         *)
(***************************************************************************)
EXTENDS MCChannel

VARIABLE buffered  \* history: ids that were put into recv_msgs_

HistInit == Init /\ buffered = [p \in Party |-> {}]

HistNext ==
    /\ Next
    /\ buffered' = [p \in Party |-> buffered[p] \cup Unread(p)']

HistSpec == HistInit /\ [][HistNext]_<<vars, buffered>>

(* "Send synchronously.  return when the message is successfully pushed     *)
(* into peer's recv buffer." (channel.h:62-63), whatever the peer does.     *)
SendReturnsBuffered ==
    [][\A p \in Party, c \in Ctx :
         ReturnsFromSend(p, c) => seq[p][c] \in buffered[Peer(p)]]_<<vars, buffered>>
=============================================================================
