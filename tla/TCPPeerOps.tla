----------------------------- MODULE TCPPeerOps -----------------------------
(***************************************************************************)
(* src/util/tcp_peer.hh: one record per TCPPeer object, a TCPSender and a  *)
(* TCPReceiver that share a connection.  Operations return the peer and    *)
(* the segments they handed to the transmit callback.                      *)
(***************************************************************************)
EXTENDS Messages, Wrap32

CONSTANTS
    IntRange,       (* 2^32, the number of values of int                   *)
    InitialRTO,     (* TCPConfig::rt_timeout                               *)
    MaxPayload,     (* TCPConfig::MAX_PAYLOAD_SIZE                         *)
    LingerTimeouts, (* timeouts a peer stays after the last receipt: 10    *)
    LeftOver        (* what stands in the place of a missing ackno         *)

ASSUME PeerAssumption == LingerTimeouts \in Nat /\ LeftOver \in Raw

S == INSTANCE TCPSenderOps
R == INSTANCE TCPReceiverOps

LingerTime == LingerTimeouts * InitialRTO

(* quiet_ is cumulative_time_ - time_of_last_receipt_, of which the code   *)
(* only asks whether it has reached LingerTime.                            *)
NewPeer(send_capacity, recv_capacity, isn) ==
    [sender_ |-> S!NewSender(send_capacity, isn),
     receiver_ |-> R!NewReceiver(recv_capacity),
     need_send_ |-> FALSE, linger_after_streams_finish_ |-> TRUE, quiet_ |-> 0]

Outbound(peer) == peer.sender_.input
Inbound(peer)  == R!Inbound(peer.receiver_)
InFlight(peer) == S!sequence_numbers_in_flight(peer.sender_)

HasError(peer)       == Inbound(peer).error \/ Outbound(peer).error
SenderActive(peer)   == InFlight(peer) > 0 \/ ~IsFinished(Outbound(peer))
ReceiverActive(peer) == ~Inbound(peer).closed

(* Mutant: nobody lingers. *)
LingeringNever(peer) == FALSE

Lingering(peer) == peer.linger_after_streams_finish_ /\ peer.quiet_ < LingerTime

(* Mutant: what is in flight is not waited for. *)
activeUntilSent(peer) ==
    /\ ~HasError(peer)
    /\ ~IsFinished(Outbound(peer)) \/ ReceiverActive(peer) \/ Lingering(peer)

active(peer) ==
    /\ ~HasError(peer)
    /\ SenderActive(peer) \/ ReceiverActive(peer) \/ Lingering(peer)

has_ackno(peer) == R!send(peer.receiver_).ackno # NoAckno

(* The two messages share the one RST flag of a segment.                   *)
Segment(message, reply) ==
    [seqno |-> message.seqno, SYN |-> message.SYN, payload |-> message.payload,
     FIN |-> message.FIN, RST |-> message.RST \/ reply.RST,
     ackno |-> reply.ackno, window_size |-> reply.window_size]

(* Every message goes out with the receiver's news and is a reply. *)
Transmit(peer, messages) ==
    [peer |-> [peer EXCEPT !.need_send_ = @ /\ messages = << >>],
     sent |-> [i \in DOMAIN messages |-> Segment(messages[i], R!send(peer.receiver_))]]

(* The sender has become step.sender and sends step.sent. *)
Sends(peer, step) == Transmit([peer EXCEPT !.sender_ = step.sender], step.sent)

push(peer) == Sends(peer, S!push(peer.sender_))

(* Mutant: the time since the last receipt wraps around too early. *)
tickNarrow(peer, ms) ==
    Sends([peer EXCEPT !.quiet_ = (@ + ms) % LingerTime], S!tick(peer.sender_, ms))

tick(peer, ms) ==
    Sends([peer EXCEPT !.quiet_ = AtMost(@ + ms, LingerTime)], S!tick(peer.sender_, ms))

(* A segment that takes sequence numbers, or a keep-alive, is answered. *)
MustReply(peer, segment) ==
    \/ SequenceLength(segment) > 0
    \/ has_ackno(peer) /\ (segment.seqno + 1) % Range32 = R!send(peer.receiver_).ackno

(* The side whose inbound stream ends first does not linger. *)
NoteEnd(peer) ==
    [peer EXCEPT !.linger_after_streams_finish_ =
        @ /\ ~(Inbound(peer).closed /\ ~IsFinished(Outbound(peer)))]

(* What a segment changes before anything is sent. *)
Heard(peer, segment) ==
    [peer EXCEPT !.quiet_ = 0,
                 !.need_send_ = @ \/ MustReply(peer, segment),
                 !.receiver_ = R!receive(@, segment),
                 !.sender_ = S!receive(@, segment, LeftOver)]

(* Unless something pushed was the reply that is due, an empty message is. *)
Replied(pushed) ==
    LET reply == IF pushed.peer.need_send_
                   THEN Transmit(pushed.peer, << S!make_empty_message(pushed.peer.sender_) >>)
                   ELSE [peer |-> pushed.peer, sent |-> << >>]
    IN  [peer |-> NoteEnd(reply.peer), sent |-> pushed.sent \o reply.sent]

receive(peer, segment) ==
    IF active(peer) THEN Replied(push(Heard(peer, segment)))
    ELSE [peer |-> peer, sent |-> << >>]
=============================================================================
