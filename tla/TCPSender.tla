----------------------------- MODULE TCPSender -----------------------------
(***************************************************************************)
(* A TCPSender, the application that writes its stream, and a peer that    *)
(* receives and acknowledges.  Acknowledgements arrive late, out of        *)
(* order, more than once or not at all.  Byte number i of the stream is    *)
(* the value i.  The peer (rcvd, room, acks) is the environment: it never  *)
(* takes back an acknowledgement nor the right edge of its window.         *)
(***************************************************************************)
EXTENDS TCPSenderOps

CONSTANTS
    ISN,                (* the initial sequence number                     *)
    Capacity,           (* of the outbound stream                          *)
    PeerCapacity,       (* of the peer's inbound stream                    *)
    MaxLength,          (* longest stream (bound)                          *)
    MaxTick,            (* longest time between two ticks (bound)          *)
    MaxRetransmissions  (* no ticks after this many in a row (bound)       *)

ASSUME EnvironmentAssumption ==
    /\ ISN \in Raw
    /\ Capacity \in Nat \ {0}
    /\ PeerCapacity \in 1 .. Range16 - 1
    /\ {MaxLength, MaxTick, MaxRetransmissions} \subseteq Nat
    /\ 2 * (MaxLength + 2) < Range32
    /\ InitialRTO * 2 ^ MaxRetransmissions < Range64   \* a timeout fits in 64 bits

VARIABLES
    sender,
    sent,       (* what the last operation transmitted                     *)
    rcvd,       (* absolute number the peer expects next                   *)
    room,       (* bytes of the stream the peer has room for               *)
    acks,       (* the messages the peer could have sent                   *)
    acked       (* highest acknowledgement the sender has received         *)

vars == <<sender, sent, rcvd, room, acks, acked>>

Substring(first, size) == [i \in 1 .. size |-> first + i - 1]

(* The peer's bytes once it expects n, and the window it then announces. *)
BytesBefore(n) == AtLeast(0, AtMost(n - 1, sender.input.pushed))
Window(n, r)   == r - BytesBefore(n)

(* n = 0: the peer has not seen the SYN. *)
AckOf(n, r) == [abs |-> n, window_size |-> Window(n, r)]

OnTheWire(ack) ==
    [ackno |-> IF ack.abs = 0 THEN NoAckno ELSE wrap(ack.abs, ISN),
     window_size |-> ack.window_size, RST |-> FALSE]

Init ==
    /\ sender = NewSender(Capacity, ISN)
    /\ sent = << >>
    /\ rcvd = 0
    /\ room \in 0 .. PeerCapacity
    /\ acks = {AckOf(0, room)}
    /\ acked = 0

Write(size) ==
    /\ ~sender.input.closed
    /\ sender.input.pushed + size <= MaxLength
    /\ sender' = [sender EXCEPT !.input = PushTo(@, Substring(@.pushed, size))]
    /\ sent' = << >>
    /\ UNCHANGED <<rcvd, room, acks, acked>>

Close ==
    /\ sender' = [sender EXCEPT !.input = CloseOf(@)]
    /\ sent' = << >>
    /\ UNCHANGED <<rcvd, room, acks, acked>>

SetError ==
    /\ sender' = [sender EXCEPT !.input = SetErrorOf(@)]
    /\ sent' = << >>
    /\ UNCHANGED <<rcvd, room, acks, acked>>

Push ==
    /\ sender' = push(sender).sender
    /\ sent' = push(sender).sent
    /\ UNCHANGED <<rcvd, room, acks, acked>>

Tick(ms) ==
    /\ sender.num_consecutive_retran_ < MaxRetransmissions
    /\ sender' = tick(sender, ms).sender
    /\ sent' = tick(sender, ms).sent
    /\ UNCHANGED <<rcvd, room, acks, acked>>

Receive(ack, memory) ==
    /\ UNCHANGED <<rcvd, room, acks>>
    /\ sent' = << >>
    /\ acked' = AtLeast(acked, ack.abs)
    /\ sender' = receive(sender, OnTheWire(ack), memory)

(* Some of what was transmitted reaches the peer; bytes outside its window *)
(* are cut off. *)
PeerReceives(n) ==
    /\ BytesBefore(n) <= room
    /\ rcvd' = n
    /\ acks' = acks \cup {AckOf(n, room)}
    /\ UNCHANGED <<sender, sent, room, acked>>

(* The peer's application makes room. *)
PeerOpens ==
    /\ rcvd > 0
    /\ room < BytesBefore(rcvd) + PeerCapacity
    /\ room' = room + 1
    /\ acks' = acks \cup {AckOf(rcvd, room + 1)}
    /\ UNCHANGED <<sender, sent, rcvd, acked>>

Next ==
    \/ \E size \in 1 .. MaxLength : Write(size)
    \/ Close
    \/ SetError
    \/ Push
    \/ \E ms \in 1 .. MaxTick : Tick(ms)
    \/ \E ack \in acks : ack.abs > 0 /\ Receive(ack, 0)
    \/ \E n \in rcvd + 1 .. sender.abs_seqno_ : PeerReceives(n)
    \/ PeerOpens

Spec == Init /\ [][Next]_vars

-----------------------------------------------------------------------------
buffer == sender.send_buffer_

(* The message that stands for the absolute numbers from first to end - 1. *)
Original(first, end) ==
    LET size == BytesBefore(end) - BytesBefore(first)
    IN  [seqno |-> wrap(first, ISN), SYN |-> first = 0,
         payload |-> Substring(BytesBefore(first), size),
         FIN |-> end = sender.input.pushed + 2]

(* send_buffer_ holds exactly what the peer may still need, in order and   *)
(* with the original bytes: from the segment that holds the first number   *)
(* not acknowledged to the last one sent.  SYN stands at the front of the  *)
(* stream only, FIN at the end of a closed one only.                       *)
Outstanding ==
    /\ sender.abs_seqno_ = One(sender.syn_set_) + sender.input.popped + One(sender.fin_set_)
    /\ sender.seqno_ = (IF sender.syn_set_ THEN wrap(sender.abs_seqno_, ISN) ELSE 0)
    /\ sender.fin_set_ => IsFinished(sender.input)
    /\ buffer = << >> => acked = sender.abs_seqno_
    /\ buffer # << >> => /\ Head(buffer).first <= acked
                         /\ acked < EndOf(Head(buffer))
                         /\ EndOf(Last(buffer)) = sender.abs_seqno_
    /\ \A i \in DOMAIN buffer :
          LET original == Original(buffer[i].first, EndOf(buffer[i]))
          IN  /\ i > 1 => buffer[i].first = EndOf(buffer[i - 1])
              /\ \A field \in DOMAIN original :
                    buffer[i].message[field] = original[field]

(* The credit in hand and the numbers in flight add up to the largest      *)
(* window announced, in 16 bits and in whatever order the acknowledgements *)
(* came; so push can send something whenever nothing is in flight.         *)
CreditConserved ==
    /\ sender.receive_window_ + sequence_numbers_in_flight(sender) = sender.max_receive_window_
    /\ buffer = << >> => sender.receive_window_ > 0

(* The retransmission timer starts afresh with each flight, never runs     *)
(* beyond its timeout, and the timeout doubles at most once for each       *)
(* retransmission since the last progress.                                 *)
Backoff ==
    sender.syn_set_ =>
        /\ \E k \in 0 .. sender.num_consecutive_retran_ :
              sender.current_RTO_ = InitialRTO * 2 ^ k
        /\ sender.timer_ < sender.current_RTO_
        /\ buffer = << >> => /\ sender.timer_ = 0
                             /\ sender.num_consecutive_retran_ = 0
                             /\ sender.current_RTO_ = InitialRTO

Timing == <<sender.timer_, sender.current_RTO_, sender.num_consecutive_retran_>>

(* Repeated and outdated acknowledgements are harmless                     *)
(* (tests/send_extra.cc:446): they neither touch what is in flight nor the *)
(* timer, and take back no credit.  Not all is left as it is: whether the  *)
(* receiver is full is believed of any acknowledgement (receiver_full_).   *)
OutdatedHarmless ==
    [][\A ack \in acks :
          ack.abs > 0 /\ ack.abs <= acked /\ Receive(ack, 0)
          => /\ buffer' = buffer
             /\ Timing' = Timing
             /\ sender.receive_window_ <= sender'.receive_window_
             /\ sender'.max_receive_window_ <= PeerCapacity]_vars
=============================================================================
