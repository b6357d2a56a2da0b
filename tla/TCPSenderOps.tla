---------------------------- MODULE TCPSenderOps ----------------------------
(***************************************************************************)
(* src/src/tcp_sender.cc: one record per TCPSender object.  push and tick  *)
(* return the sender and what they handed to the transmit callback.        *)
(***************************************************************************)
EXTENDS Messages, Wrap32, SequencesExt

CONSTANTS
    InitialRTO,     (* initial_RTO_ms_                                     *)
    MaxPayload      (* TCPConfig::MAX_PAYLOAD_SIZE                         *)

ASSUME SenderAssumption ==
    /\ InitialRTO \in Nat \ {0}
    /\ MaxPayload \in Nat \ {0}
    /\ Range16 <= Range64

NewSender(capacity, isn) ==
    [input |-> NewStream(capacity), isn_ |-> isn,
     send_buffer_ |-> << >>, abs_seqno_ |-> 0, seqno_ |-> 0,
     receive_window_ |-> 1, max_receive_window_ |-> 1, receiver_full_ |-> TRUE,
     num_consecutive_retran_ |-> 0, current_RTO_ |-> 0, timer_ |-> 0,
     pre_abs_ackno_ |-> 0, syn_set_ |-> FALSE, fin_set_ |-> FALSE]

(* The absolute number behind a segment of send_buffer_. *)
EndOf(segment) == segment.first + SequenceLength(segment.message)

sequence_numbers_in_flight(sender) ==
    FoldLeft(LAMBDA sum, segment : sum + SequenceLength(segment.message),
             0, sender.send_buffer_)

NextSeqno(sender) == IF sender.syn_set_ THEN sender.seqno_ ELSE sender.isn_

make_empty_message(sender) ==
    [seqno |-> NextSeqno(sender), SYN |-> FALSE, payload |-> << >>, FIN |-> FALSE,
     RST |-> sender.input.error]

(* loop is the state of push: the sender, what it transmitted so far, and  *)
(* temp_receive_window.                                                    *)

(* A full receiver is sent one sequence number per call, if any is allowed. *)
StartLoop(sender) ==
    [sender |-> sender, sent |-> << >>,
     window |-> IF sender.receiver_full_ /\ sender.receive_window_ > 0
                  THEN 1 ELSE sender.receive_window_]

(* Every turn transmits, so the loop takes at most one turn per sequence   *)
(* number of the window, and one for the SYN.                              *)
MoreToSend(loop) ==
    \/ loop.window > 0 /\ loop.sender.input.queue # << >>
    \/ loop.window > 0 /\ loop.sender.input.closed /\ ~loop.sender.fin_set_
    \/ ~loop.sender.syn_set_

(* Bytes of payload, in 64 bits. *)
PayloadSize(loop) ==
    AtMost((loop.window - One(~loop.sender.syn_set_)) % Range64,
           AtMost(Len(loop.sender.input.queue), MaxPayload))

(* FIN goes along when it still fits and nothing is left to read. *)
NextMessage(loop) ==
    LET sender == loop.sender
        size   == PayloadSize(loop)
    IN  [make_empty_message(sender) EXCEPT
            !.SYN = ~sender.syn_set_,
            !.payload = SubSeq(sender.input.queue, 1, size),
            !.FIN = /\ loop.window > One(~sender.syn_set_) + size
                    /\ sender.input.closed
                    /\ ~sender.fin_set_
                    /\ size = Len(sender.input.queue)]

Turn(loop) ==
    LET message == NextMessage(loop)
        length  == SequenceLength(message)
    IN  [sent |-> Append(loop.sent, message),
         window |-> (loop.window - length) % Range16,
         sender |-> [loop.sender EXCEPT
            !.input = PopFrom(@, Len(message.payload)),
            !.send_buffer_ = Append(@, [first |-> loop.sender.abs_seqno_,
                                        message |-> message]),
            !.receive_window_ = (@ - length) % Range16,
            !.seqno_ = wrap(length, NextSeqno(loop.sender)),
            !.abs_seqno_ = @ + length,
            !.current_RTO_ = IF message.SYN THEN InitialRTO ELSE @,
            !.syn_set_ = TRUE,
            !.fin_set_ = @ \/ message.FIN]]

push(sender) ==
    FoldLeft(LAMBDA loop, turn : IF MoreToSend(loop) THEN Turn(loop) ELSE loop,
             StartLoop(sender), [turn \in 1 .. Range16 |-> turn])

(* An acknowledgement of what was never sent, while something is in flight. *)
Impossible(sender, abs_ackno) ==
    sender.send_buffer_ # << >> /\ EndOf(Last(sender.send_buffer_)) < abs_ackno

(* Mutant: an acknowledgement of exactly a segment's end does not cover it. *)
CoveredStrictly(sender, abs_ackno) ==
    {i \in DOMAIN sender.send_buffer_ :
        \A j \in 1 .. i : EndOf(sender.send_buffer_[j]) < abs_ackno}

(* Mutant: a segment is let go once its first number is acknowledged. *)
CoveredByFirst(sender, abs_ackno) ==
    {i \in DOMAIN sender.send_buffer_ :
        \A j \in 1 .. i : sender.send_buffer_[j].first <= abs_ackno}

(* The leading segments of send_buffer_ that abs_ackno covers entirely. *)
Covered(sender, abs_ackno) ==
    {i \in DOMAIN sender.send_buffer_ :
        \A j \in 1 .. i : EndOf(sender.send_buffer_[j]) <= abs_ackno}

(* Mutant: the SYN's acknowledgement does not set the largest window. *)
CreditOnly(sender, segment, window_size) ==
    IF segment.message.SYN
      THEN [sender EXCEPT !.receive_window_ = AtLeast(1, window_size)]
      ELSE [sender EXCEPT !.receive_window_ =
                              (@ + SequenceLength(segment.message)) % Range16]

(* The window credit one acknowledged segment gives back; the SYN's        *)
(* acknowledgement sets it.                                                *)
Credit(sender, segment, window_size) ==
    IF segment.message.SYN
      THEN [sender EXCEPT !.receive_window_ = AtLeast(1, window_size),
                          !.max_receive_window_ = AtLeast(1, window_size)]
      ELSE [sender EXCEPT !.receive_window_ =
                              (@ + SequenceLength(segment.message)) % Range16]

Acknowledge(sender, abs_ackno, window_size) ==
    LET n == Cardinality(Covered(sender, abs_ackno))
        credited == FoldLeft(LAMBDA s, segment : Credit(s, segment, window_size),
                             sender, SubSeq(sender.send_buffer_, 1, n))
    IN  [credited EXCEPT !.send_buffer_ = SubSeq(@, n + 1, Len(@))]

(* Only a window larger than any before changes the credit. *)
NoteWindow(sender, window_size) ==
    LET more == AtLeast(0, window_size - sender.max_receive_window_)
    IN  [sender EXCEPT !.receiver_full_ = (window_size = 0),
                       !.receive_window_ = (@ + more) % Range16,
                       !.max_receive_window_ = @ + more]

(* Mutant: any acknowledgement restarts the timer. *)
NoteAnyAckno(sender, abs_ackno) ==
    [sender EXCEPT !.timer_ = 0, !.pre_abs_ackno_ = abs_ackno,
                   !.num_consecutive_retran_ = 0, !.current_RTO_ = InitialRTO]

NoteAckno(sender, abs_ackno) ==
    IF sender.pre_abs_ackno_ < abs_ackno
      THEN [sender EXCEPT !.timer_ = 0, !.pre_abs_ackno_ = abs_ackno,
                          !.num_consecutive_retran_ = 0, !.current_RTO_ = InitialRTO]
      ELSE sender

(* receive reads *msg.ackno before it knows that there is one: without it, *)
(* the value is whatever the memory holds.                                 *)
receive(sender, message, memory) ==
    LET raw       == IF message.ackno = NoAckno THEN memory ELSE message.ackno
        abs_ackno == unwrap(raw, sender.isn_, sender.abs_seqno_)
        acknowledged == Acknowledge(sender, abs_ackno, message.window_size)
    IN  IF Impossible(sender, abs_ackno)
          THEN sender
        ELSE IF message.ackno = NoAckno /\ message.window_size = 0
          THEN [sender EXCEPT !.input = SetErrorOf(@)]
        ELSE NoteAckno(NoteWindow(acknowledged, message.window_size), abs_ackno)

(* The oldest segment in flight is sent again; a full receiver is no sign  *)
(* of congestion.                                                          *)
Retransmit(sender) ==
    LET oldest  == Head(sender.send_buffer_).message
        backoff == ~sender.receiver_full_ \/ oldest.SYN
    IN  [sent |-> << oldest >>,
         sender |-> [sender EXCEPT
            !.num_consecutive_retran_ = @ + 1,
            !.current_RTO_ = IF backoff THEN (2 * @) % Range64 ELSE @,
            !.timer_ = 0]]

(* Mutant: the timer runs on while nothing is in flight. *)
tickIdle(sender, ms_since_last_tick) ==
    LET elapsed == sender.timer_ + ms_since_last_tick
    IN  IF sender.send_buffer_ # << >> /\ elapsed >= sender.current_RTO_
          THEN Retransmit(sender)
          ELSE [sent |-> << >>, sender |-> [sender EXCEPT !.timer_ = elapsed]]

tick(sender, ms_since_last_tick) ==
    LET elapsed == (sender.timer_ + ms_since_last_tick) % Range64
    IN  IF sender.send_buffer_ = << >>
          THEN [sent |-> << >>, sender |-> [sender EXCEPT !.timer_ = 0]]
        ELSE IF elapsed >= sender.current_RTO_
          THEN Retransmit(sender)
        ELSE [sent |-> << >>, sender |-> [sender EXCEPT !.timer_ = elapsed]]
=============================================================================
