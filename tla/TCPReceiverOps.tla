--------------------------- MODULE TCPReceiverOps ---------------------------
(***************************************************************************)
(* src/src/tcp_receiver.cc: one record per TCPReceiver object.             *)
(***************************************************************************)
EXTENDS ReassemblerOps, Wrap32, Messages

NewReceiver(capacity) ==
    [reassembler |-> NewReassembler(NewStream(capacity)),
     initial_seqno_ |-> 0, syn_set_ |-> FALSE, fin_set_ |-> FALSE,
     ackno_ |-> NoAckno, stream_seqno_ |-> 0, RST_ |-> FALSE]

Inbound(receiver) == receiver.reassembler.output

(* Mutant: the reset is noted but the stream is left without error. *)
ResetFlagOnly(receiver) == [receiver EXCEPT !.RST_ = TRUE]

Reset(receiver) ==
    [receiver EXCEPT !.RST_ = TRUE, !.reassembler.output = SetErrorOf(@)]

(* The flags of the message, before its payload is inserted. *)
NoteFlags(receiver, message) ==
    [receiver EXCEPT
        !.initial_seqno_ = IF message.SYN THEN message.seqno ELSE @,
        !.syn_set_ = @ \/ message.SYN,
        !.fin_set_ = @ \/ (message.FIN /\ (receiver.syn_set_ \/ message.SYN))]

(* Mutant: numbers are read as if they were of the first turn. *)
IndexInFirstTurn(receiver, message) ==
    unwrap((message.seqno + One(message.SYN) - One(receiver.syn_set_)) % Range32,
           receiver.initial_seqno_, 0)

(* The stream index of the payload's first byte. *)
StreamIndex(receiver, message) ==
    unwrap((message.seqno + One(message.SYN) - One(receiver.syn_set_)) % Range32,
           receiver.initial_seqno_, receiver.stream_seqno_)

(* Mutant: the FIN is acknowledged as soon as it is seen. *)
NoteProgressEarlyFin(receiver) ==
    LET output == Inbound(receiver)
        acked  == output.pushed + One(receiver.syn_set_) + One(receiver.fin_set_)
    IN  [receiver EXCEPT !.stream_seqno_ = output.pushed,
                         !.ackno_ = wrap(acked, receiver.initial_seqno_)]

(* The acknowledgement after an insertion: the SYN, the bytes written, and *)
(* the FIN once the stream is closed. *)
NoteProgress(receiver) ==
    LET output == Inbound(receiver)
        acked  == output.pushed + One(receiver.syn_set_)
                    + One(output.closed /\ receiver.fin_set_)
    IN  [receiver EXCEPT !.stream_seqno_ = output.pushed,
                         !.ackno_ = wrap(acked, receiver.initial_seqno_)]

receive(receiver, message) ==
    LET noted == NoteFlags(receiver, message)
        fed   == [noted EXCEPT !.reassembler =
                     insert(@, StreamIndex(noted, message), message.payload, message.FIN)]
    IN  IF message.RST \/ Inbound(receiver).error
          THEN Reset(receiver)
          ELSE NoteProgress(fed)

(* Mutant: the unread bytes are forgotten. *)
WindowWithoutUnread(receiver) ==
    Minus(Range16 - 1, count_bytes_pending(receiver.reassembler)) % Range16

WindowSize(receiver) ==
    AtMost(Minus(Range16 - 1, count_bytes_pending(receiver.reassembler)),
           AvailableCapacity(Inbound(receiver))) % Range16

(* The TCPReceiverMessage for the peer's sender. *)
send(receiver) ==
    [ackno |-> IF receiver.syn_set_ THEN receiver.ackno_ ELSE NoAckno,
     window_size |-> WindowSize(receiver),
     RST |-> receiver.RST_ \/ Inbound(receiver).error]
=============================================================================
