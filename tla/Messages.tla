------------------------------ MODULE Messages ------------------------------
(***************************************************************************)
(* What TCPSender and TCPReceiver tell each other: a TCPSenderMessage      *)
(* [seqno, SYN, payload, FIN, RST] and a TCPReceiverMessage                *)
(* [ackno, window_size, RST].                                              *)
(***************************************************************************)
EXTENDS Stream, Widths

CONSTANT Range16    (* 2^16, uint16_t: the window of a receiver's message  *)

ASSUME WindowAssumption == Range16 \in Nat \ {0}

(* An optional<Wrap32> that holds no value. *)
NoAckno == -1

One(flag) == IF flag THEN 1 ELSE 0

(* The number of sequence numbers a TCPSenderMessage takes. *)
SequenceLength(message) == One(message.SYN) + Len(message.payload) + One(message.FIN)
=============================================================================
