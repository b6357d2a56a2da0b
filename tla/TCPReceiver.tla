---------------------------- MODULE TCPReceiver ----------------------------
(***************************************************************************)
(* A TCPReceiver and the segments of one stream, which arrive in any       *)
(* order, cut in any way, late and more than once; only the SYN comes      *)
(* first, because the peer has a window of one until it is acknowledged.   *)
(* Byte number i of the stream is the value i.                             *)
(***************************************************************************)
EXTENDS TCPReceiverOps

CONSTANTS
    Capacity,           (* of the inbound stream                           *)
    MaxLength,          (* longest stream (bound)                          *)
    MaxSegment          (* longest payload (bound)                         *)

ASSUME ReceiverAssumption ==
    /\ Capacity \in Nat \ {0}
    /\ MaxLength \in Nat
    /\ MaxSegment \in Nat

VARIABLES
    isn,                (* the peer's initial sequence number              *)
    length,             (* of the peer's stream                            *)
    receiver

vars == <<isn, length, receiver>>

output == Inbound(receiver)

Substring(first, size) == [i \in 1 .. size |-> first + i - 1]

(* The segment that carries size bytes from index first. *)
Segment(first, size, syn, fin) ==
    [seqno |-> wrap(IF syn THEN 0 ELSE first + 1, isn), SYN |-> syn,
     payload |-> Substring(first, size), FIN |-> fin, RST |-> FALSE]

(* What the peer's sender can cut out of its stream. *)
CanBeSent(first, size, syn, fin) ==
    /\ first + size <= length
    /\ syn => first = 0
    /\ fin => first + size = length

(* No segment lives so long that its sequence number comes round again. *)
Lives(first) == 2 * Distance(first, output.pushed) < Range32

(* A segment without payload at the start of the stream, a bare SYN sent   *)
(* again, that comes after later segments: see Reassembler.                *)
Overtaken(first, size) ==
    /\ first = 0 /\ size = 0 /\ length > 0
    /\ output.pushed = 0
    /\ receiver.reassembler.finish \/ ~IsEmpty(receiver.reassembler.cache)

Init ==
    /\ isn \in Raw
    /\ length \in 0 .. MaxLength
    /\ receiver = NewReceiver(Capacity)

Arrive(first, size, syn, fin) ==
    /\ receiver' = receive(receiver, Segment(first, size, syn, fin))
    /\ UNCHANGED <<isn, length>>

ArriveRST ==
    /\ receiver' = receive(receiver, [Segment(0, 0, FALSE, FALSE) EXCEPT !.RST = TRUE])
    /\ UNCHANGED <<isn, length>>

(* The owner of the connection aborts it. *)
SetError ==
    /\ receiver' = [receiver EXCEPT !.reassembler.output = SetErrorOf(@)]
    /\ UNCHANGED <<isn, length>>

Pop(len) ==
    /\ receiver' = [receiver EXCEPT !.reassembler.output = PopFrom(@, len)]
    /\ UNCHANGED <<isn, length>>

Next ==
    \/ \E first \in 0 .. length, size \in 0 .. MaxSegment, syn, fin \in BOOLEAN :
          /\ CanBeSent(first, size, syn, fin)
          /\ Lives(first)
          /\ receiver.syn_set_ \/ syn
          /\ ~Overtaken(first, size)
          /\ Arrive(first, size, syn, fin)
    \/ ArriveRST
    \/ SetError
    \/ \E len \in 1 .. Capacity : Pop(len)

Spec == Init /\ [][Next]_vars
-----------------------------------------------------------------------------
(* Sequence numbers wrap, segments repeat and overlap: the application     *)
(* still reads the peer's bytes in order, each once, and the end of the    *)
(* stream only behind the last of them.                                    *)
OutputIsOriginal ==
    /\ ~receiver.reassembler.thrown
    /\ output.queue = Substring(output.popped, Len(output.queue))
    /\ output.popped + Len(output.queue) = output.pushed
    /\ output.closed => output.pushed = length

(* The acknowledgement sent covers the SYN, every byte written and the FIN *)
(* of a closed stream, and nothing the receiver may still lose.            *)
AckIsProgress ==
    LET message == send(receiver)
    IN  /\ (message.ackno # NoAckno) <=> receiver.syn_set_
        /\ receiver.syn_set_ =>
              message.ackno = wrap(1 + output.pushed + One(output.closed), isn)

(* Whatever lies in the window sent to the peer can be stored: the window  *)
(* never reaches beyond the room left by the unread bytes, although it is  *)
(* computed in 16 bits and reduced by what the reassembler holds.          *)
WindowFits == output.pushed + send(receiver).window_size <= output.popped + Capacity

(* After an error or a reset, every message sent says so and nothing more  *)
(* is written.                                                             *)
ErrorIsFinal ==
    [][send(receiver).RST => /\ send(receiver)'.RST
                             /\ output'.pushed = output.pushed]_vars
=============================================================================
