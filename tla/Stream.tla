------------------------------- MODULE Stream -------------------------------
(***************************************************************************)
(* The abstract byte stream: a bounded first-in first-out pipe, one record *)
(* per C++ ByteStream object.  ByteStream.tla, the detailed model of       *)
(* byte_stream.cc, is shown to implement it; the modules above it          *)
(* (reassembler, receiver, sender) hold streams of this form.              *)
(***************************************************************************)
EXTENDS Integers, Sequences

(* A freshly constructed ByteStream of the given capacity. *)
NewStream(capacity) ==
    [capacity |-> capacity, queue |-> << >>, pushed |-> 0, popped |-> 0,
     closed |-> FALSE, error |-> FALSE]

StreamOf(byte) ==
    [capacity : Nat, queue : Seq(byte), pushed : Nat, popped : Nat,
     closed : BOOLEAN, error : BOOLEAN]

AtMost(a, b)  == IF a <= b THEN a ELSE b
AtLeast(a, b) == IF a >= b THEN a ELSE b

AvailableCapacity(stream) == stream.capacity - Len(stream.queue)

(* Writer::push accepts the prefix of data that fits. *)
PushTo(stream, data) ==
    LET n == AtMost(AvailableCapacity(stream), Len(data))
    IN  [stream EXCEPT !.queue = @ \o SubSeq(data, 1, n), !.pushed = @ + n]

CloseOf(stream) == [stream EXCEPT !.closed = TRUE]

SetErrorOf(stream) == [stream EXCEPT !.error = TRUE]

(* Reader::pop removes at most what is buffered. *)
PopFrom(stream, len) ==
    LET n == AtMost(len, Len(stream.queue))
    IN  [stream EXCEPT !.queue = SubSeq(@, n + 1, Len(@)), !.popped = @ + n]

IsFinished(stream) == stream.closed /\ stream.queue = << >>
=============================================================================
