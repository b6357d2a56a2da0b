--------------------------- MODULE ByteStreamSpec ---------------------------
(***************************************************************************)
(* What a ByteStream promises its writer and its reader (byte_stream.hh):  *)
(* the reader sees the accepted bytes in order, each once, and never more  *)
(* than the capacity is held.                                              *)
(***************************************************************************)
EXTENDS Stream

CONSTANTS
    Capacity,   (* bytes the stream may hold                               *)
    Chunks,     (* the strings a writer may push                           *)
    Lengths     (* the lengths a reader may pop                            *)

VARIABLE stream

Init == stream = NewStream(Capacity)

Push(data) == stream' = PushTo(stream, data)
Close      == stream' = CloseOf(stream)
SetError   == stream' = SetErrorOf(stream)
Pop(len)   == stream' = PopFrom(stream, len)

Next ==
    \/ \E data \in Chunks : Push(data)
    \/ \E len \in Lengths : Pop(len)
    \/ Close
    \/ SetError

Spec == Init /\ [][Next]_stream
=============================================================================
