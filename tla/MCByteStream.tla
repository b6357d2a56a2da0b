---------------------------- MODULE MCByteStream ----------------------------
(* Two byte values and a capacity of three: room for a consumed prefix that *)
(* is shorter than, equal to and longer than half of the vector.            *)
EXTENDS ByteStream
=============================================================================
