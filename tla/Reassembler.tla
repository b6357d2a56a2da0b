---------------------------- MODULE Reassembler ----------------------------
(***************************************************************************)
(* A Reassembler fed with the substrings of one stream in any order, with  *)
(* overlaps and repetitions, while a reader takes bytes from its output.   *)
(* Byte number i of the stream is the value i.                             *)
(***************************************************************************)
EXTENDS ReassemblerOps

CONSTANTS
    Capacity,           (* of the output stream                            *)
    MaxLength,          (* longest stream (bound)                          *)
    MaxSegment,         (* longest substring (bound)                       *)
    AllowOvertaken,     (* TRUE: the empty substring at index 0 may arrive *)
                        (* after later bytes or the end of the stream      *)
    AllowEndWhenFull    (* TRUE: the end may be told by an empty substring *)
                        (* behind the last byte while the window is full   *)

ASSUME CapacityAssumption ==
    /\ Capacity \in Nat \ {0}
    /\ MaxLength \in Nat
    /\ MaxSegment \in Nat
    /\ AllowOvertaken \in BOOLEAN
    /\ AllowEndWhenFull \in BOOLEAN

VARIABLES
    length,             (* of the stream being reassembled                 *)
    reassembler

vars == <<length, reassembler>>

output == reassembler.output
cache  == reassembler.cache

Substring(first, size) == [i \in 1 .. size |-> first + i - 1]

Init ==
    /\ length \in 0 .. MaxLength
    /\ reassembler = NewReassembler(NewStream(Capacity))

(* A bare SYN, or a bare ACK, of the stream's start, overtaken by data or  *)
(* by the end: a duplicate of the first segment is enough.                 *)
Overtaken(first, size) ==
    /\ first = 0 /\ size = 0 /\ length > 0
    /\ output.pushed = 0
    /\ reassembler.finish \/ ~IsEmpty(cache)

(* A FIN alone, behind the last byte, when all bytes have been written and *)
(* the reader has made no room: the call notes the end, but returns before *)
(* it closes the stream, which waits for another substring.                *)
EndWhenFull(first, size, is_last) ==
    /\ is_last /\ size = 0
    /\ first = output.pushed
    /\ AvailableCapacity(output) = 0
    /\ ~output.closed

Insert(first, size, is_last) ==
    /\ reassembler' = insert(reassembler, first, Substring(first, size), is_last)
    /\ UNCHANGED length

Pop(len) ==
    /\ reassembler' = [reassembler EXCEPT !.output = PopFrom(@, len)]
    /\ UNCHANGED length

(* The substrings a sender cuts out of the stream: only one that ends the  *)
(* stream may be marked as the last.                                       *)
IsSubstring(first, size, is_last) ==
    first + size <= length /\ (is_last => first + size = length)

Next ==
    \/ \E first \in 0 .. length, size \in 0 .. MaxSegment, is_last \in BOOLEAN :
          /\ IsSubstring(first, size, is_last)
          /\ Overtaken(first, size) => AllowOvertaken
          /\ EndWhenFull(first, size, is_last) => AllowEndWhenFull
          /\ Insert(first, size, is_last)
    \/ \E len \in 1 .. Capacity : Pop(len)

Spec == Init /\ [][Next]_vars
-----------------------------------------------------------------------------
(* Whatever the order, overlaps and repetitions, the reader gets the       *)
(* original stream: no byte lost, repeated, moved or made up, and never    *)
(* more of them than the capacity (reassembler.hh:19-22).                  *)
OutputIsOriginal ==
    /\ output.queue = Substring(output.popped, Len(output.queue))
    /\ output.popped + Len(output.queue) = output.pushed
    /\ output.pushed <= length
    /\ Len(output.queue) <= Capacity

(* The indices of the stored substring that starts at k. *)
Stored(k) == k .. cache[k].last

(* Stored substrings lie strictly between what is written and the end of   *)
(* the window, do not overlap, and hold the bytes their indices say; no    *)
(* call of substr was out of range while they were cut.                    *)
CacheSound ==
    /\ ~reassembler.thrown
    /\ \A k \in DOMAIN cache :
          /\ k > output.pushed
          /\ cache[k].last < output.popped + Capacity
          /\ cache[k].data = Substring(k, cache[k].last - k + 1)
          /\ \A j \in DOMAIN cache \ {k} : Stored(j) \cap Stored(k) = {}

(* The indices known: those written, and those stored. *)
Learned == (0 .. output.pushed - 1) \cup UNION {Stored(k) : k \in DOMAIN cache}

Promise == INSTANCE ReassemblerSpec WITH
    learned <- Learned, end_known <- reassembler.finish,
    popped <- output.popped, closed <- output.closed

(* No byte shown inside the window is forgotten and none is invented, and  *)
(* the stream is closed by the very call that has written the last byte    *)
(* and knows it to be the last (reassembler.hh:19-31), but for an end told *)
(* while the window is full (EndWhenFull).                                 *)
ImplementsPromise == Promise!Spec
=============================================================================
