----------------------------- MODULE ByteStream -----------------------------
(***************************************************************************)
(* The in-memory byte stream of src/src/byte_stream.cc: bytes are appended *)
(* at the end of a vector, the reader advances start_index_ over them, and *)
(* push erases the consumed prefix once it exceeds half of the vector.     *)
(***************************************************************************)
EXTENDS Stream, SequencesExt

CONSTANTS
    Capacity,   (* capacity_, fixed by the constructor                     *)
    Byte,       (* the byte values                                         *)
    MaxChunk,   (* longest string handed to push, longest pop (bound)      *)
    MaxPushed   (* no push is attempted beyond this many bytes (bound)     *)

ASSUME ByteStreamAssumption ==
    /\ Capacity \in Nat
    /\ MaxChunk \in Nat
    /\ MaxPushed \in Nat

VARIABLES
    buffer_,            (* vector<char>: consumed prefix, then unread bytes *)
    start_index_,       (* index in buffer_ of the first unread byte        *)
    end_index,          (* index one past the last byte                     *)
    buffer_size,        (* number of unread bytes                           *)
    num_bytes_pushed_,
    num_bytes_poped_,
    closed_,
    error_

vars == <<buffer_, start_index_, end_index, buffer_size, num_bytes_pushed_,
          num_bytes_poped_, closed_, error_>>

Chunks == BoundedSeq(Byte, MaxChunk)

Init ==
    /\ buffer_ = << >>
    /\ start_index_ = 0
    /\ end_index = 0
    /\ buffer_size = 0
    /\ num_bytes_pushed_ = 0
    /\ num_bytes_poped_ = 0
    /\ closed_ = FALSE
    /\ error_ = FALSE

available_capacity == Capacity - buffer_size

(* Mutant: the view starts at the first byte of the vector. *)
peekFromFront == SubSeq(buffer_, 1, buffer_size)

(* Reader::peek: the unread bytes.  On an empty vector start_index_ is 0.  *)
peek == SubSeq(buffer_, start_index_ + 1, start_index_ + buffer_size)

(* Mutant: the vector is never compacted. *)
MustCompactNever == start_index_ > Len(buffer_)

(* What push erases before it appends. *)
MustCompact == start_index_ > Len(buffer_) \div 2
Erased      == IF MustCompact THEN start_index_ ELSE 0

push(data) ==
    LET n == AtMost(available_capacity, Len(data)) IN
    /\ buffer_' = SubSeq(buffer_, Erased + 1, Len(buffer_)) \o SubSeq(data, 1, n)
    /\ start_index_' = IF MustCompact THEN 0 ELSE start_index_
    /\ end_index' = end_index - Erased + n
    /\ num_bytes_pushed_' = num_bytes_pushed_ + n
    /\ buffer_size' = buffer_size + n
    /\ UNCHANGED <<num_bytes_poped_, closed_, error_>>

close ==
    /\ closed_' = TRUE
    /\ UNCHANGED <<buffer_, start_index_, end_index, buffer_size,
                   num_bytes_pushed_, num_bytes_poped_, error_>>

set_error ==
    /\ error_' = TRUE
    /\ UNCHANGED <<buffer_, start_index_, end_index, buffer_size,
                   num_bytes_pushed_, num_bytes_poped_, closed_>>

(* Mutant: pop does not look at what is buffered. *)
popBeyond(len) ==
    /\ start_index_' = start_index_ + len
    /\ buffer_size' = buffer_size - len
    /\ num_bytes_poped_' = num_bytes_poped_ + len
    /\ UNCHANGED <<buffer_, end_index, num_bytes_pushed_, closed_, error_>>

pop(len) ==
    LET n == AtMost(len, buffer_size) IN
    /\ start_index_' = start_index_ + n
    /\ buffer_size' = buffer_size - n
    /\ num_bytes_poped_' = num_bytes_poped_ + n
    /\ UNCHANGED <<buffer_, end_index, num_bytes_pushed_, closed_, error_>>

Next ==
    \/ \E data \in Chunks : num_bytes_pushed_ < MaxPushed /\ push(data)
    \/ \E len \in 0 .. MaxChunk : pop(len)
    \/ close
    \/ set_error

Spec == Init /\ [][Next]_vars
-----------------------------------------------------------------------------
BufferTypeOK ==
    /\ buffer_ \in Seq(Byte)
    /\ start_index_ \in Nat
    /\ end_index \in Nat
    /\ buffer_size \in 0 .. Capacity
    /\ num_bytes_pushed_ \in Nat
    /\ num_bytes_poped_ \in Nat

FlagTypeOK == closed_ \in BOOLEAN /\ error_ \in BOOLEAN

(* Every field holds a value of its C++ type, read as a natural number:    *)
(* no unsigned subtraction in byte_stream.cc ever goes below zero.         *)
TypeOK == BufferTypeOK /\ FlagTypeOK

(* The four indices that describe one buffer agree whatever the order of   *)
(* pushes, pops and compactions: the view peek() builds stays inside the   *)
(* vector, and both running counters differ by the bytes still held.       *)
IndicesAgree ==
    /\ end_index = Len(buffer_)
    /\ start_index_ + buffer_size = end_index
    /\ num_bytes_pushed_ - num_bytes_poped_ = buffer_size

(* push compacts often enough that the vector never holds more than twice  *)
(* the capacity, a quarter of what the constructor reserves: push never    *)
(* reallocates.                                                            *)
CompactionBound == Len(buffer_) <= 2 * Capacity

(* The abstract stream a ByteStream object stands for. *)
Abstract == [capacity |-> Capacity, queue |-> peek,
             pushed |-> num_bytes_pushed_, popped |-> num_bytes_poped_,
             closed |-> closed_, error |-> error_]

Pipe == INSTANCE ByteStreamSpec WITH Lengths <- 0 .. MaxChunk, stream <- Abstract

(* The reader sees exactly the accepted bytes, in order and each once:     *)
(* every behaviour of the vector, seen through peek(), is one of the pipe. *)
ImplementsPipe == Pipe!Spec
=============================================================================
