-------------------------- MODULE ByteStream_proofs --------------------------
(***************************************************************************)
(* Proofs about ByteStream for every capacity, byte set and bound: its     *)
(* invariants, and that the vector implements the abstract pipe.           *)
(***************************************************************************)
EXTENDS ByteStream, OperatorLemmas

(* The invariant that is inductive: none of its parts is on its own,       *)
(* because push keeps the bound only for indices that agree.               *)
IInv == TypeOK /\ IndicesAgree /\ CompactionBound

(* A string handed to push is a sequence of bytes. *)
LEMMA ChunkIsSeq == ASSUME NEW data \in Chunks PROVE data \in Seq(Byte)
BY SeqDef, ByteStreamAssumption DEF Chunks, BoundedSeq, SeqOf

(* What push leaves in the vector: the bytes from Erased on, then the      *)
(* first n bytes of the data.                                              *)
LEMMA PushedVector ==
    ASSUME IInv, NEW data \in Chunks,
           NEW n, n = AtMost(available_capacity, Len(data))
    PROVE  /\ n \in Nat
           /\ n <= Len(data)
           /\ n <= Capacity - buffer_size
           /\ Erased \in Nat
           /\ Erased <= start_index_
           /\ SubSeq(buffer_, Erased + 1, Len(buffer_)) \in Seq(Byte)
           /\ Len(SubSeq(buffer_, Erased + 1, Len(buffer_))) = Len(buffer_) - Erased
           /\ \A i \in 1 .. Len(buffer_) - Erased :
                 SubSeq(buffer_, Erased + 1, Len(buffer_))[i] = buffer_[Erased + i]
           /\ SubSeq(data, 1, n) \in Seq(Byte)
           /\ Len(SubSeq(data, 1, n)) = n
<1> USE ByteStreamAssumption
<1>1. data \in Seq(Byte) /\ Len(data) \in Nat
  BY ChunkIsSeq, LenProperties
<1>2. buffer_ \in Seq(Byte) /\ Len(buffer_) \in Nat
  BY LenProperties DEF IInv, TypeOK, BufferTypeOK
<1>3. n \in Nat /\ n <= Len(data) /\ n <= Capacity - buffer_size
  BY <1>1 DEF IInv, TypeOK, BufferTypeOK, AtMost, available_capacity
<1>4. Erased \in Nat /\ Erased <= start_index_ /\ Erased <= Len(buffer_)
  BY <1>2 DEF IInv, TypeOK, BufferTypeOK, IndicesAgree, Erased
<1>5. /\ SubSeq(data, 1, n) \in Seq(Byte)
      /\ Len(SubSeq(data, 1, n)) = n
  <2>1. SubSeq(data, 0 + 1, 0 + n) \in Seq(Byte) /\ Len(SubSeq(data, 0 + 1, 0 + n)) = n
    BY <1>1, <1>3, ViewOf
  <2> QED
    BY <1>3, <2>1
<1>6. /\ SubSeq(buffer_, Erased + 1, Len(buffer_)) \in Seq(Byte)
      /\ Len(SubSeq(buffer_, Erased + 1, Len(buffer_))) = Len(buffer_) - Erased
      /\ \A i \in 1 .. Len(buffer_) - Erased :
            SubSeq(buffer_, Erased + 1, Len(buffer_))[i] = buffer_[Erased + i]
  <2> DEFINE size == Len(buffer_) - Erased
  <2>1. size \in Nat /\ Erased + size = Len(buffer_)
    BY <1>2, <1>4
  <2> HIDE DEF size
  <2>2. /\ SubSeq(buffer_, Erased + 1, Erased + size) \in Seq(Byte)
        /\ Len(SubSeq(buffer_, Erased + 1, Erased + size)) = size
        /\ \A i \in 1 .. size :
              SubSeq(buffer_, Erased + 1, Erased + size)[i] = buffer_[Erased + i]
    BY <1>2, <1>4, <2>1, ViewOf
  <2> QED
    BY <2>1, <2>2 DEF size
<1> QED
  BY <1>3, <1>4, <1>5, <1>6

(* A constructed stream satisfies the invariant.                           *)
LEMMA InitIInv == Init => IInv
<1> SUFFICES ASSUME Init PROVE IInv
  OBVIOUS
<1>1. buffer_ \in Seq(Byte) /\ Len(buffer_) = 0
  BY EmptySeq DEF Init
<1>2. BufferTypeOK
  BY <1>1, ByteStreamAssumption DEF Init, BufferTypeOK
<1>3. FlagTypeOK
  BY DEF Init, FlagTypeOK
<1>4. IndicesAgree
  BY <1>1 DEF Init, IndicesAgree
<1>5. CompactionBound
  BY <1>1, ByteStreamAssumption DEF CompactionBound
<1> QED
  BY <1>2, <1>3, <1>4, <1>5 DEF IInv, TypeOK

(* push keeps it: what is appended is what fits, and the compaction before *)
(* it erases only what has been read.                                      *)
LEMMA PushIInv ==
    ASSUME IInv, NEW data \in Chunks, push(data)
    PROVE  IInv'
<1> DEFINE n == AtMost(available_capacity, Len(data))
           kept == SubSeq(buffer_, Erased + 1, Len(buffer_))
           new == SubSeq(data, 1, n)
<1>1. /\ n \in Nat
      /\ n <= Capacity - buffer_size
      /\ Erased \in Nat
      /\ Erased <= start_index_
      /\ kept \in Seq(Byte)
      /\ Len(kept) = Len(buffer_) - Erased
      /\ new \in Seq(Byte)
      /\ Len(new) = n
  BY PushedVector
<1>2. buffer_' = kept \o new
  BY DEF push
<1>3. buffer_' \in Seq(Byte) /\ Len(buffer_') = Len(buffer_) - Erased + n
  BY <1>1, <1>2, ConcatProperties
<1>4. /\ start_index_' = start_index_ - Erased
      /\ end_index' = end_index - Erased + n
      /\ buffer_size' = buffer_size + n
      /\ num_bytes_pushed_' = num_bytes_pushed_ + n
      /\ UNCHANGED <<num_bytes_poped_, closed_, error_>>
  BY DEF push, Erased, IInv, TypeOK, BufferTypeOK
<1> HIDE DEF n, kept, new
<1>5. Len(buffer_) \in Nat
  BY LenProperties DEF IInv, TypeOK, BufferTypeOK
<1>6. TypeOK'
  <2>1. BufferTypeOK'
    BY <1>1, <1>3, <1>4, <1>5, ByteStreamAssumption
       DEF IInv, TypeOK, BufferTypeOK, IndicesAgree
  <2>2. FlagTypeOK'
    BY <1>4 DEF IInv, TypeOK, FlagTypeOK
  <2> QED
    BY <2>1, <2>2 DEF TypeOK
<1>7. IndicesAgree'
  BY <1>1, <1>3, <1>4, <1>5 DEF IInv, TypeOK, BufferTypeOK, IndicesAgree
<1>8. CompactionBound'
  BY <1>1, <1>3, <1>5, ByteStreamAssumption
     DEF IInv, TypeOK, BufferTypeOK, IndicesAgree, CompactionBound, Erased, MustCompact
<1> QED
  BY <1>6, <1>7, <1>8 DEF IInv

(* pop keeps it: position and totals move together, or it throws.          *)
LEMMA PopIInv ==
    ASSUME IInv, NEW len \in 0 .. MaxChunk, pop(len)
    PROVE  IInv'
<1> USE ByteStreamAssumption
<1>1. Len(buffer_) \in Nat
  BY LenProperties DEF IInv, TypeOK, BufferTypeOK
<1> DEFINE n == AtMost(len, buffer_size)
<1>2. n \in 0 .. buffer_size
  BY DEF AtMost, IInv, TypeOK, BufferTypeOK
<1>3. /\ start_index_' = start_index_ + n
      /\ buffer_size' = buffer_size - n
      /\ num_bytes_poped_' = num_bytes_poped_ + n
      /\ UNCHANGED <<buffer_, end_index, num_bytes_pushed_>>
  BY DEF pop
<1> HIDE DEF n
<1>4. BufferTypeOK' /\ IndicesAgree' /\ CompactionBound'
  BY <1>1, <1>2, <1>3 DEF IInv, TypeOK, BufferTypeOK, IndicesAgree, CompactionBound
<1>5. FlagTypeOK'
  BY DEF IInv, TypeOK, FlagTypeOK, pop
<1> QED
  BY <1>4, <1>5 DEF IInv, TypeOK

(* Every operation keeps the invariant.                                    *)
LEMMA NextIInv == IInv /\ [Next]_vars => IInv'
<1> SUFFICES ASSUME IInv, [Next]_vars PROVE IInv'
  OBVIOUS
<1>1. ASSUME NEW data \in Chunks, push(data) PROVE IInv'
  BY <1>1, PushIInv
<1>2. ASSUME NEW len \in 0 .. MaxChunk, pop(len) PROVE IInv'
  BY <1>2, PopIInv
<1>3. CASE close
  <2>1. BufferTypeOK' /\ IndicesAgree' /\ CompactionBound'
    BY <1>3 DEF close, IInv, TypeOK, BufferTypeOK, IndicesAgree, CompactionBound
  <2>2. FlagTypeOK'
    BY <1>3 DEF close, IInv, TypeOK, FlagTypeOK
  <2> QED
    BY <2>1, <2>2 DEF IInv, TypeOK
<1>4. CASE set_error
  <2>1. BufferTypeOK' /\ IndicesAgree' /\ CompactionBound'
    BY <1>4 DEF set_error, IInv, TypeOK, BufferTypeOK, IndicesAgree, CompactionBound
  <2>2. FlagTypeOK'
    BY <1>4 DEF set_error, IInv, TypeOK, FlagTypeOK
  <2> QED
    BY <2>1, <2>2 DEF IInv, TypeOK
<1>5. CASE UNCHANGED vars
  <2>1. BufferTypeOK' /\ IndicesAgree' /\ CompactionBound'
    BY <1>5 DEF vars, IInv, TypeOK, BufferTypeOK, IndicesAgree, CompactionBound
  <2>2. FlagTypeOK'
    BY <1>5 DEF vars, IInv, TypeOK, FlagTypeOK
  <2> QED
    BY <2>1, <2>2 DEF IInv, TypeOK
<1> QED
  BY <1>1, <1>2, <1>3, <1>4, <1>5 DEF Next

(* In every reachable state the inductive invariant holds. *)
THEOREM Invariance == Spec => []IInv
BY InitIInv, NextIInv, PTL DEF Spec

(* Every field of the ByteStream keeps its type: in particular the         *)
(* unsigned subtractions of push, pop and available_capacity never wrap.   *)
THEOREM TypeCorrect == Spec => []TypeOK
<1>1. IInv => TypeOK
  BY DEF IInv
<1> QED
  BY <1>1, Invariance, PTL

(* The vector's length, its two indices and the two running counters       *)
(* always describe the same unread bytes.                                  *)
THEOREM IndicesAlwaysAgree == Spec => []IndicesAgree
<1>1. IInv => IndicesAgree
  BY DEF IInv
<1> QED
  BY <1>1, Invariance, PTL

(* The constructor's reserve is enough: the vector never reallocates, so   *)
(* a push within the capacity is an append in place.                       *)
THEOREM NeverReallocates == Spec => [](CompactionBound /\ Len(buffer_) <= 8 * Capacity)
<1>1. IInv => CompactionBound /\ Len(buffer_) <= 8 * Capacity
  BY LenProperties, ByteStreamAssumption DEF IInv, TypeOK, BufferTypeOK, CompactionBound
<1> QED
  BY <1>1, Invariance, PTL
-----------------------------------------------------------------------------
(* The view peek() gives is as long as buffer_size says. *)
PeekIsView ==
    /\ peek \in Seq(Byte)
    /\ Len(peek) = buffer_size
    /\ \A i \in 1 .. buffer_size : peek[i] = buffer_[start_index_ + i]

(* peek returns the unread part of the vector.                             *)
LEMMA PeekView == IInv => PeekIsView
<1> SUFFICES ASSUME IInv PROVE PeekIsView
  OBVIOUS
<1>1. /\ buffer_ \in Seq(Byte)
      /\ start_index_ \in Nat
      /\ buffer_size \in Nat
      /\ start_index_ + buffer_size <= Len(buffer_)
  BY LenProperties, ByteStreamAssumption DEF IInv, TypeOK, BufferTypeOK, IndicesAgree
<1> QED
  BY <1>1, ViewOf DEF PeekIsView, peek

(* A push appends the accepted bytes to what the reader will see, whether  *)
(* or not it moves the unread bytes to the front of the vector.            *)
LEMMA PushPeek ==
    ASSUME IInv, NEW data \in Chunks, push(data), IInv'
    PROVE  peek' = peek \o SubSeq(data, 1, AtMost(available_capacity, Len(data)))
<1> DEFINE n == AtMost(available_capacity, Len(data))
           kept == SubSeq(buffer_, Erased + 1, Len(buffer_))
           new == SubSeq(data, 1, n)
<1>1. /\ n \in Nat
      /\ Erased \in Nat
      /\ Erased <= start_index_
      /\ kept \in Seq(Byte)
      /\ Len(kept) = Len(buffer_) - Erased
      /\ \A i \in 1 .. Len(buffer_) - Erased : kept[i] = buffer_[Erased + i]
      /\ new \in Seq(Byte)
      /\ Len(new) = n
  BY PushedVector
<1>2. /\ buffer_' = kept \o new
      /\ start_index_' = start_index_ - Erased
      /\ buffer_size' = buffer_size + n
  BY DEF push, Erased, IInv, TypeOK, BufferTypeOK
<1>3. /\ start_index_ \in Nat
      /\ buffer_size \in Nat
      /\ start_index_ + buffer_size = Len(buffer_)
  BY ByteStreamAssumption DEF IInv, TypeOK, BufferTypeOK, IndicesAgree
<1>4. PeekIsView
  BY PeekView
<1>5. PeekIsView'
  BY PeekView, PTL
<1> SUFFICES peek' = peek \o new
  OBVIOUS
<1> HIDE DEF n, kept, new
<1>6. \A i \in 1 .. Len(kept) + Len(new) :
         buffer_'[i] = IF i <= Len(kept) THEN kept[i] ELSE new[i - Len(kept)]
  BY <1>1, <1>2, ConcatProperties
<1>7. /\ peek \o new \in Seq(Byte)
      /\ Len(peek \o new) = buffer_size + n
      /\ \A i \in 1 .. buffer_size + n :
            (peek \o new)[i] = IF i <= buffer_size THEN peek[i] ELSE new[i - buffer_size]
  BY <1>1, <1>4, ConcatProperties DEF PeekIsView
<1>8. peek' \in Seq(Byte) /\ Len(peek') = buffer_size + n
  BY <1>2, <1>5 DEF PeekIsView
<1>9. ASSUME NEW i \in 1 .. buffer_size + n
      PROVE  peek'[i] = (peek \o new)[i]
  <2> DEFINE j == start_index_ - Erased + i
  <2>1. peek'[i] = buffer_'[j]
    BY <1>2, <1>5 DEF PeekIsView
  <2>2. j \in 1 .. Len(kept) + Len(new) /\ i \in Nat
    BY <1>1, <1>3
  <2>3. (j <= Len(kept)) <=> (i <= buffer_size)
    BY <1>1, <1>3
  <2>4. j - Len(kept) = i - buffer_size
    <3>1. \A a, b, c, d \in Int : (a - b + c) - ((a + d) - b) = c - d
      OBVIOUS
    <3>2. Len(kept) = (start_index_ + buffer_size) - Erased
      BY <1>1, <1>3
    <3>3. start_index_ \in Int /\ Erased \in Int /\ i \in Int /\ buffer_size \in Int
      BY <1>1, <1>3
    <3> QED
      BY <3>1, <3>2, <3>3
  <2>5. Erased + j = start_index_ + i
    BY <1>1, <1>3
  <2> HIDE DEF j
  <2>6. CASE i <= buffer_size
    <3>1. buffer_'[j] = kept[j]
      BY <1>6, <2>2, <2>3, <2>6
    <3>2. j \in 1 .. Len(buffer_) - Erased
      BY <1>1, <2>2, <2>3, <2>6
    <3>3. kept[j] = buffer_[start_index_ + i]
      BY <1>1, <2>5, <3>2
    <3>4. buffer_[start_index_ + i] = peek[i]
      BY <1>4, <2>6 DEF PeekIsView
    <3> QED
      BY <1>7, <2>1, <2>6, <3>1, <3>3, <3>4
  <2>7. CASE ~(i <= buffer_size)
    <3>1. buffer_'[j] = new[i - buffer_size]
      BY <1>6, <2>2, <2>3, <2>4, <2>7
    <3> QED
      BY <1>7, <2>1, <2>7, <3>1
  <2> QED
    BY <2>6, <2>7
<1> QED
  BY <1>7, <1>8, <1>9, SeqEqual

(* Seen through the refinement mapping, a state of the vector is a stream. *)
AbstractOK == Abstract \in StreamOf(Byte) /\ Len(Abstract.queue) <= Abstract.capacity

(* The state of the pipe that a stream stands for is one.                  *)
LEMMA AbstractType == IInv => AbstractOK
<1> SUFFICES ASSUME IInv PROVE AbstractOK
  OBVIOUS
<1>1. /\ Capacity \in Nat
      /\ num_bytes_pushed_ \in Nat
      /\ num_bytes_poped_ \in Nat
      /\ buffer_size <= Capacity
  BY ByteStreamAssumption DEF IInv, TypeOK, BufferTypeOK
<1>2. peek \in Seq(Byte) /\ Len(peek) = buffer_size
  BY PeekView DEF PeekIsView
<1>3. closed_ \in BOOLEAN /\ error_ \in BOOLEAN
  BY DEF IInv, TypeOK, FlagTypeOK
<1>4. Abstract \in StreamOf(Byte)
  BY <1>1, <1>2, <1>3, Zenon DEF Abstract, StreamOf
<1>5. Abstract.queue = peek /\ Abstract.capacity = Capacity
  BY DEF Abstract
<1> QED
  BY <1>1, <1>2, <1>4, <1>5 DEF AbstractOK

(* The mapping's fields. *)
AbstractFieldsOK ==
    IsStream(Byte, Abstract, Capacity, peek, num_bytes_pushed_, num_bytes_poped_,
             closed_, error_)

(* The fields of the pipe that a stream stands for.                        *)
LEMMA AbstractFields == IInv => AbstractFieldsOK
<1>1. /\ Abstract.capacity = Capacity
      /\ Abstract.queue = peek
      /\ Abstract.pushed = num_bytes_pushed_
      /\ Abstract.popped = num_bytes_poped_
      /\ Abstract.closed = closed_
      /\ Abstract.error = error_
  BY DEF Abstract
<1> QED
  BY <1>1, AbstractType, Zenon DEF AbstractOK, AbstractFieldsOK, IsStream

(* The operations of the instance are those of Stream. *)
LEMMA PipeOps ==
    ASSUME NEW s, NEW data, NEW len
    PROVE  /\ Pipe!PushTo(s, data) = PushTo(s, data)
           /\ Pipe!PopFrom(s, len) = PopFrom(s, len)
           /\ Pipe!CloseOf(s) = CloseOf(s)
           /\ Pipe!SetErrorOf(s) = SetErrorOf(s)
BY Zenon DEF Pipe!PushTo, Pipe!PopFrom, Pipe!CloseOf, Pipe!SetErrorOf,
       Pipe!AvailableCapacity, Pipe!AtMost,
       PushTo, PopFrom, CloseOf, SetErrorOf, AvailableCapacity, AtMost

(* push is the pipe's: as much as fits goes in behind what is there.       *)
LEMMA PushRefines ==
    ASSUME IInv, NEW data \in Chunks, push(data), IInv'
    PROVE  Pipe!Push(data)
<1> DEFINE n == AtMost(available_capacity, Len(data))
<1>1. AbstractOK /\ AbstractFieldsOK /\ AbstractFieldsOK'
  BY AbstractType, AbstractFields, PTL
<1>2. /\ Abstract.capacity = Capacity /\ Abstract.queue = peek
      /\ Abstract.pushed = num_bytes_pushed_ /\ Abstract.popped = num_bytes_poped_
      /\ Abstract.closed = closed_ /\ Abstract.error = error_
  BY <1>1, Zenon DEF AbstractFieldsOK, IsStream
<1>3. n = AtMost(Abstract.capacity - Len(Abstract.queue), Len(data))
  BY <1>2, PeekView DEF PeekIsView, available_capacity
<1>4. /\ peek' = peek \o SubSeq(data, 1, n)
      /\ num_bytes_pushed_' = num_bytes_pushed_ + n
      /\ num_bytes_poped_' = num_bytes_poped_
      /\ closed_' = closed_
      /\ error_' = error_
  BY PushPeek DEF push
<1> HIDE DEF n
<1>5. IsStream(Byte, PushTo(Abstract, data), Abstract.capacity,
               Abstract.queue \o SubSeq(data, 1, n), Abstract.pushed + n,
               Abstract.popped, Abstract.closed, Abstract.error)
  BY <1>1, <1>3, ChunkIsSeq, PushToFields, Zenon DEF AbstractOK
<1>6. IsStream(Byte, PushTo(Abstract, data), Capacity, peek', num_bytes_pushed_',
               num_bytes_poped_', closed_', error_')
  BY <1>2, <1>4, <1>5, Zenon
<1>7. Abstract' = PushTo(Abstract, data)
  BY <1>1, <1>6, SameStream, Zenon DEF AbstractFieldsOK
<1> QED
  BY <1>7, PipeOps, Zenon DEF Pipe!Push

(* A pop drops the bytes at the front of what the reader sees. *)
LEMMA PopPeek ==
    ASSUME IInv, NEW len \in 0 .. MaxChunk, pop(len), IInv'
    PROVE  peek' = SubSeq(peek, AtMost(len, buffer_size) + 1, Len(peek))
<1> DEFINE n == AtMost(len, buffer_size)
           size == buffer_size - n
           rest == SubSeq(peek, n + 1, n + size)
<1>1. /\ start_index_ \in Nat
      /\ buffer_size \in Nat
      /\ n \in 0 .. buffer_size
  BY ByteStreamAssumption DEF IInv, TypeOK, BufferTypeOK, AtMost
<1>2. /\ start_index_' = start_index_ + n
      /\ buffer_size' = size
      /\ buffer_' = buffer_
  BY DEF pop
<1>3. PeekIsView
  BY PeekView
<1>4. PeekIsView'
  BY PeekView, PTL
<1>5. size \in Nat /\ n + size = Len(peek)
  BY <1>1, <1>3 DEF PeekIsView
<1> SUFFICES peek' = rest
  BY <1>5
<1> HIDE DEF n, size
<1>6. /\ rest \in Seq(Byte)
      /\ Len(rest) = size
      /\ \A i \in 1 .. size : rest[i] = peek[n + i]
  BY <1>1, <1>3, <1>5, ViewOf DEF PeekIsView
<1> HIDE DEF rest
<1>7. peek' \in Seq(Byte) /\ Len(peek') = size
  BY <1>2, <1>4 DEF PeekIsView
<1>8. ASSUME NEW i \in 1 .. size
      PROVE  peek'[i] = rest[i]
  <2>1. peek'[i] = buffer_[start_index_ + n + i]
    BY <1>2, <1>4 DEF PeekIsView
  <2>2. n + i \in 1 .. buffer_size /\ start_index_ + n + i = start_index_ + (n + i)
    BY <1>1, <1>5, <1>3 DEF PeekIsView
  <2>3. peek[n + i] = buffer_[start_index_ + (n + i)]
    BY <1>3, <2>2 DEF PeekIsView
  <2> QED
    BY <1>6, <2>1, <2>2, <2>3
<1> QED
  BY <1>6, <1>7, <1>8, SeqEqual

(* pop is the pipe's: the front goes out.                                  *)
LEMMA PopRefines ==
    ASSUME IInv, NEW len \in 0 .. MaxChunk, pop(len), IInv'
    PROVE  Pipe!Pop(len)
<1> DEFINE n == AtMost(len, buffer_size)
<1>1. AbstractOK /\ AbstractFieldsOK /\ AbstractFieldsOK'
  BY AbstractType, AbstractFields, PTL
<1>2. /\ Abstract.capacity = Capacity /\ Abstract.queue = peek
      /\ Abstract.pushed = num_bytes_pushed_ /\ Abstract.popped = num_bytes_poped_
      /\ Abstract.closed = closed_ /\ Abstract.error = error_
  BY <1>1, Zenon DEF AbstractFieldsOK, IsStream
<1>3. n = AtMost(len, Len(Abstract.queue)) /\ len \in Nat
  BY <1>2, PeekView, ByteStreamAssumption DEF PeekIsView
<1>4. /\ peek' = SubSeq(peek, n + 1, Len(peek))
      /\ num_bytes_poped_' = num_bytes_poped_ + n
      /\ num_bytes_pushed_' = num_bytes_pushed_
      /\ closed_' = closed_
      /\ error_' = error_
  BY PopPeek DEF pop
<1> HIDE DEF n
<1>5. IsStream(Byte, PopFrom(Abstract, len), Abstract.capacity,
               SubSeq(Abstract.queue, n + 1, Len(Abstract.queue)), Abstract.pushed,
               Abstract.popped + n, Abstract.closed, Abstract.error)
  BY <1>1, <1>3, PopFromFields, Zenon DEF AbstractOK
<1>6. IsStream(Byte, PopFrom(Abstract, len), Capacity, peek', num_bytes_pushed_',
               num_bytes_poped_', closed_', error_')
  BY <1>2, <1>4, <1>5, Zenon
<1>7. Abstract' = PopFrom(Abstract, len)
  BY <1>1, <1>6, SameStream, Zenon DEF AbstractFieldsOK
<1> QED
  BY <1>7, PipeOps, Zenon DEF Pipe!Pop

(* The initial vector is an empty pipe. *)
LEMMA InitRefines == Init => Pipe!Init
<1> SUFFICES ASSUME Init PROVE Pipe!Init
  OBVIOUS
<1>1. peek = << >>
  BY SubSeqEmpty DEF Init, peek
<1> QED
  BY <1>1, Zenon DEF Init, Abstract, Pipe!Init, Pipe!NewStream

(* Closing the stream, or marking its error, is the same on the pipe.      *)
LEMMA FlagRefines ==
    ASSUME IInv, IInv', close \/ set_error
    PROVE  Pipe!Close \/ Pipe!SetError
<1>1. AbstractOK /\ AbstractFieldsOK /\ AbstractFieldsOK'
  BY AbstractType, AbstractFields, PTL
<1>2. peek' = peek
  BY DEF close, set_error, peek
<1>3. /\ Abstract.capacity = Capacity /\ Abstract.queue = peek
      /\ Abstract.pushed = num_bytes_pushed_ /\ Abstract.popped = num_bytes_poped_
      /\ Abstract.closed = closed_ /\ Abstract.error = error_
  BY <1>1, Zenon DEF AbstractFieldsOK, IsStream
<1>4. /\ IsStream(Byte, CloseOf(Abstract), Capacity, peek, num_bytes_pushed_,
                  num_bytes_poped_, TRUE, error_)
      /\ IsStream(Byte, SetErrorOf(Abstract), Capacity, peek, num_bytes_pushed_,
                  num_bytes_poped_, closed_, TRUE)
  BY <1>1, <1>3, FlagFields, Zenon DEF AbstractOK
<1>5. CASE close
  <2>1. Abstract' = CloseOf(Abstract)
    BY <1>1, <1>2, <1>4, <1>5, SameStream, Zenon DEF AbstractFieldsOK, close
  <2> QED
    BY <2>1, PipeOps, Zenon DEF Pipe!Close
<1>6. CASE set_error
  <2>1. Abstract' = SetErrorOf(Abstract)
    BY <1>1, <1>2, <1>4, <1>6, SameStream, Zenon DEF AbstractFieldsOK, set_error
  <2> QED
    BY <2>1, PipeOps, Zenon DEF Pipe!SetError
<1> QED
  BY <1>5, <1>6

(* Every operation is a step of the pipe or leaves it as it is.            *)
LEMMA NextRefines == IInv /\ IInv' /\ [Next]_vars => [Pipe!Next]_Abstract
<1> SUFFICES ASSUME IInv, IInv', [Next]_vars PROVE Pipe!Next \/ Abstract' = Abstract
  OBVIOUS
<1>1. ASSUME NEW data \in Chunks, push(data) PROVE Pipe!Next
  BY <1>1, PushRefines DEF Pipe!Next
<1>2. ASSUME NEW len \in 0 .. MaxChunk, pop(len) PROVE Pipe!Next
  BY <1>2, PopRefines DEF Pipe!Next
<1>3. CASE close \/ set_error
  BY <1>3, FlagRefines DEF Pipe!Next
<1>4. CASE UNCHANGED vars
  BY <1>4 DEF vars, peek, Abstract
<1> QED
  BY <1>1, <1>2, <1>3, <1>4 DEF Next

(* The vector of byte_stream.cc, with its compaction, implements the       *)
(* abstract pipe: the reader gets the accepted bytes in order, each once.  *)
THEOREM Refinement == Spec => ImplementsPipe
BY InitRefines, NextRefines, Invariance, PTL DEF Spec, ImplementsPipe, Pipe!Spec
=============================================================================
