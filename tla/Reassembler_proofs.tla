-------------------------- MODULE Reassembler_proofs --------------------------
(***************************************************************************)
(* Proofs about the Reassembler for every capacity, stream and cut of the  *)
(* stream into substrings: the reader gets the original bytes, the store   *)
(* stays sound, and the sets of indices known are those promised.          *)
(***************************************************************************)
EXTENDS Reassembler, OperatorLemmas

(* What the theorems suppose: the indices of the longest stream, and of a  *)
(* window beyond it, fit in the int they are passed through; and a stale   *)
(* empty substring of the stream's start is not delivered, for which the   *)
(* code does otherwise (see the run reassembler_overtaken).                *)
Domain == FitsInt(MaxLength, Capacity) /\ ~ AllowOvertaken

(* The invariant that is inductive: what is stored lies between the next   *)
(* byte to write and the end of the window, in order, and holds its bytes. *)
IInv ==
    /\ length \in 0 .. MaxLength
    /\ IsSound(reassembler, length)
    /\ output.capacity = Capacity

(* The substrings of the model are those the lemmas about insert speak of. *)
LEMMA SubstringIsBytes ==
    ASSUME NEW first, NEW size
    PROVE  Substring(first, size) = Bytes(first, size)
BY DEF Substring, Bytes

(* An empty reassembler is sound. *)
LEMMA InitIInv == Init => IInv
<1> SUFFICES ASSUME Init PROVE IInv
  OBVIOUS
<1> DEFINE o == NewStream(Capacity)
<1>1. /\ o.capacity = Capacity /\ o.queue = << >> /\ o.pushed = 0 /\ o.popped = 0
      /\ o \in StreamOf(Nat)
  BY CapacityAssumption DEF NewStream, StreamOf
<1>2. length \in Nat /\ length \in 0 .. MaxLength /\ Capacity \in Nat
  BY CapacityAssumption DEF Init
<1> HIDE DEF o
<1>3. /\ reassembler.output = o /\ reassembler.cache = << >> /\ reassembler.finish = FALSE
      /\ IsReassembler(reassembler, reassembler.output, reassembler.cache,
                       reassembler.finish, reassembler.finish_set, FALSE)
  BY DEF Init, NewReassembler, IsReassembler, o
<1>4. IsSound(reassembler, length)
  BY <1>1, <1>2, <1>3, EmptyIsSound
<1> QED
  BY <1>1, <1>2, <1>3, <1>4 DEF IInv, output

(* The facts about one insertion. *)
LEMMA InsertInserted ==
    ASSUME Domain, IInv, NEW first \in 0 .. length, NEW size \in 0 .. MaxSegment,
           NEW is_last \in BOOLEAN, IsSubstring(first, size, is_last),
           Overtaken(first, size) => AllowOvertaken, Insert(first, size, is_last)
    PROVE  /\ Inserted(reassembler', reassembler, first, size, is_last, length)
           /\ length' = length
<1>1. /\ length \in Nat /\ length \in 0 .. MaxLength /\ first \in Nat /\ size \in Nat
      /\ MaxLength \in Nat /\ Capacity \in Nat /\ Capacity >= 1
  BY CapacityAssumption DEF IInv
<1>2. first + size <= length /\ (is_last => first + size = length)
  BY DEF IsSubstring
<1>3. IsSound(reassembler, length) /\ reassembler.output.capacity = Capacity
  BY DEF IInv, output
<1>4. first = 0 /\ size = 0 /\ length > 0 /\ reassembler.output.pushed = 0 =>
          ~ reassembler.finish /\ DOMAIN reassembler.cache = {}
  BY DEF Domain, Overtaken, output, cache, IsEmpty
<1>5. FitsInt(length, reassembler.output.capacity)
  BY <1>1, <1>3, ShorterFits DEF Domain
<1>6. Inserted(insert(reassembler, first, Bytes(first, size), is_last),
               reassembler, first, size, is_last, length)
  BY <1>1, <1>2, <1>3, <1>4, <1>5, InsertEffect
<1> QED
  BY <1>6, SubstringIsBytes, Zenon DEF Insert

(* insert keeps the invariant, whatever substring of the stream comes.     *)
LEMMA InsertIInv ==
    ASSUME Domain, IInv, NEW first \in 0 .. length, NEW size \in 0 .. MaxSegment,
           NEW is_last \in BOOLEAN, IsSubstring(first, size, is_last),
           Overtaken(first, size) => AllowOvertaken, Insert(first, size, is_last)
    PROVE  IInv'
<1>1. Inserted(reassembler', reassembler, first, size, is_last, length) /\ length' = length
  BY InsertInserted
<1>2. IsSound(reassembler', length) /\ reassembler'.output.capacity = reassembler.output.capacity
  BY <1>1, Zenon DEF Inserted
<1> QED
  BY <1>1, <1>2 DEF IInv, output
(* Reading keeps it, and makes room for more.                              *)
LEMMA PopIInv ==
    ASSUME IInv, NEW len \in 1 .. Capacity, Pop(len)
    PROVE  IInv'
<1>1. length \in Nat /\ len \in Nat /\ length' = length
  BY CapacityAssumption DEF IInv, Pop
<1>2. IsSound(reassembler, length)
  BY DEF IInv
<1>3. Popped(reassembler', reassembler, len, length)
  BY <1>1, <1>2, PopEffect, Zenon DEF Pop
<1> QED
  BY <1>1, <1>3 DEF IInv, output, Popped

(* Every step keeps the invariant.                                         *)
LEMMA NextIInv == Domain /\ IInv /\ [Next]_vars => IInv'
<1> SUFFICES ASSUME Domain, IInv, [Next]_vars PROVE IInv'
  OBVIOUS
<1>1. ASSUME NEW first \in 0 .. length, NEW size \in 0 .. MaxSegment, NEW is_last \in BOOLEAN,
             IsSubstring(first, size, is_last),
             Overtaken(first, size) => AllowOvertaken,
             Insert(first, size, is_last)
      PROVE  IInv'
  BY <1>1, InsertIInv, Zenon
<1>2. ASSUME NEW len \in 1 .. Capacity, Pop(len)
      PROVE  IInv'
  BY <1>2, PopIInv, Zenon
<1>3. CASE UNCHANGED vars
  BY <1>3 DEF vars, IInv, output
<1> QED
  BY <1>1, <1>2, <1>3, Zenon DEF Next

(* The reassembler stays sound, whatever arrives in whatever order: this   *)
(* is the invariant the other theorems rest on.                            *)
THEOREM Invariance ==
    ASSUME Domain
    PROVE  Spec => []IInv
<1>1. IInv /\ [Next]_vars => IInv'
  BY NextIInv
<1> QED
  BY <1>1, InitIInv, PTL DEF Spec
-----------------------------------------------------------------------------
(* The reader of the output stream gets the bytes of the original, in      *)
(* order, each once, and never more of them than the capacity.             *)
THEOREM ReaderGetsOriginal ==
    ASSUME Domain
    PROVE  Spec => []OutputIsOriginal
<1>1. IInv => OutputIsOriginal
  BY SubstringIsBytes DEF IInv, IsSound, OutputIsOriginal, output
<1> QED
  BY <1>1, Invariance, PTL

(* The stored substrings lie between what is written and the end of the    *)
(* window, hold their bytes, do not overlap, and were cut in range.        *)
THEOREM StoreIsSound ==
    ASSUME Domain
    PROVE  Spec => []CacheSound
<1>1. IInv => CacheSound
  <2> SUFFICES ASSUME IInv PROVE CacheSound
    OBVIOUS
  <2> DEFINE p == output.pushed
             w == output.popped + Capacity
             hi == AtMost(w, length)
  <2>1. /\ IsSound(reassembler, length) /\ length \in Nat
        /\ output.capacity = Capacity
    BY CapacityAssumption DEF IInv
  <2>2. ~ reassembler.thrown
    BY <2>1 DEF IsSound, IsReassembler
  <2>3. w \in Nat /\ p \in Nat
    BY <2>1, SoundNumbers DEF output
  <2>4. hi \in Nat /\ hi <= w
    BY <2>1, <2>3 DEF AtMost
  <2>5. WindowOf(reassembler) = w
    BY <2>1 DEF WindowOf, output
  <2>6. IsCache(cache, p + 1, hi)
    BY <2>1, <2>5 DEF IsSound, output, cache
  <2> HIDE DEF p, w, hi, cache
  <2>7. ASSUME NEW k \in DOMAIN cache
        PROVE  /\ k > p
               /\ cache[k].last < w
               /\ cache[k].data = Substring(k, cache[k].last - k + 1)
    <3>1. /\ k \in Nat /\ p + 1 <= k /\ cache[k].last \in Int /\ cache[k].last < hi
          /\ cache[k].data = Bytes(k, cache[k].last - k + 1)
      BY <2>6, <2>7 DEF IsCache
    <3> QED
      BY <2>3, <2>4, <3>1, SubstringIsBytes
  <2>8. ASSUME NEW k \in DOMAIN cache, NEW j \in DOMAIN cache \ {k}
        PROVE  Stored(j) \cap Stored(k) = {}
    <3>1. /\ j \in Nat /\ k \in Nat
          /\ cache[j].last \in Int /\ cache[k].last \in Int
          /\ j < k => cache[j].last < k
          /\ k < j => cache[k].last < j
      BY <2>6, <2>8 DEF IsCache
    <3>2. j # k
      BY <2>8
    <3> QED
      BY <3>1, <3>2 DEF Stored
  <2> QED
    BY <2>2, <2>7, <2>8 DEF CacheSound, p, w
<1> QED
  BY <1>1, Invariance, PTL
-----------------------------------------------------------------------------
(* The set of the promise is that of the bytes written or stored.          *)
LearnedAsKnown ==
    /\ Learned \subseteq Nat
    /\ \A i \in Nat : i \in Learned <=> Known(reassembler, i)

(* All is known when all is written.                                       *)
AllIsWritten == Learned = 0 .. length - 1 <=> output.pushed = length

(* The indices the promise calls learned are those written or stored.      *)
LEMMA LearnedIsKnown == IInv => LearnedAsKnown
<1> SUFFICES ASSUME IInv PROVE LearnedAsKnown
  OBVIOUS
<1>1. output.pushed \in Nat /\ IsCache(cache, output.pushed + 1, AtMost(WindowOf(reassembler), length))
  BY DEF IInv, IsSound, StreamOf, output, cache
<1> HIDE DEF cache, output
<1>2. \A k \in DOMAIN cache : k \in Nat /\ cache[k].last \in Int
  BY <1>1 DEF IsCache
<1>3. Learned \subseteq Nat
  BY <1>1, <1>2 DEF Learned, Stored
<1>4. ASSUME NEW i \in Nat
      PROVE  i \in Learned <=> Known(reassembler, i)
  <2>1. InCache(cache, i) <=> \E k \in DOMAIN cache : i \in Stored(k)
    BY <1>2 DEF InCache, Stored
  <2>2. Known(reassembler, i) <=> i < output.pushed \/ InCache(cache, i)
    BY DEF Known, output, cache
  <2> QED
    BY <1>1, <2>1, <2>2 DEF Learned
<1> QED
  BY <1>3, <1>4 DEF LearnedAsKnown

(* What the promise needs to know of a state.                              *)
LEMMA LearnedFacts ==
    ASSUME IInv
    PROVE  /\ Learned \subseteq 0 .. length - 1
           /\ output.pushed \notin Learned
           /\ 0 .. output.pushed - 1 \subseteq Learned
           /\ output.pushed \in 0 .. length
           /\ AllIsWritten
<1>1. IsSound(reassembler, length) /\ length \in Nat
  BY CapacityAssumption DEF IInv
<1>2. output.pushed \in 0 .. length
  BY <1>1, SoundNumbers DEF output
<1>3. \A i \in Learned : i \in Nat /\ i < length /\ i # output.pushed
  BY <1>1, LearnedIsKnown, KnownIsBounded DEF output, LearnedAsKnown
<1>4. 0 .. output.pushed - 1 \subseteq Learned
  BY DEF Learned
<1> HIDE DEF output, Learned
<1>5. Learned \subseteq 0 .. length - 1 /\ output.pushed \notin Learned
  BY <1>1, <1>3
<1>6. Learned = 0 .. length - 1 <=> output.pushed = length
  <2> DEFINE p == output.pushed
  <2>1. p \in Nat /\ p <= length /\ length \in Nat
    BY <1>1, <1>2
  <2> HIDE DEF p
  <2>2. ASSUME p = length PROVE Learned = 0 .. length - 1
    BY <1>4, <1>5, <2>2 DEF p
  <2>3. ASSUME p # length PROVE Learned # 0 .. length - 1
    <3>1. p \in 0 .. length - 1
      BY <2>1, <2>3
    <3> QED
      BY <1>5, <3>1 DEF p
  <2> QED
    BY <2>2, <2>3 DEF p
<1> QED
  BY <1>2, <1>4, <1>5, <1>6, Zenon DEF AllIsWritten

(* All learned indices up to the first gap have been written.              *)
LEMMA WrittenIsAll == IInv => AllIsWritten
BY LearnedFacts

(* The first gap of the promise is the next byte to write.                 *)
LEMMA WrittenIsPushed ==
    ASSUME IInv
    PROVE  Promise!Written = output.pushed
<1> DEFINE p == output.pushed
           S == (0 .. length) \ Learned
<1>1. p \in S /\ p \in Nat /\ 0 .. p - 1 \subseteq Learned /\ length \in Nat
  BY LearnedFacts, CapacityAssumption DEF IInv
<1> HIDE DEF p
<1>2. \A x \in S : p <= x
  BY <1>1
<1>3. S \subseteq Int
  BY <1>1
<1> HIDE DEF S
<1>4. (CHOOSE x \in S : \A y \in S : x <= y) = p
  <2>1. \A x \in S : (\A y \in S : x <= y) => x = p
    BY <1>1, <1>2, <1>3
  <2> QED
    BY <1>1, <1>2, <2>1, Zenon
<1> QED
  BY <1>4, Zenon DEF Promise!Written, Promise!Min, S, p
(* The stream is closed once all is written and the end is known.          *)
ClosedInTime == reassembler.finish /\ output.pushed = length => output.closed

(* An insertion closes the stream if by its end all is written and the end *)
(* is known: it would return too early only for an end told while the      *)
(* window is full.                                                         *)
LEMMA InsertCloses ==
    ASSUME Domain, IInv, IInv', ClosedInTime,
           NEW first \in 0 .. length, NEW size \in 0 .. MaxSegment, NEW is_last \in BOOLEAN,
           IsSubstring(first, size, is_last),
           ~ EndWhenFull(first, size, is_last),
           Inserted(reassembler', reassembler, first, size, is_last, length),
           length' = length,
           Learned' = Learned \cup {i \in first .. first + size - 1 : i < WindowOf(reassembler)}
    PROVE  output'.closed <=> output.closed \/ (reassembler'.finish /\ output'.pushed = length)
<1> DEFINE p == output.pushed
           w == WindowOf(reassembler)
<1>1. /\ reassembler'.finish <=> reassembler.finish \/ (is_last /\ first + size <= w)
      /\ output'.closed <=> \/ output.closed
                           \/ /\ first < w
                              /\ first + size >= p
                              /\ reassembler'.finish
                              /\ output'.pushed = length
  BY Zenon DEF Inserted, output, p, w
<1>2. /\ length \in Nat /\ first \in Nat /\ size \in Nat
      /\ first + size <= length /\ (is_last => first + size = length)
  BY CapacityAssumption DEF IInv, IsSubstring
<1>3. /\ p \in Nat /\ w \in Nat /\ p <= length /\ AvailableCapacity(output) \in Nat
      /\ p + AvailableCapacity(output) = w
  <2>1. IsSound(reassembler, length)
    BY DEF IInv
  <2> QED
    BY <1>2, <2>1, SoundNumbers DEF output, p, w
<1>4. /\ 0 .. p - 1 \subseteq Learned
      /\ Learned = 0 .. length - 1 <=> p = length
      /\ Learned' = 0 .. length - 1 <=> output'.pushed = length
  <2>1. AllIsWritten /\ AllIsWritten'
    BY WrittenIsAll, PTL
  <2> QED
    BY <2>1, LearnedFacts DEF AllIsWritten, p
<1> SUFFICES ASSUME reassembler'.finish, output'.pushed = length,
                    ~ (first < w /\ first + size >= p)
             PROVE  output.closed
  BY <1>1, Zenon
<1> HIDE DEF p, w
<1>5. p = length
  <2>1. \A i \in first .. first + size - 1 : i < w => i \in 0 .. p - 1
    BY <1>2, <1>3
  <2>2. Learned' = Learned
    BY <1>4, <2>1 DEF w
  <2> QED
    BY <1>4, <2>2
<1>6. CASE reassembler.finish
  BY <1>5, <1>6, Zenon DEF ClosedInTime, p
<1>7. CASE ~ reassembler.finish
  <2>1. is_last /\ first + size <= w
    BY <1>1, <1>7, Zenon
  <2>2. size = 0 /\ first = p /\ AvailableCapacity(output) = 0
    BY <1>2, <1>3, <1>5, <2>1
  <2> QED
    BY <2>1, <2>2, Zenon DEF EndWhenFull, p
<1> QED
  BY <1>6, <1>7

(* An insertion, with its effect on the set of the bytes known: it is the  *)
(* one promised, and closes the stream in time.                            *)
LEMMA InsertRefines ==
    ASSUME Domain, ~ AllowEndWhenFull, IInv, IInv', ClosedInTime,
           NEW first \in 0 .. length, NEW size \in 0 .. MaxSegment, NEW is_last \in BOOLEAN,
           IsSubstring(first, size, is_last),
           Overtaken(first, size) => AllowOvertaken,
           EndWhenFull(first, size, is_last) => AllowEndWhenFull,
           Insert(first, size, is_last)
    PROVE  Promise!Insert(first, size, is_last) /\ ClosedInTime'
<1>1. Inserted(reassembler', reassembler, first, size, is_last, length) /\ length' = length
  BY InsertInserted
<1>2. /\ reassembler'.output.popped = reassembler.output.popped
      /\ reassembler'.finish <=>
            reassembler.finish \/ (is_last /\ first + size <= WindowOf(reassembler))
      /\ \A i \in Nat : Known(reassembler', i) <=>
            \/ Known(reassembler, i)
            \/ i \in first .. first + size - 1 /\ i < WindowOf(reassembler)
  BY <1>1, Zenon DEF Inserted
<1>3. WindowOf(reassembler) = Promise!WindowEnd
  BY DEF IInv, WindowOf, Promise!WindowEnd, output
<1>4. Learned' = Learned \cup {i \in first .. first + size - 1 : i < WindowOf(reassembler)}
  <2>1. LearnedAsKnown /\ LearnedAsKnown'
    BY LearnedIsKnown, PTL
  <2>2. first .. first + size - 1 \subseteq Nat
    <3>1. first \in Nat /\ size \in Nat
      BY CapacityAssumption DEF IInv
    <3> QED
      BY <3>1
  <2> QED
    BY <1>2, <2>1, <2>2, Zenon DEF LearnedAsKnown
<1>5. output'.closed <=> output.closed \/ (reassembler'.finish /\ output'.pushed = length)
  BY <1>1, <1>4, InsertCloses, Zenon
<1>6. output'.pushed = length <=> Learned' = 0 .. length - 1
  <2>1. AllIsWritten'
    BY WrittenIsAll, PTL
  <2> QED
    BY <1>1, <2>1 DEF AllIsWritten
<1>7. /\ reassembler.finish \in BOOLEAN /\ reassembler'.finish \in BOOLEAN
      /\ output.closed \in BOOLEAN /\ output'.closed \in BOOLEAN
  BY DEF IInv, IsSound, StreamOf, output
<1>8. output'.popped = output.popped
  BY <1>2 DEF output
<1> HIDE DEF output, Learned
<1>9. reassembler'.finish = (reassembler.finish \/ (is_last /\ first + size <= Promise!WindowEnd))
  BY <1>2, <1>3, <1>7, Zenon
<1>10. output'.closed = (output.closed \/ (reassembler'.finish /\ Learned' = 0 .. length - 1))
  BY <1>5, <1>6, <1>7, Zenon
<1>11. Promise!Insert(first, size, is_last)
  BY <1>1, <1>3, <1>4, <1>8, <1>9, <1>10, Zenon DEF Promise!Insert
<1>12. ClosedInTime'
  BY <1>1, <1>5, Zenon DEF ClosedInTime
<1> QED
  BY <1>11, <1>12

(* A read moves the window. *)
LEMMA PopRefines ==
    ASSUME IInv, IInv', ClosedInTime, NEW len \in 1 .. Capacity, Pop(len)
    PROVE  Promise!Pop(len) /\ ClosedInTime'
<1>1. length \in Nat /\ len \in Nat /\ length' = length
  BY CapacityAssumption DEF IInv, Pop
<1>2. Popped(reassembler', reassembler, len, length)
  BY <1>1, PopEffect, Zenon DEF Pop, IInv
<1>3. /\ cache' = cache
      /\ reassembler'.finish = reassembler.finish
      /\ output'.pushed = output.pushed
      /\ output'.closed = output.closed
      /\ output'.popped = AtMost(output.popped + len, output.pushed)
  BY <1>2 DEF Popped, IsReassembler, cache, output
<1>4. output.pushed \in Nat /\ output.popped \in Nat
  BY DEF IInv, IsSound, StreamOf, output
<1> HIDE DEF cache, output
<1>5. Learned' = Learned
  BY <1>3 DEF Learned, Stored
<1>6. output'.popped = Promise!Min({output.popped + len, Promise!Written})
  <2> DEFINE a == output.popped + len
             b == output.pushed
  <2>1. a \in Int /\ b \in Int
    BY <1>1, <1>4
  <2> HIDE DEF a, b
  <2>2. \A x \in {a, b} : (\A y \in {a, b} : x <= y) => x = AtMost(a, b)
    BY <2>1 DEF AtMost
  <2>3. AtMost(a, b) \in {a, b} /\ \A y \in {a, b} : AtMost(a, b) <= y
    BY <2>1 DEF AtMost
  <2>4. (CHOOSE x \in {a, b} : \A y \in {a, b} : x <= y) = AtMost(a, b)
    BY <2>2, <2>3, Zenon
  <2>5. Promise!Min({a, b}) = AtMost(a, b)
    BY <2>4, Zenon DEF Promise!Min
  <2> QED
    BY <1>3, <2>5, WrittenIsPushed DEF a, b
<1>7. ClosedInTime'
  BY <1>1, <1>3, Zenon DEF ClosedInTime
<1> QED
  BY <1>1, <1>3, <1>5, <1>6, <1>7, Zenon DEF Promise!Pop

(* A constructed reassembler is one that promises and has learned nothing. *)
LEMMA InitRefines == Init => Promise!Init /\ ClosedInTime
<1> SUFFICES ASSUME Init PROVE Promise!Init /\ ClosedInTime
  OBVIOUS
<1>1. /\ output.pushed = 0 /\ output.popped = 0 /\ output.closed = FALSE
      /\ cache = << >> /\ reassembler.finish = FALSE
      /\ length \in 0 .. MaxLength
  BY DEF Init, NewReassembler, NewStream, output, cache
<1>2. DOMAIN << >> = {} /\ 0 .. 0 - 1 = {}
  OBVIOUS
<1> HIDE DEF output, cache
<1>3. Learned = {}
  BY <1>1, <1>2 DEF Learned
<1> QED
  BY <1>1, <1>3 DEF Promise!Init, ClosedInTime

(* Every step learns, reads or ends as the promise says, or changes        *)
(* nothing of it.                                                          *)
LEMMA NextRefines ==
    ASSUME Domain, ~ AllowEndWhenFull, IInv, IInv', ClosedInTime, [Next]_vars
    PROVE  /\ [Promise!Next]_<<length, Learned, reassembler.finish, output.popped, output.closed>>
           /\ ClosedInTime'
<1>1. ASSUME NEW first \in 0 .. length, NEW size \in 0 .. MaxSegment, NEW is_last \in BOOLEAN,
             IsSubstring(first, size, is_last),
             Overtaken(first, size) => AllowOvertaken,
             EndWhenFull(first, size, is_last) => AllowEndWhenFull,
             Insert(first, size, is_last)
      PROVE  Promise!Next /\ ClosedInTime'
  <2>1. Promise!Insert(first, size, is_last) /\ ClosedInTime'
    BY <1>1, InsertRefines, Zenon
  <2> QED
    BY <1>1, <2>1, Zenon DEF Promise!Next, IsSubstring
<1>2. ASSUME NEW len \in 1 .. Capacity, Pop(len)
      PROVE  Promise!Next /\ ClosedInTime'
  <2>1. Promise!Pop(len) /\ ClosedInTime'
    BY <1>2, PopRefines, Zenon
  <2>2. len \in 0 .. Capacity
    BY CapacityAssumption
  <2> QED
    BY <2>1, <2>2, Zenon DEF Promise!Next
<1>3. CASE UNCHANGED vars
  BY <1>3 DEF vars, Learned, Stored, output, cache, ClosedInTime
<1> QED
  BY <1>1, <1>2, <1>3, Zenon DEF Next

(* The reassembler keeps its promise: it remembers every byte it is shown  *)
(* inside the window and no other, has written those up to the first gap,  *)
(* and its stream is closed as soon as the last byte has been written and  *)
(* is known to be the last, provided the end is not told by an empty       *)
(* substring while the window is full.                                     *)
THEOREM Refinement ==
    ASSUME Domain, ~ AllowEndWhenFull
    PROVE  Spec => ImplementsPromise
<1>1. IInv /\ IInv' /\ ClosedInTime /\ [Next]_vars =>
          /\ [Promise!Next]_<<length, Learned, reassembler.finish, output.popped, output.closed>>
          /\ ClosedInTime'
  BY NextRefines
<1>2. Spec => []ClosedInTime
  BY <1>1, InitRefines, Invariance, PTL DEF Spec
<1> QED
  BY <1>1, <1>2, InitRefines, Invariance, PTL DEF Spec, ImplementsPromise, Promise!Spec, Promise!vars
=============================================================================
