---------------------------- MODULE OperatorLemmas ----------------------------
(***************************************************************************)
(* What the operators of the model return, for every argument: streams and *)
(* views of sequences, folds over numbers in ascending order, wrapped      *)
(* sequence numbers, and the insert of the reassembler.  The proofs about  *)
(* the components cite these facts.                                        *)
(***************************************************************************)
EXTENDS ReassemblerOps, Wrap32, FiniteSetsExt, SequenceTheorems, WellFoundedInduction, TLAPS

(* Induction, for a set of numbers. *)
LEMMA AllNumbers ==
    ASSUME NEW S \in SUBSET Nat, 0 \in S, \A n \in S : n + 1 \in S
    PROVE  S = Nat
<1> SUFFICES ASSUME S # Nat PROVE FALSE
  OBVIOUS
<1>1. PICK x \in Nat \ S : \A y \in Nat \ S : ~(<<y, x>> \in OpToRel(<, Nat))
  <2>1. Nat \ S # {} /\ Nat \ S \subseteq Nat
    OBVIOUS
  <2> QED
    BY <2>1, WFMin, NatLessThanWellFounded
<1>2. \A y \in Nat \ S : ~(y < x)
  BY <1>1 DEF OpToRel
<1>3. x # 0 /\ x - 1 \in Nat /\ x - 1 < x
  OBVIOUS
<1>4. x - 1 \in S
  BY <1>2, <1>3
<1>5. x - 1 + 1 \in S
  BY <1>4
<1> QED
  BY <1>3, <1>5

(* The members of S below n. *)
Below(S, n) == {x \in S : x < n}

(* The largest of a finite set of numbers, for a fold that takes the       *)
(* largest out first.                                                      *)
LEMMA LargestBelow ==
    ASSUME NEW S \in SUBSET Nat, NEW n \in Nat, NEW s \in SUBSET Below(S, n + 1)
    PROVE  /\ n \in s => Max(s) = n
           /\ n \notin s => s \in SUBSET Below(S, n)
           /\ s \ {Max(s)} \in SUBSET Below(S, n)
<1>1. \A x \in s : x \in S /\ x <= n /\ x \in Int
  BY DEF Below
<1>2. ASSUME n \in s PROVE Max(s) = n
  <2>1. \E x \in s : \A y \in s : x >= y
    BY <1>1, <1>2
  <2> DEFINE m == Max(s)
  <2>2. m \in s /\ \A y \in s : m >= y
    BY <2>1, Zenon DEF Max
  <2> HIDE DEF m
  <2>3. m = n
    BY <1>1, <1>2, <2>2
  <2> QED
    BY <2>3 DEF m
<1>3. n \notin s => s \in SUBSET Below(S, n)
  BY <1>1 DEF Below
<1>4. s \ {n} \in SUBSET Below(S, n)
  BY <1>1 DEF Below
<1> QED
  BY <1>2, <1>3, <1>4

(* The members of S, taken in ascending order. *)
LEMMA OneByOne ==
    ASSUME NEW S \in SUBSET Nat
    PROVE  /\ Below(S, 0) = {}
           /\ \A n \in Nat :
                 /\ Below(S, n) \in SUBSET S
                 /\ Below(S, n) \in SUBSET Below(S, n + 1)
                 /\ n \notin Below(S, n)
                 /\ n \notin S => Below(S, n + 1) = Below(S, n)
                 /\ n \in S => /\ Below(S, n + 1) # {}
                               /\ Max(Below(S, n + 1)) = n
                               /\ Below(S, n + 1) \ {n} = Below(S, n)
<1>0. \A x \in S : x \in Nat
  OBVIOUS
<1>1. Below(S, 0) = {}
  <2>1. \A x \in S : ~ (x < 0)
    BY <1>0
  <2> QED
    BY <2>1 DEF Below
<1>2. ASSUME NEW n \in Nat
      PROVE  /\ Below(S, n) \in SUBSET S
             /\ Below(S, n) \in SUBSET Below(S, n + 1)
             /\ n \notin Below(S, n)
             /\ n \notin S => Below(S, n + 1) = Below(S, n)
             /\ n \in S => n \in Below(S, n + 1) /\ Below(S, n + 1) \ {n} = Below(S, n)
  <2>1. \A x \in S : (x < n + 1 <=> x < n \/ x = n) /\ ~ (n < n)
    BY <1>0
  <2> QED
    BY <1>0, <2>1 DEF Below
<1>3. \A n \in Nat : n \in S => Max(Below(S, n + 1)) = n
  BY <1>2, LargestBelow
<1> QED
  BY <1>1, <1>2, <1>3

(* A bounded set of numbers that is not empty has a largest member. *)
LEMMA LargestOf ==
    ASSUME NEW S \in SUBSET Nat, S # {}, NEW N \in Nat, \A x \in S : x < N
    PROVE  Max(S) \in S /\ \A x \in S : x <= Max(S)
<1> DEFINE T == {n \in Nat : Below(S, n) # {} =>
                    \E x \in Below(S, n) : \A y \in Below(S, n) : x >= y}
<1>1. 0 \in T
  BY OneByOne
<1>2. ASSUME NEW n \in T PROVE n + 1 \in T
  <2>1. CASE n \in S
    <3>1. n \in Below(S, n + 1) /\ \A y \in Below(S, n + 1) : n >= y
      BY <2>1 DEF Below
    <3> QED
      BY <3>1
  <2>2. CASE n \notin S
    BY <2>2, OneByOne
  <2> QED
    BY <2>1, <2>2
<1>3. T = Nat
  BY <1>1, <1>2, AllNumbers
<1>4. S = Below(S, N)
  BY DEF Below
<1>5. \E x \in S : \A y \in S : x >= y
  <2> HIDE DEF T
  <2>1. N \in T
    BY <1>3
  <2> QED
    BY <1>4, <2>1 DEF T
<1> DEFINE m == Max(S)
<1>6. m \in S /\ \A y \in S : m >= y
  BY <1>5, Zenon DEF Max
<1> HIDE DEF m
<1>7. \A x \in S : x <= m
  BY <1>6
<1> QED
  BY <1>6, <1>7 DEF m

(* A view of a sequence: size elements, the first start skipped. *)
LEMMA ViewOf ==
    ASSUME NEW S, NEW s \in Seq(S), NEW start \in Nat, NEW size \in Nat,
           start + size <= Len(s)
    PROVE  /\ SubSeq(s, start + 1, start + size) \in Seq(S)
           /\ Len(SubSeq(s, start + 1, start + size)) = size
           /\ \A i \in 1 .. size : SubSeq(s, start + 1, start + size)[i] = s[start + i]
<1> DEFINE m == start + 1
           n == start + size
<1>1. \A i \in m .. n : s[i] \in S
  BY ElementOfSeq, LenProperties
<1>2. m \in Int /\ n \in Int /\ n - m + 1 = size
  OBVIOUS
<1>3. m <= n <=> size # 0
  OBVIOUS
<1>4. \A i \in 1 .. size : m + i - 1 = start + i
  OBVIOUS
<1> HIDE DEF m, n
<1>5. /\ SubSeq(s, m, n) \in Seq(S)
      /\ Len(SubSeq(s, m, n)) = IF m <= n THEN n - m + 1 ELSE 0
      /\ \A i \in 1 .. n - m + 1 : SubSeq(s, m, n)[i] = s[m + i - 1]
  BY <1>1, <1>2, SubSeqProperties
<1>6. SubSeq(s, m, n) \in Seq(S) /\ Len(SubSeq(s, m, n)) = size
  BY <1>2, <1>3, <1>5
<1>7. \A i \in 1 .. size : SubSeq(s, m, n)[i] = s[start + i]
  BY <1>2, <1>4, <1>5
<1> QED
  BY <1>6, <1>7 DEF m, n

(* t is a stream of bytes in B with these fields. *)
IsStream(B, t, capacity, queue, pushed, popped, closed, error) ==
    /\ t \in StreamOf(B)
    /\ t.capacity = capacity
    /\ t.queue = queue
    /\ t.pushed = pushed
    /\ t.popped = popped
    /\ t.closed = closed
    /\ t.error = error

(* Two streams with the same fields are the same stream. *)
LEMMA SameStream ==
    ASSUME NEW B, NEW capacity, NEW queue, NEW pushed, NEW popped,
           NEW closed, NEW error, NEW s, NEW t,
           IsStream(B, s, capacity, queue, pushed, popped, closed, error),
           IsStream(B, t, capacity, queue, pushed, popped, closed, error)
    PROVE  s = t
<1>1. /\ s \in StreamOf(B) /\ t \in StreamOf(B)
      /\ s.capacity = t.capacity /\ s.queue = t.queue
      /\ s.pushed = t.pushed /\ s.popped = t.popped
      /\ s.closed = t.closed /\ s.error = t.error
  BY Zenon DEF IsStream
<1> QED
  BY <1>1 DEF StreamOf

(* A push appends the prefix of the data that fits and touches nothing     *)
(* but the queue and the counter of pushed bytes.                          *)
LEMMA PushToFields ==
    ASSUME NEW B, NEW s \in StreamOf(B), Len(s.queue) <= s.capacity,
           NEW data \in Seq(B),
           NEW n, n = AtMost(s.capacity - Len(s.queue), Len(data))
    PROVE  IsStream(B, PushTo(s, data), s.capacity, s.queue \o SubSeq(data, 1, n),
                    s.pushed + n, s.popped, s.closed, s.error)
<1> DEFINE queue == s.queue \o SubSeq(data, 1, n)
           pushed == s.pushed + n
<1>1. /\ s.capacity \in Nat /\ s.queue \in Seq(B) /\ s.pushed \in Nat
      /\ Len(s.queue) \in Nat /\ Len(data) \in Nat
  BY LenProperties DEF StreamOf
<1>2. n \in Nat /\ n <= Len(data)
  BY <1>1 DEF AtMost
<1>3. SubSeq(data, 1, n) \in Seq(B)
  <2>1. SubSeq(data, 0 + 1, 0 + n) \in Seq(B)
    BY <1>1, <1>2, ViewOf
  <2> QED
    BY <1>2, <2>1
<1>4. queue \in Seq(B) /\ pushed \in Nat
  BY <1>1, <1>2, <1>3, ConcatProperties
<1>5. PushTo(s, data) = [s EXCEPT !.queue = queue, !.pushed = pushed]
  BY DEF PushTo, AvailableCapacity
<1> HIDE DEF queue, pushed
<1>6. /\ PushTo(s, data) \in StreamOf(B)
      /\ PushTo(s, data).queue = queue
      /\ PushTo(s, data).pushed = pushed
      /\ PushTo(s, data).capacity = s.capacity
      /\ PushTo(s, data).popped = s.popped
      /\ PushTo(s, data).closed = s.closed
      /\ PushTo(s, data).error = s.error
  BY <1>4, <1>5 DEF StreamOf
<1> QED
  BY <1>6, Zenon DEF queue, pushed, IsStream

(* A pop drops at most len bytes at the front of the queue. *)
LEMMA PopFromFields ==
    ASSUME NEW B, NEW s \in StreamOf(B), NEW len \in Nat,
           NEW n, n = AtMost(len, Len(s.queue))
    PROVE  IsStream(B, PopFrom(s, len), s.capacity,
                    SubSeq(s.queue, n + 1, Len(s.queue)),
                    s.pushed, s.popped + n, s.closed, s.error)
<1> DEFINE queue == SubSeq(s.queue, n + 1, Len(s.queue))
           popped == s.popped + n
           rest == Len(s.queue) - n
<1>1. s.queue \in Seq(B) /\ s.popped \in Nat /\ Len(s.queue) \in Nat
  BY LenProperties DEF StreamOf
<1>2. n \in Nat /\ rest \in Nat /\ n + rest = Len(s.queue)
  BY <1>1 DEF AtMost
<1> HIDE DEF rest
<1>3. SubSeq(s.queue, n + 1, n + rest) \in Seq(B)
  BY <1>1, <1>2, ViewOf
<1>4. queue \in Seq(B) /\ popped \in Nat
  BY <1>1, <1>2, <1>3
<1>5. PopFrom(s, len) = [s EXCEPT !.queue = queue, !.popped = popped]
  BY DEF PopFrom
<1> HIDE DEF queue, popped
<1>6. /\ PopFrom(s, len) \in StreamOf(B)
      /\ PopFrom(s, len).queue = queue
      /\ PopFrom(s, len).popped = popped
      /\ PopFrom(s, len).capacity = s.capacity
      /\ PopFrom(s, len).pushed = s.pushed
      /\ PopFrom(s, len).closed = s.closed
      /\ PopFrom(s, len).error = s.error
  BY <1>4, <1>5 DEF StreamOf
<1> QED
  BY <1>6, Zenon DEF queue, popped, IsStream

(* Closing a stream, or marking it, sets that flag only. *)
LEMMA FlagFields ==
    ASSUME NEW B, NEW s \in StreamOf(B)
    PROVE  /\ IsStream(B, CloseOf(s), s.capacity, s.queue, s.pushed, s.popped,
                       TRUE, s.error)
           /\ IsStream(B, SetErrorOf(s), s.capacity, s.queue, s.pushed, s.popped,
                       s.closed, TRUE)
<1>1. /\ CloseOf(s) \in StreamOf(B)
      /\ CloseOf(s).closed = TRUE
      /\ CloseOf(s).error = s.error
      /\ CloseOf(s).queue = s.queue
      /\ CloseOf(s).capacity = s.capacity
      /\ CloseOf(s).pushed = s.pushed
      /\ CloseOf(s).popped = s.popped
  BY DEF StreamOf, CloseOf
<1>2. /\ SetErrorOf(s) \in StreamOf(B)
      /\ SetErrorOf(s).error = TRUE
      /\ SetErrorOf(s).closed = s.closed
      /\ SetErrorOf(s).queue = s.queue
      /\ SetErrorOf(s).capacity = s.capacity
      /\ SetErrorOf(s).pushed = s.pushed
      /\ SetErrorOf(s).popped = s.popped
  BY DEF StreamOf, SetErrorOf
<1> QED
  BY <1>1, <1>2, Zenon DEF IsStream
-----------------------------------------------------------------------------

(* Turns k and j of the modulus are in the order of k and j. *)
LEMMA Turns ==
    ASSUME NEW k \in Int, NEW j \in Int, k <= j
    PROVE  /\ k * Range32 \in Int
           /\ k * Range32 <= j * Range32
           /\ (k + 1) * Range32 = k * Range32 + Range32
           /\ (k - 1) * Range32 = k * Range32 - Range32
BY WidthAssumption

(* The absolute numbers that wrap to raw are the turns above diff. *)
LEMMA Congruent ==
    ASSUME NEW raw \in Raw, NEW zero \in Raw, NEW v \in Nat
    PROVE  /\ DiffOf(raw, zero) \in Raw
           /\ wrap(v, zero) = raw <=>
                 \E k \in Nat : v = k * Range32 + DiffOf(raw, zero)
<1> DEFINE d == DiffOf(raw, zero)
<1>1. Range32 \in Nat /\ Range32 > 0 /\ raw \in Int /\ zero \in Int /\ raw < Range32 /\ raw >= 0
  BY WidthAssumption DEF Raw
<1>2. d \in Raw /\ \E j \in Int : raw - zero = j * Range32 + d
  BY <1>1 DEF DiffOf, Raw
<1>3. PICK j \in Int : raw - zero = j * Range32 + d
  BY <1>2
<1> HIDE DEF d
<1>4. ASSUME wrap(v, zero) = raw
      PROVE  \E k \in Nat : v = k * Range32 + d
  <2>1. PICK i \in Int : zero + v = i * Range32 + raw
    BY <1>1, <1>4 DEF wrap
  <2>2. v = (i + j) * Range32 + d
    BY <1>1, <1>2, <1>3, <2>1 DEF Raw
  <2>3. i + j \in Nat
    <3>1. (i + j) * Range32 + d >= 0 /\ d < Range32 /\ d \in Nat
      BY <1>1, <1>2, <2>2 DEF Raw
    <3>2. (i + j) * Range32 > (0 - 1) * Range32
      BY <1>1, <3>1
    <3> QED
      BY <1>1, <3>2
  <2> QED
    BY <2>2, <2>3
<1>5. ASSUME NEW k \in Nat, v = k * Range32 + d
      PROVE  wrap(v, zero) = raw
  <2>1. zero + v = (k - j) * Range32 + raw
    BY <1>1, <1>2, <1>3, <1>5 DEF Raw
  <2>2. \A i \in Int : (i * Range32 + raw) % Range32 = raw
    BY <1>1
  <2> QED
    BY <2>1, <2>2, k - j \in Int DEF wrap
<1> QED
  BY <1>2, <1>4, <1>5 DEF d

(* Every candidate is one of those numbers and fits in 64 bits, the one    *)
(* that would overflow included: it becomes the lowest.                    *)
LEMMA CandidateOK ==
    ASSUME NEW d \in Raw, NEW x \in Nat, x * Range32 <= Range64
    PROVE  /\ x * Range32 < Range64 => Candidate(x, d) = x * Range32 + d
           /\ x * Range32 = Range64 => Candidate(x, d) = d
           /\ x * Range32 < Range64 => x * Range32 + Range32 <= Range64
<1>1. Range32 \in Nat /\ Range32 > 0 /\ Range64 \in Nat /\ Range64 > 0 /\ d \in Nat /\ d < Range32
  BY WidthAssumption DEF Raw
<1>2. PICK top \in Int : Range64 = top * Range32
  BY <1>1, WidthAssumption
<1>3. ASSUME x * Range32 < Range64 PROVE x * Range32 + Range32 <= Range64
  <2>1. x < top
    BY <1>1, <1>2, <1>3
  <2> QED
    BY <1>1, <1>2, <2>1
<1>4. \A m \in Nat : m < Range64 => m % Range64 = m
  BY <1>1
<1>5. ASSUME x * Range32 < Range64 PROVE Candidate(x, d) = x * Range32 + d
  <2>1. x * Range32 + d < Range64 /\ x * Range32 + d \in Nat
    BY <1>1, <1>3, <1>5
  <2> QED
    BY <1>4, <2>1 DEF Candidate
<1>6. ASSUME x * Range32 = Range64 PROVE Candidate(x, d) = d
  <2>1. d < Range64
    BY <1>1, <1>2, <1>6
  <2>2. \A m \in Nat : m < Range64 => (Range64 + m) % Range64 = m
    BY <1>1
  <2> QED
    BY <1>1, <1>6, <2>1, <2>2 DEF Candidate
<1> QED
  BY <1>3, <1>5, <1>6

(* Closer keeps the closer of its two candidates. *)
LEMMA CloserIsLeast ==
    ASSUME NEW a \in Int, NEW b \in Int, NEW c \in Int
    PROVE  /\ Closer(a, b, c) \in {a, b}
           /\ Distance(c, Closer(a, b, c)) <= Distance(c, a)
           /\ Distance(c, Closer(a, b, c)) <= Distance(c, b)
BY DEF Closer, Distance

(* For every modulus, raw value and checkpoint, the three candidates are   *)
(* enough: unwrap returns the number closest to the checkpoint, or one of  *)
(* two equally close.                                                      *)
THEOREM UnwrapClosest ==
    ASSUME NEW raw \in Raw, NEW zero \in Raw, NEW cp \in Absolute
    PROVE  UnwrapIsClosest(raw, zero, cp)
<1> DEFINE d == DiffOf(raw, zero)
           q == cp \div Range32
           turn == q * Range32
           below == FirstCandidate(q, d)
           level == Candidate(q, d)
           above == Candidate(q + 1, d)
           near == Closer(below, level, cp)
           u == unwrap(raw, zero, cp)
<1>1. Range32 \in Nat /\ Range32 > 0 /\ Range64 \in Nat /\ cp \in Nat /\ cp < Range64
  BY WidthAssumption DEF Absolute
<1>2. d \in Raw /\ d \in Nat /\ d < Range32
  <2>1. d \in Raw
    BY Congruent, 0 \in Nat
  <2> QED
    BY <1>1, <2>1 DEF Raw
<1>3. /\ q \in Nat /\ turn \in Nat /\ turn <= cp /\ cp < turn + Range32
      /\ (q + 1) * Range32 = turn + Range32
      /\ q # 0 => (q - 1) * Range32 = turn - Range32 /\ turn - Range32 \in Nat
      /\ q = 0 => turn = 0
  BY <1>1
<1> HIDE DEF d, q, turn
<1>4. turn = q * Range32
  BY DEF turn
<1>5. level = turn + d /\ turn + Range32 <= Range64
  BY <1>1, <1>2, <1>3, <1>4, CandidateOK
<1>6. /\ q + 1 \in Nat
      /\ (q + 1) * Range32 = turn + Range32
      /\ (q + 1) * Range32 <= Range64
  BY <1>3, <1>5
<1>7. /\ turn + Range32 < Range64 => above = turn + Range32 + d
      /\ turn + Range32 = Range64 => above = d
  <2>1. (q + 1) * Range32 < Range64 => Candidate(q + 1, d) = (q + 1) * Range32 + d
    BY <1>2, <1>6, CandidateOK
  <2>2. (q + 1) * Range32 = Range64 => Candidate(q + 1, d) = d
    BY <1>2, <1>6, CandidateOK
  <2> QED
    BY <1>6, <2>1, <2>2
<1>8. /\ q = 0 => below = d
      /\ q # 0 => below = turn - Range32 + d
  <2>1. CASE q = 0
    BY <2>1 DEF FirstCandidate
  <2>2. CASE q # 0
    <3>1. q - 1 \in Nat /\ (q - 1) * Range32 < Range64
      BY <1>1, <1>3, <2>2
    <3>2. Candidate(q - 1, d) = (q - 1) * Range32 + d
      BY <1>1, <1>2, <1>3, <2>2, <3>1, CandidateOK
    <3> QED
      BY <1>3, <2>2, <3>2 DEF FirstCandidate
  <2> QED
    BY <2>1, <2>2
<1>9. \A c \in {below, level, above} : c \in Absolute /\ wrap(c, zero) = raw
  <2>1. ASSUME NEW k \in Nat, k * Range32 + d < Range64
        PROVE  k * Range32 + d \in Absolute /\ wrap(k * Range32 + d, zero) = raw
    <3>1. k * Range32 + d \in Nat
      BY <1>1, <1>2
    <3> QED
      BY <1>1, <2>1, <3>1, Congruent DEF Absolute, d
  <2>2. 0 * Range32 + d = d /\ d < Range64
    BY <1>1, <1>2, <1>3, <1>5
  <2>3. d \in Absolute /\ wrap(d, zero) = raw
    BY <2>1, <2>2, 0 \in Nat
  <2>4. level \in Absolute /\ wrap(level, zero) = raw
    BY <1>1, <1>2, <1>3, <1>4, <1>5, <2>1
  <2>5. above \in Absolute /\ wrap(above, zero) = raw
    <3>1. CASE turn + Range32 = Range64
      BY <1>7, <2>3, <3>1
    <3>2. CASE turn + Range32 < Range64
      <4>1. (q + 1) * Range32 + d < Range64
        <5>1. (q + 1) * Range32 + Range32 <= Range64
          <6>1. q + 1 \in Nat /\ (q + 1) * Range32 < Range64
            BY <1>1, <1>3, <3>2
          <6> QED
            BY <1>1, <1>2, <6>1, CandidateOK
        <5> QED
          BY <1>1, <1>2, <1>3, <5>1
      <4> QED
        BY <1>3, <1>7, <2>1, <3>2, <4>1, q + 1 \in Nat
    <3> QED
      BY <1>1, <1>3, <1>5, <3>1, <3>2
  <2>6. below \in Absolute /\ wrap(below, zero) = raw
    <3>1. CASE q = 0
      BY <1>8, <2>3, <3>1
    <3>2. CASE q # 0
      <4>1. q - 1 \in Nat /\ (q - 1) * Range32 + d < Range64
        BY <1>1, <1>2, <1>3, <3>2
      <4> QED
        BY <1>3, <1>8, <2>1, <3>2, <4>1
    <3> QED
      BY <3>1, <3>2
  <2> QED
    BY <2>4, <2>5, <2>6
<1>10. \A c \in {below, level, above} : c \in Int
  BY <1>1, <1>9 DEF Absolute
<1>11. u = Closer(near, above, cp)
  BY DEF unwrap, d, q
<1> HIDE DEF below, level, above, u
<1>12. /\ u \in {below, level, above}
       /\ \A c \in {below, level, above} : Distance(cp, u) <= Distance(cp, c)
  <2>1. cp \in Int /\ below \in Int /\ level \in Int /\ above \in Int
    BY <1>1, <1>10
  <2>2. /\ near \in {below, level}
        /\ Distance(cp, near) <= Distance(cp, below)
        /\ Distance(cp, near) <= Distance(cp, level)
    BY <2>1, CloserIsLeast
  <2> HIDE DEF near
  <2>3. near \in Int
    BY <2>1, <2>2
  <2>4. /\ u \in {near, above}
        /\ Distance(cp, u) <= Distance(cp, near)
        /\ Distance(cp, u) <= Distance(cp, above)
    BY <1>11, <2>1, <2>3, CloserIsLeast
  <2>5. \A c \in Int : Distance(cp, c) \in Int
    BY <2>1 DEF Distance
  <2> QED
    BY <2>1, <2>2, <2>3, <2>4, <2>5
<1>13. ASSUME NEW v \in Absolute, wrap(v, zero) = raw
       PROVE  Distance(cp, u) <= Distance(cp, v)
  <2>1. v \in Nat /\ v < Range64
    BY <1>1 DEF Absolute
  <2>2. PICK k \in Nat : v = k * Range32 + d
    BY <1>13, <2>1, Congruent DEF d
  <2>3. \A c \in {below, level, above} : Distance(cp, c) \in Int
    BY <1>1, <1>10 DEF Distance
  <2>4. \E c \in {below, level, above} : Distance(cp, c) <= Distance(cp, v)
    <3>1. CASE k < q
      <4>1. k * Range32 <= turn - Range32 /\ q # 0
        BY <1>1, <1>3, <1>4, <3>1
      <4>2. v <= below /\ below <= cp /\ v \in Int /\ below \in Int
        BY <1>1, <1>2, <1>3, <1>8, <2>1, <2>2, <4>1
      <4> QED
        BY <1>1, <4>2 DEF Distance
    <3>2. CASE k = q
      <4>1. v = level
        BY <1>4, <1>5, <2>2, <3>2
      <4> QED
        BY <1>1, <2>1, <4>1 DEF Distance
    <3>3. CASE k > q
      <4>1. turn + Range32 <= k * Range32 /\ k * Range32 \in Nat
        BY <1>1, <1>3, <3>3
      <4>2. turn + Range32 < Range64
        BY <1>1, <1>2, <1>3, <2>1, <2>2, <4>1
      <4>3. above <= v /\ cp <= above /\ v \in Int /\ above \in Int
        BY <1>1, <1>2, <1>3, <1>7, <2>1, <2>2, <4>1, <4>2
      <4> QED
        BY <1>1, <4>3 DEF Distance
    <3> QED
      BY <1>3, <3>1, <3>2, <3>3
  <2>5. PICK c \in {below, level, above} : Distance(cp, c) <= Distance(cp, v)
    BY <2>4
  <2>6. Distance(cp, v) \in Int /\ Distance(cp, c) \in Int /\ Distance(cp, u) \in Int
    BY <1>1, <1>12, <2>1, <2>3 DEF Distance
  <2> QED
    BY <1>12, <2>5, <2>6
<1> QED
  BY <1>9, <1>12, <1>13 DEF UnwrapIsClosest, u

(* Two absolute numbers with the same raw value are whole turns apart. *)
LEMMA SameRaw ==
    ASSUME NEW zero \in Raw, NEW a \in Nat, NEW b \in Nat,
           wrap(a, zero) = wrap(b, zero), Distance(a, b) < Range32
    PROVE  a = b
<1>1. Range32 \in Nat /\ Range32 > 0
  BY WidthAssumption
<1>2. wrap(a, zero) \in Raw
  BY <1>1 DEF wrap, Raw
<1>3. PICK k \in Nat : a = k * Range32 + DiffOf(wrap(a, zero), zero)
  BY <1>2, Congruent
<1>4. PICK j \in Nat : b = j * Range32 + DiffOf(wrap(a, zero), zero)
  BY <1>2, Congruent
<1>5. DiffOf(wrap(a, zero), zero) \in Int
  BY <1>2, Congruent, <1>1 DEF Raw
<1>6. ~(k < j) /\ ~(j < k)
  BY <1>1, <1>3, <1>4, <1>5 DEF Distance
<1> QED
  BY <1>3, <1>4, <1>6

(* For every modulus: a number within half a turn of the checkpoint comes  *)
(* out of unwrap as it went into wrap.                                     *)
THEOREM WrapRoundTrips ==
    ASSUME NEW zero \in Raw, NEW a \in Absolute, NEW cp \in Absolute
    PROVE  RoundTrips(a, zero, cp)
<1> DEFINE raw == wrap(a, zero)
           u == unwrap(raw, zero, cp)
<1>1. Range32 \in Nat /\ Range32 > 0 /\ a \in Nat /\ cp \in Nat
  BY WidthAssumption DEF Absolute
<1>2. raw \in Raw
  BY <1>1 DEF wrap, Raw
<1>3. /\ u \in Nat
      /\ wrap(u, zero) = wrap(a, zero)
      /\ Distance(cp, u) <= Distance(cp, a)
  BY <1>1, <1>2, UnwrapClosest, WidthAssumption DEF UnwrapIsClosest, Absolute
<1> HIDE DEF u
<1>4. ASSUME 2 * Distance(a, cp) < Range32
      PROVE  u = a
  <2>1. Distance(u, a) < Range32
    BY <1>1, <1>3, <1>4 DEF Distance
  <2> QED
    BY <1>1, <1>3, <2>1, SameRaw
<1> QED
  BY <1>4 DEF RoundTrips, u

(* An exchange of wrapped sequence numbers: see WireSeqno.                 *)
Exchange(zero_point, n, checkpoint) == INSTANCE WireSeqno

(* The operators of the exchange are those of Wrap32.                      *)
LEMMA ExchangeOps ==
    ASSUME NEW z, NEW m, NEW c
    PROVE  /\ Exchange(z, m, c)!Raw = Raw
           /\ Exchange(z, m, c)!Absolute = Absolute
           /\ Exchange(z, m, c)!Closest <=> UnwrapIsClosest(wrap(m, z), z, c)
           /\ Exchange(z, m, c)!RoundTrip <=> RoundTrips(m, z, c)
<1>1. Exchange(z, m, c)!Raw = Raw /\ Exchange(z, m, c)!Absolute = Absolute
  BY Zenon DEF Exchange!Raw, Exchange!Absolute, Raw, Absolute
<1>2. \A a, b : Exchange(z, m, c)!wrap(a, b) = wrap(a, b)
  BY Zenon DEF Exchange!wrap, wrap
<1>3. \A a, b : Exchange(z, m, c)!Distance(a, b) = Distance(a, b)
  BY Zenon DEF Exchange!Distance, Distance
<1>4. \A a, b, d : Exchange(z, m, c)!unwrap(a, b, d) = unwrap(a, b, d)
  <2>1. \A a, b : /\ Exchange(z, m, c)!DiffOf(a, b) = DiffOf(a, b)
                  /\ Exchange(z, m, c)!Candidate(a, b) = Candidate(a, b)
    BY Zenon DEF Exchange!DiffOf, DiffOf, Exchange!Candidate, Candidate
  <2>2. \A a, b : Exchange(z, m, c)!FirstCandidate(a, b) = FirstCandidate(a, b)
    BY <2>1, Zenon DEF Exchange!FirstCandidate, FirstCandidate
  <2>3. \A a, b, d : Exchange(z, m, c)!Closer(a, b, d) = Closer(a, b, d)
    BY <1>3, Zenon DEF Exchange!Closer, Closer
  <2> SUFFICES ASSUME NEW a, NEW b, NEW d
               PROVE  Exchange(z, m, c)!unwrap(a, b, d) = unwrap(a, b, d)
    OBVIOUS
  <2> QED
    BY <2>1, <2>2, <2>3 DEF Exchange!unwrap, unwrap
<1>5. Exchange(z, m, c)!Closest <=> UnwrapIsClosest(wrap(m, z), z, c)
  <2>1. Exchange(z, m, c)!Closest <=> Exchange(z, m, c)!UnwrapIsClosest(wrap(m, z), z, c)
    BY <1>2, Zenon DEF Exchange!Closest
  <2> DEFINE r == wrap(m, z)
             u == unwrap(r, z, c)
  <2>2. Exchange(z, m, c)!UnwrapIsClosest(r, z, c) <=>
           /\ u \in Absolute
           /\ wrap(u, z) = r
           /\ \A v \in Absolute : wrap(v, z) = r => Distance(c, u) <= Distance(c, v)
    BY <1>1, <1>2, <1>3, <1>4 DEF Exchange!UnwrapIsClosest
  <2>3. UnwrapIsClosest(r, z, c) <=>
           /\ u \in Absolute
           /\ wrap(u, z) = r
           /\ \A v \in Absolute : wrap(v, z) = r => Distance(c, u) <= Distance(c, v)
    BY DEF UnwrapIsClosest
  <2> QED
    BY <2>1, <2>2, <2>3
<1>6. Exchange(z, m, c)!RoundTrip <=> RoundTrips(m, z, c)
  BY <1>2, <1>3, <1>4, Zenon DEF Exchange!RoundTrip, Exchange!RoundTrips, RoundTrips
<1> QED
  BY <1>1, <1>5, <1>6

(* At every moment of an exchange, the number that arrives is read as the  *)
(* closest one it can stand for, and exactly when within half a turn.      *)
THEOREM ExchangeIsExact ==
    ASSUME NEW VARIABLE zero_point, NEW VARIABLE n, NEW VARIABLE checkpoint
    PROVE  Exchange(zero_point, n, checkpoint)!Spec =>
              []( /\ Exchange(zero_point, n, checkpoint)!Closest
                  /\ Exchange(zero_point, n, checkpoint)!RoundTrip)
<1>1. Exchange(zero_point, n, checkpoint)!Init =>
         Exchange(zero_point, n, checkpoint)!TypeOK
  BY WidthAssumption DEF Exchange!Init, Exchange!TypeOK, Exchange!Raw, Exchange!Absolute
<1>2. /\ Exchange(zero_point, n, checkpoint)!TypeOK
      /\ [Exchange(zero_point, n, checkpoint)!Next]_(Exchange(zero_point, n, checkpoint)!vars)
      => Exchange(zero_point, n, checkpoint)!TypeOK'
  BY WidthAssumption DEF Exchange!Next, Exchange!Number, Exchange!Again, Exchange!Progress,
                         Exchange!vars, Exchange!TypeOK, Exchange!Raw, Exchange!Absolute
<1>3. Exchange(zero_point, n, checkpoint)!TypeOK =>
         /\ Exchange(zero_point, n, checkpoint)!Closest
         /\ Exchange(zero_point, n, checkpoint)!RoundTrip
  <2> SUFFICES ASSUME Exchange(zero_point, n, checkpoint)!TypeOK
               PROVE  /\ Exchange(zero_point, n, checkpoint)!Closest
                      /\ Exchange(zero_point, n, checkpoint)!RoundTrip
    OBVIOUS
  <2>1. zero_point \in Raw /\ n \in Absolute /\ checkpoint \in Absolute
    BY ExchangeOps, Zenon DEF Exchange!TypeOK
  <2>2. wrap(n, zero_point) \in Raw
    BY <2>1, WidthAssumption DEF wrap, Raw, Absolute
  <2>3. /\ UnwrapIsClosest(wrap(n, zero_point), zero_point, checkpoint)
        /\ RoundTrips(n, zero_point, checkpoint)
    BY <2>1, <2>2, UnwrapClosest, WrapRoundTrips
  <2> QED
    BY <2>3, ExchangeOps, Zenon
<1> QED
  BY <1>1, <1>2, <1>3, PTL DEF Exchange!Spec
-----------------------------------------------------------------------------

(* The bytes of the original stream from index first on. *)
Bytes(first, size) == [i \in 1 .. size |-> first + i - 1]

(* Bytes as a sequence: its length, its elements, when it is empty.        *)
LEMMA BytesIsSeq ==
    ASSUME NEW first \in Nat, NEW size \in Nat
    PROVE  /\ Bytes(first, size) \in Seq(Nat)
           /\ Len(Bytes(first, size)) = size
           /\ \A i \in 1 .. size : Bytes(first, size)[i] = first + i - 1
           /\ Bytes(first, size) = << >> <=> size = 0
<1>1. \A i \in 1 .. size : first + i - 1 \in Nat
  OBVIOUS
<1>2. Bytes(first, size) \in Seq(Nat) /\ Len(Bytes(first, size)) = size
  <2>1. Bytes(first, size) \in [1 .. size -> Nat]
    BY <1>1 DEF Bytes
  <2> QED
    BY <2>1, IsASeq, LenProperties
<1>3. \A i \in 1 .. size : Bytes(first, size)[i] = first + i - 1
  BY DEF Bytes
<1>4. Bytes(first, size) = << >> <=> size = 0
  BY <1>2, EmptySeq
<1> QED
  BY <1>2, <1>3, <1>4

(* Cutting a piece out of the stream, and putting two pieces together. *)
LEMMA CutBytes ==
    ASSUME NEW first \in Nat, NEW size \in Nat, NEW p \in Nat, NEW n \in Nat, p + n <= size
    PROVE  SubSeq(Bytes(first, size), p + 1, p + n) = Bytes(first + p, n)
<1> DEFINE s == Bytes(first, size)
           t == SubSeq(s, p + 1, p + n)
<1>1. s \in Seq(Nat) /\ Len(s) = size /\ \A i \in 1 .. size : s[i] = first + i - 1
  BY BytesIsSeq
<1>2. t \in Seq(Nat) /\ Len(t) = n /\ \A i \in 1 .. n : t[i] = s[p + i]
  <2> HIDE DEF s
  <2> QED
    BY <1>1, ViewOf
<1>3. /\ Bytes(first + p, n) \in Seq(Nat) /\ Len(Bytes(first + p, n)) = n
      /\ \A i \in 1 .. n : Bytes(first + p, n)[i] = first + p + i - 1
  <2>1. first + p \in Nat
    OBVIOUS
  <2> QED
    BY <2>1, BytesIsSeq
<1> HIDE DEF s, t
<1>4. \A i \in 1 .. n : t[i] = Bytes(first + p, n)[i]
  BY <1>1, <1>2, <1>3
<1>5. t = Bytes(first + p, n)
  BY <1>2, <1>3, <1>4, SeqEqual
<1> QED
  BY <1>5 DEF s, t

(* The front of a piece of the stream.                                     *)
LEMMA FrontBytes ==
    ASSUME NEW p \in Nat, NEW size \in Nat, NEW n \in Nat, n <= size
    PROVE  SubSeq(Bytes(p, size), 1, n) = Bytes(p, n)
<1>1. \A x, y \in Nat : x + y <= size => SubSeq(Bytes(p, size), x + 1, x + y) = Bytes(p + x, y)
  BY CutBytes
<1>2. 0 \in Nat /\ 0 + n <= size
  OBVIOUS
<1>3. SubSeq(Bytes(p, size), 0 + 1, 0 + n) = Bytes(p + 0, n)
  BY <1>1, <1>2
<1>4. 0 + 1 = 1 /\ 0 + n = n /\ p + 0 = p
  OBVIOUS
<1> QED
  BY <1>3, <1>4, Zenon

(* Adjoining pieces of a stream make one.                                  *)
LEMMA JoinBytes ==
    ASSUME NEW first \in Nat, NEW m \in Nat, NEW n \in Nat
    PROVE  Bytes(first, m) \o Bytes(first + m, n) = Bytes(first, m + n)
<1> DEFINE s == Bytes(first, m)
           t == Bytes(first + m, n)
           u == Bytes(first, m + n)
<1>1. /\ s \in Seq(Nat) /\ Len(s) = m /\ \A i \in 1 .. m : s[i] = first + i - 1
      /\ t \in Seq(Nat) /\ Len(t) = n /\ \A i \in 1 .. n : t[i] = first + m + i - 1
      /\ u \in Seq(Nat) /\ Len(u) = m + n /\ \A i \in 1 .. m + n : u[i] = first + i - 1
  <2>1. first + m \in Nat /\ m + n \in Nat
    OBVIOUS
  <2> QED
    BY <2>1, BytesIsSeq
<1> HIDE DEF s, t, u
<1>2. /\ s \o t \in Seq(Nat) /\ Len(s \o t) = m + n
      /\ \A i \in 1 .. m + n : (s \o t)[i] = IF i <= m THEN s[i] ELSE t[i - m]
  BY <1>1, ConcatProperties
<1>3. \A i \in 1 .. m + n : (s \o t)[i] = u[i]
  <2> SUFFICES ASSUME NEW i \in 1 .. m + n PROVE (s \o t)[i] = u[i]
    OBVIOUS
  <2>1. CASE i <= m
    BY <1>1, <1>2, <2>1
  <2>2. CASE ~ (i <= m)
    <3>1. i - m \in 1 .. n /\ first + m + (i - m) - 1 = first + i - 1
      BY <2>2
    <3> QED
      BY <1>1, <1>2, <2>2, <3>1
  <2> QED
    BY <2>1, <2>2
<1>4. s \o t = u
  BY <1>1, <1>2, <1>3, SeqEqual
<1> QED
  BY <1>4 DEF s, t, u

(* The cache of a reassembler: pieces of the stream between lo and hi, in  *)
(* order and without overlap.  A piece may be empty: an empty substring    *)
(* that lies before a stored one is stored.                                *)
IsCache(c, lo, hi) ==
    /\ DOMAIN c \subseteq Nat
    /\ \A k \in DOMAIN c :
          /\ lo <= k
          /\ c[k].last \in Int
          /\ k <= c[k].last + 1
          /\ c[k].last < hi
          /\ c[k].data = Bytes(k, c[k].last - k + 1)
    /\ \A j, k \in DOMAIN c : j < k => c[j].last < k

InCache(c, i) == \E k \in DOMAIN c : k <= i /\ i <= c[k].last

(* Storing a substring between two neighbours it does not touch keeps the  *)
(* map sound, and adds just its bytes to what is stored.                   *)
LEMMA PutIsCache ==
    ASSUME NEW lo \in Nat, NEW hi \in Int, NEW c, IsCache(c, lo, hi),
           NEW w \in Nat, NEW l \in Int, lo <= w, w <= l + 1, l < hi,
           \A k \in DOMAIN c : (l < k /\ w < k) \/ (k <= w /\ c[k].last < w)
    PROVE  LET d == Put(c, w, l, Bytes(w, l - w + 1)) IN
           /\ IsCache(d, lo, hi)
           /\ DOMAIN d = DOMAIN c \cup {w}
           /\ \A k \in DOMAIN c : k # w => d[k] = c[k]
           /\ d[w].last = l
           /\ \A i \in Nat : InCache(d, i) <=> InCache(c, i) \/ i \in w .. l
<1> DEFINE d == Put(c, w, l, Bytes(w, l - w + 1))
<1>1. /\ DOMAIN d = DOMAIN c \cup {w}
      /\ \A k \in DOMAIN c : k # w => d[k] = c[k]
      /\ d[w].last = l
      /\ d[w].data = Bytes(w, l - w + 1)
  BY DEF Put
<1> HIDE DEF d
<1>2. IsCache(d, lo, hi)
  BY <1>1 DEF IsCache
<1>3. ASSUME NEW i \in Nat
      PROVE  InCache(d, i) <=> InCache(c, i) \/ i \in w .. l
  <2>1. InCache(d, i) => InCache(c, i) \/ i \in w .. l
    BY <1>1 DEF InCache
  <2>2. i \in w .. l => InCache(d, i)
    BY <1>1 DEF InCache
  <2>3. InCache(c, i) => InCache(d, i)
    <3> SUFFICES ASSUME NEW k \in DOMAIN c, k <= i, i <= c[k].last
                 PROVE  InCache(d, i)
      BY DEF InCache
    <3>1. k # w
      BY DEF IsCache
    <3> QED
      BY <1>1, <3>1 DEF InCache
  <2> QED
    BY <2>1, <2>2, <2>3
<1> QED
  BY <1>1, <1>2, <1>3 DEF d

(* s is a state of the loop over the cache. *)
IsScan(s, c, data, write, done, thrown) ==
    /\ DOMAIN s = {"cache", "data", "write", "done", "thrown"}
    /\ s.cache = c
    /\ s.data = data
    /\ s.write = write
    /\ s.done = done
    /\ s.thrown = thrown

(* What substr leaves of bytes, when it is asked for all that is left, or  *)
(* for more.                                                               *)
LEMMA SubstrOfBytes ==
    ASSUME NEW w \in Nat, NEW size \in Nat, NEW pos \in 0 .. size, NEW len \in Nat
    PROVE  /\ pos + len >= size =>
                 substr(Bytes(w, size), pos, len) = Bytes(w + pos, size - pos)
           /\ pos = 0 /\ len <= size => substr(Bytes(w, size), pos, len) = Bytes(w, len)
<1>1. Len(Bytes(w, size)) = size
  BY BytesIsSeq
<1>2. ASSUME pos + len >= size
      PROVE  substr(Bytes(w, size), pos, len) = Bytes(w + pos, size - pos)
  <2> DEFINE n == size - pos
  <2>1. n \in Nat /\ pos + n <= size /\ pos + n = size
    OBVIOUS
  <2>2. substr(Bytes(w, size), pos, len) = SubSeq(Bytes(w, size), pos + 1, pos + n)
    BY <1>1, <1>2, <2>1 DEF substr, AtMost
  <2> HIDE DEF n
  <2>3. SubSeq(Bytes(w, size), pos + 1, pos + n) = Bytes(w + pos, n)
    BY <2>1, CutBytes
  <2> QED
    BY <2>2, <2>3 DEF n
<1>3. ASSUME pos = 0, len <= size
      PROVE  substr(Bytes(w, size), pos, len) = Bytes(w, len)
  <2>1. substr(Bytes(w, size), pos, len) = SubSeq(Bytes(w, size), 0 + 1, 0 + len)
    BY <1>1, <1>3 DEF substr, AtMost
  <2>2. SubSeq(Bytes(w, size), 0 + 1, 0 + len) = Bytes(w + 0, len)
    <3>1. 0 \in Nat /\ 0 + len <= size
      BY <1>3
    <3>2. \A p, n \in Nat : p + n <= size =>
             SubSeq(Bytes(w, size), p + 1, p + n) = Bytes(w + p, n)
      BY CutBytes
    <3> QED
      BY <3>1, <3>2
  <2> QED
    BY <2>1, <2>2
<1> QED
  BY <1>2, <1>3

(* The loop before the stored piece at n, which was c0[n] when it began:   *)
(* the pieces from n on are as they were; what lies in front is behind     *)
(* write, and everything from w0 to write is stored.  When the loop has    *)
(* broken out everything up to last is stored.                             *)
ScanInv(s, c0, n, w0, last, lo, hi) ==
    /\ IsScan(s, s.cache, s.data, s.write, s.done, FALSE)
    /\ s.done \in BOOLEAN
    /\ IsCache(s.cache, lo, hi)
    /\ DOMAIN c0 \subseteq DOMAIN s.cache
    /\ \A k \in DOMAIN c0 : n <= k => k \in DOMAIN s.cache /\ s.cache[k] = c0[k]
    /\ \A i \in Nat : InCache(c0, i) => InCache(s.cache, i)
    /\ \A i \in Nat : InCache(s.cache, i) => InCache(c0, i) \/ i \in w0 .. last
    /\ s.done => /\ \A i \in w0 .. last : InCache(s.cache, i)
                 /\ s.data = << >> \/ \E k \in DOMAIN s.cache : last <= s.cache[k].last
    /\ ~ s.done => /\ s.write \in w0 .. last + 1
                   /\ s.data = Bytes(s.write, last - s.write + 1)
                   /\ \A i \in w0 .. s.write - 1 : InCache(s.cache, i)
                   /\ \A k \in DOMAIN s.cache :
                         \/ k \in DOMAIN c0 /\ n <= k
                         \/ k <= s.write /\ s.cache[k].last < s.write

(* What a visit of the piece at key returns, case by case. *)
LEMMA BeforeFields ==
    ASSUME NEW s, NEW c, NEW d, NEW w, IsScan(s, c, d, w, FALSE, FALSE),
           NEW key, NEW last
    PROVE  LET next == AtLeast(key, c[key].last + 1)
               gap  == Put(c, w, Minus(key, 1), substr(d, 0, key - w))
               t    == BeforeSegment(s, key, last) IN
           /\ last < key => IsScan(t, Put(c, w, last, d), d, w, TRUE, FALSE)
           /\ ~ (last < key) /\ last < next => IsScan(t, gap, d, w, TRUE, FALSE)
           /\ ~ (last < key) /\ ~ (last < next) =>
                 IsScan(t, gap, substr(d, next - w, last - next + 1), next, next > last,
                        next - w > Len(d))
<1> DEFINE next == AtLeast(key, c[key].last + 1)
           gap  == Put(c, w, Minus(key, 1), substr(d, 0, key - w))
           t    == BeforeSegment(s, key, last)
           rest == substr(d, next - w, last - next + 1)
           over == next > last
           out  == next - w > Len(d)
           new  == Put(c, w, last, d)
<1>1. ASSUME last < key PROVE IsScan(t, new, d, w, TRUE, FALSE)
  <2>1. t = [s EXCEPT !.cache = new, !.done = TRUE]
    BY <1>1 DEF IsScan, BeforeSegment
  <2> HIDE DEF t, new
  <2> QED
    BY <2>1 DEF IsScan
<1>2. ASSUME ~ (last < key), last < next PROVE IsScan(t, gap, d, w, TRUE, FALSE)
  <2>1. t = [s EXCEPT !.cache = gap, !.done = TRUE]
    BY <1>2 DEF IsScan, BeforeSegment
  <2> HIDE DEF t, gap
  <2> QED
    BY <2>1 DEF IsScan
<1>3. ASSUME ~ (last < key), ~ (last < next)
      PROVE  IsScan(t, gap, rest, next, over, out)
  <2>1. t = [s EXCEPT !.cache = gap, !.data = rest, !.thrown = @ \/ out, !.write = next,
                      !.done = over]
    BY <1>3 DEF IsScan, BeforeSegment
  <2>2. (s.thrown \/ out) = out
    BY DEF IsScan
  <2> HIDE DEF t, gap, rest, next, over, out
  <2>3. /\ DOMAIN t = {"cache", "data", "write", "done", "thrown"}
        /\ t.cache = gap /\ t.data = rest /\ t.write = next
    BY <2>1 DEF IsScan
  <2>4. t.done = over
    BY <2>1 DEF IsScan
  <2>5. t.thrown = (s.thrown \/ out)
    BY <2>1 DEF IsScan
  <2> QED
    BY <2>2, <2>3, <2>4, <2>5 DEF IsScan
<1> QED
  BY <1>1, <1>2, <1>3

(* What a visit does when the stored substring begins first: it ends the   *)
(* search, or cuts off what is known already.                              *)
LEMMA AfterFields ==
    ASSUME NEW s, NEW c, NEW d, NEW w, IsScan(s, c, d, w, FALSE, FALSE),
           NEW key, NEW last
    PROVE  LET next == AtLeast(c[key].last + 1, w)
               t    == AfterSegment(s, key, last) IN
           /\ last <= c[key].last => IsScan(t, c, d, w, TRUE, FALSE)
           /\ ~ (last <= c[key].last) =>
                 IsScan(t, c, substr(d, next - w, Minus(last, key) + 1), next, next > last,
                        next - w > Len(d))
<1> DEFINE next == AtLeast(c[key].last + 1, w)
           t    == AfterSegment(s, key, last)
           rest == substr(d, next - w, Minus(last, key) + 1)
           over == next > last
           out  == next - w > Len(d)
<1>1. ASSUME last <= c[key].last PROVE IsScan(t, c, d, w, TRUE, FALSE)
  <2>1. t = [s EXCEPT !.done = TRUE]
    BY <1>1 DEF IsScan, AfterSegment
  <2> HIDE DEF t
  <2> QED
    BY <2>1 DEF IsScan
<1>2. ASSUME ~ (last <= c[key].last) PROVE IsScan(t, c, rest, next, over, out)
  <2>1. t = [s EXCEPT !.data = rest, !.thrown = @ \/ out, !.write = next, !.done = over]
    BY <1>2 DEF IsScan, AfterSegment
  <2>2. (s.thrown \/ out) = out
    BY DEF IsScan
  <2> HIDE DEF t, rest, next, over, out
  <2>3. /\ DOMAIN t = {"cache", "data", "write", "done", "thrown"}
        /\ t.cache = c /\ t.data = rest /\ t.write = next
    BY <2>1 DEF IsScan
  <2>4. t.done = over
    BY <2>1 DEF IsScan
  <2>5. t.thrown = (s.thrown \/ out)
    BY <2>1 DEF IsScan
  <2> QED
    BY <2>2, <2>3, <2>4, <2>5 DEF IsScan
<1> QED
  BY <1>1, <1>2

(* A difference in 64 bits that does not wrap.                             *)
LEMMA MinusIs ==
    ASSUME NEW a \in Int, NEW b \in Int, a - b \in 0 .. Range64 - 1
    PROVE  Minus(a, b) = a - b
  BY WidthAssumption DEF Minus

(* The numbers about zero in 64 bits.                                      *)
LEMMA TurnOf64 ==
    /\ Minus(0, 1) = Range64 - 1
    /\ \A m \in Nat : m < Range64 => m % Range64 = m /\ (m + Range64) % Range64 = m
<1>1. Range64 \in Nat /\ Range64 > 0
  BY WidthAssumption
<1>2. (0 - 1) % Range64 = Range64 - 1
  BY <1>1
<1>3. \A m \in Nat : m < Range64 => m % Range64 = m /\ (m + Range64) % Range64 = m
  BY <1>1
<1> QED
  BY <1>2, <1>3 DEF Minus

(* A visit of a piece that starts behind the bytes to place. *)
LEMMA AfterStep ==
    ASSUME NEW lo \in Nat, NEW hi \in Nat, hi <= Range64,
           NEW w0 \in Nat, NEW last \in Int, lo <= w0, w0 <= last + 1, last < hi,
           NEW c0, IsCache(c0, lo, hi), NEW n \in DOMAIN c0,
           NEW s, ScanInv(s, c0, n, w0, last, lo, hi), ~ s.done, ~ (s.write < n)
    PROVE  ScanInv(AfterSegment(s, n, last), c0, n + 1, w0, last, lo, hi)
<1> DEFINE c    == s.cache
           d    == s.data
           w    == s.write
           size == last - w + 1
           e    == c[n].last
           t    == AfterSegment(s, n, last)
           next == AtLeast(e + 1, w)
<1>1. IsScan(s, c, d, w, FALSE, FALSE)
  BY DEF ScanInv, IsScan
<1>2. /\ w \in w0 .. last + 1 /\ d = Bytes(w, size)
      /\ \A i \in w0 .. w - 1 : InCache(c, i)
      /\ \A k \in DOMAIN c : (k \in DOMAIN c0 /\ n <= k) \/ (k <= w /\ c[k].last < w)
      /\ \A k \in DOMAIN c0 : n <= k => k \in DOMAIN c /\ c[k] = c0[k]
      /\ IsCache(c, lo, hi)
      /\ DOMAIN c0 \subseteq DOMAIN c
      /\ \A i \in Nat : InCache(c0, i) => InCache(c, i)
      /\ \A i \in Nat : InCache(c, i) => InCache(c0, i) \/ i \in w0 .. last
  BY DEF ScanInv
<1>3. /\ n \in Nat /\ n \in DOMAIN c /\ e \in Int /\ n <= e + 1 /\ e < hi
      /\ w \in Nat /\ size \in Nat /\ n <= w
  BY <1>2 DEF IsCache
<1>4. \A i \in w .. e : InCache(c, i)
  BY <1>3 DEF InCache
<1>5. Len(d) = size
  <2> HIDE DEF d, w, size
  <2> QED
    BY <1>2, <1>3, BytesIsSeq
<1>6. CASE last <= e
  <2>1. IsScan(t, c, d, w, TRUE, FALSE)
    BY <1>1, <1>6, AfterFields
  <2>2. \A i \in w0 .. last : InCache(c, i)
    <3>1. \A i \in w0 .. last : i \in w0 .. w - 1 \/ i \in w .. e
      BY <1>3, <1>6
    <3> QED
      BY <1>2, <1>4, <3>1
  <2> HIDE DEF c, d, w, t, e
  <2>3. t.cache = c /\ t.data = d /\ t.write = w /\ t.done = TRUE /\ IsScan(t, t.cache, t.data, t.write, t.done, FALSE)
    BY <2>1 DEF IsScan
  <2>4. \A k \in DOMAIN c0 : n + 1 <= k => n <= k
    BY <1>3 DEF IsCache
  <2>5. t.data = << >> \/ \E k \in DOMAIN t.cache : last <= t.cache[k].last
    BY <1>3, <1>6, <2>3 DEF e
  <2>6. /\ IsCache(t.cache, lo, hi)
        /\ DOMAIN c0 \subseteq DOMAIN t.cache
        /\ \A k \in DOMAIN c0 : n + 1 <= k => k \in DOMAIN t.cache /\ t.cache[k] = c0[k]
        /\ \A i \in Nat : InCache(c0, i) => InCache(t.cache, i)
        /\ \A i \in Nat : InCache(t.cache, i) => InCache(c0, i) \/ i \in w0 .. last
        /\ \A i \in w0 .. last : InCache(t.cache, i)
    BY <1>2, <2>2, <2>3, <2>4
  <2>7. ScanInv(t, c0, n + 1, w0, last, lo, hi)
    BY <2>3, <2>5, <2>6 DEF ScanInv
  <2> QED
    BY <2>7 DEF t
<1>7. CASE ~ (last <= e)
  <2>1. next \in w .. last + 1 /\ (next = e + 1 \/ next = w) /\ e < next
    BY <1>2, <1>3, <1>7 DEF AtLeast
  <2>2. Minus(last, n) = last - n
    <3>1. last - n \in 0 .. Range64 - 1
      BY <1>3, <1>7, WidthAssumption
    <3> QED
      BY <1>3, <3>1, MinusIs
  <2> DEFINE pos == next - w
             len == last - n + 1
  <2>3. pos \in 0 .. size /\ len \in Nat /\ pos + len >= size
    BY <1>3, <1>7, <2>1
  <2>4. substr(d, pos, len) = Bytes(w + pos, size - pos)
    <3> HIDE DEF pos, len, size, w, d
    <3> QED
      BY <1>2, <1>3, <2>3, SubstrOfBytes
  <2>5. w + pos = next /\ size - pos = last - next + 1 /\ ~ (next - w > Len(d))
    <3>1. next \in Int /\ w \in Int /\ size = last - w + 1 /\ next - w <= size /\ Len(d) = size
      BY <1>3, <1>5, <2>1, <2>3
    <3> HIDE DEF next, w, d, size
    <3> QED
      BY <3>1
  <2>6. IsScan(t, c, Bytes(next, last - next + 1), next, next > last, FALSE)
    <3> DEFINE over == next > last
               out == next - w > Len(d)
    <3>1. IsScan(t, c, substr(d, next - w, Minus(last, n) + 1), next, over, out)
      <4> HIDE DEF c, d, w
      <4> QED
        BY <1>1, <1>7, AfterFields
    <3>2. substr(d, next - w, Minus(last, n) + 1) = Bytes(next, last - next + 1)
      BY <2>2, <2>4, <2>5
    <3>3. out = FALSE
      BY <2>5
    <3> HIDE DEF over, out, next, t, c, d
    <3>4. IsScan(t, c, Bytes(next, last - next + 1), next, over, FALSE)
      BY <3>1, <3>2, <3>3
    <3> QED
      BY <3>4 DEF over
  <2>7. \A i \in w0 .. next - 1 : InCache(c, i)
    <3>1. \A i \in w0 .. next - 1 : i \in w0 .. w - 1 \/ i \in w .. e
      BY <1>2, <1>3, <2>1
    <3> QED
      BY <1>2, <1>4, <3>1
  <2>8. \A k \in DOMAIN c : (k \in DOMAIN c0 /\ n + 1 <= k) \/ (k <= next /\ c[k].last < next)
    <3> SUFFICES ASSUME NEW k \in DOMAIN c
                 PROVE  (k \in DOMAIN c0 /\ n + 1 <= k) \/ (k <= next /\ c[k].last < next)
      OBVIOUS
    <3>1. k \in Nat /\ c[k].last \in Int
      BY <1>2 DEF IsCache
    <3>2. CASE k = n
      BY <1>3, <2>1, <3>2
    <3>3. CASE k # n
      BY <1>2, <1>3, <2>1, <3>1, <3>3
    <3> QED
      BY <3>2, <3>3
  <2>9. next > last => last - next + 1 = 0 /\ Bytes(next, last - next + 1) = << >>
    <3>1. next > last => last - next + 1 = 0
      BY <1>2, <1>3, <2>1
    <3>2. next \in Nat /\ 0 \in Nat
      BY <1>2, <1>3, <2>1
    <3> QED
      BY <3>1, <3>2, BytesIsSeq
  <2>10. next > last => \A i \in w0 .. last : i \in w0 .. next - 1
    BY <1>2, <1>3, <2>1
  <2>11. (next > last) \in BOOLEAN /\ next \in w0 .. last + 1
    BY <1>2, <1>3, <2>1
  <2>12. \A k \in DOMAIN c0 : n + 1 <= k => n <= k
    BY <1>3 DEF IsCache
  <2> HIDE DEF c, d, w, t, e, next, pos, len, size
  <2>13. /\ t.cache = c /\ t.data = Bytes(next, last - next + 1) /\ t.write = next
         /\ t.done = (next > last)
         /\ IsScan(t, t.cache, t.data, t.write, t.done, FALSE)
    BY <2>6 DEF IsScan
  <2>14. t.done => /\ \A i \in w0 .. last : InCache(t.cache, i)
                   /\ t.data = << >>
    BY <2>7, <2>9, <2>10, <2>13
  <2>15. ~ t.done =>
            /\ t.write \in w0 .. last + 1
            /\ t.data = Bytes(t.write, last - t.write + 1)
            /\ \A i \in w0 .. t.write - 1 : InCache(t.cache, i)
            /\ \A k \in DOMAIN t.cache :
                  (k \in DOMAIN c0 /\ n + 1 <= k) \/ (k <= t.write /\ t.cache[k].last < t.write)
    BY <2>7, <2>8, <2>11, <2>13
  <2>16. /\ IsCache(t.cache, lo, hi)
         /\ DOMAIN c0 \subseteq DOMAIN t.cache
         /\ \A k \in DOMAIN c0 : n + 1 <= k => k \in DOMAIN t.cache /\ t.cache[k] = c0[k]
         /\ \A i \in Nat : InCache(c0, i) => InCache(t.cache, i)
         /\ \A i \in Nat : InCache(t.cache, i) => InCache(c0, i) \/ i \in w0 .. last
         /\ t.done \in BOOLEAN
    BY <1>2, <2>11, <2>12, <2>13
  <2>17. ScanInv(t, c0, n + 1, w0, last, lo, hi)
    BY <2>13, <2>14, <2>15, <2>16 DEF ScanInv
  <2> QED
    BY <2>17 DEF t
<1> QED
  BY <1>6, <1>7

(* A visit of a piece that starts in front of the bytes to place: they     *)
(* fill the gap before it, and the rest goes on behind it.                 *)
LEMMA BeforeStep ==
    ASSUME NEW lo \in Nat, NEW hi \in Nat, hi <= Range64,
           NEW w0 \in Nat, NEW last \in Int, lo <= w0, w0 <= last + 1, last < hi,
           NEW c0, IsCache(c0, lo, hi), NEW n \in DOMAIN c0,
           NEW s, ScanInv(s, c0, n, w0, last, lo, hi), ~ s.done, s.write < n
    PROVE  ScanInv(BeforeSegment(s, n, last), c0, n + 1, w0, last, lo, hi)
<1> DEFINE c    == s.cache
           d    == s.data
           w    == s.write
           size == last - w + 1
           e    == c[n].last
           t    == BeforeSegment(s, n, last)
           next == AtLeast(n, e + 1)
           gap  == Put(c, w, n - 1, Bytes(w, n - w))
<1>1. IsScan(s, c, d, w, FALSE, FALSE)
  BY DEF ScanInv, IsScan
<1>2. /\ w \in w0 .. last + 1 /\ d = Bytes(w, size)
      /\ \A i \in w0 .. w - 1 : InCache(c, i)
      /\ \A k \in DOMAIN c : (k \in DOMAIN c0 /\ n <= k) \/ (k <= w /\ c[k].last < w)
      /\ \A k \in DOMAIN c0 : n <= k => k \in DOMAIN c /\ c[k] = c0[k]
      /\ IsCache(c, lo, hi)
      /\ DOMAIN c0 \subseteq DOMAIN c
      /\ \A i \in Nat : InCache(c0, i) => InCache(c, i)
      /\ \A i \in Nat : InCache(c, i) => InCache(c0, i) \/ i \in w0 .. last
  BY DEF ScanInv
<1>3. /\ n \in Nat /\ n \in DOMAIN c /\ e \in Int /\ n <= e + 1 /\ e < hi
      /\ w \in Nat /\ size \in Nat /\ w < n /\ lo <= w /\ w <= last + 1 /\ w0 <= w
  BY <1>2 DEF IsCache
<1>4. \A k \in DOMAIN c0 : k \in Nat /\ (n + 1 <= k => n <= k /\ k # w)
  BY <1>3 DEF IsCache
<1>5. Len(d) = size
  <2> HIDE DEF d, w, size
  <2> QED
    BY <1>2, <1>3, BytesIsSeq
<1>6. CASE last < n
  <2> DEFINE new == Put(c, w, last, d)
  <2>1. IsScan(t, new, d, w, TRUE, FALSE)
    <3> HIDE DEF c, d, w
    <3> QED
      BY <1>1, <1>6, BeforeFields
  <2>2. \A k \in DOMAIN c : (last < k /\ w < k) \/ (k <= w /\ c[k].last < w)
    <3>1. \A k \in DOMAIN c : k \in Nat
      BY <1>2 DEF IsCache
    <3> QED
      BY <1>2, <1>3, <1>6, <3>1
  <2>3. /\ IsCache(new, lo, hi)
        /\ DOMAIN new = DOMAIN c \cup {w}
        /\ \A k \in DOMAIN c : k # w => new[k] = c[k]
        /\ \A i \in Nat : InCache(new, i) <=> InCache(c, i) \/ i \in w .. last
    <3>1. hi \in Int /\ IsCache(c, lo, hi) /\ w \in Nat /\ lo <= w /\ w <= last + 1
      BY <1>2, <1>3
    <3>2. Put(c, w, last, Bytes(w, last - w + 1)) = new
      BY <1>2
    <3>3. LET g == Put(c, w, last, Bytes(w, last - w + 1)) IN
          /\ IsCache(g, lo, hi)
          /\ DOMAIN g = DOMAIN c \cup {w}
          /\ \A k \in DOMAIN c : k # w => g[k] = c[k]
          /\ g[w].last = last
          /\ \A i \in Nat : InCache(g, i) <=> InCache(c, i) \/ i \in w .. last
      <4> HIDE DEF c, d, w, new
      <4> QED
        BY <2>2, <3>1, PutIsCache, Zenon
    <3> HIDE DEF c, d, w, new
    <3> QED
      BY <3>2, <3>3
  <2>4. \A i \in w0 .. last : i \in Nat /\ (i \in w0 .. w - 1 \/ i \in w .. last)
    BY <1>3
  <2>5. \A i \in w .. last : i \in w0 .. last
    BY <1>3
  <2> HIDE DEF c, d, w, t, e, new, size
  <2>6. /\ t.cache = new /\ t.data = d /\ t.write = w /\ t.done = TRUE
        /\ IsScan(t, t.cache, t.data, t.write, t.done, FALSE)
    BY <2>1 DEF IsScan
  <2>7. /\ \A i \in Nat : InCache(c0, i) => InCache(new, i)
        /\ \A i \in Nat : InCache(new, i) => InCache(c0, i) \/ i \in w0 .. last
    BY <1>2, <2>3, <2>5
  <2>8. \A i \in w0 .. last : InCache(new, i)
    BY <1>2, <2>3, <2>4
  <2>9. /\ DOMAIN c0 \subseteq DOMAIN new
         /\ \A k \in DOMAIN c0 : n + 1 <= k => k \in DOMAIN new /\ new[k] = c0[k]
    BY <1>2, <1>4, <2>3
  <2>10. \E k \in DOMAIN new : last <= new[k].last
    <3>1. n \in DOMAIN new /\ new[n] = c[n]
      BY <1>3, <2>3
    <3>2. last <= c[n].last
      BY <1>3, <1>6 DEF e
    <3> QED
      BY <3>1, <3>2
  <2>11. ScanInv(t, c0, n + 1, w0, last, lo, hi)
    BY <2>3, <2>6, <2>7, <2>8, <2>9, <2>10 DEF ScanInv
  <2> QED
    BY <2>11 DEF t
<1>7. CASE ~ (last < n)
  <2>1. Minus(n, 1) = n - 1
    <3>1. n - 1 \in 0 .. Range64 - 1
      BY <1>3, WidthAssumption
    <3> QED
      BY <1>3, <3>1, MinusIs
  <2>2. substr(d, 0, n - w) = Bytes(w, n - w)
    <3>1. n - w \in Nat /\ n - w <= size /\ 0 \in 0 .. size
      BY <1>3, <1>7
    <3> HIDE DEF d, w, size
    <3> QED
      BY <1>2, <1>3, <3>1, SubstrOfBytes
  <2>3. Put(c, w, Minus(n, 1), substr(d, 0, n - w)) = gap
    BY <2>1, <2>2
  <2>4. \A k \in DOMAIN c : (n - 1 < k /\ w < k) \/ (k <= w /\ c[k].last < w)
    <3>1. \A k \in DOMAIN c : k \in Nat
      BY <1>2 DEF IsCache
    <3> QED
      BY <1>2, <1>3, <3>1
  <2>5. /\ IsCache(gap, lo, hi)
        /\ DOMAIN gap = DOMAIN c \cup {w}
        /\ \A k \in DOMAIN c : k # w => gap[k] = c[k]
        /\ gap[w].last = n - 1
        /\ \A i \in Nat : InCache(gap, i) <=> InCache(c, i) \/ i \in w .. n - 1
    <3>1. /\ n - 1 \in Int /\ w <= (n - 1) + 1 /\ n - 1 < hi /\ (n - 1) - w + 1 = n - w
      BY <1>3, <1>7
    <3> DEFINE l == n - 1
               m == n - w
    <3>2. l \in Int /\ w <= l + 1 /\ l < hi /\ l - w + 1 = m
      BY <3>1
    <3>3. \A k \in DOMAIN c : (l < k /\ w < k) \/ (k <= w /\ c[k].last < w)
      BY <2>4
    <3>4. LET g == Put(c, w, l, Bytes(w, l - w + 1)) IN
          /\ IsCache(g, lo, hi)
          /\ DOMAIN g = DOMAIN c \cup {w}
          /\ \A k \in DOMAIN c : k # w => g[k] = c[k]
          /\ g[w].last = l
          /\ \A i \in Nat : InCache(g, i) <=> InCache(c, i) \/ i \in w .. l
      <4>1. hi \in Int /\ IsCache(c, lo, hi) /\ w \in Nat /\ lo <= w
        BY <1>2, <1>3
      <4> HIDE DEF c, d, w, l, m
      <4> QED
        BY <3>2, <3>3, <4>1, PutIsCache, Zenon
    <3> QED
      BY <3>2, <3>4
  <2>6. next = e + 1
    BY <1>3 DEF AtLeast
  <2>7. \A i \in w0 .. e : i \in Nat /\ (i \in w0 .. w - 1 \/ i \in w .. n - 1 \/ i \in n .. e)
    BY <1>3
  <2>8. \A i \in n .. e : InCache(c, i)
    BY <1>3 DEF InCache
  <2>9. \A i \in w0 .. e : InCache(gap, i)
    <3> HIDE DEF gap, c, w, e
    <3> QED
      BY <1>2, <1>3, <2>5, <2>7, <2>8
  <2>10. \A i \in w .. n - 1 : i \in w0 .. last
    BY <1>3, <1>7
  <2>11. /\ \A i \in Nat : InCache(c0, i) => InCache(gap, i)
         /\ \A i \in Nat : InCache(gap, i) => InCache(c0, i) \/ i \in w0 .. last
    <3> HIDE DEF gap, c, w
    <3> QED
      BY <1>2, <2>5, <2>10
  <2>12. /\ DOMAIN c0 \subseteq DOMAIN gap
         /\ \A k \in DOMAIN c0 : n + 1 <= k => k \in DOMAIN gap /\ gap[k] = c0[k]
    <3> HIDE DEF gap, c, w
    <3> QED
      BY <1>2, <1>4, <2>5
  <2>13. n \in DOMAIN gap /\ gap[n].last = e
    <3>1. gap[n] = c[n]
      <4> HIDE DEF gap, c
      <4> QED
        BY <1>3, <2>5
    <3> QED
      BY <1>3, <2>5, <3>1
  <2>14. CASE last < next
    <3>1. IsScan(t, gap, d, w, TRUE, FALSE)
      <4>1. LET g == Put(c, w, Minus(n, 1), substr(d, 0, n - w)) IN
            ~ (last < n) /\ last < next => IsScan(t, g, d, w, TRUE, FALSE)
        <5> HIDE DEF c, d, w
        <5> QED
          BY <1>1, BeforeFields
      <4> HIDE DEF gap, next, t, c, d, w
      <4> QED
        BY <1>7, <2>3, <2>14, <4>1
    <3>2. \A i \in w0 .. last : i \in w0 .. e
      BY <1>3, <2>6, <2>14
    <3>3. last <= gap[n].last
      <4>1. last <= e
        BY <1>3, <2>6, <2>14
      <4> QED
        BY <2>13, <4>1
    <3> HIDE DEF c, d, w, t, e, gap, next, size
    <3>4. /\ t.cache = gap /\ t.done = TRUE
          /\ IsScan(t, t.cache, t.data, t.write, t.done, FALSE)
      BY <3>1 DEF IsScan
    <3>5. \A i \in w0 .. last : InCache(gap, i)
      BY <2>9, <3>2
    <3>6. ScanInv(t, c0, n + 1, w0, last, lo, hi)
      BY <2>5, <2>11, <2>12, <2>13, <3>3, <3>4, <3>5 DEF ScanInv
    <3> QED
      BY <3>6 DEF t
  <2>15. CASE ~ (last < next)
    <3> DEFINE pos  == next - w
               len  == last - next + 1
               over == next > last
               out  == next - w > Len(d)
    <3>1. pos \in 0 .. size /\ len \in Nat /\ pos + len >= size /\ next \in w0 .. last
      BY <1>3, <2>6, <2>15
    <3>2. substr(d, pos, len) = Bytes(w + pos, size - pos)
      <4> HIDE DEF pos, len, size, w, d
      <4> QED
        BY <1>2, <1>3, <3>1, SubstrOfBytes
    <3>3. w + pos = next /\ size - pos = last - next + 1
      <4>1. next \in Int
        BY <3>1
      <4> HIDE DEF next, w
      <4> QED
        BY <1>3, <4>1
    <3>4. over = FALSE /\ out = FALSE
      <4>1. next \in Int /\ next <= last /\ next - w <= size
        BY <3>1
      <4> HIDE DEF next, w, d, size
      <4> QED
        BY <1>5, <4>1, <1>3
    <3>5. IsScan(t, gap, Bytes(next, last - next + 1), next, FALSE, FALSE)
      <4>1. LET g == Put(c, w, Minus(n, 1), substr(d, 0, n - w)) IN
            ~ (last < n) /\ ~ (last < next) =>
               IsScan(t, g, substr(d, next - w, last - next + 1), next, over, out)
        <5> HIDE DEF c, d, w
        <5> QED
          BY <1>1, BeforeFields
      <4> HIDE DEF gap, next, t, c, d, w, over, out
      <4> QED
        BY <1>7, <2>3, <2>15, <3>2, <3>3, <3>4, <4>1
    <3>6. \A i \in w0 .. next - 1 : i \in w0 .. e
      BY <1>3, <2>6
    <3>7. \A k \in DOMAIN gap : (k \in DOMAIN c0 /\ n + 1 <= k) \/ (k <= next /\ gap[k].last < next)
      <4> SUFFICES ASSUME NEW k \in DOMAIN gap
                   PROVE  (k \in DOMAIN c0 /\ n + 1 <= k) \/ (k <= next /\ gap[k].last < next)
        OBVIOUS
      <4>1. CASE k = w
        BY <1>3, <2>5, <2>6, <4>1
      <4>2. CASE k = n
        BY <1>3, <2>6, <2>13, <4>2
      <4>3. CASE k # w /\ k # n
        <5>1. k \in DOMAIN c /\ gap[k] = c[k]
          <6> HIDE DEF gap, c, w
          <6> QED
            BY <2>5, <4>3
        <5>2. k \in Nat /\ c[k].last \in Int
          BY <1>2, <5>1 DEF IsCache
        <5>3. (k \in DOMAIN c0 /\ n <= k) \/ (k <= w /\ c[k].last < w)
          BY <1>2, <5>1
        <5> QED
          BY <1>3, <2>6, <4>3, <5>1, <5>2, <5>3
      <4> QED
        BY <4>1, <4>2, <4>3
    <3> HIDE DEF c, d, w, t, e, gap, next, size
    <3>8. /\ t.cache = gap /\ t.data = Bytes(next, last - next + 1) /\ t.write = next
          /\ t.done = FALSE
          /\ IsScan(t, t.cache, t.data, t.write, t.done, FALSE)
      BY <3>5 DEF IsScan
    <3>9. \A i \in w0 .. next - 1 : InCache(gap, i)
      BY <2>9, <3>6
    <3>10. next \in w0 .. last + 1
      BY <3>1
    <3>11. ScanInv(t, c0, n + 1, w0, last, lo, hi)
      BY <2>5, <2>11, <2>12, <3>7, <3>8, <3>9, <3>10 DEF ScanInv
    <3> QED
      BY <3>11 DEF t
  <2> QED
    BY <2>14, <2>15
<1> QED
  BY <1>6, <1>7

(* One turn of the loop of insert keeps what the search knows.             *)
LEMMA VisitStep ==
    ASSUME NEW lo \in Nat, NEW hi \in Nat, hi <= Range64,
           NEW w0 \in Nat, NEW last \in Int, lo <= w0, w0 <= last + 1, last < hi,
           NEW c0, IsCache(c0, lo, hi), NEW n \in DOMAIN c0,
           NEW s, ScanInv(s, c0, n, w0, last, lo, hi)
    PROVE  ScanInv(VisitSegment(s, n, last), c0, n + 1, w0, last, lo, hi)
<1>1. CASE s.done
  <2>1. \A k \in DOMAIN c0 : k \in Nat /\ (n + 1 <= k => n <= k)
    BY DEF IsCache
  <2>2. VisitSegment(s, n, last) = s
    BY <1>1 DEF VisitSegment
  <2>3. ScanInv(s, c0, n + 1, w0, last, lo, hi)
    BY <1>1, <2>1 DEF ScanInv
  <2> QED
    BY <2>2, <2>3
<1>2. CASE ~ s.done /\ s.write < n
  BY <1>2, BeforeStep DEF VisitSegment
<1>3. CASE ~ s.done /\ ~ (s.write < n)
  BY <1>3, AfterStep DEF VisitSegment
<1> QED
  BY <1>1, <1>2, <1>3

(* What lies beyond the last stored piece; when the loop has broken out    *)
(* there is nothing.                                                       *)
LEMMA TailStep ==
    ASSUME NEW lo \in Nat, NEW hi \in Nat,
           NEW w0 \in Nat, NEW last \in Int, lo <= w0, w0 <= last + 1, last < hi,
           NEW c0, IsCache(c0, lo, hi), NEW N \in Nat, \A k \in DOMAIN c0 : k < N,
           w0 <= last => DOMAIN c0 # {},
           NEW s, ScanInv(s, c0, N, w0, last, lo, hi)
    PROVE  LET t == StoreTail(s, last) IN
           /\ t.thrown = FALSE
           /\ IsCache(t.cache, lo, hi)
           /\ \A i \in Nat : InCache(t.cache, i) <=> InCache(c0, i) \/ i \in w0 .. last
<1> DEFINE c == s.cache
           t == StoreTail(s, last)
           m == Max(DOMAIN c)
<1>1. /\ IsScan(s, c, s.data, s.write, s.done, FALSE)
      /\ s.done \in BOOLEAN
      /\ IsCache(c, lo, hi)
      /\ DOMAIN c0 \subseteq DOMAIN c
      /\ \A i \in Nat : InCache(c0, i) => InCache(c, i)
      /\ \A i \in Nat : InCache(c, i) => InCache(c0, i) \/ i \in w0 .. last
  BY DEF ScanInv
<1>2. \A i \in w0 .. last : i \in Nat
  OBVIOUS
<1>3. ASSUME \A i \in w0 .. last : InCache(c, i), t = s
      PROVE  /\ t.thrown = FALSE
             /\ IsCache(t.cache, lo, hi)
             /\ \A i \in Nat : InCache(t.cache, i) <=> InCache(c0, i) \/ i \in w0 .. last
  BY <1>1, <1>2, <1>3 DEF IsScan
<1>4. DOMAIN c # {} => m \in DOMAIN c /\ \A k \in DOMAIN c : k <= m /\ c[k].last <= c[m].last
  <2>1. DOMAIN c \in SUBSET Nat /\ \A k \in DOMAIN c : k < hi + 1
    <3> HIDE DEF c
    <3> QED
      BY <1>1 DEF IsCache
  <2>2. ASSUME DOMAIN c # {} PROVE m \in DOMAIN c /\ \A k \in DOMAIN c : k <= m
    <3>1. hi + 1 \in Nat
      OBVIOUS
    <3> HIDE DEF c
    <3> QED
      BY <2>1, <2>2, <3>1, LargestOf
  <2>3. DOMAIN c # {} => \A k \in DOMAIN c : c[k].last <= c[m].last
    <3> HIDE DEF c, m
    <3> QED
      BY <1>1, <2>2 DEF IsCache
  <2> QED
    BY <2>2, <2>3
<1>5. CASE s.done
  <2>1. /\ \A i \in w0 .. last : InCache(c, i)
        /\ s.data = << >> \/ \E k \in DOMAIN c : last <= c[k].last
    BY <1>5 DEF ScanInv
  <2>2. (\E k \in DOMAIN c : last <= c[k].last) => DOMAIN c # {} /\ last <= c[m].last
    <3> HIDE DEF c, m
    <3> QED
      BY <1>1, <1>4 DEF IsCache
  <2>3. t = s
    BY <2>1, <2>2 DEF StoreTail, LastOf
  <2> QED
    BY <1>3, <2>1, <2>3
<1>6. CASE ~ s.done
  <2> DEFINE w == s.write
             d == s.data
  <2>1. /\ w \in w0 .. last + 1 /\ d = Bytes(w, last - w + 1)
        /\ \A i \in w0 .. w - 1 : InCache(c, i)
        /\ \A k \in DOMAIN c : k <= w /\ c[k].last < w
        /\ DOMAIN c0 # {} => DOMAIN c # {}
    <3>1. \A k \in DOMAIN c0 : k \in Nat /\ ~ (N <= k)
      BY DEF IsCache
    <3>2. /\ w \in w0 .. last + 1 /\ d = Bytes(w, last - w + 1)
          /\ \A i \in w0 .. w - 1 : InCache(c, i)
          /\ \A k \in DOMAIN c : (k \in DOMAIN c0 /\ N <= k) \/ (k <= w /\ c[k].last < w)
      BY <1>6 DEF ScanInv
    <3> HIDE DEF c, d, w
    <3> QED
      BY <1>1, <3>1, <3>2
  <2>2. w \in Nat /\ last - w + 1 \in Nat /\ lo <= w /\ w <= last + 1
    BY <2>1
  <2>3. CASE w = last + 1 \/ DOMAIN c = {}
    <3>1. \A i \in w0 .. last : InCache(c, i)
      <4> HIDE DEF c, d, w
      <4> QED
        BY <2>1, <2>3
    <3>2. t = s
      <4>1. ASSUME w = last + 1, DOMAIN c # {} PROVE d = << >>
        <5>1. last - w + 1 = 0 /\ 0 \in Nat
          BY <4>1
        <5> HIDE DEF c, d, w
        <5> QED
          BY <2>1, <2>2, <5>1, BytesIsSeq
      <4> QED
        BY <2>3, <4>1 DEF StoreTail, IsEmpty
    <3> QED
      BY <1>3, <3>1, <3>2
  <2>4. CASE w # last + 1 /\ DOMAIN c # {}
    <3> DEFINE size == last - w + 1
               new  == Put(c, w, last, Bytes(w, size))
    <3>1. w <= last /\ c[m].last \in Int /\ c[m].last < w /\ size \in Nat /\ size # 0
      <4>1. w <= last
        BY <2>2, <2>4
      <4>2. c[m].last \in Int /\ c[m].last < w
        <5> HIDE DEF c, d, w, m
        <5> QED
          BY <1>1, <1>4, <2>1, <2>4 DEF IsCache
      <4> QED
        BY <2>2, <4>1, <4>2
    <3>2. AtLeast(w, LastOf(c) + 1) = w
      BY <3>1, <2>2 DEF LastOf, AtLeast
    <3>3. substr(d, w - w, last - w + 1) = Bytes(w, size) /\ ~ (w - w > Len(d)) /\ d # << >>
      <4>1. w - w = 0 /\ size <= size /\ 0 \in 0 .. size
        BY <3>1, <2>2
      <4>2. d = Bytes(w, size) /\ last - w + 1 = size
        BY <2>1
      <4> HIDE DEF size, d, w
      <4>3. substr(d, 0, size) = Bytes(w, size)
        BY <2>2, <3>1, <4>1, <4>2, SubstrOfBytes
      <4>4. Len(d) = size /\ d # << >>
        BY <2>2, <3>1, <4>2, BytesIsSeq
      <4> QED
        BY <3>1, <4>1, <4>2, <4>3, <4>4
    <3>4. \A k \in DOMAIN c : (last < k /\ w < k) \/ (k <= w /\ c[k].last < w)
      BY <2>1
    <3>5. /\ IsCache(new, lo, hi)
          /\ \A i \in Nat : InCache(new, i) <=> InCache(c, i) \/ i \in w .. last
      <4>1. LET g == Put(c, w, last, Bytes(w, last - w + 1)) IN
            /\ IsCache(g, lo, hi)
            /\ DOMAIN g = DOMAIN c \cup {w}
            /\ \A k \in DOMAIN c : k # w => g[k] = c[k]
            /\ g[w].last = last
            /\ \A i \in Nat : InCache(g, i) <=> InCache(c, i) \/ i \in w .. last
        <5>1. hi \in Int
          OBVIOUS
        <5> HIDE DEF c, d, w
        <5> QED
          BY <1>1, <2>2, <3>4, <5>1, PutIsCache, Zenon
      <4> QED
        BY <4>1
    <3>6. t.cache = new /\ t.thrown = FALSE
      <4>1. ~ (IsEmpty(c) \/ d = << >> \/ last <= LastOf(c))
        BY <2>2, <2>4, <3>1, <3>3 DEF IsEmpty, LastOf
      <4>2. t = [s EXCEPT !.cache = Put(@, w, last, substr(d, w - w, last - w + 1)),
                          !.thrown = @ \/ w - w > Len(d)]
        BY <3>2, <4>1 DEF StoreTail
      <4>3. t = [s EXCEPT !.cache = new, !.thrown = FALSE]
        <5>1. (s.thrown \/ w - w > Len(d)) = FALSE
          BY <1>1, <3>3 DEF IsScan
        <5>2. Put(s.cache, w, last, substr(d, w - w, last - w + 1)) = new
          BY <3>3
        <5> DEFINE x == substr(d, w - w, last - w + 1)
                   o == w - w > Len(d)
        <5>3. t = [s EXCEPT !.cache = Put(s.cache, w, last, x), !.thrown = s.thrown \/ o]
          <6> HIDE DEF x, o, t, w, d
          <6> QED
            BY <4>2 DEF x, o
        <5>4. Put(s.cache, w, last, x) = new /\ (s.thrown \/ o) = FALSE
          BY <5>1, <5>2
        <5> HIDE DEF x, o, t, new
        <5> QED
          BY <5>3, <5>4
      <4> HIDE DEF t, new
      <4> QED
        BY <1>1, <4>3 DEF IsScan
    <3>7. \A i \in w0 .. last : i \in Nat /\ (i \in w0 .. w - 1 \/ i \in w .. last)
      BY <2>1, <2>2
    <3>8. \A i \in w .. last : i \in w0 .. last
      BY <2>1
    <3>9. \A i \in Nat : InCache(new, i) <=> InCache(c0, i) \/ i \in w0 .. last
      <4> HIDE DEF c, d, w, t, new
      <4> QED
        BY <1>1, <2>1, <3>5, <3>7, <3>8
    <3>10. /\ t.thrown = FALSE
           /\ IsCache(t.cache, lo, hi)
           /\ \A i \in Nat : InCache(t.cache, i) <=> InCache(c0, i) \/ i \in w0 .. last
      <4> HIDE DEF t, new
      <4> QED
        BY <3>5, <3>6, <3>9
    <3> QED
      BY <3>10
  <2> QED
    BY <2>3, <2>4
<1> QED
  BY <1>5, <1>6

(* The loop over the stored pieces, key by key: f[m] is its state before   *)
(* the piece at m, where there is one.                                     *)
LEMMA VisitRun ==
    ASSUME NEW scan, NEW c, scan.cache = c, DOMAIN c \in SUBSET Nat, NEW last,
           NEW N \in Nat, \A k \in DOMAIN c : k < N
    PROVE  \E f : /\ f[0] = scan
                  /\ \A m \in 0 .. N - 1 : f[m + 1] = IF m \in DOMAIN c THEN VisitSegment(f[m], m, last) ELSE f[m]
                  /\ VisitSegments(scan, last) = f[N]
<1> DEFINE S == DOMAIN c
           Iterates(h, D) ==
              h = [s \in SUBSET D |->
                     IF s = {} THEN scan ELSE VisitSegment(h[s \ {Max(s)}], Max(s), last)]
           loop == CHOOSE h : Iterates(h, S)
           T == {m \in Nat : \E h : Iterates(h, Below(S, m))}
<1>1. VisitSegments(scan, last) = loop[S]
  BY Zenon DEF VisitSegments, FoldKeys, MapThenFoldSet
<1>2. S \in SUBSET Nat /\ S = Below(S, N)
  BY DEF Below
<1> HIDE DEF S
<1>3. 0 \in T
  <2>1. \A s \in SUBSET Below(S, 0) : s = {}
    BY <1>2, OneByOne
  <2>2. Iterates([s \in SUBSET Below(S, 0) |-> scan], Below(S, 0))
    BY <2>1, Zenon
  <2> QED
    BY <2>2
<1>4. ASSUME NEW m \in T PROVE m + 1 \in T
  <2>1. PICK h : Iterates(h, Below(S, m))
    OBVIOUS
  <2> DEFINE D == Below(S, m + 1)
             k == [s \in SUBSET D |->
                     IF m \in s THEN VisitSegment(h[s \ {Max(s)}], Max(s), last) ELSE h[s]]
             v(s) == IF s = {} THEN scan ELSE VisitSegment(k[s \ {Max(s)}], Max(s), last)
  <2>2. \A s \in SUBSET Below(S, m) : k[s] = h[s]
    BY <1>2, OneByOne
  <2>3. ASSUME NEW s \in SUBSET D
        PROVE  k[s] = v(s)
    <3>1. s \ {Max(s)} \in SUBSET Below(S, m) /\ (m \notin s => s \in SUBSET Below(S, m))
      BY <1>2, LargestBelow
    <3>2. k[s \ {Max(s)}] = h[s \ {Max(s)}]
      BY <2>2, <3>1
    <3> QED
      BY <2>1, <2>2, <3>1, <3>2
  <2>4. Iterates(k, D)
    <3>1. k = [s \in SUBSET D |-> k[s]]
      OBVIOUS
    <3>2. k = [s \in SUBSET D |-> v(s)]
      <4> HIDE DEF k, v
      <4> QED
        BY <2>3, <3>1
    <3> QED
      BY <3>2, Zenon
  <2>5. m + 1 \in Nat /\ \E f : Iterates(f, D)
    <3> HIDE DEF k, Iterates
    <3> QED
      BY <2>4
  <2> QED
    BY <2>5
<1>5. Iterates(loop, S)
  <2>1. T = Nat
    BY <1>3, <1>4, AllNumbers
  <2>2. N \in T
    <3> HIDE DEF T
    <3> QED
      BY <2>1
  <2>3. \E h : Iterates(h, S)
    <3>1. \E h : Iterates(h, Below(S, N))
      BY <2>2
    <3> QED
      BY <1>2, <3>1
  <2> QED
    BY <2>3, Zenon
<1> HIDE DEF loop
<1> DEFINE f == [m \in Nat |-> loop[Below(S, m)]]
<1>6. f[0] = scan /\ f[N] = loop[S]
  <2>1. f[0] = loop[Below(S, 0)] /\ f[N] = loop[Below(S, N)]
    OBVIOUS
  <2>2. loop[{}] = scan
    BY <1>5
  <2> QED
    BY <1>2, <2>1, <2>2, OneByOne
<1>7. ASSUME NEW m \in 0 .. N - 1
      PROVE  f[m + 1] = IF m \in S THEN VisitSegment(f[m], m, last) ELSE f[m]
  <2>1. /\ f[m] = loop[Below(S, m)] /\ f[m + 1] = loop[Below(S, m + 1)]
        /\ Below(S, m + 1) \in SUBSET S
    BY <1>2, OneByOne
  <2>2. CASE m \in S
    <3>1. /\ Below(S, m + 1) # {} /\ Max(Below(S, m + 1)) = m
          /\ Below(S, m + 1) \ {m} = Below(S, m)
      BY <1>2, <2>2, OneByOne
    <3>2. loop[Below(S, m + 1)] = VisitSegment(loop[Below(S, m)], m, last)
      BY <1>5, <2>1, <3>1
    <3> QED
      BY <2>1, <2>2, <3>2
  <2>3. CASE m \notin S
    BY <1>2, <2>1, <2>3, OneByOne
  <2> QED
    BY <2>2, <2>3
<1> QED
  <2> HIDE DEF f
  <2> QED
    BY <1>1, <1>6, <1>7, Zenon DEF S

(* The same for the loop that takes the pieces at the front.               *)
StartRun(r) ==
    [next |-> r.output.pushed, data |-> << >>, cache |-> r.cache, done |-> FALSE]

(* The loop that moves stored substrings to the stream, turn by turn over  *)
(* the keys in their order.                                                *)
LEMMA TakeRun ==
    ASSUME NEW r, NEW c, r.cache = c, DOMAIN c \in SUBSET Nat,
           NEW N \in Nat, \A k \in DOMAIN c : k < N
    PROVE  \E f : /\ f[0] = StartRun(r)
                  /\ \A m \in 0 .. N - 1 : f[m + 1] = IF m \in DOMAIN c THEN TakeSegment(f[m], m) ELSE f[m]
                  /\ FrontRun(r) = f[N]
<1> DEFINE S == DOMAIN c
           Iterates(h, D) ==
              h = [s \in SUBSET D |->
                     IF s = {} THEN StartRun(r) ELSE TakeSegment(h[s \ {Max(s)}], Max(s))]
           loop == CHOOSE h : Iterates(h, S)
           T == {m \in Nat : \E h : Iterates(h, Below(S, m))}
<1>1. FrontRun(r) = loop[S]
  BY Zenon DEF FrontRun, StartRun, FoldKeys, MapThenFoldSet
<1>2. S \in SUBSET Nat /\ S = Below(S, N)
  BY DEF Below
<1> HIDE DEF S
<1>3. 0 \in T
  <2>1. \A s \in SUBSET Below(S, 0) : s = {}
    BY <1>2, OneByOne
  <2>2. Iterates([s \in SUBSET Below(S, 0) |-> StartRun(r)], Below(S, 0))
    BY <2>1, Zenon
  <2> QED
    BY <2>2
<1>4. ASSUME NEW m \in T PROVE m + 1 \in T
  <2>1. PICK h : Iterates(h, Below(S, m))
    OBVIOUS
  <2> DEFINE D == Below(S, m + 1)
             k == [s \in SUBSET D |->
                     IF m \in s THEN TakeSegment(h[s \ {Max(s)}], Max(s)) ELSE h[s]]
             v(s) == IF s = {} THEN StartRun(r) ELSE TakeSegment(k[s \ {Max(s)}], Max(s))
  <2>2. \A s \in SUBSET Below(S, m) : k[s] = h[s]
    BY <1>2, OneByOne
  <2>3. ASSUME NEW s \in SUBSET D
        PROVE  k[s] = v(s)
    <3>1. s \ {Max(s)} \in SUBSET Below(S, m) /\ (m \notin s => s \in SUBSET Below(S, m))
      BY <1>2, LargestBelow
    <3>2. k[s \ {Max(s)}] = h[s \ {Max(s)}]
      BY <2>2, <3>1
    <3> QED
      BY <2>1, <2>2, <3>1, <3>2
  <2>4. Iterates(k, D)
    <3>1. k = [s \in SUBSET D |-> k[s]]
      OBVIOUS
    <3>2. k = [s \in SUBSET D |-> v(s)]
      <4> HIDE DEF k, v
      <4> QED
        BY <2>3, <3>1
    <3> QED
      BY <3>2, Zenon
  <2>5. m + 1 \in Nat /\ \E f : Iterates(f, D)
    <3> HIDE DEF k, Iterates
    <3> QED
      BY <2>4
  <2> QED
    BY <2>5
<1>5. Iterates(loop, S)
  <2>1. T = Nat
    BY <1>3, <1>4, AllNumbers
  <2>2. N \in T
    <3> HIDE DEF T
    <3> QED
      BY <2>1
  <2>3. \E h : Iterates(h, S)
    <3>1. \E h : Iterates(h, Below(S, N))
      BY <2>2
    <3> QED
      BY <1>2, <3>1
  <2> QED
    BY <2>3, Zenon
<1> HIDE DEF loop
<1> DEFINE f == [m \in Nat |-> loop[Below(S, m)]]
<1>6. f[0] = StartRun(r) /\ f[N] = loop[S]
  <2>1. f[0] = loop[Below(S, 0)] /\ f[N] = loop[Below(S, N)]
    OBVIOUS
  <2>2. loop[{}] = StartRun(r)
    BY <1>5
  <2> QED
    BY <1>2, <2>1, <2>2, OneByOne
<1>7. ASSUME NEW m \in 0 .. N - 1
      PROVE  f[m + 1] = IF m \in S THEN TakeSegment(f[m], m) ELSE f[m]
  <2>1. /\ f[m] = loop[Below(S, m)] /\ f[m + 1] = loop[Below(S, m + 1)]
        /\ Below(S, m + 1) \in SUBSET S
    BY <1>2, OneByOne
  <2>2. CASE m \in S
    <3>1. /\ Below(S, m + 1) # {} /\ Max(Below(S, m + 1)) = m
          /\ Below(S, m + 1) \ {m} = Below(S, m)
      BY <1>2, <2>2, OneByOne
    <3>2. loop[Below(S, m + 1)] = TakeSegment(loop[Below(S, m)], m)
      BY <1>5, <2>1, <3>1
    <3> QED
      BY <2>1, <2>2, <3>2
  <2>3. CASE m \notin S
    BY <1>2, <2>1, <2>3, OneByOne
  <2> QED
    BY <2>2, <2>3
<1> QED
  <2> HIDE DEF f
  <2> QED
    BY <1>1, <1>6, <1>7, Zenon DEF S

(* r is a reassembler with these fields. *)
IsReassembler(r, output, cache, finish, finish_set, thrown) ==
    /\ DOMAIN r = {"output", "cache", "finish", "finish_set", "thrown"}
    /\ r.output = output
    /\ r.cache = cache
    /\ r.finish = finish
    /\ r.finish_set = finish_set
    /\ r.thrown = thrown

(* The whole loop over the cache. *)
LEMMA VisitAll ==
    ASSUME NEW lo \in Nat, NEW hi \in Nat, hi <= Range64,
           NEW w \in Nat, NEW last \in Int, lo <= w, w <= last + 1, last < hi,
           NEW c0, IsCache(c0, lo, hi), NEW scan,
           IsScan(scan, c0, Bytes(w, last - w + 1), w, FALSE, FALSE)
    PROVE  ScanInv(VisitSegments(scan, last), c0, hi + 1, w, last, lo, hi)
<1> DEFINE N == hi + 1
           all == VisitSegments(scan, last)
<1>1. N \in Nat /\ DOMAIN c0 \in SUBSET Nat /\ (\A k \in DOMAIN c0 : k < N) /\ scan.cache = c0
  BY DEF IsCache, IsScan
<1> HIDE DEF N
<1>2. PICK f : /\ f[0] = scan
               /\ \A m \in 0 .. N - 1 :
                     f[m + 1] = IF m \in DOMAIN c0 THEN VisitSegment(f[m], m, last) ELSE f[m]
               /\ all = f[N]
  BY <1>1, VisitRun
<1> HIDE DEF all
<1> DEFINE T == {m \in Nat : m <= N => ScanInv(f[m], c0, m, w, last, lo, hi)}
<1>3. 0 \in T
  <2>1. \A k \in DOMAIN c0 : k \in Nat /\ 0 <= k
    BY <1>1
  <2>2. /\ w \in w .. last + 1 /\ (\A i \in w .. w - 1 : InCache(c0, i))
        /\ \A i \in Nat : InCache(c0, i) => InCache(c0, i) \/ i \in w .. last
    OBVIOUS
  <2>3. /\ scan.cache = c0 /\ scan.data = Bytes(w, last - w + 1) /\ scan.write = w
        /\ scan.done = FALSE
        /\ IsScan(scan, scan.cache, scan.data, scan.write, scan.done, FALSE)
    BY DEF IsScan
  <2>4. ScanInv(scan, c0, 0, w, last, lo, hi)
    BY <2>1, <2>2, <2>3 DEF ScanInv
  <2> QED
    BY <1>2, <2>4
<1>4. ASSUME NEW m \in T PROVE m + 1 \in T
  <2> SUFFICES ASSUME m + 1 <= N PROVE ScanInv(f[m + 1], c0, m + 1, w, last, lo, hi)
    OBVIOUS
  <2>1. ScanInv(f[m], c0, m, w, last, lo, hi) /\ m \in 0 .. N - 1
    BY <1>1
  <2>2. CASE m \in DOMAIN c0
    <3>1. ScanInv(VisitSegment(f[m], m, last), c0, m + 1, w, last, lo, hi)
      BY <2>1, <2>2, VisitStep
    <3> QED
      BY <1>2, <2>1, <2>2, <3>1
  <2>3. CASE m \notin DOMAIN c0
    <3>1. \A k \in DOMAIN c0 : k \in Nat /\ (m + 1 <= k => m <= k) /\ (m <= k => m + 1 <= k)
      BY <1>1, <2>3
    <3>2. ScanInv(f[m], c0, m + 1, w, last, lo, hi)
      BY <2>1, <3>1 DEF ScanInv
    <3> QED
      BY <1>2, <2>1, <2>3, <3>2
  <2> QED
    BY <2>2, <2>3
<1>5. T = Nat
  BY <1>3, <1>4, AllNumbers
<1>6. N \in T
  <2> HIDE DEF T
  <2> QED
    BY <1>1, <1>5
<1>7. ScanInv(all, c0, N, w, last, lo, hi)
  BY <1>1, <1>2, <1>6
<1> QED
  BY <1>7, Zenon DEF N, all

(* Store fills the gaps of the cache with the bytes from write to last.    *)
LEMMA StoreEffect ==
    ASSUME NEW lo \in Nat, NEW hi \in Nat, hi <= Range64,
           NEW w \in Nat, NEW last \in Int, lo <= w, w <= last + 1, last < hi,
           NEW r, NEW output, NEW c0, NEW finish, NEW finish_set,
           IsReassembler(r, output, c0, finish, finish_set, FALSE),
           IsCache(c0, lo, hi)
    PROVE  LET t == Store(r, Bytes(w, last - w + 1), w, last) IN
           /\ IsReassembler(t, output, t.cache, finish, finish_set, FALSE)
           /\ IsCache(t.cache, lo, hi)
           /\ \A i \in Nat : InCache(t.cache, i) <=> InCache(c0, i) \/ i \in w .. last
<1> DEFINE data == Bytes(w, last - w + 1)
           scan == [cache |-> r.cache, data |-> data, write |-> w,
                    done |-> FALSE, thrown |-> r.thrown]
           all == VisitSegments(scan, last)
           new == Put(c0, w, last, data)
           visited == IF IsEmpty(c0) /\ last >= w
                        THEN [scan EXCEPT !.cache = Put(@, w, last, data)]
                        ELSE all
           stored == StoreTail(visited, last)
           t == Store(r, data, w, last)
<1>1. t = [r EXCEPT !.cache = stored.cache, !.thrown = stored.thrown] /\ r.cache = c0
  <2>1. r.cache = c0
    BY DEF IsReassembler
  <2> QED
    BY <2>1, Zenon DEF Store
<1>2. IsScan(scan, c0, data, w, FALSE, FALSE)
  <2> HIDE DEF data
  <2> QED
    BY DEF IsScan, IsReassembler
<1>3. CASE ~ (IsEmpty(c0) /\ last >= w)
  <2>1. visited = all
    BY <1>3, Zenon
  <2>2. ScanInv(all, c0, hi + 1, w, last, lo, hi)
    <3> HIDE DEF scan
    <3> QED
      BY <1>2, VisitAll, Zenon
  <2>3. /\ hi + 1 \in Nat /\ \A k \in DOMAIN c0 : k < hi + 1
        /\ w <= last => DOMAIN c0 # {}
    <3>1. hi + 1 \in Nat /\ (\A k \in DOMAIN c0 : k < hi + 1)
      BY DEF IsCache
    <3>2. w <= last => last >= w
      OBVIOUS
    <3> QED
      BY <1>3, <3>1, <3>2 DEF IsEmpty
  <2>4. /\ stored.thrown = FALSE
        /\ IsCache(stored.cache, lo, hi)
        /\ \A i \in Nat : InCache(stored.cache, i) <=> InCache(c0, i) \/ i \in w .. last
    <3> DEFINE N == hi + 1
    <3>1. N \in Nat /\ (\A k \in DOMAIN c0 : k < N) /\ ScanInv(all, c0, N, w, last, lo, hi)
      BY <2>2, <2>3, Zenon
    <3> HIDE DEF all, N
    <3>2. LET u == StoreTail(all, last) IN
          /\ u.thrown = FALSE
          /\ IsCache(u.cache, lo, hi)
          /\ \A i \in Nat : InCache(u.cache, i) <=> InCache(c0, i) \/ i \in w .. last
      BY <2>3, <3>1, TailStep, Zenon
    <3> HIDE DEF visited
    <3> QED
      BY <2>1, <3>2, Zenon
  <2> HIDE DEF stored, t, data
  <2> QED
    BY <1>1, <2>4 DEF IsReassembler, t, data
<1>4. CASE IsEmpty(c0) /\ last >= w
  <2>1. DOMAIN c0 = {}
    BY <1>4 DEF IsEmpty
  <2>2. /\ IsCache(new, lo, hi)
        /\ DOMAIN new = {w}
        /\ new[w].last = last
        /\ \A i \in Nat : InCache(new, i) <=> InCache(c0, i) \/ i \in w .. last
    <3>1. LET g == Put(c0, w, last, data) IN
          /\ IsCache(g, lo, hi)
          /\ DOMAIN g = DOMAIN c0 \cup {w}
          /\ \A k \in DOMAIN c0 : k # w => g[k] = c0[k]
          /\ g[w].last = last
          /\ \A i \in Nat : InCache(g, i) <=> InCache(c0, i) \/ i \in w .. last
      <4>1. hi \in Int /\ \A k \in DOMAIN c0 : (last < k /\ w < k) \/ (k <= w /\ c0[k].last < w)
        BY <2>1
      <4> QED
        BY <4>1, PutIsCache, Zenon
    <3> HIDE DEF new
    <3> QED
      BY <2>1, <3>1 DEF new
  <2>3. visited.cache = new /\ visited.thrown = FALSE
    <3>1. visited = [scan EXCEPT !.cache = Put(@, w, last, data)]
      BY <1>4, Zenon
    <3> HIDE DEF visited, data, scan
    <3> QED
      BY <1>2, <3>1 DEF IsScan
  <2>4. stored = visited
    <3>1. Max({w}) = w
      <4>1. {w} \in SUBSET Nat /\ {w} # {} /\ w + 1 \in Nat /\ \A x \in {w} : x < w + 1
        OBVIOUS
      <4> DEFINE N == w + 1
      <4>2. N \in Nat /\ \A x \in {w} : x < N
        BY <4>1
      <4> HIDE DEF N
      <4>3. Max({w}) \in {w}
        BY <4>1, <4>2, LargestOf
      <4> QED
        BY <4>3
    <3>2. LastOf(visited.cache) = last
      <4> HIDE DEF new, visited
      <4> QED
        BY <2>2, <2>3, <3>1 DEF LastOf
    <3>3. last <= LastOf(visited.cache)
      <4> HIDE DEF visited
      <4> QED
        BY <3>2
    <3> HIDE DEF visited
    <3> QED
      BY <3>3 DEF StoreTail
  <2> HIDE DEF stored, t, data, visited, new
  <2> QED
    BY <1>1, <2>2, <2>3, <2>4 DEF IsReassembler, t, data
<1> QED
  BY <1>3, <1>4

(* s is a state of the loop that takes the pieces at the front.            *)
IsRun(s, next, data, c, done) ==
    /\ DOMAIN s = {"next", "data", "cache", "done"}
    /\ s.next = next
    /\ s.data = data
    /\ s.cache = c
    /\ s.done = done

(* What one turn of it changes.                                            *)
LEMMA TakeFields ==
    ASSUME NEW s, NEW next, NEW data, NEW c, NEW done, IsRun(s, next, data, c, done),
           NEW key
    PROVE  LET t == TakeSegment(s, key) IN
           /\ done \/ key # next => IsRun(t, next, data, c, TRUE)
           /\ ~ (done \/ key # next) =>
                 IsRun(t, (next + Minus(c[key].last, key) + 1) % Range64, data \o c[key].data,
                       [k \in DOMAIN c \ {key} |-> c[k]], done)
<1> DEFINE t   == TakeSegment(s, key)
           end == (next + Minus(c[key].last, key) + 1) % Range64
           all == data \o c[key].data
           new == [k \in DOMAIN c \ {key} |-> c[k]]
<1>1. ASSUME done \/ key # next PROVE IsRun(t, next, data, c, TRUE)
  <2>1. t = [s EXCEPT !.done = TRUE]
    BY <1>1 DEF IsRun, TakeSegment
  <2> HIDE DEF t
  <2> QED
    BY <2>1 DEF IsRun
<1>2. ASSUME ~ (done \/ key # next) PROVE IsRun(t, end, all, new, done)
  <2>1. t = [s EXCEPT !.next = end, !.data = all, !.cache = new]
    BY <1>2 DEF IsRun, TakeSegment
  <2> HIDE DEF t, end, all, new
  <2> QED
    BY <2>1 DEF IsRun
<1> QED
  BY <1>1, <1>2

(* The loop before the key n: what it has taken are the pieces of c0 from  *)
(* p to next, and the others are as they were.                             *)
RunInv(s, c0, n, p, hi) ==
    /\ IsRun(s, s.next, s.data, s.cache, s.done)
    /\ s.done \in BOOLEAN
    /\ s.next \in p .. hi
    /\ s.data = Bytes(p, s.next - p)
    /\ DOMAIN s.cache \subseteq DOMAIN c0
    /\ \A k \in DOMAIN s.cache : s.cache[k] = c0[k]
    /\ \A k \in DOMAIN c0 : n <= k => k \in DOMAIN s.cache
    /\ \A k \in DOMAIN c0 : k \in DOMAIN s.cache \/ c0[k].last < s.next
    /\ \A i \in p .. s.next - 1 : InCache(c0, i)
    /\ ~ s.done => \A k \in DOMAIN s.cache : n <= k /\ s.next <= k
    /\ s.done   => \A k \in DOMAIN s.cache : s.next < k

(* One turn of it keeps what is known of the run.                          *)
LEMMA TakeStep ==
    ASSUME NEW p \in Nat, NEW hi \in Nat, hi < Range64,
           NEW c0, IsCache(c0, p, hi), NEW n \in DOMAIN c0,
           NEW s, RunInv(s, c0, n, p, hi)
    PROVE  RunInv(TakeSegment(s, n), c0, n + 1, p, hi)
<1> DEFINE c == s.cache
           q == s.next
           d == s.data
           e == c0[n].last
           t == TakeSegment(s, n)
<1>1. /\ IsRun(s, q, d, c, s.done)
      /\ s.done \in BOOLEAN
      /\ q \in p .. hi
      /\ d = Bytes(p, q - p)
      /\ DOMAIN c \subseteq DOMAIN c0
      /\ \A k \in DOMAIN c : c[k] = c0[k]
      /\ \A k \in DOMAIN c0 : n <= k => k \in DOMAIN c
      /\ \A k \in DOMAIN c0 : k \in DOMAIN c \/ c0[k].last < q
      /\ \A i \in p .. q - 1 : InCache(c0, i)
  BY DEF RunInv
<1>2. /\ n \in Nat /\ n \in DOMAIN c /\ c[n] = c0[n]
      /\ e \in Int /\ n <= e + 1 /\ e < hi /\ c0[n].data = Bytes(n, e - n + 1)
  <2>1. n \in Nat
    BY DEF IsCache
  <2>2. n \in DOMAIN c
    BY <1>1, <2>1
  <2> HIDE DEF c
  <2> QED
    BY <1>1, <2>1, <2>2 DEF IsCache
<1>3. \A k \in DOMAIN c0 : k \in Nat /\ (n + 1 <= k => n <= k /\ k # n)
  BY <1>2 DEF IsCache
<1>4. CASE s.done \/ n # q
  <2>1. IsRun(t, q, d, c, TRUE)
    <3> HIDE DEF q, d, c
    <3> QED
      BY <1>1, <1>4, TakeFields
  <2>2. \A k \in DOMAIN c : q < k
    <3>1. CASE s.done
      BY <3>1 DEF RunInv
    <3>2. CASE ~ s.done
      <4>1. \A k \in DOMAIN c : n <= k /\ q <= k
        BY <3>2 DEF RunInv
      <4>2. q <= n /\ n # q
        BY <1>2, <1>4, <3>2, <4>1
      <4>3. \A k \in DOMAIN c : k \in Nat
        BY <1>1, <1>3
      <4> QED
        BY <1>1, <1>2, <4>1, <4>2, <4>3
    <3> QED
      BY <3>1, <3>2
  <2> HIDE DEF q, d, c, t
  <2>3. /\ t.next = q /\ t.data = d /\ t.cache = c /\ t.done = TRUE
        /\ IsRun(t, t.next, t.data, t.cache, t.done)
    BY <2>1 DEF IsRun
  <2>4. RunInv(t, c0, n + 1, p, hi)
    BY <1>1, <1>3, <2>2, <2>3 DEF RunInv
  <2> QED
    BY <2>4 DEF t
<1>5. CASE ~ s.done /\ n = q
  <2> DEFINE new == [k \in DOMAIN c \ {n} |-> c[k]]
             end == e + 1
  <2>1. \A k \in DOMAIN c : n <= k /\ q <= k
    BY <1>5 DEF RunInv
  <2>2. (q + Minus(c[n].last, n) + 1) % Range64 = end
    <3>1. CASE e = n - 1
      <4>1. Minus(e, n) = Range64 - 1
        <5>1. e - n = 0 - 1
          BY <1>2, <3>1
        <5> HIDE DEF e
        <5> QED
          BY <5>1, TurnOf64 DEF Minus
      <4>2. (q + Minus(e, n) + 1) % Range64 = q
        <5>1. q \in Nat /\ q < Range64
          BY <1>1, WidthAssumption
        <5>2. q + Minus(e, n) + 1 = q + Range64
          BY <4>1, <5>1, WidthAssumption
        <5> HIDE DEF q
        <5> QED
          BY <5>1, <5>2, TurnOf64
      <4> QED
        BY <1>2, <1>5, <3>1, <4>2
    <3>2. CASE e # n - 1
      <4>1. e - n \in 0 .. Range64 - 1
        BY <1>2, <3>2, WidthAssumption
      <4>2. Minus(e, n) = e - n
        BY <1>2, <4>1, MinusIs
      <4>3. q + Minus(e, n) + 1 = end
        BY <1>2, <1>5, <4>2
      <4>4. end \in Nat /\ end < Range64
        BY <1>2, <3>2, WidthAssumption
      <4> QED
        BY <1>2, <4>3, <4>4, TurnOf64
    <3> QED
      BY <3>1, <3>2
  <2>3. d \o c[n].data = Bytes(p, end - p)
    <3> DEFINE m == q - p
               l == e - n + 1
    <3>1. m \in Nat /\ l \in Nat /\ p + m = q /\ m + l = end - p
      BY <1>1, <1>2, <1>5
    <3>2. d = Bytes(p, m) /\ c[n].data = Bytes(p + m, l)
      BY <1>1, <1>2, <1>5, <3>1
    <3> HIDE DEF m, l, d, c, end, q
    <3>3. Bytes(p, m) \o Bytes(p + m, l) = Bytes(p, m + l)
      BY <3>1, JoinBytes
    <3> QED
      BY <3>1, <3>2, <3>3
  <2>4. IsRun(t, end, Bytes(p, end - p), new, FALSE)
    <3>1. LET u == TakeSegment(s, n) IN
          ~ (s.done \/ n # q) =>
             IsRun(u, (q + Minus(c[n].last, n) + 1) % Range64, d \o c[n].data, new, s.done)
      <4> HIDE DEF q, d, c
      <4> QED
        BY <1>1, TakeFields
    <3>2. s.done = FALSE
      BY <1>1, <1>5
    <3> HIDE DEF q, d, c, end, new
    <3> QED
      BY <1>5, <2>2, <2>3, <3>1, <3>2
  <2>5. end \in p .. hi /\ q <= end
    BY <1>1, <1>2, <1>5
  <2>6. \A i \in p .. end - 1 : InCache(c0, i)
    <3>1. \A i \in p .. end - 1 : i \in p .. q - 1 \/ i \in n .. e
      BY <1>1, <1>2, <1>5
    <3>2. \A i \in n .. e : InCache(c0, i)
      BY <1>2 DEF InCache
    <3> QED
      BY <1>1, <3>1, <3>2
  <2>7. \A k \in DOMAIN c0 : (k \in DOMAIN c /\ k # n) \/ c0[k].last < end
    <3>1. \A k \in DOMAIN c0 : c0[k].last \in Int
      BY DEF IsCache
    <3>2. q <= end /\ e < end /\ q \in Int /\ end \in Int
      BY <1>1, <1>2, <2>5
    <3> SUFFICES ASSUME NEW k \in DOMAIN c0 PROVE (k \in DOMAIN c /\ k # n) \/ c0[k].last < end
      OBVIOUS
    <3>3. CASE k = n
      BY <3>2, <3>3
    <3>4. CASE k # n
      <4>1. k \in DOMAIN c \/ c0[k].last < q
        BY <1>1
      <4> HIDE DEF c, q, end, e
      <4> QED
        BY <3>1, <3>2, <3>4, <4>1
    <3> QED
      BY <3>3, <3>4
  <2>8. \A k \in DOMAIN c : k # n => n + 1 <= k /\ end <= k
    <3> SUFFICES ASSUME NEW k \in DOMAIN c, k # n PROVE n + 1 <= k /\ end <= k
      OBVIOUS
    <3>1. k \in DOMAIN c0 /\ k \in Nat /\ n <= k
      BY <1>1, <1>3, <2>1
    <3>2. n < k
      BY <1>2, <3>1
    <3>3. e < k
      <4> HIDE DEF c
      <4> QED
        BY <3>1, <3>2 DEF IsCache
    <3> QED
      BY <1>2, <3>1, <3>2, <3>3
  <2>9. /\ DOMAIN new = DOMAIN c \ {n}
        /\ \A k \in DOMAIN new : new[k] = c[k]
    OBVIOUS
  <2> HIDE DEF q, d, c, t, e, new, end
  <2>10. /\ t.next = end /\ t.data = Bytes(p, end - p) /\ t.cache = new /\ t.done = FALSE
         /\ IsRun(t, t.next, t.data, t.cache, t.done)
    BY <2>4 DEF IsRun
  <2>11. RunInv(t, c0, n + 1, p, hi)
    BY <1>1, <1>3, <2>5, <2>6, <2>7, <2>8, <2>9, <2>10 DEF RunInv
  <2> QED
    BY <2>11 DEF t
<1> QED
  BY <1>1, <1>4, <1>5

(* The pieces at the front of the cache: those from p up to the first byte *)
(* that is missing, and all the others stay.                               *)
LEMMA FrontEffect ==
    ASSUME NEW p \in Nat, NEW hi \in Nat, hi < Range64, p <= hi,
           NEW r, NEW c0, r.cache = c0, r.output.pushed = p, IsCache(c0, p, hi)
    PROVE  LET run == FrontRun(r) IN
           /\ run.next \in p .. hi
           /\ run.data = Bytes(p, run.next - p)
           /\ IsCache(run.cache, run.next + 1, hi)
           /\ \A i \in Nat : InCache(c0, i) <=> InCache(run.cache, i) \/ i \in p .. run.next - 1
<1> DEFINE base == StartRun(r)
           N == hi + 1
           run == FrontRun(r)
<1>1. N \in Nat /\ DOMAIN c0 \in SUBSET Nat /\ (\A k \in DOMAIN c0 : k < N)
  BY DEF IsCache
<1>2. base = [next |-> p, data |-> << >>, cache |-> c0, done |-> FALSE]
  BY DEF StartRun
<1> HIDE DEF N
<1>3. PICK f : /\ f[0] = base
               /\ \A m \in 0 .. N - 1 :
                     f[m + 1] = IF m \in DOMAIN c0 THEN TakeSegment(f[m], m) ELSE f[m]
               /\ run = f[N]
  BY <1>1, TakeRun
<1> HIDE DEF run
<1> DEFINE T == {m \in Nat : m <= N => RunInv(f[m], c0, m, p, hi)}
<1>4. 0 \in T
  <2>1. \A k \in DOMAIN c0 : k \in Nat /\ 0 <= k /\ p <= k
    BY <1>1 DEF IsCache
  <2>2. p - p = 0 /\ Bytes(p, 0) = << >> /\ p \in p .. hi /\ \A i \in p .. p - 1 : InCache(c0, i)
    BY BytesIsSeq
  <2>3. /\ base.next = p /\ base.data = << >> /\ base.cache = c0 /\ base.done = FALSE
        /\ IsRun(base, base.next, base.data, base.cache, base.done)
    BY <1>2 DEF IsRun
  <2> HIDE DEF base
  <2>4. RunInv(base, c0, 0, p, hi)
    BY <2>1, <2>2, <2>3 DEF RunInv
  <2> QED
    BY <1>3, <2>4
<1>5. ASSUME NEW m \in T PROVE m + 1 \in T
  <2> SUFFICES ASSUME m + 1 <= N PROVE RunInv(f[m + 1], c0, m + 1, p, hi)
    OBVIOUS
  <2>1. RunInv(f[m], c0, m, p, hi) /\ m \in 0 .. N - 1
    BY <1>1
  <2>2. CASE m \in DOMAIN c0
    <3>1. RunInv(TakeSegment(f[m], m), c0, m + 1, p, hi)
      BY <2>1, <2>2, TakeStep
    <3> QED
      BY <1>3, <2>1, <2>2, <3>1
  <2>3. CASE m \notin DOMAIN c0
    <3>1. \A k \in DOMAIN c0 : k \in Nat /\ (m + 1 <= k => m <= k) /\ (m <= k => m + 1 <= k)
      BY <1>1, <2>3
    <3>2. RunInv(f[m], c0, m + 1, p, hi)
      BY <2>1, <3>1 DEF RunInv
    <3> QED
      BY <1>3, <2>1, <2>3, <3>2
  <2> QED
    BY <2>2, <2>3
<1>6. RunInv(run, c0, N, p, hi)
  <2>1. T = Nat
    BY <1>4, <1>5, AllNumbers
  <2>2. N \in T
    <3> HIDE DEF T
    <3> QED
      BY <1>1, <2>1
  <2> QED
    BY <1>1, <1>3, <2>2
<1>7. /\ run.next \in p .. hi
      /\ run.data = Bytes(p, run.next - p)
      /\ DOMAIN run.cache \subseteq DOMAIN c0
      /\ \A k \in DOMAIN run.cache : run.cache[k] = c0[k]
      /\ \A k \in DOMAIN c0 : k \in DOMAIN run.cache \/ c0[k].last < run.next
      /\ \A i \in p .. run.next - 1 : InCache(c0, i)
  BY <1>6 DEF RunInv
<1>8. \A k \in DOMAIN run.cache : run.next < k
  <2>1. \A k \in DOMAIN run.cache : k \in Nat /\ ~ (N <= k)
    BY <1>1, <1>7
  <2> QED
    BY <1>6, <2>1 DEF RunInv
<1>9. IsCache(run.cache, run.next + 1, hi)
  <2>1. \A k \in DOMAIN run.cache : run.next + 1 <= k
    BY <1>1, <1>7, <1>8
  <2> QED
    BY <1>7, <2>1 DEF IsCache
<1>10. ASSUME NEW i \in Nat
       PROVE  InCache(c0, i) <=> InCache(run.cache, i) \/ i \in p .. run.next - 1
  <2>1. InCache(run.cache, i) => InCache(c0, i)
    BY <1>7 DEF InCache
  <2>2. InCache(c0, i) => InCache(run.cache, i) \/ i \in p .. run.next - 1
    <3> SUFFICES ASSUME NEW k \in DOMAIN c0, k <= i, i <= c0[k].last, ~ InCache(run.cache, i)
                 PROVE  i \in p .. run.next - 1
      BY DEF InCache
    <3>1. k \notin DOMAIN run.cache
      BY <1>7 DEF InCache
    <3>2. c0[k].last < run.next /\ c0[k].last \in Int /\ p <= k /\ k \in Nat
      BY <1>7, <3>1 DEF IsCache
    <3> QED
      BY <1>7, <3>2
  <2> QED
    BY <1>7, <2>1, <2>2
<1> QED
  BY <1>7, <1>9, <1>10 DEF run

(* Cutting the new bytes out of the data: write - first are skipped.       *)
LEMMA ViewOfBytes ==
    ASSUME NEW first \in Nat, NEW size \in Nat, NEW offset \in Nat, NEW len \in Nat,
           offset + len <= size
    PROVE  View(Bytes(first, size), offset, len) = Bytes(first + offset, len)
<1> DEFINE s == Bytes(first, size)
<1>1. Len(s) = size /\ \A i \in 1 .. size : s[i] = first + i - 1
  BY BytesIsSeq
<1> HIDE DEF s
<1>2. \A i \in 1 .. len : offset + i <= Len(s) /\ s[offset + i] = (first + offset) + i - 1
  <2> SUFFICES ASSUME NEW i \in 1 .. len
               PROVE  offset + i <= Len(s) /\ s[offset + i] = (first + offset) + i - 1
    OBVIOUS
  <2>1. offset + i \in 1 .. size
    OBVIOUS
  <2> QED
    BY <1>1, <2>1
<1>3. View(s, offset, len) = Bytes(first + offset, len)
  BY <1>2 DEF View, Bytes
<1> QED
  BY <1>3 DEF s

(* A reassembler whose output is a prefix of the stream of the given       *)
(* length, and whose cache holds pieces of it between what is written and  *)
(* the end of the window.                                                  *)
WindowOf(r) == r.output.popped + r.output.capacity

(* Where the stream ends, once that is known.                              *)
EndNoted(finish, finish_set, length) == finish => finish_set = length

(* Every index in the window of a stream of this length fits in an int.    *)
FitsInt(length, capacity) == length + capacity <= IntRange \div 2

IsSound(r, length) ==
    /\ IsReassembler(r, r.output, r.cache, r.finish, r.finish_set, FALSE)
    /\ r.output \in StreamOf(Nat)
    /\ r.output.queue = Bytes(r.output.popped, Len(r.output.queue))
    /\ r.output.popped + Len(r.output.queue) = r.output.pushed
    /\ r.output.pushed <= length
    /\ Len(r.output.queue) <= r.output.capacity
    /\ IsCache(r.cache, r.output.pushed + 1, AtMost(WindowOf(r), length))
    /\ r.finish \in BOOLEAN
    /\ EndNoted(r.finish, r.finish_set, length)

(* The byte at i is written or stored.                                     *)
Known(r, i) == i < r.output.pushed \/ InCache(r.cache, i)

(* What Flush does to a reassembler whose cache has just been filled: the  *)
(* hypotheses are those of IsSound, but that the cache may begin at the    *)
(* next byte to write.                                                     *)
LEMMA FlushEffect ==
    ASSUME NEW length \in Nat, NEW r,
           IsReassembler(r, r.output, r.cache, r.finish, r.finish_set, FALSE),
           r.finish \in BOOLEAN,
           EndNoted(r.finish, r.finish_set, length),
           r.output \in StreamOf(Nat),
           r.output.queue = Bytes(r.output.popped, Len(r.output.queue)),
           r.output.popped + Len(r.output.queue) = r.output.pushed,
           r.output.pushed <= length,
           Len(r.output.queue) <= r.output.capacity,
           NEW hi, hi = AtMost(WindowOf(r), length), hi < Range64,
           IsCache(r.cache, r.output.pushed, hi)
    PROVE  LET t == Flush(r) IN
           /\ IsSound(t, length)
           /\ t.output.popped = r.output.popped
           /\ t.output.capacity = r.output.capacity
           /\ t.output.error = r.output.error
           /\ t.finish = r.finish
           /\ t.output.closed <=> r.output.closed \/ (r.finish /\ t.output.pushed = length)
           /\ \A i \in Nat : Known(t, i) <=> Known(r, i)
<1> DEFINE o == r.output
           c == r.cache
           finish == r.finish
           finish_set == r.finish_set
<1>0. /\ IsReassembler(r, o, c, finish, finish_set, FALSE)
      /\ EndNoted(finish, finish_set, length)
      /\ finish \in BOOLEAN
      /\ o \in StreamOf(Nat)
      /\ o.queue = Bytes(o.popped, Len(o.queue))
      /\ o.popped + Len(o.queue) = o.pushed
      /\ o.pushed <= length
      /\ Len(o.queue) <= o.capacity
      /\ hi = AtMost(o.popped + o.capacity, length)
      /\ IsCache(c, o.pushed, hi)
  BY DEF WindowOf
<1> HIDE DEF o, c, finish, finish_set
<1> DEFINE run   == FrontRun(r)
           p     == o.pushed
           q     == run.next
           data  == Bytes(p, q - p)
           more  == PushTo(o, data)
           rest  == [r EXCEPT !.cache = run.cache, !.output = more]
           ended == EndReached(rest, q)
           t     == Flush(r)
<1>1. /\ o.capacity \in Nat /\ o.queue \in Seq(Nat) /\ p \in Nat /\ o.popped \in Nat
      /\ Len(o.queue) \in Nat /\ o.closed \in BOOLEAN /\ o.error \in BOOLEAN
  BY <1>0, LenProperties DEF StreamOf
<1>2. /\ hi \in Nat /\ p <= hi /\ hi <= length /\ hi <= o.popped + o.capacity
  BY <1>0, <1>1 DEF AtMost
<1>3. r.cache = c /\ r.output = o /\ r.output.pushed = p /\ r.finish = finish /\ r.finish_set = finish_set
  BY <1>0 DEF IsReassembler
<1>4. /\ q \in p .. hi
      /\ run.data = data
      /\ IsCache(run.cache, q + 1, hi)
      /\ \A i \in Nat : InCache(c, i) <=> InCache(run.cache, i) \/ i \in p .. q - 1
  <2> HIDE DEF p
  <2>1. LET u == FrontRun(r) IN
        /\ u.next \in p .. hi
        /\ u.data = Bytes(p, u.next - p)
        /\ IsCache(u.cache, u.next + 1, hi)
        /\ \A i \in Nat : InCache(c, i) <=> InCache(u.cache, i) \/ i \in p .. u.next - 1
    <3>1. IsCache(c, p, hi)
      BY <1>0 DEF p
    <3> QED
      BY <1>0, <1>1, <1>2, <1>3, <3>1, FrontEffect
  <2> QED
    BY <1>0, <2>1
<1> HIDE DEF run
<1>5. /\ more \in StreamOf(Nat)
      /\ more.capacity = o.capacity /\ more.popped = o.popped
      /\ more.closed = o.closed /\ more.error = o.error
      /\ more.pushed = q
      /\ more.queue = Bytes(o.popped, q - o.popped) /\ Len(more.queue) = q - o.popped
  <2> DEFINE n == q - p
             m == Len(o.queue)
  <2>1. n \in Nat /\ m \in Nat /\ n <= o.capacity - m /\ o.popped + m = p /\ m + n = q - o.popped
    <3>1. o.popped + m = p /\ m \in Nat
      BY <1>0, <1>1
    <3> HIDE DEF p, q, m
    <3>2. /\ p \in Nat /\ hi \in Nat /\ q \in p .. hi /\ hi <= o.popped + o.capacity
          /\ o.capacity \in Nat /\ o.popped \in Nat
      BY <1>0, <1>1, <1>2, <1>4
    <3>3. n \in Nat /\ m + n = q - o.popped
      BY <3>1, <3>2
    <3>4. n <= o.capacity - m
      BY <3>1, <3>2
    <3> QED
      BY <1>0, <3>1, <3>3, <3>4
  <2>2. data \in Seq(Nat) /\ Len(data) = n /\ SubSeq(data, 1, n) = data
    <3> HIDE DEF p, q
    <3>1. data \in Seq(Nat) /\ Len(data) = n
      <4> HIDE DEF n
      <4> QED
        BY <1>0, <1>1, <2>1, BytesIsSeq DEF n
    <3>2. SubSeq(Bytes(p, n), 0 + 1, 0 + n) = Bytes(p + 0, n)
      <4>1. 0 \in Nat /\ 0 + n <= n
        BY <1>0, <2>1
      <4>2. \A x, y \in Nat : x + y <= n => SubSeq(Bytes(p, n), x + 1, x + y) = Bytes(p + x, y)
        <5> HIDE DEF n
        <5> QED
          BY <1>0, <1>1, <2>1, CutBytes
      <4> HIDE DEF n
      <4> QED
        BY <1>0, <2>1, <4>1, <4>2
    <3> QED
      BY <1>0, <1>1, <2>1, <3>1, <3>2
  <2>3. n = AtMost(o.capacity - m, Len(data))
    BY <1>0, <1>1, <2>1, <2>2 DEF AtMost
  <2>4. IsStream(Nat, more, o.capacity, o.queue \o SubSeq(data, 1, n), p + n, o.popped,
                 o.closed, o.error)
    <3> HIDE DEF data, n
    <3> QED
      BY <1>0, <2>2, <2>3, PushToFields
  <2>5. o.queue \o data = Bytes(o.popped, m + n)
    <3> DEFINE a == o.popped
    <3>1. o.queue = Bytes(a, m) /\ data = Bytes(a + m, n)
      BY <1>0, <2>1
    <3>2. Bytes(a, m) \o Bytes(a + m, n) = Bytes(a, m + n)
      <4> HIDE DEF a, m, n
      <4> QED
        BY <1>0, <1>1, <2>1, JoinBytes DEF a
    <3> HIDE DEF a, m, n, data
    <3> QED
      BY <1>0, <3>1, <3>2 DEF a
  <2>6. p + n = q
    BY <1>0, <1>1, <1>4
  <2>7. Len(Bytes(o.popped, m + n)) = m + n
    <3>1. m + n \in Nat
      BY <1>0, <2>1
    <3> HIDE DEF m, n
    <3> QED
      BY <1>0, <1>1, <3>1, BytesIsSeq
  <2> HIDE DEF data, n, m, more, p, q
  <2> QED
    BY <1>0, <2>1, <2>2, <2>4, <2>5, <2>6, <2>7 DEF IsStream
<1>6. IsReassembler(rest, more, run.cache, finish, finish_set, FALSE)
  <2> HIDE DEF more
  <2> QED
    BY <1>0, <1>3 DEF IsReassembler
<1>7. ended <=> finish /\ q = length
  <2>1. q = length => DOMAIN run.cache = {}
    <3> SUFFICES ASSUME q = length, NEW k \in DOMAIN run.cache PROVE FALSE
      OBVIOUS
    <3>1. k \in Nat /\ q + 1 <= k /\ run.cache[k].last \in Int /\ k <= run.cache[k].last + 1 /\ run.cache[k].last < hi
      BY <1>0, <1>4 DEF IsCache
    <3> QED
      BY <1>0, <1>2, <1>4, <3>1
  <2>2. ended <=> finish /\ DOMAIN run.cache = {} /\ q >= finish_set
    <3> HIDE DEF rest
    <3> QED
      BY <1>0, <1>6 DEF EndReached, IsEmpty, IsReassembler
  <2>3. q <= length /\ q \in Nat
    BY <1>0, <1>1, <1>2, <1>4
  <2> HIDE DEF ended, q
  <2> QED
    BY <1>0, <2>1, <2>2, <2>3 DEF EndNoted
<1> DEFINE out == IF ended THEN CloseOf(more) ELSE more
<1>8. /\ out \in StreamOf(Nat)
      /\ out.capacity = o.capacity /\ out.popped = o.popped /\ out.error = o.error
      /\ out.pushed = q /\ out.queue = more.queue
      /\ out.closed = (o.closed \/ (finish /\ q = length))
  <2> HIDE DEF more, ended, q
  <2>1. CASE ended
    <3>1. IsStream(Nat, CloseOf(more), more.capacity, more.queue, more.pushed, more.popped, TRUE, more.error)
      BY <1>0, <1>5, FlagFields
    <3> QED
      BY <1>0, <1>1, <1>5, <1>7, <2>1, <3>1 DEF IsStream
  <2>2. CASE ~ ended
    BY <1>0, <1>1, <1>5, <1>7, <2>2
  <2> QED
    BY <1>0, <2>1, <2>2
<1>9. IsReassembler(t, out, run.cache, finish, finish_set, FALSE)
  <2>1. t = IF ended THEN [rest EXCEPT !.output = CloseOf(@)] ELSE rest
    <3>1. t = LET rs == [r EXCEPT !.cache = run.cache, !.output = PushTo(@, run.data)]
              IN  IF EndReached(rs, run.next) THEN [rs EXCEPT !.output = CloseOf(@)] ELSE rs
      BY Zenon DEF Flush, run
    <3>2. [r EXCEPT !.cache = run.cache, !.output = PushTo(@, run.data)] = rest
      <4>1. PushTo(r.output, run.data) = more
        BY <1>0, <1>3, <1>4
      <4> DEFINE pushed == PushTo(r.output, run.data)
      <4>2. [r EXCEPT !.cache = run.cache, !.output = PushTo(@, run.data)]
              = [r EXCEPT !.cache = run.cache, !.output = pushed]
        OBVIOUS
      <4>3. pushed = more
        BY <1>0, <4>1
      <4> HIDE DEF pushed, more
      <4> QED
        BY <1>0, <4>2, <4>3
    <3> HIDE DEF rest, t
    <3> QED
      BY <1>0, <3>1, <3>2, Zenon
  <2> HIDE DEF rest, t, ended
  <2>2. CASE ended
    <3>1. t = [rest EXCEPT !.output = CloseOf(@)] /\ out = CloseOf(more)
      BY <1>0, <2>1, <2>2
    <3> HIDE DEF out, more
    <3> QED
      BY <1>0, <1>6, <3>1 DEF IsReassembler
  <2>3. CASE ~ ended
    BY <1>0, <1>6, <2>1, <2>3
  <2> QED
    BY <1>0, <2>2, <2>3
<1> HIDE DEF out, more, rest, ended, t
<1>10. /\ t.output = out /\ t.cache = run.cache /\ t.finish = finish /\ t.finish_set = finish_set
       /\ IsReassembler(t, t.output, t.cache, t.finish, t.finish_set, FALSE)
  BY <1>0, <1>9 DEF IsReassembler
<1>11. IsSound(t, length)
  <2>1. WindowOf(t) = o.popped + o.capacity
    BY <1>0, <1>8, <1>10 DEF WindowOf
  <2>2. IsCache(t.cache, t.output.pushed + 1, AtMost(WindowOf(t), length))
    BY <1>0, <1>4, <1>8, <1>10, <2>1
  <2>3. /\ t.output.queue = Bytes(o.popped, q - o.popped) /\ Len(t.output.queue) = q - o.popped
        /\ t.output.popped = o.popped /\ t.output.pushed = q /\ t.output.capacity = o.capacity
        /\ t.output \in StreamOf(Nat)
    BY <1>0, <1>5, <1>8, <1>10
  <2>4. o.popped + (q - o.popped) = q /\ q <= length /\ q - o.popped <= o.capacity
    BY <1>0, <1>1, <1>2, <1>4
  <2> HIDE DEF q
  <2> QED
    BY <1>0, <1>10, <2>2, <2>3, <2>4 DEF IsSound
<1>12. ASSUME NEW i \in Nat PROVE Known(t, i) <=> Known(r, i)
  <2>1. i < q <=> i < p \/ i \in p .. q - 1
    BY <1>0, <1>1, <1>4
  <2> QED
    BY <1>0, <1>3, <1>4, <1>8, <1>10, <2>1 DEF Known
<1> QED
  BY <1>0, <1>8, <1>10, <1>11, <1>12 DEF t, o, finish

(* Indices that fit in an int pass through it; the last index of the empty *)
(* substring at 0 wraps, and comes out of the int as 0.                    *)
LEMMA IndexThroughInt ==
    /\ IntRange <= Range64 /\ IntRange >= 2
    /\ \A i \in Nat : i < IntRange \div 2 => ThroughInt(i) = i
    /\ ThroughInt(Minus(0, 1)) = 0
<1>1. IntRange \in Nat /\ Range64 \in Nat /\ IntRange > 0 /\ Range64 > 0
  BY IntAssumption, WidthAssumption
<1>2. IntRange >= 2
  BY <1>1, IntAssumption
<1>3. PICK k \in Int : Range64 = k * IntRange
  BY <1>1, IntAssumption
<1>4. k >= 1
  BY <1>1, <1>3
<1>5. IntRange <= Range64
  BY <1>1, <1>3, <1>4
<1>6. \A i \in Nat : i < IntRange \div 2 => i < IntRange /\ i % IntRange = i
  BY <1>1
<1>7. Minus(0, 1) % IntRange = IntRange - 1
  <2>1. Minus(0, 1) = (k - 1) * IntRange + (IntRange - 1)
    BY <1>1, <1>3, TurnOf64
  <2>2. \A i \in Int : (i * IntRange + (IntRange - 1)) % IntRange = IntRange - 1
    BY <1>1
  <2> QED
    BY <2>1, <2>2, k - 1 \in Int
<1>8. ~ (IntRange - 1 < IntRange \div 2)
  BY <1>1, <1>2
<1> QED
  BY <1>2, <1>5, <1>6, <1>7, <1>8 DEF ThroughInt

(* What an insert has done: t knows the bytes r knew and those of the      *)
(* substring that lie in the window; it knows the end when the last byte   *)
(* lay in the window; it closes when it knows the end and has written all. *)
Inserted(t, r, first, size, is_last, length) ==
    /\ IsSound(t, length)
    /\ t.output.popped = r.output.popped
    /\ t.output.capacity = r.output.capacity
    /\ t.output.error = r.output.error
    /\ t.finish <=> r.finish \/ (is_last /\ first + size <= WindowOf(r))
    /\ t.output.closed <=> \/ r.output.closed
                           \/ /\ first < WindowOf(r)
                              /\ first + size >= r.output.pushed
                              /\ t.finish
                              /\ t.output.pushed = length
    /\ \A i \in Nat : Known(t, i) <=> \/ Known(r, i)
                                      \/ i \in first .. first + size - 1 /\ i < WindowOf(r)

(* The numbers in a sound reassembler. *)
LEMMA SoundNumbers ==
    ASSUME NEW length \in Nat, NEW r, IsSound(r, length)
    PROVE  /\ r.output.pushed \in Nat /\ r.output.popped \in Nat /\ r.output.capacity \in Nat
           /\ r.output.pushed <= length
           /\ r.output.popped <= r.output.pushed
           /\ r.output.pushed <= WindowOf(r)
           /\ WindowOf(r) <= length + r.output.capacity
           /\ AvailableCapacity(r.output) \in Nat
           /\ r.output.pushed + AvailableCapacity(r.output) = WindowOf(r)
<1>1. /\ r.output.capacity \in Nat /\ r.output.pushed \in Nat /\ r.output.popped \in Nat
      /\ Len(r.output.queue) \in Nat
  BY LenProperties DEF IsSound, StreamOf
<1>2. /\ r.output.popped + Len(r.output.queue) = r.output.pushed
      /\ r.output.pushed <= length
      /\ Len(r.output.queue) <= r.output.capacity
  BY DEF IsSound
<1> DEFINE len == Len(r.output.queue)
           pushed == r.output.pushed
           popped == r.output.popped
           capacity == r.output.capacity
<1>3. WindowOf(r) = popped + capacity /\ AvailableCapacity(r.output) = capacity - len
  BY DEF WindowOf, AvailableCapacity
<1> HIDE DEF len, pushed, popped, capacity
<1>4. /\ capacity \in Nat /\ pushed \in Nat /\ popped \in Nat /\ len \in Nat
      /\ popped + len = pushed /\ pushed <= length /\ len <= capacity
  BY <1>1, <1>2 DEF len, pushed, popped, capacity
<1>5. /\ popped <= pushed
      /\ pushed <= popped + capacity
      /\ popped + capacity <= length + capacity
      /\ capacity - len \in Nat
      /\ pushed + (capacity - len) = popped + capacity
  BY <1>4
<1> QED
  BY <1>3, <1>4, <1>5 DEF pushed, popped, capacity

(* The end is noted when the last byte lies in the window.                 *)
LEMMA NoteLastEffect ==
    ASSUME NEW length \in Nat, NEW r, IsSound(r, length), r.output.capacity >= 1,
           FitsInt(length, r.output.capacity),
           NEW first \in Nat, NEW size \in Nat, NEW is_last, is_last \in BOOLEAN,
           first + size <= length, is_last => first + size = length
    PROVE  LET t == NoteLast(r, first, Bytes(first, size), is_last) IN
           /\ IsReassembler(t, r.output, r.cache, t.finish, t.finish_set, FALSE)
           /\ t.finish \in BOOLEAN
           /\ t.finish <=> r.finish \/ (is_last /\ first + size <= WindowOf(r))
           /\ EndNoted(t.finish, t.finish_set, length)
           /\ LastAvailable(r) = WindowOf(r) - 1
           /\ first + size > 0 => LastIndex(first, Bytes(first, size)) = first + size - 1
<1> DEFINE t == NoteLast(r, first, Bytes(first, size), is_last)
           W == WindowOf(r)
           data == Bytes(first, size)
<1>1. /\ W \in Nat /\ W >= 1 /\ W <= IntRange \div 2
      /\ r.output.pushed + AvailableCapacity(r.output) = W
      /\ r.output.capacity \in Nat
  <2>1. /\ r.output.popped \in Nat /\ r.output.capacity \in Nat /\ W <= length + r.output.capacity
        /\ r.output.pushed + AvailableCapacity(r.output) = W
    BY SoundNumbers
  <2>2. W = r.output.popped + r.output.capacity
    BY DEF WindowOf
  <2>3. IntRange \div 2 \in Int
    BY IntAssumption
  <2> HIDE DEF W
  <2> QED
    BY <2>1, <2>2, <2>3 DEF FitsInt
<1>2. Len(data) = size
  BY BytesIsSeq
<1>3. IntRange \div 2 \in Nat /\ IntRange \div 2 < Range64
  BY IndexThroughInt, IntAssumption, WidthAssumption
<1> HIDE DEF W, data
<1>4. ASSUME NEW n \in Nat, n >= 1, n <= IntRange \div 2
      PROVE  ThroughInt(Minus(n, 1)) = n - 1
  <2>1. n - 1 \in Nat /\ n - 1 \in 0 .. Range64 - 1 /\ n - 1 < IntRange \div 2
    BY <1>3, <1>4, WidthAssumption
  <2>2. Minus(n, 1) = n - 1
    BY <2>1, MinusIs
  <2> QED
    BY <2>1, <2>2, IndexThroughInt
<1>5. LastAvailable(r) = W - 1
  BY <1>1, <1>4 DEF LastAvailable
<1>6. first + size > 0 => LastIndex(first, data) = first + size - 1
  <2> SUFFICES ASSUME first + size > 0 PROVE LastIndex(first, data) = first + size - 1
    OBVIOUS
  <2>1. first + size \in Nat /\ first + size >= 1 /\ first + size <= IntRange \div 2
    BY <1>1, <1>3 DEF FitsInt
  <2> DEFINE n == first + size
  <2>2. n \in Nat /\ n >= 1 /\ n <= IntRange \div 2
    BY <2>1
  <2>3. LastIndex(first, data) = ThroughInt(Minus(n, 1))
    BY <1>2 DEF LastIndex
  <2> HIDE DEF n
  <2>4. LastIndex(first, data) = n - 1
    BY <1>4, <2>2, <2>3
  <2> QED
    BY <2>4 DEF n
<1>7. LastIndex(first, data) <= LastAvailable(r) <=> first + size <= W
  <2>1. CASE first + size > 0
    BY <1>1, <1>5, <1>6, <2>1
  <2>2. CASE ~ (first + size > 0)
    <3>1. first = 0 /\ size = 0
      BY <2>2
    <3>2. LastIndex(first, data) = 0
      <4>1. first + Len(data) = 0
        BY <1>2, <3>1
      <4> QED
        BY <4>1, IndexThroughInt DEF LastIndex
    <3> QED
      BY <1>1, <1>5, <3>1, <3>2
  <2> QED
    BY <2>1, <2>2
<1>8. IsReassembler(r, r.output, r.cache, r.finish, r.finish_set, FALSE)
  BY DEF IsSound
<1>9. r.finish \in BOOLEAN /\ EndNoted(r.finish, r.finish_set, length)
  BY DEF IsSound
<1>10. CASE is_last /\ first + size <= W
  <2>1. t = [r EXCEPT !.finish = TRUE, !.finish_set = first + size]
    BY <1>2, <1>7, <1>10 DEF NoteLast, data
  <2> HIDE DEF t
  <2>2. /\ DOMAIN t = {"output", "cache", "finish", "finish_set", "thrown"}
        /\ t.output = r.output /\ t.cache = r.cache /\ t.finish = TRUE
        /\ t.finish_set = first + size /\ t.thrown = FALSE
    BY <1>8, <2>1 DEF IsReassembler
  <2> QED
    BY <1>5, <1>6, <1>10, <2>2 DEF IsReassembler, t, W, data, EndNoted
<1>11. CASE ~ (is_last /\ first + size <= W)
  <2>1. t = r
    BY <1>7, <1>11 DEF NoteLast, data
  <2>2. (r.finish \/ (is_last /\ first + size <= W)) = r.finish
    BY <1>9, <1>11
  <2> HIDE DEF t
  <2> QED
    BY <1>5, <1>6, <1>8, <1>9, <2>1, <2>2 DEF t, W, data
<1> QED
  BY <1>10, <1>11

(* The empty substring at 0 that comes first: it is stored and taken back, *)
(* and it counts as one byte when the end is looked for.                   *)
LEMMA InsertNothing ==
    ASSUME NEW length \in Nat, NEW r, IsSound(r, length), r.output.capacity >= 1,
           FitsInt(length, r.output.capacity),
           NEW is_last \in BOOLEAN, is_last => 0 = length,
           r.output.pushed = 0, DOMAIN r.cache = {}, r.finish => length = 0
    PROVE  Inserted(insert(r, 0, Bytes(0, 0), is_last), r, 0, 0, is_last, length)
<1> DEFINE o == r.output
           W == WindowOf(r)
           finish == r.finish \/ (is_last /\ 0 + 0 <= W)
           noted == NoteLast(r, 0, Bytes(0, 0), is_last)
           stored == Store(noted, << >>, 0, 0)
           t == insert(r, 0, Bytes(0, 0), is_last)
<1>1. /\ IsReassembler(noted, o, r.cache, finish, noted.finish_set, FALSE)
      /\ noted.finish = finish
      /\ EndNoted(noted.finish, noted.finish_set, length)
      /\ LastAvailable(r) = W - 1
  <2> DEFINE first == 0
             size  == 0
  <2>1. first \in Nat /\ size \in Nat /\ first + size <= length /\ (is_last => first + size = length)
    OBVIOUS
  <2> HIDE DEF first, size
  <2>2. LET u == NoteLast(r, first, Bytes(first, size), is_last) IN
        /\ IsReassembler(u, r.output, r.cache, u.finish, u.finish_set, FALSE)
        /\ u.finish \in BOOLEAN
        /\ u.finish <=> r.finish \/ (is_last /\ first + size <= WindowOf(r))
        /\ EndNoted(u.finish, u.finish_set, length)
        /\ LastAvailable(r) = WindowOf(r) - 1
        /\ first + size > 0 => LastIndex(first, Bytes(first, size)) = first + size - 1
    BY <2>1, NoteLastEffect
  <2>3. /\ IsReassembler(noted, o, r.cache, noted.finish, noted.finish_set, FALSE)
        /\ noted.finish \in BOOLEAN
        /\ noted.finish <=> finish
        /\ EndNoted(noted.finish, noted.finish_set, length)
        /\ LastAvailable(r) = W - 1
    BY <2>2, Zenon DEF first, size
  <2>4. r.finish \in BOOLEAN
    BY DEF IsSound
  <2>5. finish \in BOOLEAN
    BY <2>4
  <2> HIDE DEF noted, finish, o
  <2> QED
    BY <2>3, <2>5
<1>2. /\ o.popped = 0 /\ o.pushed = 0 /\ W \in Nat /\ W >= 1 /\ o.capacity \in Nat
      /\ o.pushed + AvailableCapacity(o) = W
      /\ W = o.capacity /\ W - 1 < Range64
  <2>1. /\ o.popped \in Nat /\ o.popped <= 0 /\ o.capacity \in Nat
        /\ o.pushed + AvailableCapacity(o) = W
    BY SoundNumbers
  <2>2. o.popped = 0
    BY <2>1
  <2>3. W = o.capacity
    BY <2>1, <2>2 DEF WindowOf
  <2>4. IntRange \div 2 <= Range64
    BY IndexThroughInt, IntAssumption, WidthAssumption
  <2>5. o.capacity <= Range64
    <3>1. IntRange \div 2 \in Int /\ Range64 \in Int
      BY IntAssumption, WidthAssumption
    <3> QED
      BY <2>1, <2>4, <3>1 DEF FitsInt
  <2> HIDE DEF W
  <2> QED
    BY <2>1, <2>2, <2>3, <2>5, WidthAssumption
<1>3. Bytes(0, 0) = << >> /\ Len(Bytes(0, 0)) = 0
  BY BytesIsSeq
<1>4. LastIndex(0, Bytes(0, 0)) = 0
  BY <1>3, IndexThroughInt DEF LastIndex
<1>5. ~ OutsideWindow(r, 0, Bytes(0, 0))
  <2>1. Minus(W, 1) = W - 1
    <3>1. W - 1 \in 0 .. Range64 - 1
      BY <1>2, WidthAssumption
    <3> HIDE DEF W
    <3> QED
      BY <1>2, <3>1, MinusIs
  <2> HIDE DEF W
  <2> QED
    BY <1>2, <1>3, <2>1 DEF OutsideWindow
<1>6. t = Flush(stored)
  <2> DEFINE write == AtLeast(r.output.pushed, 0)
             last == AtMost(LastAvailable(r), LastIndex(0, Bytes(0, 0)))
             len == AtMost((Minus(last, write) + 1) % Range64, Len(Bytes(0, 0)))
             data == View(Bytes(0, 0), write - 0, len)
  <2>1. t = Flush(Store(noted, data, write, last))
    BY <1>5, Zenon DEF insert
  <2>2. write = 0 /\ last = 0
    BY <1>1, <1>2, <1>4 DEF AtLeast, AtMost
  <2>3. len = 0
    <3>1. (Minus(0, 0) + 1) % Range64 = 1
      <4>1. Minus(0, 0) = 0
        <5>1. 0 - 0 \in 0 .. Range64 - 1 /\ 0 - 0 = 0 /\ 0 \in Int
          BY WidthAssumption
        <5>2. \A a, b \in Int : a - b \in 0 .. Range64 - 1 => Minus(a, b) = a - b
          BY MinusIs
        <5> QED
          BY <5>1, <5>2
      <4>2. 1 \in Nat /\ 1 < Range64
        BY IndexThroughInt, WidthAssumption, IntAssumption
      <4> QED
        BY <4>1, <4>2, TurnOf64
    <3> HIDE DEF write, last
    <3> QED
      BY <1>3, <2>2, <3>1 DEF AtMost
  <2>4. data = << >>
    <3> HIDE DEF write, last, len
    <3> QED
      BY <2>3 DEF View
  <2> HIDE DEF write, last, data, noted, t
  <2> QED
    BY <2>1, <2>2, <2>4
<1> DEFINE piece == Put(r.cache, 0, 0, << >>)
<1>7. IsReassembler(stored, o, piece, finish, noted.finish_set, FALSE)
  <2> DEFINE scan == [cache |-> noted.cache, data |-> << >>, write |-> 0,
                      done |-> FALSE, thrown |-> noted.thrown]
             visited == [scan EXCEPT !.cache = Put(@, 0, 0, << >>)]
             tail == StoreTail(visited, 0)
  <2>1. noted.cache = r.cache /\ noted.thrown = FALSE
    BY <1>1 DEF IsReassembler
  <2>2. IsEmpty(noted.cache)
    BY <2>1 DEF IsEmpty
  <2>3. visited.cache = piece /\ visited.thrown = FALSE /\ visited.data = << >>
    BY <2>1
  <2>4. tail = visited
    <3> HIDE DEF visited
    <3> QED
      BY <2>3 DEF StoreTail
  <2>5. stored = [noted EXCEPT !.cache = tail.cache, !.thrown = tail.thrown]
    <3>1. 0 >= 0
      OBVIOUS
    <3> QED
      BY <2>2, <3>1, Zenon DEF Store
  <2> HIDE DEF tail, visited, stored, noted, piece, finish
  <2> QED
    BY <1>1, <2>3, <2>4, <2>5 DEF IsReassembler
<1> DEFINE run == FrontRun(stored)
<1>8. run.next = 1 /\ run.data = << >> /\ DOMAIN run.cache = {}
  <2> DEFINE start == StartRun(stored)
  <2>1. stored.cache = piece /\ stored.output = o
    BY <1>7 DEF IsReassembler
  <2>2. IsRun(start, 0, << >>, piece, FALSE)
    <3> HIDE DEF piece, stored
    <3> QED
      BY <1>2, <2>1 DEF StartRun, IsRun
  <2>3. DOMAIN piece = {0} /\ piece[0].last = 0 /\ piece[0].data = << >>
    BY DEF Put
  <2>4. run = TakeSegment(start, 0)
    <3> HIDE DEF piece, stored, run, start
    <3>1. DOMAIN piece \in SUBSET Nat /\ 1 \in Nat /\ \A k \in DOMAIN piece : k < 1
      BY <2>3
    <3>2. \A N \in Nat : (\A k \in DOMAIN piece : k < N) =>
             \E f : /\ f[0] = start
                    /\ \A m \in 0 .. N - 1 : f[m + 1] = IF m \in DOMAIN piece THEN TakeSegment(f[m], m) ELSE f[m]
                    /\ run = f[N]
      BY <2>1, <3>1, TakeRun DEF run, start
    <3>3. PICK f : /\ f[0] = start
                   /\ \A m \in 0 .. 1 - 1 : f[m + 1] = IF m \in DOMAIN piece THEN TakeSegment(f[m], m) ELSE f[m]
                   /\ run = f[1]
      BY <3>1, <3>2
    <3>4. f[0 + 1] = TakeSegment(f[0], 0)
      <4>1. 0 \in 0 .. 1 - 1 /\ 0 \in DOMAIN piece
        BY <2>3
      <4> QED
        BY <3>3, <4>1
    <3> QED
      BY <3>3, <3>4
  <2>5. IsRun(run, (0 + Minus(piece[0].last, 0) + 1) % Range64, << >> \o piece[0].data,
              [k \in DOMAIN piece \ {0} |-> piece[k]], FALSE)
    <3> HIDE DEF piece, run, start
    <3>1. LET u == TakeSegment(start, 0) IN
          ~ (FALSE \/ 0 # 0) =>
             IsRun(u, (0 + Minus(piece[0].last, 0) + 1) % Range64, << >> \o piece[0].data,
                   [k \in DOMAIN piece \ {0} |-> piece[k]], FALSE)
      BY <2>2, TakeFields
    <3> QED
      BY <2>4, <3>1
  <2>6. (0 + Minus(0, 0) + 1) % Range64 = 1
    <3>1. Minus(0, 0) = 0
      <4>1. 0 - 0 \in 0 .. Range64 - 1 /\ 0 - 0 = 0 /\ 0 \in Int
        BY WidthAssumption
      <4>2. \A a, b \in Int : a - b \in 0 .. Range64 - 1 => Minus(a, b) = a - b
        BY MinusIs
      <4> QED
        BY <4>1, <4>2
    <3>2. 1 \in Nat /\ 1 < Range64 /\ 0 + 0 + 1 = 1
      BY IndexThroughInt, WidthAssumption, IntAssumption
    <3> QED
      BY <3>1, <3>2, TurnOf64
  <2> HIDE DEF piece, run
  <2>7. << >> \o piece[0].data = << >>
    BY <2>3
  <2> QED
    BY <2>3, <2>5, <2>6, <2>7 DEF IsRun
<1> HIDE DEF run
<1>9. /\ o \in StreamOf(Nat) /\ o.closed \in BOOLEAN /\ r.finish \in BOOLEAN
      /\ Len(o.queue) = 0 /\ o.queue = Bytes(0, 0)
  <2>1. /\ o \in StreamOf(Nat) /\ r.finish \in BOOLEAN
        /\ o.popped + Len(o.queue) = o.pushed
        /\ o.queue = Bytes(o.popped, Len(o.queue))
    BY DEF IsSound
  <2>2. o.closed \in BOOLEAN /\ o.queue \in Seq(Nat)
    BY <2>1 DEF StreamOf
  <2>3. Len(o.queue) = 0
    BY <1>2, <2>1, <2>2, LenProperties
  <2> QED
    BY <1>2, <2>1, <2>2, <2>3
<1> HIDE DEF o
<1>10. PushTo(o, << >>) = o
  <2>1. IsStream(Nat, o, o.capacity, o.queue, 0, 0, o.closed, o.error)
    BY <1>2, <1>9 DEF IsStream
  <2>2. IsStream(Nat, PushTo(o, << >>), o.capacity, o.queue \o SubSeq(<< >>, 1, 0), o.pushed + 0,
                 o.popped, o.closed, o.error)
    <3> DEFINE d == << >>
               n == 0
    <3>1. d \in Seq(Nat) /\ Len(d) = 0 /\ n = AtMost(o.capacity - Len(o.queue), Len(d)) /\ Len(o.queue) <= o.capacity
      BY <1>2, <1>9 DEF AtMost
    <3> HIDE DEF d, n
    <3>2. IsStream(Nat, PushTo(o, d), o.capacity, o.queue \o SubSeq(d, 1, n), o.pushed + n,
                   o.popped, o.closed, o.error)
      BY <1>9, <3>1, PushToFields
    <3> QED
      BY <3>2 DEF d, n
  <2>3. o.queue \o SubSeq(<< >>, 1, 0) = o.queue /\ o.pushed + 0 = 0
    <3> DEFINE d == << >>
               n == 0
    <3>1. d \in Seq(Nat) /\ Len(d) = 0 /\ n \in Nat /\ n + n <= Len(d)
      OBVIOUS
    <3>2. SubSeq(d, n + 1, n + n) \in Seq(Nat) /\ Len(SubSeq(d, n + 1, n + n)) = n
      <4> HIDE DEF d, n
      <4> QED
        BY <3>1, ViewOf
    <3>3. SubSeq(d, n + 1, n + n) = << >>
      BY <3>2, EmptySeq
    <3>4. << >> \o << >> = << >>
      OBVIOUS
    <3> HIDE DEF d, n
    <3>5. n + 1 = 1 /\ n + n = 0
      BY DEF n
    <3>6. SubSeq(d, 1, 0) = << >>
      BY <3>3, <3>5
    <3>7. o.queue = d /\ o.queue \o SubSeq(d, 1, 0) = d \o d
      BY <1>3, <1>9, <3>6 DEF d
    <3>8. d \o d = d /\ o.pushed + 0 = 0
      BY <1>2, <3>4 DEF d
    <3>9. o.queue \o SubSeq(d, 1, 0) = o.queue
      BY <3>7, <3>8
    <3> QED
      BY <3>8, <3>9, Zenon DEF d
  <2>4. IsStream(Nat, PushTo(o, << >>), o.capacity, o.queue, 0, 0, o.closed, o.error)
    BY <1>2, <2>2, <2>3
  <2> QED
    BY <2>1, <2>4, SameStream
<1> DEFINE rest == [stored EXCEPT !.cache = run.cache, !.output = o]
           out == IF finish THEN CloseOf(o) ELSE o
<1> HIDE DEF finish, stored, noted, piece
<1>11. IsReassembler(rest, o, run.cache, finish, noted.finish_set, FALSE)
  BY <1>7 DEF IsReassembler
<1>12. finish \in BOOLEAN /\ (finish => length = 0 /\ noted.finish_set = 0)
  <2>1. finish \in BOOLEAN /\ (finish => length = 0)
    BY <1>9 DEF finish
  <2> QED
    BY <1>1, <2>1 DEF EndNoted
<1>13. EndReached(rest, run.next) <=> finish
  <2> HIDE DEF rest
  <2> QED
    BY <1>8, <1>11, <1>12 DEF EndReached, IsEmpty, IsReassembler
<1>14. t = IF finish THEN [rest EXCEPT !.output = CloseOf(@)] ELSE rest
  <2>1. t = LET rs == [stored EXCEPT !.cache = run.cache, !.output = PushTo(@, run.data)]
            IN  IF EndReached(rs, run.next) THEN [rs EXCEPT !.output = CloseOf(@)] ELSE rs
    BY <1>6, Zenon DEF Flush, run
  <2>2. [stored EXCEPT !.cache = run.cache, !.output = PushTo(@, run.data)] = rest
    <3>1. PushTo(stored.output, run.data) = o
      BY <1>7, <1>8, <1>10 DEF IsReassembler
    <3> DEFINE pushed == PushTo(stored.output, run.data)
    <3>2. [stored EXCEPT !.cache = run.cache, !.output = PushTo(@, run.data)]
            = [stored EXCEPT !.cache = run.cache, !.output = pushed]
      OBVIOUS
    <3>3. pushed = o
      BY <3>1
    <3> HIDE DEF pushed
    <3> QED
      BY <3>2, <3>3
  <2> HIDE DEF rest, t
  <2> QED
    BY <1>13, <2>1, <2>2, Zenon
<1>15. IsReassembler(t, out, run.cache, finish, noted.finish_set, FALSE)
  <2> HIDE DEF rest, t
  <2>1. CASE finish
    <3>1. t = [rest EXCEPT !.output = CloseOf(@)] /\ out = CloseOf(o)
      BY <1>14, <2>1
    <3> HIDE DEF out
    <3> QED
      BY <1>11, <3>1 DEF IsReassembler
  <2>2. CASE ~ finish
    BY <1>11, <1>14, <2>2
  <2> QED
    BY <2>1, <2>2
<1>16. /\ out \in StreamOf(Nat)
       /\ out.capacity = o.capacity /\ out.popped = 0 /\ out.pushed = 0 /\ out.queue = o.queue
       /\ out.error = o.error /\ out.closed = (o.closed \/ finish)
  <2>1. IsStream(Nat, CloseOf(o), o.capacity, o.queue, o.pushed, o.popped, TRUE, o.error)
    BY <1>9, FlagFields
  <2> QED
    BY <1>2, <1>9, <1>12, <2>1 DEF IsStream
<1> HIDE DEF out, rest, t
<1>17. /\ t.output = out /\ t.cache = run.cache /\ t.finish = finish /\ t.finish_set = noted.finish_set
       /\ IsReassembler(t, t.output, t.cache, t.finish, t.finish_set, FALSE)
  BY <1>15 DEF IsReassembler
<1>18. IsSound(t, length)
  <2>1. IsCache(t.cache, t.output.pushed + 1, AtMost(WindowOf(t), length))
    BY <1>8, <1>17 DEF IsCache
  <2>2. 0 + 0 = 0 /\ 0 <= length /\ 0 <= o.capacity
    BY <1>2
  <2> QED
    BY <1>9, <1>12, <1>16, <1>17, <2>1, <2>2 DEF IsSound, EndNoted
<1>19. \A i \in Nat : ~ Known(t, i) /\ ~ Known(r, i)
  BY <1>8, <1>16, <1>17 DEF Known, InCache
<1>20. t.finish <=> r.finish \/ (is_last /\ 0 + 0 <= WindowOf(r))
  BY <1>17 DEF finish
<1>21. r.output = o /\ 0 < WindowOf(r) /\ 0 + 0 >= r.output.pushed
  BY <1>2 DEF o
<1>22. t.output.closed <=> o.closed \/ (t.finish /\ t.output.pushed = length)
  BY <1>12, <1>16, <1>17
<1>23. Inserted(t, r, 0, 0, is_last, length)
  BY <1>2, <1>16, <1>17, <1>18, <1>19, <1>20, <1>21, <1>22 DEF Inserted
<1> QED
  BY <1>23 DEF t

(* A substring outside the window is dropped, but for the end it marks.    *)
LEMMA InsertOutside ==
    ASSUME NEW length \in Nat, NEW r, IsSound(r, length), r.output.capacity >= 1,
           FitsInt(length, r.output.capacity),
           NEW first \in Nat, NEW size \in Nat, NEW is_last \in BOOLEAN,
           first + size <= length, is_last => first + size = length,
           OutsideWindow(r, first, Bytes(first, size))
    PROVE  /\ Inserted(insert(r, first, Bytes(first, size), is_last), r, first, size, is_last, length)
           /\ ~ (first < WindowOf(r) /\ first + size >= r.output.pushed)
<1> DEFINE t == NoteLast(r, first, Bytes(first, size), is_last)
           p == r.output.pushed
           W == WindowOf(r)
<1>1. insert(r, first, Bytes(first, size), is_last) = t
  BY Zenon DEF insert
<1>2. /\ IsReassembler(t, r.output, r.cache, t.finish, t.finish_set, FALSE)
      /\ t.finish \in BOOLEAN
      /\ t.finish <=> r.finish \/ (is_last /\ first + size <= WindowOf(r))
      /\ EndNoted(t.finish, t.finish_set, length)
  BY NoteLastEffect
<1> HIDE DEF t
<1>3. t.output = r.output /\ t.cache = r.cache /\ IsReassembler(t, t.output, t.cache, t.finish, t.finish_set, FALSE)
  BY <1>2 DEF IsReassembler
<1>4. IsSound(t, length)
  BY <1>2, <1>3 DEF IsSound, WindowOf
<1>5. Len(Bytes(first, size)) = size
  BY BytesIsSeq
<1>6. /\ p \in Nat /\ W \in Nat /\ p <= W /\ p + AvailableCapacity(r.output) = W
      /\ W >= 1 /\ W < Range64
  <2>1. /\ p \in Nat /\ r.output.popped \in Nat /\ r.output.capacity \in Nat /\ p <= W
        /\ W <= length + r.output.capacity /\ p + AvailableCapacity(r.output) = W
    BY SoundNumbers
  <2>2. W = r.output.popped + r.output.capacity
    BY DEF WindowOf
  <2>3. IntRange \div 2 \in Int /\ IntRange \div 2 < Range64
    BY IndexThroughInt, IntAssumption, WidthAssumption
  <2> HIDE DEF W
  <2> QED
    BY <2>1, <2>2, <2>3, WidthAssumption DEF FitsInt
<1>7. first > W - 1 \/ first + size < p
  <2>1. Minus(W, 1) = W - 1
    <3>1. W - 1 \in 0 .. Range64 - 1
      BY <1>6, WidthAssumption
    <3> HIDE DEF W
    <3> QED
      BY <1>6, <3>1, MinusIs
  <2> HIDE DEF W
  <2> QED
    BY <1>5, <1>6, <2>1 DEF OutsideWindow
<1>8. ~ (first < W /\ first + size >= p)
  BY <1>6, <1>7
<1>9. ASSUME NEW i \in Nat, i \in first .. first + size - 1, i < W
      PROVE  i < p
  BY <1>6, <1>7, <1>9
<1>10. ASSUME NEW i \in Nat PROVE Known(t, i) <=> Known(r, i)
  BY <1>3 DEF Known
<1>11. ASSUME NEW i \in Nat
       PROVE  Known(t, i) <=> Known(r, i) \/ (i \in first .. first + size - 1 /\ i < W)
  <2>1. i \in first .. first + size - 1 /\ i < W => Known(r, i)
    BY <1>9 DEF Known
  <2> QED
    BY <1>10, <2>1
<1>12. Inserted(t, r, first, size, is_last, length)
  <2>1. t.output.closed <=> r.output.closed \/ (/\ first < WindowOf(r)
                                                /\ first + size >= r.output.pushed
                                                /\ t.finish
                                                /\ t.output.pushed = length)
    BY <1>3, <1>8
  <2> QED
    BY <1>2, <1>3, <1>4, <1>11, <2>1 DEF Inserted
<1> QED
  BY <1>1, <1>8, <1>12

(* A substring that touches the window: the bytes that lie in it and are   *)
(* not written yet go to the cache, and what is at the front is written.   *)
LEMMA InsertInside ==
    ASSUME NEW length \in Nat, NEW r, IsSound(r, length), r.output.capacity >= 1,
           FitsInt(length, r.output.capacity),
           NEW first \in Nat, NEW size \in Nat, NEW is_last \in BOOLEAN,
           first + size <= length, is_last => first + size = length, first + size > 0,
           ~ OutsideWindow(r, first, Bytes(first, size))
    PROVE  Inserted(insert(r, first, Bytes(first, size), is_last), r, first, size, is_last, length)
<1> DEFINE o == r.output
           p == o.pushed
           W == WindowOf(r)
           hi == AtMost(W, length)
           data == Bytes(first, size)
           noted == NoteLast(r, first, data, is_last)
           write == AtLeast(p, first)
           last == AtMost(W - 1, first + size - 1)
           len == last - write + 1
           stored == Store(noted, Bytes(write, len), write, last)
           t == insert(r, first, data, is_last)
<1>1. /\ IsReassembler(noted, o, r.cache, noted.finish, noted.finish_set, FALSE)
      /\ noted.finish \in BOOLEAN
      /\ noted.finish <=> r.finish \/ (is_last /\ first + size <= W)
      /\ EndNoted(noted.finish, noted.finish_set, length)
      /\ LastAvailable(r) = W - 1
      /\ first + size > 0 => LastIndex(first, data) = first + size - 1
  BY NoteLastEffect
<1>2. /\ p \in Nat /\ W \in Nat /\ p <= W /\ p <= length /\ p + AvailableCapacity(o) = W
      /\ W >= 1 /\ W < Range64 /\ o.popped \in Nat /\ o.capacity \in Nat
  <2>1. /\ p \in Nat /\ o.popped \in Nat /\ o.capacity \in Nat /\ p <= W
        /\ W <= length + o.capacity /\ p + AvailableCapacity(o) = W /\ p <= length
    BY SoundNumbers
  <2>2. W = o.popped + o.capacity
    BY DEF WindowOf
  <2>3. IntRange \div 2 \in Int /\ IntRange \div 2 < Range64
    BY IndexThroughInt, IntAssumption, WidthAssumption
  <2> HIDE DEF W
  <2> QED
    BY <2>1, <2>2, <2>3, WidthAssumption DEF FitsInt
<1> HIDE DEF W, p
<1>3. Len(data) = size
  BY BytesIsSeq
<1>4. first <= W - 1 /\ first + size >= p
  <2>1. Minus(W, 1) = W - 1
    <3>1. W - 1 \in 0 .. Range64 - 1
      BY <1>2, WidthAssumption
    <3> QED
      BY <1>2, <3>1, MinusIs
  <2>2. p + AvailableCapacity(r.output) = W /\ p = r.output.pushed
    BY <1>2 DEF p
  <2> HIDE DEF data, o
  <2> QED
    BY <1>2, <1>3, <2>1, <2>2 DEF OutsideWindow, data
<1>5. /\ hi \in Nat /\ hi <= W /\ hi <= length /\ hi < Range64
      /\ write \in Nat /\ p <= write /\ first <= write
      /\ last \in Nat /\ last <= W - 1 /\ last <= first + size - 1 /\ last < hi
      /\ write <= last + 1
      /\ len \in Nat /\ (write - first) \in Nat /\ (write - first) + len <= size
  <2>1. hi \in Nat /\ hi <= W /\ hi <= length /\ hi < Range64
    <3>1. hi = IF W <= length THEN W ELSE length
      BY DEF AtMost
    <3> HIDE DEF hi
    <3>2. hi \in Nat /\ hi <= W /\ hi <= length
      BY <1>2, <3>1
    <3> QED
      BY <1>2, <3>2, WidthAssumption
  <2>2. write \in Nat /\ p <= write /\ first <= write /\ (write = p \/ write = first)
    BY <1>2 DEF AtLeast
  <2>3. /\ last \in Nat /\ last <= W - 1 /\ last <= first + size - 1
        /\ (last = W - 1 \/ last = first + size - 1)
    BY <1>2 DEF AtMost
  <2>4. last < hi
    BY <1>2, <2>3 DEF AtMost
  <2> HIDE DEF last, write, hi
  <2>5. write <= last + 1
    BY <1>2, <1>4, <2>2, <2>3
  <2>6. len \in Nat /\ (write - first) \in Nat
    BY <2>2, <2>3, <2>5
  <2>7. (write - first) + len <= size
    BY <2>2, <2>3
  <2> QED
    BY <2>1, <2>2, <2>3, <2>4, <2>5, <2>6, <2>7
<1> HIDE DEF hi
<1>6. t = Flush(stored)
  <2> DEFINE last2 == AtMost(LastAvailable(r), LastIndex(first, data))
             len2 == AtMost((Minus(last2, write) + 1) % Range64, Len(data))
  <2>1. t = Flush(Store(noted, View(data, write - first, len2), write, last2))
    BY Zenon DEF insert, p, o
  <2>2. last2 = last
    BY <1>1
  <2> HIDE DEF write, last
  <2>3. (Minus(last, write) + 1) % Range64 = len
    <3>1. CASE last = write - 1
      <4>1. last - write = 0 - 1 /\ len = 0
        BY <1>5, <3>1
      <4>2. Minus(last, write) = Range64 - 1
        BY <4>1, TurnOf64 DEF Minus
      <4>3. 0 \in Nat /\ 0 < Range64 /\ Range64 - 1 + 1 = 0 + Range64
        BY WidthAssumption
      <4> QED
        BY <4>1, <4>2, <4>3, TurnOf64
    <3>2. CASE last # write - 1
      <4>1. last - write \in 0 .. Range64 - 1 /\ len < Range64 /\ last - write + 1 = len
        BY <1>2, <1>5, <3>2, WidthAssumption
      <4>2. Minus(last, write) = last - write
        BY <1>5, <4>1, MinusIs
      <4> QED
        BY <1>5, <4>1, <4>2, TurnOf64
    <3> QED
      BY <3>1, <3>2
  <2>4. len2 = len
    <3>1. len <= size
      BY <1>5
    <3> HIDE DEF last2, len, data
    <3> QED
      BY <1>3, <2>2, <2>3, <3>1 DEF AtMost
  <2>5. View(data, write - first, len) = Bytes(write, len)
    <3> DEFINE offset == write - first
    <3>1. offset \in Nat /\ first + offset = write /\ offset + len <= size
      BY <1>5
    <3> HIDE DEF offset, len
    <3> QED
      BY <1>5, <3>1, ViewOfBytes
  <2> HIDE DEF last2, len2, len, data, noted, t
  <2> QED
    BY <2>1, <2>2, <2>4, <2>5
<1>7. /\ IsReassembler(stored, o, stored.cache, noted.finish, noted.finish_set, FALSE)
      /\ IsCache(stored.cache, p, hi)
      /\ \A i \in Nat : InCache(stored.cache, i) <=> InCache(r.cache, i) \/ i \in write .. last
  <2>1. IsCache(r.cache, p, hi)
    <3>1. IsCache(r.cache, p + 1, hi)
      BY DEF IsSound, p, hi, W
    <3>2. \A k \in DOMAIN r.cache : p + 1 <= k /\ k \in Nat => p <= k
      BY <1>2
    <3> QED
      BY <3>1, <3>2 DEF IsCache
  <2> DEFINE c == r.cache
             finish == noted.finish
             finish_set == noted.finish_set
             l == last
             w == write
  <2>2. /\ l \in Int /\ w <= l + 1 /\ l < hi /\ w \in Nat /\ p <= w /\ hi \in Nat /\ hi <= Range64
        /\ IsCache(c, p, hi) /\ IsReassembler(noted, o, c, finish, finish_set, FALSE)
    <3>1. IsCache(c, p, hi) /\ IsReassembler(noted, o, c, finish, finish_set, FALSE)
      BY <1>1, <2>1
    <3>2. /\ l \in Int /\ w <= l + 1 /\ l < hi /\ w \in Nat /\ p <= w /\ hi \in Nat /\ hi <= Range64
      <4> HIDE DEF write, last
      <4> QED
        BY <1>5, WidthAssumption
    <3> QED
      BY <3>1, <3>2
  <2>3. LET u == Store(noted, Bytes(w, l - w + 1), w, l) IN
        /\ IsReassembler(u, o, u.cache, finish, finish_set, FALSE)
        /\ IsCache(u.cache, p, hi)
        /\ \A i \in Nat : InCache(u.cache, i) <=> InCache(c, i) \/ i \in w .. l
    <3> HIDE DEF w, l, c, finish, finish_set, noted, o
    <3> QED
      BY <1>2, <2>2, StoreEffect
  <2> QED
    BY <2>3
<1> HIDE DEF stored, noted, t, o
<1>8. LET u == Flush(stored) IN
      /\ IsSound(u, length)
      /\ u.output.popped = o.popped
      /\ u.output.capacity = o.capacity
      /\ u.output.error = o.error
      /\ u.finish = noted.finish
      /\ u.output.closed <=> o.closed \/ (noted.finish /\ u.output.pushed = length)
      /\ \A i \in Nat : Known(u, i) <=> Known(stored, i)
  <2>1. stored.output = o /\ stored.finish = noted.finish /\ stored.finish_set = noted.finish_set
    BY <1>7 DEF IsReassembler
  <2>2. /\ o \in StreamOf(Nat)
        /\ o.queue = Bytes(o.popped, Len(o.queue))
        /\ o.popped + Len(o.queue) = o.pushed
        /\ o.pushed <= length
        /\ Len(o.queue) <= o.capacity
    BY DEF IsSound, o
  <2>3. hi = AtMost(WindowOf(stored), length) /\ IsCache(stored.cache, o.pushed, hi) /\ hi < Range64
    BY <1>5, <1>7, <2>1 DEF hi, W, WindowOf, p, o
  <2>4. LET u == Flush(stored) IN
        /\ IsSound(u, length)
        /\ u.output.popped = stored.output.popped
        /\ u.output.capacity = stored.output.capacity
        /\ u.output.error = stored.output.error
        /\ u.finish = stored.finish
        /\ u.output.closed <=> stored.output.closed \/ (stored.finish /\ u.output.pushed = length)
        /\ \A i \in Nat : Known(u, i) <=> Known(stored, i)
    BY <1>1, <1>7, <2>1, <2>2, <2>3, FlushEffect
  <2> QED
    BY <2>1, <2>4
<1>9. ASSUME NEW i \in Nat
      PROVE  Known(t, i) <=> Known(r, i) \/ (i \in first .. first + size - 1 /\ i < W)
  <2>1. Known(t, i) <=> i < p \/ InCache(r.cache, i) \/ i \in write .. last
    <3>1. stored.output = o
      BY <1>7 DEF IsReassembler
    <3> QED
      BY <1>6, <1>7, <1>8, <3>1 DEF p, Known
  <2>2. i \in write .. last => i \in first .. first + size - 1 /\ i < W
    BY <1>2, <1>5
  <2>3. i \in first .. first + size - 1 /\ i < W => i < p \/ i \in write .. last
    BY <1>2 DEF write, last, AtLeast, AtMost
  <2> QED
    BY <2>1, <2>2, <2>3 DEF Known, p, o
<1>10. /\ IsSound(t, length)
       /\ t.output.popped = r.output.popped
       /\ t.output.capacity = r.output.capacity
       /\ t.output.error = r.output.error
       /\ t.finish = noted.finish
       /\ t.output.closed <=> r.output.closed \/ (t.finish /\ t.output.pushed = length)
  BY <1>6, <1>8 DEF o
<1>11. first < W /\ first + size >= r.output.pushed
  BY <1>2, <1>4 DEF p, o
<1>12. Inserted(t, r, first, size, is_last, length)
  BY <1>1, <1>9, <1>10, <1>11 DEF Inserted, W
<1> QED
  BY <1>12 DEF t, data

(* Inserting a substring of the stream; the empty substring at 0 must not  *)
(* come after later bytes or the end.                                      *)
LEMMA InsertEffect ==
    ASSUME NEW length \in Nat, NEW r, IsSound(r, length), r.output.capacity >= 1,
           FitsInt(length, r.output.capacity),
           NEW first \in Nat, NEW size \in Nat, NEW is_last \in BOOLEAN,
           first + size <= length, is_last => first + size = length,
           first = 0 /\ size = 0 /\ length > 0 /\ r.output.pushed = 0 =>
              ~ r.finish /\ DOMAIN r.cache = {}
    PROVE  Inserted(insert(r, first, Bytes(first, size), is_last), r, first, size, is_last, length)
<1>1. CASE OutsideWindow(r, first, Bytes(first, size))
  BY <1>1, InsertOutside
<1>2. CASE ~ OutsideWindow(r, first, Bytes(first, size)) /\ first + size > 0
  BY <1>2, InsertInside
<1>3. CASE ~ OutsideWindow(r, first, Bytes(first, size)) /\ ~ (first + size > 0)
  <2>1. first = 0 /\ size = 0
    BY <1>3
  <2>2. r.output.pushed = 0
    <3>1. first + Len(Bytes(first, size)) = 0
      BY <2>1, BytesIsSeq
    <3>2. ~ (0 < r.output.pushed)
      BY <1>3, <3>1 DEF OutsideWindow
    <3>3. r.output.pushed \in Nat
      BY SoundNumbers
    <3> QED
      BY <3>2, <3>3
  <2>3. length = 0 => DOMAIN r.cache = {}
    <3> SUFFICES ASSUME length = 0, NEW k \in DOMAIN r.cache PROVE FALSE
      OBVIOUS
    <3> DEFINE hi == AtMost(WindowOf(r), length)
    <3>1. WindowOf(r) \in Nat
      BY SoundNumbers DEF WindowOf
    <3>2. hi = 0
      BY <3>1 DEF AtMost
    <3> HIDE DEF hi
    <3>3. IsCache(r.cache, r.output.pushed + 1, hi)
      BY DEF IsSound, hi
    <3>4. k \in Nat /\ 0 + 1 <= k /\ r.cache[k].last \in Int /\ k <= r.cache[k].last + 1 /\ r.cache[k].last < 0
      BY <2>2, <3>2, <3>3 DEF IsCache
    <3> QED
      BY <3>4
  <2>4. DOMAIN r.cache = {} /\ (r.finish => length = 0) /\ (is_last => 0 = length)
    BY <2>1, <2>2, <2>3
  <2>5. Inserted(insert(r, 0, Bytes(0, 0), is_last), r, 0, 0, is_last, length)
    BY <2>2, <2>4, InsertNothing
  <2> QED
    BY <2>1, <2>5
<1> QED
  BY <1>1, <1>2, <1>3
(* A shorter stream fits where a longer one does. *)
LEMMA ShorterFits ==
    ASSUME NEW m \in Nat, NEW l \in 0 .. m, NEW c \in Nat, FitsInt(m, c)
    PROVE  FitsInt(l, c)
BY IntAssumption DEF FitsInt

(* A reassembler that was shown nothing is sound.                          *)
LEMMA EmptyIsSound ==
    ASSUME NEW length \in Nat, NEW r, NEW o \in StreamOf(Nat), r.output = o,
           o.queue = << >>, o.pushed = 0, o.popped = 0,
           r.cache = << >>, r.finish = FALSE,
           IsReassembler(r, r.output, r.cache, r.finish, r.finish_set, FALSE)
    PROVE  IsSound(r, length)
<1>1. o.capacity \in Nat
  BY DEF StreamOf
<1>2. DOMAIN << >> = {}
  OBVIOUS
<1>3. IsCache(<< >>, 0 + 1, AtMost(WindowOf(r), length))
  BY <1>2 DEF IsCache
<1>4. Len(<< >>) = 0 /\ Bytes(0, 0) = << >>
  BY BytesIsSeq
<1> DEFINE q == o.queue
<1>5. r.output.queue = q /\ Len(q) = 0 /\ Bytes(r.output.popped, Len(q)) = << >>
  BY <1>4
<1>6. /\ r.output.popped + Len(q) = r.output.pushed
      /\ r.output.pushed <= length
      /\ Len(q) <= r.output.capacity
  BY <1>1, <1>5
<1>7. IsCache(r.cache, r.output.pushed + 1, AtMost(WindowOf(r), length))
  BY <1>3
<1>8. r.finish \in BOOLEAN /\ EndNoted(r.finish, r.finish_set, length)
  BY DEF EndNoted
<1>9. r.output.queue = Bytes(r.output.popped, Len(q))
  BY <1>5
<1> HIDE DEF q
<1> QED
  BY <1>5, <1>6, <1>7, <1>8, <1>9, Zenon DEF IsSound

(* What is left of a run of bytes behind its first a.                      *)
LEMMA TailBytes ==
    ASSUME NEW first \in Nat, NEW a \in Nat, NEW b \in Nat
    PROVE  SubSeq(Bytes(first, a + b), a + 1, a + b) = Bytes(first + a, b)
<1> DEFINE size == a + b
<1>1. size \in Nat /\ a + b <= size
  OBVIOUS
<1> HIDE DEF size
<1>2. SubSeq(Bytes(first, size), a + 1, a + b) = Bytes(first + a, b)
  BY <1>1, CutBytes
<1> QED
  BY <1>2 DEF size

(* t is r with another output.                                             *)
Replaced(t, r, o, length) ==
    /\ IsSound(t, length)
    /\ t.output = o
    /\ t.cache = r.cache
    /\ IsReassembler(t, o, r.cache, r.finish, r.finish_set, FALSE)

(* The output of a sound reassembler may lose bytes at its front.          *)
LEMMA OutputReplaced ==
    ASSUME NEW length \in Nat, NEW r, IsSound(r, length), NEW o \in StreamOf(Nat),
           o.capacity = r.output.capacity, o.pushed = r.output.pushed,
           o.popped >= r.output.popped, o.popped + Len(o.queue) = o.pushed,
           o.queue = Bytes(o.popped, Len(o.queue))
    PROVE  Replaced([r EXCEPT !.output = o], r, o, length)
<1> DEFINE t == [r EXCEPT !.output = o]
<1>1. IsReassembler(t, o, r.cache, r.finish, r.finish_set, FALSE)
  BY Zenon DEF IsSound, IsReassembler
<1> HIDE DEF t
<1>2. /\ r.output.capacity \in Nat /\ r.output.pushed \in Nat /\ r.output.popped \in Nat
      /\ o.popped \in Nat /\ Len(o.queue) \in Nat /\ Len(r.output.queue) \in Nat
  BY LenProperties DEF IsSound, StreamOf
<1>3. /\ t.output = o /\ t.cache = r.cache
      /\ t.finish = r.finish /\ t.finish_set = r.finish_set
  BY <1>1 DEF IsReassembler
<1>4. /\ r.output.popped + Len(r.output.queue) = r.output.pushed
      /\ r.output.pushed <= length
      /\ Len(r.output.queue) <= r.output.capacity
      /\ IsCache(r.cache, r.output.pushed + 1, AtMost(WindowOf(r), length))
      /\ r.finish \in BOOLEAN
      /\ EndNoted(r.finish, r.finish_set, length)
  BY DEF IsSound
<1>5. IsCache(r.cache, o.pushed + 1, AtMost(WindowOf(t), length))
  <2> DEFINE low == r.output.pushed + 1
             hi == AtMost(WindowOf(r), length)
             more == AtMost(WindowOf(t), length)
  <2>1. WindowOf(r) \in Nat /\ WindowOf(t) \in Nat /\ WindowOf(r) <= WindowOf(t)
    BY <1>2, <1>3 DEF WindowOf
  <2>2. hi \in Nat /\ more \in Nat /\ hi <= more
    BY <2>1 DEF AtMost
  <2>3. IsCache(r.cache, low, hi)
    BY <1>4
  <2> HIDE DEF low, hi, more
  <2>4. IsCache(r.cache, low, more)
    BY <2>2, <2>3 DEF IsCache
  <2> QED
    BY <2>4 DEF low, more
<1>6. Len(o.queue) <= o.capacity /\ o.pushed <= length
  <2> DEFINE n == Len(o.queue)
             m == Len(r.output.queue)
             a == o.popped
             b == r.output.popped
             q == o.pushed
  <2>1. /\ n \in Nat /\ m \in Nat /\ a \in Nat /\ b \in Nat /\ q \in Nat
        /\ a >= b /\ a + n = q /\ b + m = q
    BY <1>2, <1>4
  <2>2. m <= o.capacity /\ o.capacity \in Nat
    BY <1>2, <1>4
  <2> HIDE DEF n, m, a, b, q
  <2>3. n <= m
    BY <2>1
  <2>4. n <= o.capacity
    BY <2>1, <2>2, <2>3
  <2> QED
    BY <1>4, <2>4 DEF n
<1> HIDE DEF IsSound
<1>7. /\ IsReassembler(t, t.output, t.cache, t.finish, t.finish_set, FALSE)
      /\ t.output.queue = Bytes(t.output.popped, Len(t.output.queue))
      /\ t.output.popped + Len(t.output.queue) = t.output.pushed
      /\ t.output.pushed <= length
      /\ Len(t.output.queue) <= t.output.capacity
      /\ IsCache(t.cache, t.output.pushed + 1, AtMost(WindowOf(t), length))
      /\ EndNoted(t.finish, t.finish_set, length)
  BY <1>1, <1>3, <1>4, <1>5, <1>6
<1>8. t.finish \in BOOLEAN /\ t.output \in StreamOf(Nat)
  BY <1>3, <1>4
<1>9. Replaced(t, r, o, length)
  BY <1>1, <1>3, <1>7, <1>8, Zenon DEF IsSound, Replaced
<1> QED
  BY <1>9 DEF t

(* t is r after len bytes were read.                                       *)
Popped(t, r, len, length) ==
    /\ IsSound(t, length)
    /\ t.cache = r.cache
    /\ IsReassembler(t, t.output, r.cache, r.finish, r.finish_set, FALSE)
    /\ t.output.capacity = r.output.capacity
    /\ t.output.pushed = r.output.pushed
    /\ t.output.popped = AtMost(r.output.popped + len, r.output.pushed)
    /\ t.output.closed = r.output.closed
    /\ t.output.error = r.output.error

(* The reader takes bytes: the rest of the reassembler is as it was.       *)
LEMMA PopEffect ==
    ASSUME NEW length \in Nat, NEW r, IsSound(r, length), NEW len \in Nat
    PROVE  Popped([r EXCEPT !.output = PopFrom(@, len)], r, len, length)
<1> DEFINE s == r.output
           n == AtMost(len, Len(s.queue))
           o == PopFrom(s, len)
           rest == Len(s.queue) - n
           t == [r EXCEPT !.output = o]
<1>1. /\ s \in StreamOf(Nat) /\ s.capacity \in Nat /\ s.pushed \in Nat /\ s.popped \in Nat
      /\ Len(s.queue) \in Nat /\ s.queue \in Seq(Nat)
      /\ s.queue = Bytes(s.popped, Len(s.queue)) /\ s.popped + Len(s.queue) = s.pushed
  BY LenProperties DEF IsSound, StreamOf
<1>2. IsStream(Nat, o, s.capacity, SubSeq(s.queue, n + 1, Len(s.queue)), s.pushed,
               s.popped + n, s.closed, s.error)
  BY <1>1, PopFromFields
<1>3. t = [r EXCEPT !.output = o]
  OBVIOUS
<1>4. n \in Nat /\ rest \in Nat /\ n + rest = Len(s.queue)
  BY <1>1 DEF AtMost
<1>5. s.popped + n = AtMost(s.popped + len, s.pushed)
  BY <1>1 DEF AtMost
<1> HIDE DEF o, n, rest, t
<1>6. SubSeq(Bytes(s.popped, n + rest), n + 1, n + rest) = Bytes(s.popped + n, rest)
  BY <1>1, <1>4, TailBytes, Zenon
<1>7. SubSeq(s.queue, n + 1, Len(s.queue)) = Bytes(s.popped + n, rest)
  BY <1>1, <1>4, <1>6
<1>8. /\ o \in StreamOf(Nat) /\ o.capacity = s.capacity /\ o.pushed = s.pushed
      /\ o.popped = s.popped + n /\ o.closed = s.closed /\ o.error = s.error
      /\ o.queue = Bytes(o.popped, rest)
  BY <1>2, <1>7 DEF IsStream
<1>9. Len(o.queue) = rest
  <2>1. o.popped \in Nat
    BY <1>1, <1>4, <1>8
  <2> QED
    BY <1>4, <1>8, <2>1, BytesIsSeq
<1>10. /\ o.popped >= s.popped
       /\ o.popped + Len(o.queue) = o.pushed
       /\ o.queue = Bytes(o.popped, Len(o.queue))
  BY <1>1, <1>4, <1>8, <1>9
<1>11. Replaced(t, r, o, length)
  BY <1>1, <1>3, <1>8, <1>10, OutputReplaced, Zenon
<1>12. Popped(t, r, len, length)
  BY <1>5, <1>8, <1>11, Zenon DEF Popped, Replaced
<1> QED
  BY <1>12 DEF t, o

(* t is r with its output marked with an error.                            *)
Failed(t, r, length) ==
    /\ IsSound(t, length)
    /\ t.cache = r.cache
    /\ IsReassembler(t, t.output, r.cache, r.finish, r.finish_set, FALSE)
    /\ t.output.capacity = r.output.capacity
    /\ t.output.pushed = r.output.pushed
    /\ t.output.popped = r.output.popped
    /\ t.output.closed = r.output.closed
    /\ t.output.error = TRUE

(* Setting the error changes neither what is stored nor what is written.   *)
LEMMA ErrorEffect ==
    ASSUME NEW length \in Nat, NEW r, IsSound(r, length)
    PROVE  Failed([r EXCEPT !.output = SetErrorOf(@)], r, length)
<1> DEFINE s == r.output
           o == SetErrorOf(s)
           t == [r EXCEPT !.output = o]
<1>1. /\ s \in StreamOf(Nat) /\ s.popped \in Nat /\ s.pushed \in Nat
      /\ s.queue = Bytes(s.popped, Len(s.queue)) /\ s.popped + Len(s.queue) = s.pushed
  BY DEF IsSound, StreamOf
<1>2. IsStream(Nat, o, s.capacity, s.queue, s.pushed, s.popped, s.closed, TRUE)
  BY <1>1, FlagFields
<1>3. t = [r EXCEPT !.output = o]
  OBVIOUS
<1> HIDE DEF o, t
<1>4. /\ o \in StreamOf(Nat) /\ o.capacity = s.capacity /\ o.pushed = s.pushed
      /\ o.popped = s.popped /\ o.closed = s.closed /\ o.error = TRUE /\ o.queue = s.queue
  BY <1>2 DEF IsStream
<1>5. o.popped >= s.popped /\ o.popped + Len(o.queue) = o.pushed
      /\ o.queue = Bytes(o.popped, Len(o.queue))
  BY <1>1, <1>4
<1>6. Replaced(t, r, o, length)
  BY <1>3, <1>4, <1>5, OutputReplaced, Zenon
<1>7. Failed(t, r, length)
  BY <1>4, <1>6, Zenon DEF Failed, Replaced
<1> QED
  BY <1>7 DEF t, o

(* A sound reassembler knows no byte beyond its window or the stream's     *)
(* end, nor the next byte to write; when all is written nothing is stored. *)
LEMMA KnownIsBounded ==
    ASSUME NEW length \in Nat, NEW r, IsSound(r, length), NEW i \in Nat, Known(r, i)
    PROVE  i < length /\ i < WindowOf(r) /\ i # r.output.pushed
<1> DEFINE p == r.output.pushed
           hi == AtMost(WindowOf(r), length)
<1>1. /\ p \in Nat /\ p <= length /\ p <= WindowOf(r) /\ WindowOf(r) \in Nat
  BY SoundNumbers DEF WindowOf
<1>2. IsCache(r.cache, p + 1, hi)
  BY DEF IsSound
<1>3. hi \in Nat /\ hi <= length /\ hi <= WindowOf(r)
  BY <1>1 DEF AtMost
<1> HIDE DEF p, hi
<1>4. CASE InCache(r.cache, i)
  <2>1. PICK k \in DOMAIN r.cache : k <= i /\ i <= r.cache[k].last
    BY <1>4 DEF InCache
  <2>2. k \in Nat /\ p + 1 <= k /\ r.cache[k].last \in Int /\ r.cache[k].last < hi
    BY <1>2 DEF IsCache
  <2> QED
    BY <1>1, <1>3, <2>1, <2>2 DEF p
<1>5. CASE i < p
  BY <1>1, <1>5 DEF p
<1> QED
  BY <1>4, <1>5 DEF Known, p
(* An insertion never takes back what was written.                         *)
LEMMA PushedGrows ==
    ASSUME NEW length \in Nat, NEW r, NEW t, NEW first, NEW size, NEW is_last,
           IsSound(r, length), Inserted(t, r, first, size, is_last, length)
    PROVE  r.output.pushed <= t.output.pushed
<1> DEFINE p == r.output.pushed
           q == t.output.pushed
<1>1. IsSound(t, length) /\ \A i \in Nat : Known(r, i) => Known(t, i)
  BY Zenon DEF Inserted
<1>2. p \in Nat /\ q \in Nat
  BY <1>1, SoundNumbers
<1>3. ~ Known(t, q)
  BY <1>1, <1>2, KnownIsBounded
<1>4. ~ (q < p)
  BY <1>1, <1>2, <1>3, Zenon DEF Known
<1> QED
  BY <1>2, <1>4

(* The loop that counts what is stored.                                    *)
AddPending(c, sum, key) == sum + Len(c[key].data)

(* count_bytes_pending, turn by turn over the keys in their order.         *)
LEMMA CountRun ==
    ASSUME NEW r, NEW c, r.cache = c, DOMAIN c \in SUBSET Nat,
           NEW N \in Nat, \A k \in DOMAIN c : k < N
    PROVE  \E f : /\ f[0] = 0
                  /\ \A m \in 0 .. N - 1 : f[m + 1] = IF m \in DOMAIN c THEN AddPending(c, f[m], m) ELSE f[m]
                  /\ count_bytes_pending(r) = f[N]
<1> DEFINE S == DOMAIN c
           Iterates(h, D) ==
              h = [s \in SUBSET D |->
                     IF s = {} THEN 0 ELSE AddPending(c, h[s \ {Max(s)}], Max(s))]
           loop == CHOOSE h : Iterates(h, S)
           T == {m \in Nat : \E h : Iterates(h, Below(S, m))}
<1>1. count_bytes_pending(r) = loop[S]
  BY Zenon DEF count_bytes_pending, AddPending, FoldKeys, MapThenFoldSet
<1>2. S \in SUBSET Nat /\ S = Below(S, N)
  BY DEF Below
<1> HIDE DEF S
<1>3. 0 \in T
  <2>1. \A s \in SUBSET Below(S, 0) : s = {}
    BY <1>2, OneByOne
  <2>2. Iterates([s \in SUBSET Below(S, 0) |-> 0], Below(S, 0))
    BY <2>1, Zenon
  <2> QED
    BY <2>2
<1>4. ASSUME NEW m \in T PROVE m + 1 \in T
  <2>1. PICK h : Iterates(h, Below(S, m))
    OBVIOUS
  <2> DEFINE D == Below(S, m + 1)
             k == [s \in SUBSET D |->
                     IF m \in s THEN AddPending(c, h[s \ {Max(s)}], Max(s)) ELSE h[s]]
             v(s) == IF s = {} THEN 0 ELSE AddPending(c, k[s \ {Max(s)}], Max(s))
  <2>2. \A s \in SUBSET Below(S, m) : k[s] = h[s]
    BY <1>2, OneByOne
  <2>3. ASSUME NEW s \in SUBSET D
        PROVE  k[s] = v(s)
    <3>1. s \ {Max(s)} \in SUBSET Below(S, m) /\ (m \notin s => s \in SUBSET Below(S, m))
      BY <1>2, LargestBelow
    <3>2. k[s \ {Max(s)}] = h[s \ {Max(s)}]
      BY <2>2, <3>1
    <3> QED
      BY <2>1, <2>2, <3>1, <3>2
  <2>4. Iterates(k, D)
    <3>1. k = [s \in SUBSET D |-> k[s]]
      OBVIOUS
    <3>2. k = [s \in SUBSET D |-> v(s)]
      <4> HIDE DEF k, v
      <4> QED
        BY <2>3, <3>1
    <3> QED
      BY <3>2, Zenon
  <2>5. m + 1 \in Nat /\ \E f : Iterates(f, D)
    <3> HIDE DEF k, Iterates
    <3> QED
      BY <2>4
  <2> QED
    BY <2>5
<1>5. Iterates(loop, S)
  <2>1. T = Nat
    BY <1>3, <1>4, AllNumbers
  <2>2. N \in T
    <3> HIDE DEF T
    <3> QED
      BY <2>1
  <2>3. \E h : Iterates(h, S)
    <3>1. \E h : Iterates(h, Below(S, N))
      BY <2>2
    <3> QED
      BY <1>2, <3>1
  <2> QED
    BY <2>3, Zenon
<1> HIDE DEF loop
<1> DEFINE f == [m \in Nat |-> loop[Below(S, m)]]
<1>6. f[0] = 0 /\ f[N] = loop[S]
  <2>1. f[0] = loop[Below(S, 0)] /\ f[N] = loop[Below(S, N)]
    OBVIOUS
  <2>2. loop[{}] = 0
    BY <1>5
  <2> QED
    BY <1>2, <2>1, <2>2, OneByOne
<1>7. ASSUME NEW m \in 0 .. N - 1
      PROVE  f[m + 1] = IF m \in S THEN AddPending(c, f[m], m) ELSE f[m]
  <2>1. /\ f[m] = loop[Below(S, m)] /\ f[m + 1] = loop[Below(S, m + 1)]
        /\ Below(S, m + 1) \in SUBSET S
    BY <1>2, OneByOne
  <2>2. CASE m \in S
    <3>1. /\ Below(S, m + 1) # {} /\ Max(Below(S, m + 1)) = m
          /\ Below(S, m + 1) \ {m} = Below(S, m)
      BY <1>2, <2>2, OneByOne
    <3>2. loop[Below(S, m + 1)] = AddPending(c, loop[Below(S, m)], m)
      BY <1>5, <2>1, <3>1
    <3> QED
      BY <2>1, <2>2, <3>2
  <2>3. CASE m \notin S
    BY <1>2, <2>1, <2>3, OneByOne
  <2> QED
    BY <2>2, <2>3
<1> QED
  <2> HIDE DEF f
  <2> QED
    BY <1>1, <1>6, <1>7, Zenon DEF S

(* count_bytes_pending is a number.                                        *)
LEMMA PendingIsNat ==
    ASSUME NEW r, NEW c, r.cache = c, NEW lo \in Nat, NEW hi \in Nat, IsCache(c, lo, hi)
    PROVE  count_bytes_pending(r) \in Nat
<1> DEFINE N == hi + 1
           count == count_bytes_pending(r)
<1>1. /\ DOMAIN c \in SUBSET Nat
      /\ \A k \in DOMAIN c : k < N /\ Len(c[k].data) \in Nat
  <2>1. ASSUME NEW k \in DOMAIN c
        PROVE  k < N /\ Len(c[k].data) \in Nat
    <3>1. /\ k \in Nat /\ c[k].last \in Int /\ k <= c[k].last + 1 /\ c[k].last < hi
          /\ c[k].data = Bytes(k, c[k].last - k + 1)
      BY <2>1 DEF IsCache
    <3>2. c[k].last - k + 1 \in Nat /\ k < N
      BY <3>1
    <3> QED
      BY <3>1, <3>2, BytesIsSeq
  <2> QED
    BY <2>1 DEF IsCache
<1>2. N \in Nat /\ DOMAIN c \in SUBSET Nat /\ (\A k \in DOMAIN c : k < N)
  BY <1>1
<1> HIDE DEF N
<1>3. PICK f : /\ f[0] = 0
               /\ \A m \in 0 .. N - 1 : f[m + 1] = IF m \in DOMAIN c THEN AddPending(c, f[m], m) ELSE f[m]
               /\ count = f[N]
  BY <1>2, CountRun
<1> DEFINE S == {m \in Nat : m <= N => f[m] \in Nat}
<1>4. 0 \in S
  BY <1>3
<1>5. ASSUME NEW m \in S PROVE m + 1 \in S
  <2>1. CASE m + 1 <= N
    <3>1. m \in 0 .. N - 1 /\ f[m] \in Nat
      BY <1>2, <2>1
    <3>2. f[m + 1] = IF m \in DOMAIN c THEN AddPending(c, f[m], m) ELSE f[m]
      BY <1>3, <3>1, Zenon
    <3>3. f[m + 1] \in Nat
      BY <1>1, <3>1, <3>2 DEF AddPending
    <3> QED
      BY <3>3
  <2>2. CASE ~ (m + 1 <= N)
    BY <2>2
  <2> QED
    BY <2>1, <2>2
<1>6. S = Nat
  BY <1>4, <1>5, AllNumbers
<1> QED
  BY <1>2, <1>3, <1>6
=============================================================================
