-------------------------- MODULE TCPSender_proofs --------------------------
(***************************************************************************)
(* Proofs about the TCPSender, for any capacity, any window and any first  *)
(* number.                                                                 *)
(***************************************************************************)
EXTENDS TCPSender, OperatorLemmas, FiniteSetTheorems

SenderFields ==
    {"input", "isn_", "send_buffer_", "abs_seqno_", "seqno_", "receive_window_",
     "max_receive_window_", "receiver_full_", "num_consecutive_retran_", "current_RTO_",
     "timer_", "pre_abs_ackno_", "syn_set_", "fin_set_"}

Messages == [seqno : Raw, SYN : BOOLEAN, payload : Seq(Nat), FIN : BOOLEAN, RST : BOOLEAN]
Segments == [first : Nat, message : Messages]

(* x carries bytes of the stream i, for the numbers from x.first on; a SYN *)
(* travels alone.                                                          *)
IsSegment(x, i) ==
    /\ x.message.seqno = wrap(x.first, ISN)
    /\ x.message.SYN <=> x.first = 0
    /\ x.message.payload = Bytes(AtLeast(0, x.first - 1), Len(x.message.payload))
    /\ x.first < EndOf(x)
    /\ x.first = 0 => EndOf(x) = 1
    /\ x.message.FIN => i.closed /\ EndOf(x) = i.pushed + 2
    /\ ~ x.message.FIN => EndOf(x) <= i.popped + 1

(* The segments in b join, up to the number before next, and ack is in the *)
(* first of them.                                                          *)
IsChain(b, next, ack) ==
    /\ \A k \in 2 .. Len(b) : b[k].first = EndOf(b[k - 1])
    /\ b = << >> => ack = next
    /\ b # << >> => b[1].first <= ack /\ ack < EndOf(b[1]) /\ EndOf(b[Len(b)]) = next

IsBuffer(b, i, next, ack) ==
    /\ b \in Seq(Segments)
    /\ \A k \in 1 .. Len(b) : IsSegment(b[k], i)
    /\ IsChain(b, next, ack)

InFlight(b, next) == IF b = << >> THEN 0 ELSE next - b[1].first

(* The outbound stream and the sequence numbers taken from it agree.       *)
StreamOK(s) ==
    /\ s.input \in StreamOf(Nat)
    /\ s.input.queue = Bytes(s.input.popped, Len(s.input.queue))
    /\ s.input.popped + Len(s.input.queue) = s.input.pushed
    /\ Len(s.input.queue) <= s.input.capacity
    /\ s.input.pushed <= MaxLength
    /\ s.syn_set_ \in BOOLEAN
    /\ s.fin_set_ \in BOOLEAN
    /\ ~ s.syn_set_ => s.input.popped = 0 /\ ~ s.fin_set_
    /\ s.fin_set_ => IsFinished(s.input)
    /\ s.abs_seqno_ = One(s.syn_set_) + s.input.popped + One(s.fin_set_)
    /\ s.seqno_ = IF s.syn_set_ THEN wrap(s.abs_seqno_, ISN) ELSE 0

(* The credit in hand and what is in flight make up the largest window,    *)
(* which is one until the SYN is acknowledged.                             *)
WindowOK(s, ack) ==
    /\ s.receiver_full_ \in BOOLEAN
    /\ s.receive_window_ \in Nat
    /\ s.max_receive_window_ \in 1 .. PeerCapacity
    /\ s.receive_window_ + InFlight(s.send_buffer_, s.abs_seqno_) = s.max_receive_window_
    /\ ack = 0 => s.max_receive_window_ = 1 /\ s.receiver_full_

TimerOK(s, ack) ==
    /\ s.pre_abs_ackno_ = ack
    /\ s.num_consecutive_retran_ \in 0 .. MaxRetransmissions
    /\ s.timer_ \in Nat
    /\ s.syn_set_ =>
          /\ \E k \in 0 .. s.num_consecutive_retran_ : s.current_RTO_ = InitialRTO * 2 ^ k
          /\ s.timer_ < s.current_RTO_
    /\ s.send_buffer_ = << >> =>
          /\ s.timer_ = 0
          /\ s.num_consecutive_retran_ = 0
          /\ s.syn_set_ => s.current_RTO_ = InitialRTO

(* s is a sender that has been acknowledged the numbers before ack.        *)
IsSender(s, ack) ==
    /\ DOMAIN s = SenderFields
    /\ s.isn_ = ISN
    /\ StreamOK(s)
    /\ IsBuffer(s.send_buffer_, s.input, s.abs_seqno_, ack)
    /\ WindowOK(s, ack)
    /\ TimerOK(s, ack)

(* What the peer has acknowledged has been sent, and its windows fit.      *)
PeerOK ==
    /\ rcvd \in 0 .. sender.abs_seqno_
    /\ acked \in 0 .. rcvd
    /\ room \in BytesBefore(rcvd) .. BytesBefore(rcvd) + PeerCapacity
    /\ \A ack \in acks : /\ ack.abs \in 0 .. rcvd
                         /\ ack.window_size \in 0 .. PeerCapacity

IInv == IsSender(sender, acked) /\ PeerOK
-----------------------------------------------------------------------------
(* A set with one element more has twice as many subsets.                  *)
LEMMA TwiceAsMany ==
    ASSUME NEW k \in Nat
    PROVE  Cardinality(SUBSET (1 .. k + 1)) = 2 * Cardinality(SUBSET (1 .. k))
<1> DEFINE S == SUBSET (1 .. k)
           x == k + 1
           T == {s \cup {x} : s \in S}
           f == [s \in S |-> s \cup {x}]
<1>1. IsFiniteSet(S) /\ Cardinality(S) \in Nat
  <2>1. IsFiniteSet(1 .. k)
    BY FS_Interval
  <2> QED
    BY <2>1, FS_SUBSET, FS_CardinalityType
<1>2. x \notin 1 .. k /\ 1 .. k + 1 = (1 .. k) \cup {x}
  OBVIOUS
<1>3. SUBSET (1 .. k + 1) = S \cup T
  <2>1. ASSUME NEW s \in SUBSET (1 .. k + 1)
        PROVE  s \in S \cup T
    <3>1. CASE x \in s
      <4>1. s \ {x} \in S /\ s = (s \ {x}) \cup {x}
        BY <1>2, <3>1
      <4> QED
        BY <4>1
    <3>2. CASE x \notin s
      BY <1>2, <3>2
    <3> QED
      BY <3>1, <3>2
  <2>2. S \cup T \in SUBSET (SUBSET (1 .. k + 1))
    BY <1>2
  <2> QED
    BY <2>1, <2>2
<1>4. S \cap T = {}
  BY <1>2
<1>5. f \in Bijection(S, T)
  <2>1. f \in [S -> T] /\ \A t \in T : \E s \in S : f[s] = t
    OBVIOUS
  <2>2. ASSUME NEW s \in S, NEW t \in S, f[s] = f[t]
        PROVE  s = t
    <3>1. x \notin s /\ x \notin t /\ s \cup {x} = t \cup {x}
      BY <1>2, <2>2
    <3> QED
      BY <3>1
  <2> HIDE DEF S, T, f
  <2> QED
    BY <2>1, <2>2, Zenon DEF Bijection, Injection, Surjection, IsInjective
<1>6. IsFiniteSet(T) /\ Cardinality(T) = Cardinality(S)
  <2>1. ExistsBijection(S, T)
    BY <1>5, Zenon DEF ExistsBijection
  <2> HIDE DEF S, T
  <2> QED
    BY <1>1, <2>1, FS_Bijection
<1> HIDE DEF S, T
<1>7. Cardinality(S \cup T) = Cardinality(S) + Cardinality(T) - Cardinality(S \cap T)
  BY <1>1, <1>6, FS_Union
<1>8. Cardinality(S \cap T) = 0
  BY <1>4, FS_EmptySet
<1>9. Cardinality(S \cup T) = 2 * Cardinality(S)
  BY <1>1, <1>6, <1>7, <1>8
<1> QED
  BY <1>3, <1>9, Zenon DEF S

(* The powers of two are numbers of subsets.                               *)
LEMMA PowersOfTwo ==
    ASSUME NEW k \in Nat
    PROVE  /\ 2 ^ k = Cardinality(SUBSET (1 .. k))
           /\ 2 ^ k \in Nat
           /\ 2 ^ k > 0
           /\ 2 ^ (k + 1) = 2 * 2 ^ k
<1>1. ASSUME NEW j \in Nat
      PROVE  2 ^ j = Cardinality(SUBSET (1 .. j)) /\ IsFiniteSet(SUBSET (1 .. j))
  <2>1. IsFiniteSet(1 .. j) /\ Cardinality(1 .. j) = j
    BY FS_Interval
  <2> QED
    BY <2>1, FS_SUBSET
<1> DEFINE S == SUBSET (1 .. k)
<1>2. 2 ^ k = Cardinality(S) /\ IsFiniteSet(S)
  BY <1>1, Zenon
<1>3. S # {}
  OBVIOUS
<1>4. 2 ^ (k + 1) = 2 * Cardinality(S)
  <2>1. k + 1 \in Nat
    OBVIOUS
  <2>2. 2 ^ (k + 1) = Cardinality(SUBSET (1 .. k + 1))
    BY <1>1, <2>1, Zenon
  <2> QED
    BY <2>2, TwiceAsMany, Zenon
<1> HIDE DEF S
<1>5. Cardinality(S) \in Nat /\ Cardinality(S) # 0
  BY <1>2, <1>3, FS_CardinalityType, FS_EmptySet
<1>6. Cardinality(S) > 0
  BY <1>5
<1> QED
  BY <1>2, <1>4, <1>5, <1>6, Zenon DEF S

(* Fewer doublings do not give more.                                       *)
LEMMA PowersGrow ==
    ASSUME NEW n \in Nat, NEW k \in 0 .. n
    PROVE  2 ^ k <= 2 ^ n
<1> DEFINE S == SUBSET (1 .. k)
           T == SUBSET (1 .. n)
<1>1. IsFiniteSet(T)
  <2>1. IsFiniteSet(1 .. n)
    BY FS_Interval
  <2> QED
    BY <2>1, FS_SUBSET
<1>2. S \in SUBSET T
  <2>1. 1 .. k \in SUBSET (1 .. n)
    OBVIOUS
  <2> QED
    BY <2>1
<1>3. Cardinality(S) <= Cardinality(T)
  <2> HIDE DEF S, T
  <2> QED
    BY <1>1, <1>2, FS_Subset
<1>4. 2 ^ k = Cardinality(S) /\ 2 ^ n = Cardinality(T)
  BY PowersOfTwo, k \in Nat, Zenon
<1> QED
  BY <1>3, <1>4, Zenon
-----------------------------------------------------------------------------
(* The lengths of the segments, added one by one.                          *)
Added(sum, segment) == sum + SequenceLength(segment.message)

(* sequence_numbers_in_flight, segment by segment.                         *)
LEMMA LengthRun ==
    ASSUME NEW v, NEW b, v.send_buffer_ = b, NEW L \in Nat, DOMAIN b = 1 .. L
    PROVE  \E f : /\ f[0] = 0
                  /\ \A m \in 0 .. L - 1 : f[m + 1] = Added(f[m], b[m + 1])
                  /\ sequence_numbers_in_flight(v) = f[L]
<1> DEFINE S == 1 .. L
           Iterates(h, D) ==
              h = [s \in SUBSET D |->
                     IF s = {} THEN 0 ELSE Added(h[s \ {Max(s)}], b[Max(s)])]
           loop == CHOOSE h : Iterates(h, S)
           T == {m \in Nat : \E h : Iterates(h, Below(S, m))}
<1>1. sequence_numbers_in_flight(v) = loop[S]
  BY Zenon DEF sequence_numbers_in_flight, FoldLeft, MapThenFoldSet, Added
<1>2. /\ S \in SUBSET Nat
      /\ S = Below(S, L + 1)
      /\ 0 \notin S
      /\ \A m \in 0 .. L - 1 : m + 1 \in S /\ m + 1 \in Nat
  BY DEF Below
<1> HIDE DEF S
<1>3. 0 \in T
  <2>1. \A s \in SUBSET Below(S, 0) : s = {}
    BY <1>2, OneByOne
  <2>2. Iterates([s \in SUBSET Below(S, 0) |-> 0], Below(S, 0))
    BY <2>1, Zenon
  <2> QED
    BY <2>2
<1>4. ASSUME NEW m \in T PROVE m + 1 \in T
  <2>1. PICK h : Iterates(h, Below(S, m))
    OBVIOUS
  <2> DEFINE D == Below(S, m + 1)
             k == [s \in SUBSET D |->
                     IF m \in s THEN Added(h[s \ {Max(s)}], b[Max(s)]) ELSE h[s]]
             value(s) == IF s = {} THEN 0 ELSE Added(k[s \ {Max(s)}], b[Max(s)])
  <2>2. \A s \in SUBSET Below(S, m) : k[s] = h[s]
    BY <1>2, OneByOne
  <2>3. ASSUME NEW s \in SUBSET D
        PROVE  k[s] = value(s)
    <3>1. s \ {Max(s)} \in SUBSET Below(S, m) /\ (m \notin s => s \in SUBSET Below(S, m))
      BY <1>2, LargestBelow
    <3>2. k[s \ {Max(s)}] = h[s \ {Max(s)}]
      BY <2>2, <3>1
    <3> QED
      BY <2>1, <2>2, <3>1, <3>2
  <2>4. Iterates(k, D)
    <3>1. k = [s \in SUBSET D |-> k[s]]
      OBVIOUS
    <3>2. k = [s \in SUBSET D |-> value(s)]
      <4> HIDE DEF k, value
      <4> QED
        BY <2>3, <3>1
    <3> QED
      BY <3>2, Zenon
  <2>5. m + 1 \in Nat /\ \E f : Iterates(f, D)
    <3> HIDE DEF k, Iterates
    <3> QED
      BY <2>4
  <2> QED
    BY <2>5
<1>5. Iterates(loop, S)
  <2>1. T = Nat
    BY <1>3, <1>4, AllNumbers
  <2>2. L + 1 \in T
    <3> HIDE DEF T
    <3> QED
      BY <2>1
  <2>3. \E h : Iterates(h, S)
    <3>1. \E h : Iterates(h, Below(S, L + 1))
      BY <2>2
    <3> QED
      BY <1>2, <3>1
  <2> QED
    BY <2>3, Zenon
<1> HIDE DEF loop
<1> DEFINE f == [m \in Nat |-> loop[Below(S, m + 1)]]
<1>6. f[0] = 0 /\ f[L] = loop[S]
  <2>1. f[0] = loop[Below(S, 0 + 1)] /\ f[L] = loop[Below(S, L + 1)]
    OBVIOUS
  <2>2. loop[{}] = 0
    BY <1>5
  <2>3. Below(S, 0 + 1) = {}
    BY <1>2, OneByOne
  <2> QED
    BY <1>2, <2>1, <2>2, <2>3
<1>7. ASSUME NEW m \in 0 .. L - 1
      PROVE  f[m + 1] = Added(f[m], b[m + 1])
  <2> DEFINE n == m + 1
  <2>1. n \in S /\ n \in Nat
    BY <1>2
  <2>2. f[m] = loop[Below(S, n)] /\ f[m + 1] = loop[Below(S, n + 1)]
    OBVIOUS
  <2>3. /\ Below(S, n + 1) \in SUBSET S
        /\ Below(S, n + 1) # {} /\ Max(Below(S, n + 1)) = n
        /\ Below(S, n + 1) \ {n} = Below(S, n)
    <3> HIDE DEF n
    <3>1. n + 1 \in Nat
      BY <2>1
    <3>2. \A j \in Nat : Below(S, j) \in SUBSET S
      BY <1>2, OneByOne
    <3>3. n \in S => /\ Below(S, n + 1) # {} /\ Max(Below(S, n + 1)) = n
                     /\ Below(S, n + 1) \ {n} = Below(S, n)
      <4>1. S \in SUBSET Nat
        BY <1>2
      <4> QED
        BY <2>1, <4>1, OneByOne
    <3> QED
      BY <2>1, <3>1, <3>2, <3>3
  <2> HIDE DEF f, n
  <2>4. loop[Below(S, n + 1)] = Added(loop[Below(S, n)], b[n])
    BY <1>5, <2>3
  <2> QED
    BY <2>2, <2>4 DEF n
<1> QED
  <2> HIDE DEF f
  <2> QED
    BY <1>1, <1>6, <1>7, Zenon

(* The credit given back, segment by segment.                              *)
Credited(v, c, ws) == FoldLeft(LAMBDA t, segment : Credit(t, segment, ws), v, c)

(* The credit that acknowledged segments give back, segment by segment.    *)
LEMMA CreditRun ==
    ASSUME NEW v, NEW c, NEW ws, NEW L \in Nat, DOMAIN c = 1 .. L
    PROVE  \E f : /\ f[0] = v
                  /\ \A m \in 0 .. L - 1 : f[m + 1] = Credit(f[m], c[m + 1], ws)
                  /\ Credited(v, c, ws) = f[L]
<1> DEFINE S == 1 .. L
           Iterates(h, D) ==
              h = [s \in SUBSET D |->
                     IF s = {} THEN v ELSE Credit(h[s \ {Max(s)}], c[Max(s)], ws)]
           loop == CHOOSE h : Iterates(h, S)
           T == {m \in Nat : \E h : Iterates(h, Below(S, m))}
<1>1. Credited(v, c, ws) = loop[S]
  BY Zenon DEF Credited, FoldLeft, MapThenFoldSet
<1>2. /\ S \in SUBSET Nat
      /\ S = Below(S, L + 1)
      /\ 0 \notin S
      /\ \A m \in 0 .. L - 1 : m + 1 \in S /\ m + 1 \in Nat
  BY DEF Below
<1> HIDE DEF S
<1>3. 0 \in T
  <2>1. \A s \in SUBSET Below(S, 0) : s = {}
    BY <1>2, OneByOne
  <2>2. Iterates([s \in SUBSET Below(S, 0) |-> v], Below(S, 0))
    BY <2>1, Zenon
  <2> QED
    BY <2>2
<1>4. ASSUME NEW m \in T PROVE m + 1 \in T
  <2>1. PICK h : Iterates(h, Below(S, m))
    OBVIOUS
  <2> DEFINE D == Below(S, m + 1)
             k == [s \in SUBSET D |->
                     IF m \in s THEN Credit(h[s \ {Max(s)}], c[Max(s)], ws) ELSE h[s]]
             value(s) == IF s = {} THEN v ELSE Credit(k[s \ {Max(s)}], c[Max(s)], ws)
  <2>2. \A s \in SUBSET Below(S, m) : k[s] = h[s]
    BY <1>2, OneByOne
  <2>3. ASSUME NEW s \in SUBSET D
        PROVE  k[s] = value(s)
    <3>1. s \ {Max(s)} \in SUBSET Below(S, m) /\ (m \notin s => s \in SUBSET Below(S, m))
      BY <1>2, LargestBelow
    <3>2. k[s \ {Max(s)}] = h[s \ {Max(s)}]
      BY <2>2, <3>1
    <3> QED
      BY <2>1, <2>2, <3>1, <3>2
  <2>4. Iterates(k, D)
    <3>1. k = [s \in SUBSET D |-> k[s]]
      OBVIOUS
    <3>2. k = [s \in SUBSET D |-> value(s)]
      <4> HIDE DEF k, value
      <4> QED
        BY <2>3, <3>1
    <3> QED
      BY <3>2, Zenon
  <2>5. m + 1 \in Nat /\ \E f : Iterates(f, D)
    <3> HIDE DEF k, Iterates
    <3> QED
      BY <2>4
  <2> QED
    BY <2>5
<1>5. Iterates(loop, S)
  <2>1. T = Nat
    BY <1>3, <1>4, AllNumbers
  <2>2. L + 1 \in T
    <3> HIDE DEF T
    <3> QED
      BY <2>1
  <2>3. \E h : Iterates(h, S)
    <3>1. \E h : Iterates(h, Below(S, L + 1))
      BY <2>2
    <3> QED
      BY <1>2, <3>1
  <2> QED
    BY <2>3, Zenon
<1> HIDE DEF loop
<1> DEFINE f == [m \in Nat |-> loop[Below(S, m + 1)]]
<1>6. f[0] = v /\ f[L] = loop[S]
  <2>1. f[0] = loop[Below(S, 0 + 1)] /\ f[L] = loop[Below(S, L + 1)]
    OBVIOUS
  <2>2. loop[{}] = v
    BY <1>5
  <2>3. Below(S, 0 + 1) = {}
    BY <1>2, OneByOne
  <2> QED
    BY <1>2, <2>1, <2>2, <2>3
<1>7. ASSUME NEW m \in 0 .. L - 1
      PROVE  f[m + 1] = Credit(f[m], c[m + 1], ws)
  <2> DEFINE n == m + 1
  <2>1. n \in S /\ n \in Nat
    BY <1>2
  <2>2. f[m] = loop[Below(S, n)] /\ f[m + 1] = loop[Below(S, n + 1)]
    OBVIOUS
  <2>3. /\ Below(S, n + 1) \in SUBSET S
        /\ Below(S, n + 1) # {} /\ Max(Below(S, n + 1)) = n
        /\ Below(S, n + 1) \ {n} = Below(S, n)
    <3> HIDE DEF n
    <3>1. n + 1 \in Nat
      BY <2>1
    <3>2. \A j \in Nat : Below(S, j) \in SUBSET S
      BY <1>2, OneByOne
    <3>3. n \in S => /\ Below(S, n + 1) # {} /\ Max(Below(S, n + 1)) = n
                     /\ Below(S, n + 1) \ {n} = Below(S, n)
      <4>1. S \in SUBSET Nat
        BY <1>2
      <4> QED
        BY <2>1, <4>1, OneByOne
    <3> QED
      BY <2>1, <3>1, <3>2, <3>3
  <2> HIDE DEF f, n
  <2>4. loop[Below(S, n + 1)] = Credit(loop[Below(S, n)], c[n], ws)
    BY <1>5, <2>3
  <2> QED
    BY <2>2, <2>4 DEF n
<1> QED
  <2> HIDE DEF f
  <2> QED
    BY <1>1, <1>6, <1>7, Zenon

(* A single segment gives its own credit.                                  *)
LEMMA CreditOnce ==
    ASSUME NEW v, NEW c, NEW ws, DOMAIN c = 1 .. 1
    PROVE  Credited(v, c, ws) = Credit(v, c[1], ws)
<1> DEFINE one == 1
<1>1. one \in Nat /\ DOMAIN c = 1 .. one /\ 0 \in 0 .. one - 1 /\ 0 + 1 = one
  OBVIOUS
<1>2. one = 1
  OBVIOUS
<1> HIDE DEF one
<1>3. PICK f : /\ f[0] = v
               /\ \A m \in 0 .. one - 1 : f[m + 1] = Credit(f[m], c[m + 1], ws)
               /\ Credited(v, c, ws) = f[one]
  BY <1>1, CreditRun
<1>4. f[0 + 1] = Credit(f[0], c[0 + 1], ws)
  BY <1>1, <1>3, Zenon
<1> QED
  BY <1>1, <1>2, <1>3, <1>4

(* One turn of the loop of push, or none if it is over.                    *)
Turned(loop) == IF MoreToSend(loop) THEN Turn(loop) ELSE loop

(* push, turn by turn.                                                     *)
LEMMA PushRun ==
    ASSUME NEW v, NEW L \in Nat, L = Range16
    PROVE  \E f : /\ f[0] = StartLoop(v)
                  /\ \A m \in 0 .. L - 1 : f[m + 1] = Turned(f[m])
                  /\ push(v) = f[L]
<1> DEFINE S == 1 .. L
           Iterates(h, D) ==
              h = [s \in SUBSET D |->
                     IF s = {} THEN StartLoop(v) ELSE Turned(h[s \ {Max(s)}])]
           loop == CHOOSE h : Iterates(h, S)
           T == {m \in Nat : \E h : Iterates(h, Below(S, m))}
<1>1. push(v) = loop[S]
  <2>1. S = DOMAIN [turn \in 1 .. Range16 |-> turn]
    OBVIOUS
  <2> QED
    BY <2>1, Zenon DEF push, FoldLeft, MapThenFoldSet, Turned
<1>2. /\ S \in SUBSET Nat
      /\ S = Below(S, L + 1)
      /\ 0 \notin S
      /\ \A m \in 0 .. L - 1 : m + 1 \in S /\ m + 1 \in Nat
  BY DEF Below
<1> HIDE DEF S
<1>3. 0 \in T
  <2>1. \A s \in SUBSET Below(S, 0) : s = {}
    BY <1>2, OneByOne
  <2>2. Iterates([s \in SUBSET Below(S, 0) |-> StartLoop(v)], Below(S, 0))
    BY <2>1, Zenon
  <2> QED
    BY <2>2
<1>4. ASSUME NEW m \in T PROVE m + 1 \in T
  <2>1. PICK h : Iterates(h, Below(S, m))
    OBVIOUS
  <2> DEFINE D == Below(S, m + 1)
             k == [s \in SUBSET D |->
                     IF m \in s THEN Turned(h[s \ {Max(s)}]) ELSE h[s]]
             value(s) == IF s = {} THEN StartLoop(v) ELSE Turned(k[s \ {Max(s)}])
  <2>2. \A s \in SUBSET Below(S, m) : k[s] = h[s]
    BY <1>2, OneByOne
  <2>3. ASSUME NEW s \in SUBSET D
        PROVE  k[s] = value(s)
    <3>1. s \ {Max(s)} \in SUBSET Below(S, m) /\ (m \notin s => s \in SUBSET Below(S, m))
      BY <1>2, LargestBelow
    <3>2. k[s \ {Max(s)}] = h[s \ {Max(s)}]
      BY <2>2, <3>1
    <3> QED
      BY <2>1, <2>2, <3>1, <3>2
  <2>4. Iterates(k, D)
    <3>1. k = [s \in SUBSET D |-> k[s]]
      OBVIOUS
    <3>2. k = [s \in SUBSET D |-> value(s)]
      <4> HIDE DEF k, value
      <4> QED
        BY <2>3, <3>1
    <3> QED
      BY <3>2, Zenon
  <2>5. m + 1 \in Nat /\ \E f : Iterates(f, D)
    <3> HIDE DEF k, Iterates
    <3> QED
      BY <2>4
  <2> QED
    BY <2>5
<1>5. Iterates(loop, S)
  <2>1. T = Nat
    BY <1>3, <1>4, AllNumbers
  <2>2. L + 1 \in T
    <3> HIDE DEF T
    <3> QED
      BY <2>1
  <2>3. \E h : Iterates(h, S)
    <3>1. \E h : Iterates(h, Below(S, L + 1))
      BY <2>2
    <3> QED
      BY <1>2, <3>1
  <2> QED
    BY <2>3, Zenon
<1> HIDE DEF loop
<1> DEFINE f == [m \in Nat |-> loop[Below(S, m + 1)]]
<1>6. f[0] = StartLoop(v) /\ f[L] = loop[S]
  <2>1. f[0] = loop[Below(S, 0 + 1)] /\ f[L] = loop[Below(S, L + 1)]
    OBVIOUS
  <2>2. loop[{}] = StartLoop(v)
    BY <1>5
  <2>3. Below(S, 0 + 1) = {}
    BY <1>2, OneByOne
  <2> QED
    BY <1>2, <2>1, <2>2, <2>3
<1>7. ASSUME NEW m \in 0 .. L - 1
      PROVE  f[m + 1] = Turned(f[m])
  <2> DEFINE n == m + 1
  <2>1. n \in S /\ n \in Nat
    BY <1>2
  <2>2. f[m] = loop[Below(S, n)] /\ f[m + 1] = loop[Below(S, n + 1)]
    OBVIOUS
  <2>3. /\ Below(S, n + 1) \in SUBSET S
        /\ Below(S, n + 1) # {} /\ Max(Below(S, n + 1)) = n
        /\ Below(S, n + 1) \ {n} = Below(S, n)
    <3> HIDE DEF n
    <3>1. n + 1 \in Nat
      BY <2>1
    <3>2. \A j \in Nat : Below(S, j) \in SUBSET S
      BY <1>2, OneByOne
    <3>3. n \in S => /\ Below(S, n + 1) # {} /\ Max(Below(S, n + 1)) = n
                     /\ Below(S, n + 1) \ {n} = Below(S, n)
      <4>1. S \in SUBSET Nat
        BY <1>2
      <4> QED
        BY <2>1, <4>1, OneByOne
    <3> QED
      BY <2>1, <3>1, <3>2, <3>3
  <2> HIDE DEF f, n
  <2>4. loop[Below(S, n + 1)] = Turned(loop[Below(S, n)])
    BY <1>5, <2>3
  <2> QED
    BY <2>2, <2>4 DEF n
<1> QED
  <2> HIDE DEF f
  <2> QED
    BY <1>1, <1>6, <1>7, Zenon
-----------------------------------------------------------------------------
(* The number behind a segment, field by field.                            *)
LEMMA SegmentFields ==
    ASSUME NEW x \in Segments
    PROVE  /\ x.first \in Nat
           /\ x.message.SYN \in BOOLEAN
           /\ x.message.FIN \in BOOLEAN
           /\ Len(x.message.payload) \in Nat
           /\ SequenceLength(x.message) \in Nat
           /\ EndOf(x) \in Nat
           /\ EndOf(x) = x.first + SequenceLength(x.message)
           /\ SequenceLength(x.message) =
                 One(x.message.SYN) + Len(x.message.payload) + One(x.message.FIN)
<1>1. /\ x.first \in Nat /\ x.message \in Messages
  BY DEF Segments
<1>2. /\ x.message.SYN \in BOOLEAN /\ x.message.FIN \in BOOLEAN
      /\ x.message.payload \in Seq(Nat)
  BY <1>1 DEF Messages
<1>3. Len(x.message.payload) \in Nat
  BY <1>2, LenProperties
<1>4. One(x.message.SYN) \in Nat /\ One(x.message.FIN) \in Nat
  BY DEF One
<1>5. SequenceLength(x.message) =
         One(x.message.SYN) + Len(x.message.payload) + One(x.message.FIN)
  BY DEF SequenceLength
<1>6. SequenceLength(x.message) \in Nat
  BY <1>3, <1>4, <1>5
<1>7. EndOf(x) = x.first + SequenceLength(x.message)
  BY DEF EndOf
<1>8. EndOf(x) \in Nat
  BY <1>1, <1>6, <1>7
<1> QED
  BY <1>1, <1>2, <1>3, <1>5, <1>6, <1>7, <1>8

(* What an acknowledgement covers is a prefix of the buffer.               *)
LEMMA CoveredIsPrefix ==
    ASSUME NEW v, NEW b, v.send_buffer_ = b, NEW L \in Nat, DOMAIN b = 1 .. L, NEW a
    PROVE  \E n \in 0 .. L :
              /\ Cardinality(Covered(v, a)) = n
              /\ \A k \in 1 .. n : EndOf(b[k]) <= a
              /\ n < L => ~ (EndOf(b[n + 1]) <= a)
<1> DEFINE T == {n \in Nat : n <= L /\ \A k \in 1 .. n : EndOf(b[k]) <= a}
           IsLast(n) == n \in T /\ n + 1 \notin T
<1>1. 0 \in T
  OBVIOUS
<1>2. \E n \in T : n + 1 \notin T
  <2>1. SUFFICES ASSUME \A n \in T : n + 1 \in T PROVE FALSE
    BY Zenon
  <2>2. T = Nat
    <3> HIDE DEF T
    <3>1. T \in SUBSET Nat
      BY DEF T
    <3> QED
      BY <1>1, <2>1, <3>1, AllNumbers
  <2>3. L + 1 \in T
    <3> HIDE DEF T
    <3> QED
      BY <2>2
  <2> QED
    BY <2>3
<1>3. PICK n \in T : n + 1 \notin T
  BY <1>2
<1>4. n \in 0 .. L /\ n \in Nat /\ \A k \in 1 .. n : EndOf(b[k]) <= a
  OBVIOUS
<1>5. ASSUME n < L PROVE ~ (EndOf(b[n + 1]) <= a)
  <2>1. n + 1 \in Nat /\ n + 1 <= L
    BY <1>4, <1>5
  <2>2. PICK k \in 1 .. n + 1 : ~ (EndOf(b[k]) <= a)
    BY <1>3, <2>1
  <2>3. k = n + 1
    BY <1>4, <2>2
  <2> QED
    BY <2>2, <2>3
<1> HIDE DEF T
<1>6. Covered(v, a) = 1 .. n
  <2>1. Covered(v, a) = {i \in 1 .. L : \A j \in 1 .. i : EndOf(b[j]) <= a}
    BY Zenon DEF Covered
  <2>2. ASSUME NEW i \in 1 .. n
        PROVE  i \in 1 .. L /\ \A j \in 1 .. i : EndOf(b[j]) <= a
    <3>1. i \in 1 .. L /\ \A j \in 1 .. i : j \in 1 .. n
      BY <1>4
    <3> QED
      BY <1>4, <3>1
  <2>3. ASSUME NEW i \in 1 .. L, \A j \in 1 .. i : EndOf(b[j]) <= a
        PROVE  i \in 1 .. n
    <3> SUFFICES ASSUME i \notin 1 .. n PROVE FALSE
      OBVIOUS
    <3>1. n < L /\ n + 1 \in 1 .. i
      BY <1>4
    <3> QED
      BY <1>5, <2>3, <3>1
  <2> QED
    BY <2>1, <2>2, <2>3
<1>7. Cardinality(1 .. n) = n
  <2>1. Cardinality(1 .. n) = IF 1 > n THEN 0 ELSE n - 1 + 1
    BY <1>4, FS_Interval
  <2> QED
    BY <1>4, <2>1
<1> QED
  BY <1>4, <1>5, <1>6, <1>7

(* The numbers in flight are those between the first segment kept and the  *)
(* last number sent.                                                       *)
LEMMA FlightIsInterval ==
    ASSUME NEW v, NEW b, v.send_buffer_ = b, b \in Seq(Segments),
           NEW next, NEW ack, IsChain(b, next, ack)
    PROVE  sequence_numbers_in_flight(v) = InFlight(b, next)
<1> DEFINE L == Len(b)
<1>1. L \in Nat /\ DOMAIN b = 1 .. L /\ \A k \in 1 .. L : b[k] \in Segments
  BY LenProperties, ElementOfSeq
<1>2. PICK f : /\ f[0] = 0
               /\ \A m \in 0 .. L - 1 : f[m + 1] = Added(f[m], b[m + 1])
               /\ sequence_numbers_in_flight(v) = f[L]
  <2> HIDE DEF L
  <2> QED
    BY <1>1, LengthRun
<1>3. \A k \in 2 .. L : b[k].first = EndOf(b[k - 1])
  BY DEF IsChain
<1>4. b = << >> <=> L = 0
  BY EmptySeq
<1>5. b # << >> => EndOf(b[L]) = next
  BY DEF IsChain
<1> HIDE DEF L
<1>6. \A k \in 1 .. L : /\ b[k].first \in Nat /\ SequenceLength(b[k].message) \in Nat
                        /\ EndOf(b[k]) = b[k].first + SequenceLength(b[k].message)
  BY <1>1, SegmentFields
<1> DEFINE T == {m \in Nat : m <= L => f[m] = IF m = 0 THEN 0 ELSE EndOf(b[m]) - b[1].first}
<1>7. 0 \in T
  BY <1>2
<1>8. ASSUME NEW m \in T PROVE m + 1 \in T
  <2>0. m \in Nat /\ (m <= L => f[m] = IF m = 0 THEN 0 ELSE EndOf(b[m]) - b[1].first)
    OBVIOUS
  <2> HIDE DEF T
  <2>1. CASE m + 1 <= L
    <3>1. m \in 0 .. L - 1 /\ m \in Nat /\ m + 1 \in 1 .. L /\ 1 \in 1 .. L /\ m <= L
      BY <1>1, <2>0, <2>1
    <3>2. f[m + 1] = f[m] + SequenceLength(b[m + 1].message)
      BY <1>2, <3>1 DEF Added
    <3>3. f[m] = IF m = 0 THEN 0 ELSE EndOf(b[m]) - b[1].first
      BY <2>0, <3>1
    <3>4. m # 0 => m \in 1 .. L /\ b[m + 1].first = EndOf(b[m])
      <4>1. ASSUME m # 0 PROVE m + 1 \in 2 .. L /\ m + 1 - 1 = m /\ m \in 1 .. L
        BY <1>1, <2>1, <3>1, <4>1
      <4> QED
        BY <1>3, <4>1
    <3>5. f[m + 1] = EndOf(b[m + 1]) - b[1].first
      BY <1>6, <3>1, <3>2, <3>3, <3>4
    <3> QED
      BY <3>1, <3>5 DEF T
  <2>2. CASE ~ (m + 1 <= L)
    BY <2>0, <2>2 DEF T
  <2> QED
    BY <2>1, <2>2
<1>9. T = Nat
  BY <1>7, <1>8, AllNumbers
<1>10. f[L] = IF L = 0 THEN 0 ELSE EndOf(b[L]) - b[1].first
  <2>1. L \in T
    <3> HIDE DEF T
    <3> QED
      BY <1>1, <1>9
  <2> QED
    BY <2>1
<1> QED
  BY <1>2, <1>4, <1>5, <1>10 DEF InFlight
-----------------------------------------------------------------------------
(* t is s but for the segments kept and the two windows.                   *)
HasWindows(t, s, kept, window, largest) ==
    /\ DOMAIN t = SenderFields
    /\ t.send_buffer_ = kept
    /\ t.receive_window_ = window
    /\ t.max_receive_window_ = largest
    /\ \A g \in SenderFields \ {"send_buffer_", "receive_window_", "max_receive_window_"} :
          t[g] = s[g]

(* A sender whose buffer and windows are set differs in nothing else.      *)
LEMMA SetWindows ==
    ASSUME NEW s, NEW kept, NEW window, NEW largest, NEW t, HasWindows(t, s, kept, window, largest),
           NEW w, NEW l, NEW k
    PROVE  /\ HasWindows([t EXCEPT !.receive_window_ = w], s, kept, w, largest)
           /\ HasWindows([t EXCEPT !.receive_window_ = w, !.max_receive_window_ = l], s, kept, w, l)
           /\ HasWindows([t EXCEPT !.send_buffer_ = k], s, k, window, largest)
<1>1. DOMAIN t = SenderFields
  BY DEF HasWindows
<1> DEFINE a == [t EXCEPT !.receive_window_ = w]
           b == [t EXCEPT !.receive_window_ = w, !.max_receive_window_ = l]
           c == [t EXCEPT !.send_buffer_ = k]
<1>2. HasWindows(a, s, kept, w, largest)
  <2>1. /\ DOMAIN a = SenderFields
        /\ a.receive_window_ = w
        /\ \A g \in SenderFields \ {"receive_window_"} : a[g] = t[g]
    BY <1>1 DEF SenderFields
  <2> HIDE DEF a
  <2> QED
    BY <2>1, Zenon DEF HasWindows, SenderFields
<1>3. HasWindows(b, s, kept, w, l)
  <2>1. /\ DOMAIN b = SenderFields
        /\ b.receive_window_ = w
        /\ b.max_receive_window_ = l
        /\ \A g \in SenderFields \ {"receive_window_", "max_receive_window_"} : b[g] = t[g]
    BY <1>1 DEF SenderFields
  <2> HIDE DEF b
  <2> QED
    BY <2>1, Zenon DEF HasWindows, SenderFields
<1>4. HasWindows(c, s, k, window, largest)
  <2>1. /\ DOMAIN c = SenderFields
        /\ c.send_buffer_ = k
        /\ \A g \in SenderFields \ {"send_buffer_"} : c[g] = t[g]
    BY <1>1 DEF SenderFields
  <2> HIDE DEF c
  <2> QED
    BY <2>1, Zenon DEF HasWindows, SenderFields
<1> QED
  BY <1>2, <1>3, <1>4, Zenon

(* The SYN's segment sets both windows, another gives its length back.     *)
LEMMA CreditGiven ==
    ASSUME NEW s, NEW kept, NEW window, NEW largest, NEW t, HasWindows(t, s, kept, window, largest),
           NEW x, NEW ws
    PROVE  /\ ~ x.message.SYN =>
                 HasWindows(Credit(t, x, ws), s, kept,
                            (window + SequenceLength(x.message)) % Range16, largest)
           /\ x.message.SYN =>
                 HasWindows(Credit(t, x, ws), s, kept, AtLeast(1, ws), AtLeast(1, ws))
<1> DEFINE more == (t.receive_window_ + SequenceLength(x.message)) % Range16
           first == AtLeast(1, ws)
<1>1. more = (window + SequenceLength(x.message)) % Range16
  <2>1. t.receive_window_ = window
    BY Zenon DEF HasWindows
  <2> QED
    BY <2>1, Zenon
<1>2. ~ x.message.SYN => Credit(t, x, ws) = [t EXCEPT !.receive_window_ = more]
  BY Zenon DEF Credit
<1>3. x.message.SYN =>
         Credit(t, x, ws) = [t EXCEPT !.receive_window_ = first, !.max_receive_window_ = first]
  BY Zenon DEF Credit
<1> HIDE DEF more, first
<1>4. /\ HasWindows([t EXCEPT !.receive_window_ = more], s, kept, more, largest)
      /\ HasWindows([t EXCEPT !.receive_window_ = first, !.max_receive_window_ = first],
                    s, kept, first, first)
  BY SetWindows, Zenon
<1>5. x.message.SYN => HasWindows(Credit(t, x, ws), s, kept, first, first)
  BY <1>3, <1>4, Zenon
<1>6. ~ x.message.SYN => HasWindows(Credit(t, x, ws), s, kept, more, largest)
  BY <1>2, <1>4, Zenon
<1> QED
  BY <1>1, <1>5, <1>6, Zenon DEF first

(* A sender has the windows it has.                                        *)
LEMMA OwnWindows ==
    ASSUME NEW s, DOMAIN s = SenderFields
    PROVE  HasWindows(s, s, s.send_buffer_, s.receive_window_, s.max_receive_window_)
BY Zenon DEF HasWindows

(* A remainder may be taken before an addition or after it.                *)
LEMMA RemainderOfSum ==
    ASSUME NEW r \in Nat, r > 0, NEW a \in Int, NEW b \in Int
    PROVE  ((a % r) + b) % r = (a + b) % r
<1> DEFINE c == a % r
           d == (c + b) % r
<1>1. c \in Int /\ \E i \in Int : a = i * r + c
  OBVIOUS
<1> HIDE DEF c
<1>2. d \in 0 .. r - 1 /\ \E j \in Int : c + b = j * r + d
  BY <1>1
<1> HIDE DEF d
<1>3. PICK i \in Int, j \in Int : a = i * r + c /\ c + b = j * r + d
  BY <1>1, <1>2
<1>4. a + b = (i + j) * r + d
  <2>1. (i + j) * r = i * r + j * r /\ i * r \in Int /\ j * r \in Int
    OBVIOUS
  <2> QED
    BY <1>1, <1>2, <1>3, <2>1
<1>5. \A k \in Int : (k * r + d) % r = d
  BY <1>2
<1>6. (a + b) % r = d
  BY <1>4, <1>5, i + j \in Int
<1> QED
  BY <1>6 DEF c, d

(* The segments that an acknowledgement covers give back all they took,    *)
(* but the SYN's alone, whose acknowledgement sets the windows.            *)
LEMMA CreditSum ==
    ASSUME NEW s, DOMAIN s = SenderFields, NEW b, b \in Seq(Segments),
           NEW next, NEW ack, IsChain(b, next, ack),
           NEW ws, NEW n \in 0 .. Len(b),
           \A k \in 1 .. n : ~ b[k].message.SYN,
           s.receive_window_ \in Nat, s.receive_window_ < Range16, NEW w \in Nat, w < Range16,
           n > 0 => w = s.receive_window_ + EndOf(b[n]) - b[1].first,
           n = 0 => w = s.receive_window_
    PROVE  HasWindows(Credited(s, SubSeq(b, 1, n), ws), s, s.send_buffer_, w, s.max_receive_window_)
<1> DEFINE c == SubSeq(b, 1, n)
           rw == s.receive_window_
<1>1. n \in Nat /\ n <= Len(b) /\ Len(b) \in Nat /\ \A k \in 1 .. n : b[k] \in Segments
  BY LenProperties, ElementOfSeq
<1>2. /\ DOMAIN c = 1 .. n
      /\ \A k \in 1 .. n : c[k] = b[k]
  <2>1. /\ SubSeq(b, 0 + 1, 0 + n) \in Seq(Segments)
        /\ Len(SubSeq(b, 0 + 1, 0 + n)) = n
        /\ \A k \in 1 .. n : SubSeq(b, 0 + 1, 0 + n)[k] = b[0 + k]
    BY <1>1, ViewOf
  <2>2. SubSeq(b, 0 + 1, 0 + n) = c
    BY <1>1
  <2> HIDE DEF c
  <2>3. c \in Seq(Segments) /\ Len(c) = n /\ \A k \in 1 .. n : c[k] = b[0 + k]
    BY <2>1, <2>2, Zenon
  <2> QED
    BY <1>1, <2>3, LenProperties
<1>3. PICK f : /\ f[0] = s
               /\ \A m \in 0 .. n - 1 : f[m + 1] = Credit(f[m], c[m + 1], ws)
               /\ Credited(s, c, ws) = f[n]
  <2> HIDE DEF c
  <2> QED
    BY <1>1, <1>2, CreditRun
<1>4. \A k \in 2 .. n : b[k].first = EndOf(b[k - 1])
  BY <1>1 DEF IsChain
<1>5. \A k \in 1 .. n : /\ b[k].first \in Nat /\ SequenceLength(b[k].message) \in Nat
                        /\ EndOf(b[k]) \in Nat
                        /\ EndOf(b[k]) = b[k].first + SequenceLength(b[k].message)
  BY <1>1, SegmentFields
<1> HIDE DEF c
<1> DEFINE given(m) == IF m = 0 THEN 0 ELSE EndOf(b[m]) - b[1].first
           Done(m) == HasWindows(f[m], s, s.send_buffer_, (rw + given(m)) % Range16,
                                 s.max_receive_window_)
           T == {m \in Nat : m <= n => Done(m)}
<1>6. 0 \in T
  <2>1. (rw + given(0)) % Range16 = rw
    <3>1. rw + given(0) = rw /\ rw \in Nat /\ rw < Range16
      OBVIOUS
    <3> HIDE DEF given, rw
    <3> QED
      BY <3>1, WindowAssumption
  <2> HIDE DEF given
  <2>2. HasWindows(f[0], s, s.send_buffer_, rw, s.max_receive_window_)
    BY <1>3, OwnWindows, Zenon
  <2>3. Done(0)
    BY <2>1, <2>2
  <2> QED
    BY <2>3
<1>7. ASSUME NEW m \in T PROVE m + 1 \in T
  <2>0. m \in Nat /\ (m <= n => Done(m))
    OBVIOUS
  <2>1. CASE m + 1 <= n
    <3>1. m \in 0 .. n - 1 /\ m <= n /\ m + 1 \in 1 .. n /\ 1 \in 1 .. n
      BY <1>1, <2>0, <2>1
    <3>2. Done(m)
      BY <2>0, <3>1
    <3> DEFINE x == c[m + 1]
               len == SequenceLength(x.message)
    <3>3. x = b[m + 1] /\ ~ x.message.SYN /\ f[m + 1] = Credit(f[m], x, ws)
      BY <1>2, <1>3, <3>1
    <3>4. m # 0 => m \in 1 .. n /\ b[m + 1].first = EndOf(b[m])
      <4>1. ASSUME m # 0 PROVE m + 1 \in 2 .. n /\ m + 1 - 1 = m /\ m \in 1 .. n
        BY <1>1, <2>0, <2>1, <4>1
      <4> QED
        BY <1>4, <4>1
    <3>5. /\ given(m) \in Int /\ len \in Nat
          /\ given(m + 1) = given(m) + len
      <4> DEFINE e == b[m + 1]
      <4>1. /\ e.first \in Nat /\ len \in Nat /\ EndOf(e) = e.first + len
            /\ b[1].first \in Nat
        BY <1>5, <3>1, <3>3
      <4>2. given(m + 1) = EndOf(e) - b[1].first
        BY <2>0
      <4>3. CASE m = 0
        BY <4>1, <4>2, <4>3
      <4>4. CASE m # 0
        <5>1. given(m) = EndOf(b[m]) - b[1].first /\ EndOf(b[m]) \in Nat /\ e.first = EndOf(b[m])
          BY <1>5, <3>4, <4>4
        <5> HIDE DEF given, e, len
        <5> QED
          BY <4>1, <4>2, <5>1
      <4> QED
        BY <4>3, <4>4
    <3> HIDE DEF x, given, T
    <3>6. HasWindows(f[m + 1], s, s.send_buffer_, (((rw + given(m)) % Range16) + len) % Range16,
                     s.max_receive_window_)
      BY <3>2, <3>3, CreditGiven, Zenon
    <3> HIDE DEF len
    <3>7. (((rw + given(m)) % Range16) + len) % Range16 = (rw + given(m + 1)) % Range16
      <4>1. Range16 \in Nat /\ Range16 > 0 /\ rw + given(m) \in Int /\ len \in Int
        BY <3>5, WindowAssumption
      <4>2. (((rw + given(m)) % Range16) + len) % Range16 = (rw + given(m) + len) % Range16
        BY <4>1, RemainderOfSum
      <4>3. rw + given(m) + len = rw + given(m + 1)
        BY <3>5
      <4> QED
        BY <4>2, <4>3, Zenon
    <3>8. Done(m + 1)
      BY <3>6, <3>7, Zenon
    <3> QED
      BY <2>0, <3>8 DEF T
  <2>2. CASE ~ (m + 1 <= n)
    BY <2>0, <2>2
  <2> QED
    BY <2>1, <2>2
<1>8. T = Nat
  <2> HIDE DEF T
  <2>1. T \in SUBSET Nat
    BY DEF T
  <2> QED
    BY <1>6, <1>7, <2>1, AllNumbers
<1>9. Done(n)
  <2> HIDE DEF Done
  <2>1. n \in T
    <3> HIDE DEF T
    <3> QED
      BY <1>1, <1>8
  <2> QED
    BY <1>1, <2>1
<1>10. (rw + given(n)) % Range16 = w
  <2>1. rw + given(n) = w
    BY <1>1, <1>5
  <2> HIDE DEF given, rw
  <2> QED
    BY <2>1, WindowAssumption
<1> QED
  BY <1>3, <1>9, <1>10, Zenon DEF c

(* What is left of a buffer.                                               *)
LEMMA RestOfBuffer ==
    ASSUME NEW b, b \in Seq(Segments), NEW n \in 0 .. Len(b)
    PROVE  /\ SubSeq(b, n + 1, Len(b)) \in Seq(Segments)
           /\ Len(SubSeq(b, n + 1, Len(b))) = Len(b) - n
           /\ \A k \in 1 .. Len(b) - n : SubSeq(b, n + 1, Len(b))[k] = b[n + k]
           /\ n = 0 => SubSeq(b, n + 1, Len(b)) = b
           /\ SubSeq(b, n + 1, Len(b)) = << >> <=> n = Len(b)
<1> DEFINE m == Len(b) - n
           c == SubSeq(b, n + 1, Len(b))
<1>1. n \in Nat /\ m \in Nat /\ n + m = Len(b) /\ Len(b) \in Nat
  BY LenProperties
<1> HIDE DEF m
<1>2. /\ SubSeq(b, n + 1, n + m) \in Seq(Segments)
      /\ Len(SubSeq(b, n + 1, n + m)) = m
      /\ \A k \in 1 .. m : SubSeq(b, n + 1, n + m)[k] = b[n + k]
  <2>1. n + m <= Len(b)
    BY <1>1
  <2> QED
    BY <1>1, <2>1, ViewOf
<1>3. SubSeq(b, n + 1, n + m) = c
  BY <1>1
<1> HIDE DEF c
<1>4. c \in Seq(Segments) /\ Len(c) = m /\ \A k \in 1 .. m : c[k] = b[n + k]
  BY <1>2, <1>3, Zenon
<1>5. n = 0 => c = b
  <2>1. ASSUME n = 0 PROVE Len(c) = Len(b) /\ \A k \in 1 .. Len(c) : c[k] = b[k]
    BY <1>1, <1>4, <2>1
  <2> QED
    BY <1>4, <2>1, SeqEqual
<1>6. c = << >> <=> n = Len(b)
  BY <1>1, <1>4, EmptySeq
<1> QED
  BY <1>4, <1>5, <1>6 DEF c, m

(* The same, of a buffer that joins: what is left after covering the first *)
(* n segments joins as well.                                               *)
LEMMA RestIsBuffer ==
    ASSUME NEW b, NEW i, NEW next \in Nat, NEW ack \in Nat, IsBuffer(b, i, next, ack),
           NEW a \in Nat, a <= next,
           NEW n \in 0 .. Len(b),
           \A k \in 1 .. n : EndOf(b[k]) <= a,
           n < Len(b) => ~ (EndOf(b[n + 1]) <= a)
    PROVE  /\ IsBuffer(SubSeq(b, n + 1, Len(b)), i, next, AtLeast(ack, a))
           /\ n = 0 => InFlight(SubSeq(b, n + 1, Len(b)), next) = InFlight(b, next)
           /\ n > 0 => InFlight(SubSeq(b, n + 1, Len(b)), next) = next - EndOf(b[n])
           /\ n > 0 => ack < a
<1> DEFINE L == Len(b)
           c == SubSeq(b, n + 1, L)
           m == L - n
<1>0. /\ b \in Seq(Segments)
      /\ \A k \in 1 .. L : IsSegment(b[k], i)
      /\ \A k \in 2 .. L : b[k].first = EndOf(b[k - 1])
      /\ b = << >> => ack = next
      /\ b # << >> => b[1].first <= ack /\ ack < EndOf(b[1]) /\ EndOf(b[L]) = next
  BY DEF IsBuffer, IsChain
<1>1. n \in Nat /\ m \in Nat /\ n + m = L /\ L \in Nat
  BY <1>0, LenProperties
<1>2. /\ c \in Seq(Segments)
      /\ Len(c) = m
      /\ \A k \in 1 .. m : c[k] = b[n + k]
      /\ n = 0 => c = b
      /\ c = << >> <=> n = L
  BY <1>0, RestOfBuffer
<1>3. \A k \in 1 .. L : EndOf(b[k]) \in Nat /\ b[k].first \in Nat
  <2>1. \A k \in 1 .. L : b[k] \in Segments
    BY <1>0, ElementOfSeq
  <2> QED
    BY <2>1, SegmentFields
<1>4. b = << >> <=> L = 0
  BY <1>0, EmptySeq
<1>12. n < L => ~ (EndOf(b[n + 1]) <= a)
  OBVIOUS
<1> HIDE DEF c, m, L
<1>5. n > 0 => ack < a
  <2> SUFFICES ASSUME n > 0 PROVE ack < a
    OBVIOUS
  <2>1. 1 \in 1 .. n /\ 1 \in 1 .. L /\ b # << >>
    BY <1>1, <1>4
  <2> QED
    BY <1>0, <1>3, <2>1
<1>6. \A k \in 1 .. m : IsSegment(c[k], i)
  <2>1. \A k \in 1 .. m : n + k \in 1 .. L
    BY <1>1
  <2> QED
    BY <1>0, <1>2, <2>1
<1>7. \A k \in 2 .. m : c[k].first = EndOf(c[k - 1])
  <2>1. SUFFICES ASSUME NEW k \in 2 .. m PROVE c[k].first = EndOf(c[k - 1])
    OBVIOUS
  <2>2. n + k \in 2 .. L /\ k \in 1 .. m /\ k - 1 \in 1 .. m /\ n + (k - 1) = (n + k) - 1
    BY <1>1
  <2>3. b[n + k].first = EndOf(b[(n + k) - 1])
    BY <1>0, <2>2
  <2> QED
    BY <1>2, <2>2, <2>3
<1>8. c = << >> => AtLeast(ack, a) = next
  <2> SUFFICES ASSUME c = << >> PROVE AtLeast(ack, a) = next
    OBVIOUS
  <2>1. n = L
    BY <1>2
  <2>2. CASE L = 0
    BY <1>0, <1>4, <2>2 DEF AtLeast
  <2>3. CASE L # 0
    <3>1. EndOf(b[n]) <= a /\ EndOf(b[n]) = next /\ ack < a
      BY <1>0, <1>1, <1>4, <1>5, <2>1, <2>3
    <3> QED
      BY <3>1 DEF AtLeast
  <2> QED
    BY <2>2, <2>3
<1>9. c # << >> => /\ c[1].first <= AtLeast(ack, a) /\ AtLeast(ack, a) < EndOf(c[1])
                   /\ EndOf(c[m]) = next
                   /\ n > 0 => c[1].first = EndOf(b[n])
  <2> SUFFICES ASSUME c # << >>
               PROVE  /\ c[1].first <= AtLeast(ack, a) /\ AtLeast(ack, a) < EndOf(c[1])
                      /\ EndOf(c[m]) = next
                      /\ n > 0 => c[1].first = EndOf(b[n])
    OBVIOUS
  <2>1. /\ n < L /\ 1 \in 1 .. m /\ m \in 1 .. m /\ L # 0
        /\ n + 1 \in 1 .. L
    BY <1>1, <1>2
  <2>2. c[1] = b[n + 1] /\ c[m] = b[L]
    <3>1. c[1] = b[n + 1] /\ c[m] = b[n + m]
      BY <1>2, <2>1
    <3> QED
      BY <1>1, <3>1
  <2>3. EndOf(c[m]) = next
    BY <1>0, <1>4, <2>1, <2>2
  <2>4. a < EndOf(c[1])
    BY <1>3, <1>12, <2>1, <2>2
  <2>5. CASE n = 0
    <3>1. c[1].first <= ack /\ ack < EndOf(c[1])
      BY <1>0, <1>4, <2>1, <2>2, <2>5
    <3>2. c[1].first \in Nat /\ EndOf(c[1]) \in Nat
      BY <1>3, <2>1, <2>2
    <3> QED
      BY <2>3, <2>4, <2>5, <3>1, <3>2 DEF AtLeast
  <2>6. CASE n > 0
    <3>1. n + 1 \in 2 .. L /\ (n + 1) - 1 = n /\ n \in 1 .. n
      BY <1>1, <2>1, <2>6
    <3>2. b[n + 1].first = EndOf(b[(n + 1) - 1])
      BY <1>0, <3>1
    <3>3. c[1].first = EndOf(b[n]) /\ EndOf(b[n]) <= a
      BY <2>2, <3>1, <3>2
    <3>4. AtLeast(ack, a) = a
      BY <1>5, <2>6 DEF AtLeast
    <3> QED
      BY <2>3, <2>4, <3>3, <3>4
  <2> QED
    BY <1>1, <2>5, <2>6
<1>10. IsBuffer(c, i, next, AtLeast(ack, a))
  <2>1. IsChain(c, next, AtLeast(ack, a))
    BY <1>2, <1>7, <1>8, <1>9 DEF IsChain
  <2> QED
    BY <1>2, <1>6, <2>1 DEF IsBuffer
<1>11. n > 0 => InFlight(c, next) = next - EndOf(b[n])
  <2> SUFFICES ASSUME n > 0 PROVE InFlight(c, next) = next - EndOf(b[n])
    OBVIOUS
  <2>1. CASE c = << >>
    <3>1. n = L /\ b # << >> /\ n \in 1 .. L
      BY <1>1, <1>2, <1>4, <2>1
    <3>2. EndOf(b[n]) = next
      BY <1>0, <3>1
    <3> QED
      BY <2>1, <3>2 DEF InFlight
  <2>2. CASE c # << >>
    BY <1>9, <2>2 DEF InFlight
  <2> QED
    BY <2>1, <2>2
<1> QED
  BY <1>2, <1>5, <1>10, <1>11, Zenon DEF c, L

(* Before the first acknowledgement the SYN is all there is: it has taken  *)
(* the whole window of one.                                                *)
LEMMA OnlySYN ==
    ASSUME NEW b, NEW i, NEW next \in Nat, next > 0, IsBuffer(b, i, next, 0),
           NEW window \in Nat, window + InFlight(b, next) = 1
    PROVE  /\ Len(b) = 1
           /\ b[1].message.SYN
           /\ EndOf(b[1]) = 1
           /\ next = 1
<1> DEFINE L == Len(b)
<1>0. /\ b \in Seq(Segments)
      /\ \A k \in 1 .. L : IsSegment(b[k], i)
      /\ \A k \in 2 .. L : b[k].first = EndOf(b[k - 1])
      /\ b = << >> => 0 = next
      /\ b # << >> => b[1].first <= 0 /\ EndOf(b[L]) = next
  BY DEF IsBuffer, IsChain
<1>1. b # << >> /\ L \in Nat /\ L > 0
  BY <1>0, EmptySeq, LenProperties
<1> HIDE DEF L
<1>2. \A k \in 1 .. L : EndOf(b[k]) \in Nat /\ b[k].first \in Nat
  <2>1. \A k \in 1 .. L : b[k] \in Segments
    BY <1>0, ElementOfSeq DEF L
  <2> QED
    BY <2>1, SegmentFields
<1>3. b[1].first = 0 /\ 1 \in 1 .. L
  BY <1>0, <1>1, <1>2
<1>4. b[1].message.SYN /\ EndOf(b[1]) = 1
  BY <1>0, <1>3 DEF IsSegment
<1>5. next = 1
  BY <1>1, <1>3 DEF InFlight
<1>6. L = 1
  <2> SUFFICES ASSUME L # 1 PROVE FALSE
    OBVIOUS
  <2>1. L \in 2 .. L /\ L \in 1 .. L /\ L - 1 \in 1 .. L
    BY <1>1
  <2>2. b[L].first = EndOf(b[L - 1]) /\ b[L - 1].first < EndOf(b[L - 1])
    BY <1>0, <2>1 DEF IsSegment
  <2>3. b[L].first < EndOf(b[L]) /\ EndOf(b[L]) = 1
    BY <1>0, <1>1, <1>5, <2>1 DEF IsSegment
  <2> QED
    BY <1>2, <2>1, <2>2, <2>3
<1> QED
  BY <1>4, <1>5, <1>6 DEF L

(* The segments of a buffer end one behind the other.                      *)
LEMMA ChainGrows ==
    ASSUME NEW b, NEW i, NEW next, NEW ack, IsBuffer(b, i, next, ack), NEW n \in 1 .. Len(b)
    PROVE  b[1].first < EndOf(b[n])
<1> DEFINE L == Len(b)
           T == {m \in Nat : m + 1 <= L => b[1].first < EndOf(b[m + 1])}
<1>0. /\ b \in Seq(Segments)
      /\ \A k \in 1 .. L : b[k].first < EndOf(b[k])
      /\ \A k \in 2 .. L : b[k].first = EndOf(b[k - 1])
  BY DEF IsBuffer, IsChain, IsSegment
<1>1. \A k \in 1 .. L : EndOf(b[k]) \in Nat /\ b[k].first \in Nat
  <2>1. \A k \in 1 .. L : b[k] \in Segments
    BY <1>0, ElementOfSeq
  <2> QED
    BY <2>1, SegmentFields
<1>2. L \in Nat
  BY <1>0, LenProperties
<1> HIDE DEF L
<1>3. 0 \in T
  <2>1. 1 <= L => 1 \in 1 .. L
    BY <1>2
  <2> QED
    BY <1>0, <2>1
<1>4. ASSUME NEW m \in T PROVE m + 1 \in T
  <2>0. m \in Nat /\ (m + 1 <= L => b[1].first < EndOf(b[m + 1]))
    OBVIOUS
  <2> HIDE DEF T
  <2>1. ASSUME (m + 1) + 1 <= L PROVE b[1].first < EndOf(b[(m + 1) + 1])
    <3> DEFINE k == (m + 1) + 1
    <3>1. k \in 2 .. L /\ k \in 1 .. L /\ k - 1 = m + 1 /\ m + 1 \in 1 .. L /\ 1 \in 1 .. L
      BY <1>2, <2>0, <2>1
    <3> HIDE DEF k
    <3>2. b[k].first = EndOf(b[k - 1]) /\ b[k].first < EndOf(b[k])
      BY <1>0, <3>1
    <3>3. b[1].first < EndOf(b[m + 1])
      BY <2>0, <3>1
    <3>4. b[1].first < EndOf(b[k])
      <4>1. /\ b[1].first \in Nat /\ b[k].first \in Nat /\ EndOf(b[k]) \in Nat
            /\ b[k].first = EndOf(b[m + 1])
        BY <1>1, <3>1, <3>2
      <4> QED
        BY <3>2, <3>3, <4>1
    <3> QED
      BY <3>4 DEF k
  <2> QED
    BY <2>0, <2>1 DEF T
<1>5. T = Nat
  <2> HIDE DEF T
  <2>1. T \in SUBSET Nat
    BY DEF T
  <2> QED
    BY <1>3, <1>4, <2>1, AllNumbers
<1>6. n - 1 \in T /\ (n - 1) + 1 = n /\ n <= L
  <2> HIDE DEF T
  <2>1. n - 1 \in Nat /\ (n - 1) + 1 = n /\ n <= L
    BY <1>2 DEF L
  <2> QED
    BY <1>5, <2>1
<1> QED
  BY <1>6

(* What is in flight is a number.                                          *)
LEMMA FlightIsNatural ==
    ASSUME NEW b, NEW i, NEW next \in Nat, NEW ack, IsBuffer(b, i, next, ack)
    PROVE  InFlight(b, next) \in Nat
<1>1. CASE b = << >>
  BY <1>1 DEF InFlight
<1>2. CASE b # << >>
  <2>1. b \in Seq(Segments) /\ EndOf(b[Len(b)]) = next
    BY <1>2 DEF IsBuffer, IsChain
  <2>2. Len(b) \in 1 .. Len(b) /\ 1 \in 1 .. Len(b)
    <3>1. Len(b) \in Nat /\ Len(b) # 0
      BY <1>2, <2>1, EmptySeq, LenProperties
    <3> QED
      BY <3>1
  <2>3. b[1].first < next
    BY <2>1, <2>2, ChainGrows
  <2>4. b[1].first \in Nat
    <3>1. b[1] \in Segments
      BY <2>1, <2>2, ElementOfSeq
    <3> QED
      BY <3>1, SegmentFields
  <2> QED
    BY <1>2, <2>3, <2>4 DEF InFlight
<1> QED
  BY <1>1, <1>2

(* An acknowledgement of a releases the segments before a, and gives back  *)
(* the numbers they took.                                                  *)
Released(t, s, ack, a, kept, window, largest) ==
    /\ HasWindows(t, s, kept, window, largest)
    /\ IsBuffer(kept, s.input, s.abs_seqno_, AtLeast(ack, a))
    /\ window \in Nat
    /\ largest \in 1 .. PeerCapacity
    /\ window + InFlight(kept, s.abs_seqno_) = largest
    /\ kept = << >> => ack < a \/ s.send_buffer_ = << >>
    /\ a <= ack => /\ kept = s.send_buffer_
                   /\ window = s.receive_window_
                   /\ largest = s.max_receive_window_

(* receive, once it has found the segments an acknowledgement covers.      *)
LEMMA AcknowledgeEffect ==
    ASSUME NEW s, NEW ack \in Nat, IsSender(s, ack), ack <= s.abs_seqno_, s.abs_seqno_ \in Nat,
           NEW a \in 1 .. s.abs_seqno_, NEW ws \in 0 .. PeerCapacity
    PROVE  \E kept, window, largest :
              Released(Acknowledge(s, a, ws), s, ack, a, kept, window, largest)
<1> DEFINE b == s.send_buffer_
           next == s.abs_seqno_
           i == s.input
           L == Len(b)
           rw == s.receive_window_
           mx == s.max_receive_window_
<1>1. /\ DOMAIN s = SenderFields
      /\ IsBuffer(b, i, next, ack)
      /\ rw \in Nat
      /\ mx \in 1 .. PeerCapacity
      /\ rw + InFlight(b, next) = mx
      /\ ack = 0 => mx = 1
  BY DEF IsSender, WindowOK
<1>2. /\ next \in Nat /\ a \in Nat /\ 1 <= a /\ a <= next
      /\ PeerCapacity \in Nat /\ PeerCapacity >= 1 /\ PeerCapacity < Range16
      /\ ws \in Nat /\ ws <= PeerCapacity
      /\ Range16 \in Nat
  BY EnvironmentAssumption, WindowAssumption
<1>3. /\ b \in Seq(Segments)
      /\ \A k \in 1 .. L : IsSegment(b[k], i)
      /\ \A k \in 2 .. L : b[k].first = EndOf(b[k - 1])
      /\ IsChain(b, next, ack)
      /\ b # << >> => b[1].first <= ack /\ ack < EndOf(b[1])
  BY <1>1 DEF IsBuffer, IsChain
<1>4. L \in Nat /\ DOMAIN b = 1 .. L /\ (b = << >> <=> L = 0)
  BY <1>3, LenProperties, EmptySeq
<1>5. PICK n \in 0 .. L :
         /\ Cardinality(Covered(s, a)) = n
         /\ \A k \in 1 .. n : EndOf(b[k]) <= a
         /\ n < L => ~ (EndOf(b[n + 1]) <= a)
  <2>1. s.send_buffer_ = b
    OBVIOUS
  <2> HIDE DEF b, L
  <2> QED
    BY <1>4, <2>1, CoveredIsPrefix
<1> DEFINE kept == SubSeq(b, n + 1, L)
           t == Credited(s, SubSeq(b, 1, n), ws)
<1>6. /\ IsBuffer(kept, i, next, AtLeast(ack, a))
      /\ n = 0 => InFlight(kept, next) = InFlight(b, next)
      /\ n > 0 => InFlight(kept, next) = next - EndOf(b[n])
      /\ n > 0 => ack < a
  <2>1. /\ n \in 0 .. Len(b)
        /\ \A k \in 1 .. n : EndOf(b[k]) <= a
        /\ n < Len(b) => ~ (EndOf(b[n + 1]) <= a)
        /\ IsBuffer(b, i, next, ack)
        /\ next \in Nat /\ ack \in Nat /\ a \in Nat /\ a <= next
    BY <1>1, <1>2, <1>5
  <2>2. kept = SubSeq(b, n + 1, Len(b))
    OBVIOUS
  <2> HIDE DEF b, i, next, L, kept
  <2>3. /\ IsBuffer(SubSeq(b, n + 1, Len(b)), i, next, AtLeast(ack, a))
        /\ n = 0 => InFlight(SubSeq(b, n + 1, Len(b)), next) = InFlight(b, next)
        /\ n > 0 => InFlight(SubSeq(b, n + 1, Len(b)), next) = next - EndOf(b[n])
        /\ n > 0 => ack < a
    BY <2>1, RestIsBuffer
  <2> QED
    BY <2>2, <2>3, Zenon
<1>7. n = 0 => kept = b
  <2> HIDE DEF b
  <2> QED
    BY <1>3, <1>5, RestOfBuffer
<1>8. \A k \in 1 .. L : EndOf(b[k]) \in Nat /\ b[k].first \in Nat
  <2>1. \A k \in 1 .. L : b[k] \in Segments
    BY <1>3, ElementOfSeq
  <2> QED
    BY <2>1, SegmentFields
<1>9. ASSUME NEW w, NEW l, HasWindows(t, s, b, w, l)
      PROVE  HasWindows(Acknowledge(s, a, ws), s, kept, w, l)
  <2> DEFINE u == [t EXCEPT !.send_buffer_ = kept]
  <2>1. Acknowledge(s, a, ws) = [t EXCEPT !.send_buffer_ = SubSeq(@, n + 1, Len(@))]
    BY <1>5, Zenon DEF Acknowledge, Credited
  <2>2. t.send_buffer_ = b
    BY <1>9, Zenon DEF HasWindows
  <2> HIDE DEF t, b, kept
  <2>3. [t EXCEPT !.send_buffer_ = SubSeq(@, n + 1, Len(@))] = u
    BY <2>2, Zenon DEF kept, L
  <2>4. HasWindows(u, s, kept, w, l)
    BY <1>9, SetWindows, Zenon
  <2> QED
    BY <2>1, <2>3, <2>4, Zenon
<1> HIDE DEF kept, t, b, next, i, L, rw, mx
<1>10. kept = << >> => ack < a \/ b = << >>
  <2>1. n \in Nat /\ (n = 0 \/ n > 0)
    BY <1>4, <1>5
  <2> QED
    BY <1>6, <1>7, <2>1
<1>11. ASSUME NEW w \in Nat, NEW l \in 1 .. PeerCapacity, HasWindows(t, s, b, w, l),
              w + InFlight(kept, next) = l,
              a <= ack => w = rw /\ l = mx
       PROVE  Released(Acknowledge(s, a, ws), s, ack, a, kept, w, l)
  <2>1. HasWindows(Acknowledge(s, a, ws), s, kept, w, l)
    BY <1>9, <1>11
  <2>2. a <= ack => kept = b
    <3>1. a <= ack => n = 0
      BY <1>2, <1>4, <1>5, <1>6
    <3> QED
      BY <1>7, <3>1
  <2> QED
    BY <1>6, <1>10, <1>11, <2>1, <2>2, Zenon DEF Released, b, i, next, rw, mx
<1>12. CASE ack = 0
  <2>1. next > 0 /\ IsBuffer(b, i, next, 0) /\ rw + InFlight(b, next) = 1
    BY <1>1, <1>2, <1>12
  <2>2. /\ L = 1
        /\ b[1].message.SYN
        /\ EndOf(b[1]) = 1
        /\ next = 1
    BY <1>1, <1>2, <2>1, OnlySYN DEF L
  <2>3. n = 1 /\ ~ (a <= ack)
    <3>1. n = 0 => ~ (EndOf(b[0 + 1]) <= a)
      BY <1>5, <2>2
    <3> QED
      BY <1>2, <1>5, <1>12, <2>2, <3>1
  <2> DEFINE c == SubSeq(b, 1, n)
             x == c[1]
             w == AtLeast(1, ws)
  <2>4. DOMAIN c = 1 .. 1 /\ c[1] = b[1]
    <3>1. /\ SubSeq(b, 0 + 1, 0 + 1) \in Seq(Segments)
          /\ Len(SubSeq(b, 0 + 1, 0 + 1)) = 1
          /\ \A k \in 1 .. 1 : SubSeq(b, 0 + 1, 0 + 1)[k] = b[0 + k]
      <4>1. 0 + 1 <= Len(b)
        BY <2>2 DEF L
      <4> QED
        BY <1>3, <4>1, ViewOf
    <3>2. SubSeq(b, 0 + 1, 0 + 1) = c
      BY <2>3
    <3> HIDE DEF c
    <3>3. c \in Seq(Segments) /\ Len(c) = 1 /\ \A k \in 1 .. 1 : c[k] = b[0 + k]
      BY <3>1, <3>2, Zenon
    <3> QED
      BY <3>3, LenProperties
  <2>6. t = Credit(s, x, ws)
    <3> HIDE DEF c
    <3> QED
      BY <2>4, CreditOnce, Zenon DEF t, c
  <2>7. x.message.SYN
    BY <2>2, <2>4
  <2> HIDE DEF c, x
  <2>8. HasWindows(t, s, b, w, w)
    <3>1. HasWindows(s, s, b, rw, mx)
      BY <1>1, OwnWindows, Zenon DEF b, rw, mx
    <3>2. HasWindows(Credit(s, x, ws), s, b, AtLeast(1, ws), AtLeast(1, ws))
      BY <2>7, <3>1, CreditGiven, Zenon
    <3> QED
      BY <2>6, <3>2
  <2>9. w \in Nat /\ w \in 1 .. PeerCapacity
    BY <1>2 DEF AtLeast
  <2>10. InFlight(kept, next) = 0
    BY <1>6, <2>2, <2>3
  <2> HIDE DEF w
  <2>11. w + InFlight(kept, next) = w
    BY <2>9, <2>10
  <2> QED
    BY <1>11, <2>3, <2>8, <2>9, <2>11
<1>13. CASE ack # 0
  <2>1. \A k \in 1 .. n : ~ b[k].message.SYN
    <3> SUFFICES ASSUME NEW k \in 1 .. n PROVE b[k].first # 0
      <4>1. \A k \in 1 .. n : k \in 1 .. L
        BY <1>4, <1>5
      <4> QED
        BY <1>3, <4>1 DEF IsSegment
    <3>1. k \in 1 .. L /\ b # << >>
      BY <1>4, <1>5
    <3>2. CASE k = 1
      <4>1. b[1].first = 0 => EndOf(b[1]) = 1
        BY <1>3, <3>1, <3>2 DEF IsSegment
      <4> QED
        BY <1>3, <1>13, <3>1, <3>2, <4>1
    <3>3. CASE k # 1
      <4>1. k \in 2 .. L /\ k - 1 \in 1 .. L
        BY <1>4, <3>1, <3>3
      <4>2. b[k].first = EndOf(b[k - 1]) /\ b[k - 1].first < EndOf(b[k - 1])
        BY <1>3, <4>1 DEF IsSegment
      <4> QED
        BY <1>8, <4>1, <4>2
    <3> QED
      BY <3>2, <3>3
  <2> DEFINE w == IF n = 0 THEN rw ELSE rw + EndOf(b[n]) - b[1].first
  <2>2. /\ w \in Nat /\ w <= mx
        /\ w + InFlight(kept, next) = mx
    <3>1. CASE n = 0
      <4>1. w = rw /\ InFlight(kept, next) = InFlight(b, next)
        BY <1>6, <3>1
      <4>2. InFlight(b, next) \in Nat
        BY <1>1, <1>2, FlightIsNatural
      <4> HIDE DEF w
      <4> QED
        BY <1>1, <1>2, <4>1, <4>2
    <3>2. CASE n # 0
      <4>1. /\ n \in 1 .. n /\ n > 0 /\ n \in 1 .. L /\ 1 \in 1 .. L /\ b # << >>
            /\ 1 \in 1 .. n
        BY <1>4, <1>5, <3>2
      <4>2. rw + (next - b[1].first) = mx
        BY <1>1, <4>1 DEF InFlight
      <4>3. EndOf(b[n]) <= a /\ InFlight(kept, next) = next - EndOf(b[n])
        BY <1>5, <1>6, <4>1
      <4>4. EndOf(b[n]) \in Nat /\ b[1].first \in Nat
        BY <1>8, <4>1
      <4>5. b[1].first < EndOf(b[n])
        <5>1. n \in 1 .. Len(b) /\ IsBuffer(b, i, next, ack)
          BY <1>1, <4>1 DEF L
        <5> QED
          BY <5>1, ChainGrows
      <4>6. w = rw + (EndOf(b[n]) - b[1].first)
        BY <3>2
      <4> HIDE DEF w
      <4> QED
        BY <1>1, <1>2, <4>2, <4>3, <4>4, <4>5, <4>6
    <3> QED
      BY <3>1, <3>2
  <2>3. HasWindows(t, s, b, w, mx)
    <3>1. /\ n > 0 => w = rw + EndOf(b[n]) - b[1].first
          /\ n = 0 => w = rw
      OBVIOUS
    <3> HIDE DEF w
    <3>2. /\ w < Range16 /\ rw < Range16 /\ w \in Nat /\ rw \in Nat
          /\ n \in 0 .. Len(b)
      <4>1. rw <= mx /\ mx < Range16 /\ rw < Range16
        <5>1. InFlight(b, next) \in Nat
          BY <1>1, <1>2, FlightIsNatural
        <5> QED
          BY <1>1, <1>2, <5>1
      <4>2. n \in 0 .. Len(b)
        BY <1>5 DEF L
      <4>3. w < Range16 /\ w \in Nat
        BY <1>1, <1>2, <2>2, <4>1
      <4> QED
        BY <1>1, <4>1, <4>2, <4>3
    <3>3. /\ DOMAIN s = SenderFields
          /\ b \in Seq(Segments)
          /\ IsChain(b, next, ack)
          /\ s.receive_window_ = rw /\ s.max_receive_window_ = mx /\ s.send_buffer_ = b
      BY <1>1, <1>3 DEF rw, mx, b
    <3>4. HasWindows(Credited(s, SubSeq(b, 1, n), ws), s, s.send_buffer_, w, s.max_receive_window_)
      BY <2>1, <3>1, <3>2, <3>3, CreditSum
    <3> QED
      BY <3>3, <3>4, Zenon DEF t
  <2> HIDE DEF w
  <2>4. a <= ack => w = rw
    <3>1. a <= ack => n = 0
      BY <1>2, <1>4, <1>5, <1>6
    <3> QED
      BY <3>1 DEF w
  <2> QED
    BY <1>1, <1>11, <2>2, <2>3, <2>4
<1> QED
  BY <1>12, <1>13

(* A sender's numbers are far from coming round again.                     *)
LEMMA SenderNumbers ==
    ASSUME NEW s, StreamOK(s)
    PROVE  /\ s.abs_seqno_ \in Nat /\ s.abs_seqno_ <= MaxLength + 2
           /\ s.input.popped \in Nat /\ s.input.pushed \in Nat
           /\ s.input.capacity \in Nat /\ Len(s.input.queue) \in Nat
           /\ s.input.queue \in Seq(Nat)
           /\ s.input.closed \in BOOLEAN /\ s.input.error \in BOOLEAN
           /\ s.input.popped <= s.input.pushed
<1>1. /\ s.input.popped \in Nat /\ s.input.pushed \in Nat /\ s.input.capacity \in Nat
      /\ s.input.queue \in Seq(Nat)
      /\ s.input.closed \in BOOLEAN /\ s.input.error \in BOOLEAN
  BY DEF StreamOK, StreamOf
<1>2. Len(s.input.queue) \in Nat
  BY <1>1, LenProperties
<1>3. /\ s.abs_seqno_ = One(s.syn_set_) + s.input.popped + One(s.fin_set_)
      /\ s.input.popped + Len(s.input.queue) = s.input.pushed
      /\ s.input.pushed <= MaxLength
  BY DEF StreamOK
<1>4. One(s.syn_set_) \in 0 .. 1 /\ One(s.fin_set_) \in 0 .. 1
  BY DEF One
<1>5. MaxLength \in Nat
  BY EnvironmentAssumption
<1>6. s.abs_seqno_ \in Nat /\ s.abs_seqno_ <= MaxLength + 2
  BY <1>1, <1>2, <1>3, <1>4, <1>5
<1> QED
  BY <1>1, <1>2, <1>3, <1>6

(* Numbers in reach of the sender survive the trip over the wire.          *)
LEMMA NumbersSurvive ==
    ASSUME NEW a \in Nat, NEW cp \in Nat, a <= MaxLength + 2, cp <= MaxLength + 2
    PROVE  /\ wrap(a, ISN) \in Raw
           /\ wrap(a, ISN) # NoAckno
           /\ unwrap(wrap(a, ISN), ISN, cp) = a
<1>1. /\ Range32 \in Nat /\ Range32 > 0 /\ Range64 \in Nat /\ Range64 > 0
      /\ Range64 % Range32 = 0
      /\ MaxLength \in Nat /\ 2 * (MaxLength + 2) < Range32
      /\ ISN \in Nat /\ ISN \in Raw
  BY WidthAssumption, EnvironmentAssumption DEF Raw
<1>2. Range32 <= Range64
  <2> SUFFICES ASSUME Range64 < Range32 PROVE FALSE
    BY <1>1
  <2>1. Range64 % Range32 = Range64
    BY <1>1
  <2> QED
    BY <1>1, <2>1
<1>3. a \in Absolute /\ cp \in Absolute
  BY <1>1, <1>2 DEF Absolute
<1>4. 2 * Distance(a, cp) < Range32
  BY <1>1 DEF Distance
<1>5. RoundTrips(a, ISN, cp)
  BY <1>1, <1>3, WrapRoundTrips
<1>6. unwrap(wrap(a, ISN), ISN, cp) = a
  BY <1>4, <1>5, Zenon DEF RoundTrips
<1>7. wrap(a, ISN) \in 0 .. Range32 - 1
  BY <1>1 DEF wrap
<1>8. wrap(a, ISN) # -1
  BY <1>7
<1> QED
  BY <1>6, <1>7, <1>8, Zenon DEF Raw, NoAckno

(* An acknowledgement of what was sent is taken for what it is.            *)
LEMMA ReceiveTaken ==
    ASSUME NEW s, NEW ack \in Nat, IsSender(s, ack), NEW k, NEW memory,
           k.abs \in Nat, k.abs >= 1, k.abs <= s.abs_seqno_
    PROVE  receive(s, OnTheWire(k), memory) =
              NoteAckno(NoteWindow(Acknowledge(s, k.abs, k.window_size), k.window_size), k.abs)
<1> DEFINE a == k.abs
           m == OnTheWire(k)
           next == s.abs_seqno_
           b == s.send_buffer_
<1>1. next \in Nat /\ next <= MaxLength + 2 /\ a <= MaxLength + 2 /\ a \in Nat
  <2>1. StreamOK(s)
    BY Zenon DEF IsSender
  <2>2. next \in Nat /\ next <= MaxLength + 2
    BY <2>1, SenderNumbers
  <2>3. MaxLength \in Nat
    BY EnvironmentAssumption
  <2> QED
    BY <2>2, <2>3
<1>2. m.ackno = wrap(a, ISN) /\ m.window_size = k.window_size
  <2>1. a # 0
    OBVIOUS
  <2> QED
    BY <2>1, Zenon DEF OnTheWire
<1>3. wrap(a, ISN) # NoAckno /\ unwrap(wrap(a, ISN), ISN, next) = a
  <2> HIDE DEF a, next
  <2> QED
    BY <1>1, NumbersSurvive
<1>4. s.isn_ = ISN
  BY Zenon DEF IsSender
<1>5. ~ Impossible(s, a)
  <2>1. b # << >> => EndOf(b[Len(b)]) = next
    BY Zenon DEF IsSender, IsBuffer, IsChain
  <2>2. Last(b) = b[Len(b)]
    BY Zenon DEF Last
  <2>3. b # << >> => ~ (EndOf(Last(b)) < a)
    <3>1. b # << >> => EndOf(Last(b)) = next
      BY <2>1, <2>2
    <3> HIDE DEF b
    <3> QED
      BY <1>1, <3>1
  <2> QED
    BY <2>3, Zenon DEF Impossible
<1> DEFINE raw == IF m.ackno = NoAckno THEN memory ELSE m.ackno
           abs == unwrap(raw, s.isn_, s.abs_seqno_)
<1>6. abs = a /\ m.ackno # NoAckno
  BY <1>2, <1>3, <1>4, Zenon
<1>7. receive(s, m, memory) =
         IF Impossible(s, abs) THEN s
         ELSE IF m.ackno = NoAckno /\ m.window_size = 0
           THEN [s EXCEPT !.input = SetErrorOf(@)]
         ELSE NoteAckno(NoteWindow(Acknowledge(s, abs, m.window_size), m.window_size), abs)
  BY Zenon DEF receive
<1> HIDE DEF abs, m, a
<1>8. receive(s, m, memory) =
         NoteAckno(NoteWindow(Acknowledge(s, a, m.window_size), m.window_size), a)
  BY <1>5, <1>6, <1>7, Zenon
<1> QED
  BY <1>2, <1>8, Zenon DEF a, m

(* Senders that have the same stream and numbers both agree with them.     *)
LEMMA StreamKept ==
    ASSUME NEW s, StreamOK(s), NEW t,
           \A g \in {"input", "syn_set_", "fin_set_", "abs_seqno_", "seqno_"} : t[g] = s[g]
    PROVE  StreamOK(t)
<1>1. /\ t.input = s.input
      /\ t.abs_seqno_ = s.abs_seqno_
      /\ t.seqno_ = s.seqno_
      /\ t["syn_set_"] = s["syn_set_"]
      /\ t["fin_set_"] = s["fin_set_"]
  BY Zenon
<1>2. StreamOK(s)
  OBVIOUS
<1> QED
  BY <1>1, <1>2, Zenon DEF StreamOK

(* A timeout that has not been doubled.                                    *)
LEMMA NotDoubled ==
    /\ InitialRTO \in Nat /\ InitialRTO > 0
    /\ \E k \in 0 .. 0 : InitialRTO = InitialRTO * 2 ^ k
<1>1. InitialRTO \in Nat /\ InitialRTO > 0
  BY SenderAssumption
<1>2. Cardinality(SUBSET (1 .. 0)) = 1
  <2>1. SUBSET (1 .. 0) = {{}}
    OBVIOUS
  <2> QED
    BY <2>1, FS_Singleton
<1>3. 2 ^ 0 = 1
  BY <1>2, PowersOfTwo, 0 \in Nat, Zenon
<1>4. InitialRTO = InitialRTO * 2 ^ 0
  BY <1>1, <1>3
<1> QED
  BY <1>1, <1>4

(* A window larger than any before adds what it has more.                  *)
LEMMA NoteWindowFields ==
    ASSUME NEW t, DOMAIN t = SenderFields, NEW ws
    PROVE  /\ DOMAIN NoteWindow(t, ws) = SenderFields
           /\ NoteWindow(t, ws)["receiver_full_"] \in BOOLEAN
           /\ NoteWindow(t, ws).receive_window_ =
                 (t.receive_window_ + AtLeast(0, ws - t.max_receive_window_)) % Range16
           /\ NoteWindow(t, ws).max_receive_window_ =
                 t.max_receive_window_ + AtLeast(0, ws - t.max_receive_window_)
           /\ \A g \in SenderFields \ {"receiver_full_", "receive_window_", "max_receive_window_"} :
                 NoteWindow(t, ws)[g] = t[g]
<1> DEFINE full == (ws = 0)
           w == (t.receive_window_ + AtLeast(0, ws - t.max_receive_window_)) % Range16
           l == t.max_receive_window_ + AtLeast(0, ws - t.max_receive_window_)
           u == [t EXCEPT !.receiver_full_ = full, !.receive_window_ = w,
                          !.max_receive_window_ = l]
<1>1. NoteWindow(t, ws) = u
  BY Zenon DEF NoteWindow
<1>0. full \in BOOLEAN
  OBVIOUS
<1> HIDE DEF full, w, l
<1>2. /\ DOMAIN u = SenderFields
      /\ u["receiver_full_"] \in BOOLEAN
      /\ u.receive_window_ = w
      /\ u.max_receive_window_ = l
      /\ \A g \in SenderFields \ {"receiver_full_", "receive_window_", "max_receive_window_"} :
            u[g] = t[g]
  BY <1>0 DEF SenderFields
<1> HIDE DEF u
<1> QED
  BY <1>1, <1>2, Zenon DEF full, w, l

(* New progress starts the timer and the timeout afresh.                   *)
LEMMA NoteAcknoFields ==
    ASSUME NEW u, DOMAIN u = SenderFields, NEW a
    PROVE  /\ DOMAIN NoteAckno(u, a) = SenderFields
           /\ \A g \in SenderFields \ {"timer_", "pre_abs_ackno_", "num_consecutive_retran_",
                                       "current_RTO_"} : NoteAckno(u, a)[g] = u[g]
           /\ u.pre_abs_ackno_ < a => /\ NoteAckno(u, a).timer_ = 0
                                      /\ NoteAckno(u, a).pre_abs_ackno_ = a
                                      /\ NoteAckno(u, a).num_consecutive_retran_ = 0
                                      /\ NoteAckno(u, a).current_RTO_ = InitialRTO
           /\ ~ (u.pre_abs_ackno_ < a) => NoteAckno(u, a) = u
<1> DEFINE z == [u EXCEPT !.timer_ = 0, !.pre_abs_ackno_ = a,
                          !.num_consecutive_retran_ = 0, !.current_RTO_ = InitialRTO]
<1>1. /\ u.pre_abs_ackno_ < a => NoteAckno(u, a) = z
      /\ ~ (u.pre_abs_ackno_ < a) => NoteAckno(u, a) = u
  BY Zenon DEF NoteAckno
<1>2. /\ DOMAIN z = SenderFields
      /\ \A g \in SenderFields \ {"timer_", "pre_abs_ackno_", "num_consecutive_retran_",
                                  "current_RTO_"} : z[g] = u[g]
      /\ z.timer_ = 0 /\ z.pre_abs_ackno_ = a /\ z.num_consecutive_retran_ = 0
      /\ z.current_RTO_ = InitialRTO
  BY DEF SenderFields
<1> HIDE DEF z
<1> QED
  BY <1>1, <1>2, Zenon

(* An acknowledgement leaves a sender; an outdated one leaves what is in   *)
(* flight and the timer, and takes no credit.                              *)
LEMMA ReceiveKeeps ==
    ASSUME NEW s, NEW ack \in Nat, IsSender(s, ack), ack <= s.abs_seqno_, NEW k, NEW memory,
           k.abs \in Nat, k.abs >= 1, k.abs <= s.abs_seqno_, k.window_size \in 0 .. PeerCapacity
    PROVE  /\ IsSender(receive(s, OnTheWire(k), memory), AtLeast(ack, k.abs))
           /\ receive(s, OnTheWire(k), memory).abs_seqno_ = s.abs_seqno_
           /\ receive(s, OnTheWire(k), memory).input = s.input
           /\ k.abs <= ack =>
                 /\ receive(s, OnTheWire(k), memory).send_buffer_ = s.send_buffer_
                 /\ receive(s, OnTheWire(k), memory).timer_ = s.timer_
                 /\ receive(s, OnTheWire(k), memory).current_RTO_ = s.current_RTO_
                 /\ receive(s, OnTheWire(k), memory).num_consecutive_retran_ =
                       s.num_consecutive_retran_
                 /\ s.receive_window_ <= receive(s, OnTheWire(k), memory).receive_window_
<1> DEFINE a == k.abs
           ws == k.window_size
           t == Acknowledge(s, a, ws)
           u == NoteWindow(t, ws)
           z == NoteAckno(u, a)
           next == s.abs_seqno_
<1>1. receive(s, OnTheWire(k), memory) = z
  BY ReceiveTaken, Zenon
<1>2. /\ DOMAIN s = SenderFields /\ s.isn_ = ISN /\ StreamOK(s)
      /\ s.pre_abs_ackno_ = ack /\ s.receive_window_ \in Nat
      /\ TimerOK(s, ack)
  BY Zenon DEF IsSender, WindowOK, TimerOK
<1>3. /\ next \in Nat /\ a \in Nat /\ 1 <= a /\ a <= next /\ a \in 1 .. s.abs_seqno_
      /\ PeerCapacity \in Nat /\ PeerCapacity >= 1 /\ PeerCapacity < Range16
      /\ Range16 \in Nat /\ ws \in Nat /\ ws <= PeerCapacity
  <2>1. next \in Nat
    BY <1>2, SenderNumbers
  <2> QED
    BY <2>1, EnvironmentAssumption, WindowAssumption
<1>4. PICK kept, window, largest : Released(t, s, ack, a, kept, window, largest)
  BY <1>3, AcknowledgeEffect
<1> DEFINE more == AtLeast(0, ws - largest)
<1>5. /\ DOMAIN t = SenderFields
      /\ t.send_buffer_ = kept
      /\ t.receive_window_ = window
      /\ t.max_receive_window_ = largest
      /\ \A g \in SenderFields \ {"send_buffer_", "receive_window_", "max_receive_window_"} :
            t[g] = s[g]
      /\ IsBuffer(kept, s.input, next, AtLeast(ack, a))
      /\ window \in Nat
      /\ largest \in 1 .. PeerCapacity
      /\ window + InFlight(kept, next) = largest
      /\ kept = << >> => ack < a \/ s.send_buffer_ = << >>
      /\ a <= ack => /\ kept = s.send_buffer_
                     /\ window = s.receive_window_
                     /\ largest = s.max_receive_window_
  BY <1>4, Zenon DEF Released, HasWindows
<1> HIDE DEF t, u, z, a, ws, next
<1>6. /\ more \in Nat /\ largest + more \in 1 .. PeerCapacity
      /\ (window + more) % Range16 = window + more
      /\ window + more \in Nat
      /\ (window + more) + InFlight(kept, next) = largest + more
  <2>1. more \in Nat /\ largest + more <= PeerCapacity
    BY <1>3, <1>5 DEF AtLeast
  <2>2. InFlight(kept, next) \in Nat
    BY <1>3, <1>5, FlightIsNatural
  <2> HIDE DEF more
  <2>3. window + more < Range16
    BY <1>3, <1>5, <2>1, <2>2
  <2>4. (window + more) % Range16 = window + more
    <3> DEFINE v == window + more
    <3>1. v \in Nat /\ v < Range16
      BY <1>5, <2>1, <2>3
    <3> HIDE DEF v
    <3>2. v % Range16 = v
      BY <1>3, <3>1
    <3> QED
      BY <3>2 DEF v
  <2>5. (window + more) + InFlight(kept, next) = largest + more
    BY <1>5, <2>1, <2>2
  <2> QED
    BY <1>5, <2>1, <2>4, <2>5
<1>7. /\ DOMAIN u = SenderFields
      /\ u["receiver_full_"] \in BOOLEAN
      /\ u.receive_window_ = (window + more) % Range16
      /\ u.max_receive_window_ = largest + more
      /\ \A g \in SenderFields \ {"receiver_full_", "receive_window_", "max_receive_window_"} :
            u[g] = t[g]
  <2>1. /\ DOMAIN u = SenderFields
        /\ u["receiver_full_"] \in BOOLEAN
        /\ u.receive_window_ =
              (t.receive_window_ + AtLeast(0, ws - t.max_receive_window_)) % Range16
        /\ u.max_receive_window_ =
              t.max_receive_window_ + AtLeast(0, ws - t.max_receive_window_)
        /\ \A g \in SenderFields \ {"receiver_full_", "receive_window_", "max_receive_window_"} :
              u[g] = t[g]
    <3>1. DOMAIN t = SenderFields
      BY <1>5
    <3> QED
      BY <3>1, NoteWindowFields, Zenon DEF u
  <2> QED
    BY <1>5, <2>1, Zenon
<1> HIDE DEF more
<1>8. /\ DOMAIN z = SenderFields
      /\ \A g \in SenderFields \ {"timer_", "pre_abs_ackno_", "num_consecutive_retran_",
                                  "current_RTO_"} : z[g] = u[g]
      /\ u.pre_abs_ackno_ < a => /\ z.timer_ = 0
                                 /\ z.pre_abs_ackno_ = a
                                 /\ z.num_consecutive_retran_ = 0
                                 /\ z.current_RTO_ = InitialRTO
      /\ ~ (u.pre_abs_ackno_ < a) => z = u
  BY <1>7, NoteAcknoFields, Zenon DEF z
<1>9. /\ z.send_buffer_ = kept
      /\ z.receive_window_ = window + more
      /\ z.max_receive_window_ = largest + more
      /\ z["receiver_full_"] \in BOOLEAN
      /\ z.isn_ = ISN
      /\ z.input = s.input
      /\ z.abs_seqno_ = s.abs_seqno_
      /\ \A g \in {"input", "syn_set_", "fin_set_", "abs_seqno_", "seqno_"} : z[g] = s[g]
  <2>1. /\ "send_buffer_" \in SenderFields \ {"receiver_full_", "receive_window_",
                                               "max_receive_window_"}
        /\ {"send_buffer_", "receive_window_", "max_receive_window_", "receiver_full_", "isn_",
            "input", "syn_set_", "fin_set_", "abs_seqno_", "seqno_"}
           \subseteq SenderFields \ {"timer_", "pre_abs_ackno_", "num_consecutive_retran_",
                                     "current_RTO_"}
        /\ {"isn_", "input", "syn_set_", "fin_set_", "abs_seqno_", "seqno_"}
           \subseteq SenderFields \ {"send_buffer_", "receive_window_", "max_receive_window_"}
        /\ {"isn_", "input", "syn_set_", "fin_set_", "abs_seqno_", "seqno_"}
           \subseteq SenderFields \ {"receiver_full_", "receive_window_", "max_receive_window_"}
    BY DEF SenderFields
  <2>2. \A g \in {"isn_", "input", "syn_set_", "fin_set_", "abs_seqno_", "seqno_"} : z[g] = s[g]
    BY <1>5, <1>7, <1>8, <2>1, Zenon
  <2> QED
    BY <1>2, <1>5, <1>6, <1>7, <1>8, <2>1, <2>2, Zenon
<1>10. StreamOK(z)
  BY <1>2, <1>9, StreamKept, Zenon
<1>11. IsBuffer(z.send_buffer_, z.input, z.abs_seqno_, AtLeast(ack, a))
  BY <1>5, <1>9, Zenon DEF next
<1>12. WindowOK(z, AtLeast(ack, a))
  <2>1. AtLeast(ack, a) # 0
    BY <1>3 DEF AtLeast
  <2>2. z["receiver_full_"] \in BOOLEAN
    BY <1>9, Zenon
  <2> QED
    BY <1>5, <1>6, <1>9, <2>1, <2>2, Zenon DEF WindowOK, next
<1>13. /\ u["pre_abs_ackno_"] = s["pre_abs_ackno_"]
       /\ u["timer_"] = s["timer_"]
       /\ u["current_RTO_"] = s["current_RTO_"]
       /\ u["num_consecutive_retran_"] = s["num_consecutive_retran_"]
       /\ u["syn_set_"] = s["syn_set_"]
       /\ z["syn_set_"] = s["syn_set_"]
       /\ u.send_buffer_ = kept
  <2>1. /\ {"pre_abs_ackno_", "timer_", "current_RTO_", "num_consecutive_retran_", "syn_set_"}
           \subseteq SenderFields \ {"send_buffer_", "receive_window_", "max_receive_window_"}
        /\ {"pre_abs_ackno_", "timer_", "current_RTO_", "num_consecutive_retran_", "syn_set_",
            "send_buffer_"}
           \subseteq SenderFields \ {"receiver_full_", "receive_window_", "max_receive_window_"}
    BY DEF SenderFields
  <2> QED
    BY <1>5, <1>7, <1>9, <2>1, Zenon
<1>14. CASE ack < a
  <2>1. /\ z.timer_ = 0 /\ z.pre_abs_ackno_ = a /\ z.num_consecutive_retran_ = 0
        /\ z.current_RTO_ = InitialRTO
        /\ AtLeast(ack, a) = a
        /\ ~ (a <= ack)
    <3>1. u.pre_abs_ackno_ = ack
      BY <1>2, <1>13, Zenon
    <3>2. AtLeast(ack, a) = a /\ ~ (a <= ack)
      BY <1>3, <1>14 DEF AtLeast
    <3> QED
      BY <1>8, <1>14, <3>1, <3>2, Zenon
  <2>2. 0 \in 0 .. MaxRetransmissions /\ 0 \in Nat /\ 0 < InitialRTO
    BY EnvironmentAssumption, SenderAssumption
  <2>3. TimerOK(z, AtLeast(ack, a))
    BY <2>1, <2>2, NotDoubled, Zenon DEF TimerOK
  <2>4. IsSender(z, AtLeast(ack, a))
    BY <1>8, <1>9, <1>10, <1>11, <1>12, <2>3, Zenon DEF IsSender
  <2> QED
    BY <1>1, <1>9, <2>1, <2>4, Zenon DEF a
<1>15. CASE ~ (ack < a)
  <2>1. z = u /\ AtLeast(ack, a) = ack /\ a <= ack
    <3>1. u.pre_abs_ackno_ = ack
      BY <1>2, <1>13, Zenon
    <3>2. AtLeast(ack, a) = ack /\ a <= ack
      BY <1>3, <1>15 DEF AtLeast
    <3> QED
      BY <1>8, <1>15, <3>1, <3>2, Zenon
  <2>2. kept = s.send_buffer_ /\ window = s.receive_window_
    BY <1>5, <2>1, Zenon
  <2>3. TimerOK(z, AtLeast(ack, a))
    BY <1>2, <1>13, <2>1, <2>2, Zenon DEF TimerOK
  <2>4. IsSender(z, AtLeast(ack, a))
    BY <1>8, <1>9, <1>10, <1>11, <1>12, <2>3, Zenon DEF IsSender
  <2>5. s.receive_window_ <= z.receive_window_
    BY <1>2, <1>5, <1>6, <1>9, <2>2
  <2>6. /\ z.timer_ = s.timer_ /\ z.current_RTO_ = s.current_RTO_
        /\ z.num_consecutive_retran_ = s.num_consecutive_retran_
        /\ z.send_buffer_ = s.send_buffer_
    BY <1>9, <1>13, <2>1, <2>2, Zenon
  <2> QED
    BY <1>1, <1>9, <2>4, <2>5, <2>6, Zenon DEF a
<1> QED
  BY <1>14, <1>15

(* The state of push's loop in the middle of a call by the sender s: the   *)
(* window left is within the credit, and one before the SYN.               *)
LoopOK(l, s, ack) ==
    /\ IsSender(l.sender, ack)
    /\ l.window \in Nat
    /\ l.window <= l.sender.receive_window_
    /\ ~ l.sender.syn_set_ => l.window = 1
    /\ s.abs_seqno_ <= l.sender.abs_seqno_
    /\ l.sender.input.pushed = s.input.pushed

(* m is what the sender s may transmit next: size bytes, all within window *)
IsNextMessage(m, s, window, size) ==
    /\ m \in Messages
    /\ m.seqno = wrap(s.abs_seqno_, ISN)
    /\ m.seqno = NextSeqno(s)
    /\ m.SYN <=> ~ s.syn_set_
    /\ m.payload = Bytes(s.input.popped, size)
    /\ Len(m.payload) = size
    /\ size \in Nat
    /\ size <= Len(s.input.queue)
    /\ SequenceLength(m) \in 1 .. window
    /\ SequenceLength(m) = One(~ s.syn_set_) + size + One(m.FIN)
    /\ ~ s.fin_set_
    /\ ~ s.syn_set_ => size = 0 /\ ~ m.FIN
    /\ m.FIN => s.input.closed /\ size = Len(s.input.queue)

(* The window and the number behind everything sent are small numbers.     *)
LEMMA WindowNumbers ==
    ASSUME NEW s, NEW ack, IsSender(s, ack)
    PROVE  /\ s.receive_window_ \in Nat
           /\ s.receive_window_ < Range16
           /\ s.receive_window_ < Range64
           /\ InFlight(s.send_buffer_, s.abs_seqno_) \in Nat
           /\ Range16 \in Nat /\ Range16 > 0
           /\ Range64 \in Nat /\ Range64 > 0
<1>1. /\ StreamOK(s)
      /\ IsBuffer(s.send_buffer_, s.input, s.abs_seqno_, ack)
      /\ s.receive_window_ \in Nat
      /\ s.max_receive_window_ \in 1 .. PeerCapacity
      /\ s.receive_window_ + InFlight(s.send_buffer_, s.abs_seqno_) = s.max_receive_window_
  BY Zenon DEF IsSender, WindowOK
<1>2. InFlight(s.send_buffer_, s.abs_seqno_) \in Nat
  <2>1. s.abs_seqno_ \in Nat
    BY <1>1, SenderNumbers
  <2> QED
    BY <1>1, <2>1, FlightIsNatural
<1>3. /\ Range16 \in Nat /\ Range16 > 0 /\ Range16 <= Range64 /\ Range64 \in Nat
      /\ PeerCapacity \in Nat /\ PeerCapacity < Range16
  BY EnvironmentAssumption, WindowAssumption, SenderAssumption, WidthAssumption
<1> QED
  BY <1>1, <1>2, <1>3

(* The loop of push makes such a message while it goes on.                 *)
LEMMA NextMessageIsNext ==
    ASSUME NEW l, NEW s, NEW ack \in Nat, LoopOK(l, s, ack), MoreToSend(l)
    PROVE  IsNextMessage(NextMessage(l), l.sender, l.window, PayloadSize(l))
<1> DEFINE v == l.sender
           i == v.input
           q == i.queue
           w == l.window
           syn == ~ v.syn_set_
           size == PayloadSize(l)
           fin == /\ w > One(syn) + size
                  /\ i.closed
                  /\ ~ v.fin_set_
                  /\ size = Len(q)
           data == SubSeq(q, 1, size)
           number == NextSeqno(v)
           rst == i.error
           e == [seqno |-> number, SYN |-> FALSE, payload |-> << >>, FIN |-> FALSE,
                 RST |-> rst]
           m == [e EXCEPT !.SYN = syn, !.payload = data, !.FIN = fin]
<1>1. /\ IsSender(v, ack)
      /\ w \in Nat
      /\ w <= v.receive_window_
      /\ syn => w = 1
  BY Zenon DEF LoopOK
<1>2. /\ StreamOK(v)
      /\ v.isn_ = ISN
  BY <1>1, Zenon DEF IsSender
<1>3. /\ i \in StreamOf(Nat)
      /\ q = Bytes(i.popped, Len(q))
      /\ i.popped + Len(q) = i.pushed
      /\ v.syn_set_ \in BOOLEAN
      /\ v.fin_set_ \in BOOLEAN
      /\ syn => i.popped = 0 /\ ~ v.fin_set_
      /\ v.fin_set_ => i.closed /\ q = << >>
      /\ v.abs_seqno_ = One(v.syn_set_) + i.popped + One(v.fin_set_)
      /\ v.seqno_ = IF v.syn_set_ THEN wrap(v.abs_seqno_, ISN) ELSE 0
  BY <1>2, Zenon DEF StreamOK, IsFinished
<1>4. /\ v.abs_seqno_ \in Nat /\ v.abs_seqno_ <= MaxLength + 2
      /\ i.popped \in Nat /\ i.pushed \in Nat
      /\ Len(q) \in Nat /\ q \in Seq(Nat)
      /\ i.closed \in BOOLEAN /\ i.error \in BOOLEAN
  BY <1>2, SenderNumbers
<1>5. /\ w < Range64 /\ Range64 \in Nat /\ Range64 > 0
      /\ MaxPayload \in Nat /\ MaxPayload >= 1
  BY <1>1, WindowNumbers, SenderAssumption
<1>6. NextMessage(l) = m
  BY Zenon DEF NextMessage, make_empty_message
<1>7. /\ size = AtMost((w - One(syn)) % Range64, AtMost(Len(q), MaxPayload))
      /\ MoreToSend(l) <=> \/ w > 0 /\ q # << >>
                           \/ w > 0 /\ i.closed /\ ~ v.fin_set_
                           \/ syn
  BY Zenon DEF PayloadSize, MoreToSend
<1>8. fin <=> /\ w > One(syn) + size
              /\ i.closed
              /\ ~ v.fin_set_
              /\ size = Len(q)
  OBVIOUS
<1>9. syn \in BOOLEAN /\ fin \in BOOLEAN
  OBVIOUS
<1>10. /\ m.seqno = number /\ (m.SYN <=> syn) /\ m.payload = data /\ (m.FIN <=> fin)
       /\ number \in Raw /\ rst \in BOOLEAN /\ data \in Seq(Nat) => m \in Messages
  <2> HIDE DEF syn, fin, data, number, rst
  <2>1. /\ DOMAIN e = {"seqno", "SYN", "payload", "FIN", "RST"}
        /\ e.seqno = number
        /\ number \in Raw /\ rst \in BOOLEAN => e \in Messages
    BY DEF Messages
  <2> HIDE DEF e
  <2>2. m.seqno = number /\ m["SYN"] = syn /\ m.payload = data /\ m["FIN"] = fin
    BY <2>1
  <2>3. ASSUME number \in Raw, rst \in BOOLEAN, data \in Seq(Nat)
        PROVE  m \in Messages
    BY <1>9, <2>1, <2>3 DEF Messages
  <2> HIDE DEF m
  <2> QED
    BY <2>2, <2>3, Zenon
<1>11. data = SubSeq(q, 1, size)
  OBVIOUS
<1> HIDE DEF syn, fin, data, m, e, size, w, number, rst
<1>12. One(syn) = IF syn THEN 1 ELSE 0
  BY DEF One
<1>13. w - One(syn) \in Nat /\ w - One(syn) < Range64
  BY <1>1, <1>5, <1>9, <1>12
<1>14. size = AtMost(w - One(syn), AtMost(Len(q), MaxPayload))
  <2> DEFINE d == w - One(syn)
  <2>1. d \in Nat /\ d < Range64
    BY <1>13
  <2> HIDE DEF d
  <2>2. d % Range64 = d
    BY <1>5, <2>1
  <2> QED
    BY <1>7, <2>2 DEF d
<1>15. /\ size \in Nat /\ size <= Len(q) /\ size + One(syn) <= w
       /\ syn => size = 0
       /\ w > 0 /\ Len(q) > 0 /\ ~ syn => size > 0
  <2> DEFINE d == w - One(syn)
             n == Len(q)
  <2>1. d \in Nat /\ n \in Nat /\ size = AtMost(d, AtMost(n, MaxPayload))
    BY <1>4, <1>13, <1>14
  <2>2. size \in Nat /\ size <= n /\ size <= d /\ (d > 0 /\ n > 0 => size > 0)
    <3> HIDE DEF d, n
    <3> QED
      BY <1>5, <2>1 DEF AtMost
  <2> QED
    BY <1>1, <1>9, <1>12, <2>2
<1>16. q = << >> <=> Len(q) = 0
  BY <1>4, EmptySeq
<1>17. data = Bytes(i.popped, size) /\ data \in Seq(Nat) /\ Len(data) = size
  <2> DEFINE p == i.popped
             n == Len(q)
  <2>1. p \in Nat /\ n \in Nat /\ size \in Nat /\ size <= n /\ q = Bytes(p, n)
    BY <1>3, <1>4, <1>15
  <2>2. SubSeq(Bytes(p, n), 1, size) = Bytes(p, size)
    <3> HIDE DEF p, n
    <3> QED
      BY <2>1, FrontBytes
  <2>3. data = Bytes(i.popped, size)
    BY <1>11, <2>1, <2>2, Zenon
  <2> QED
    BY <1>4, <1>15, <2>3, BytesIsSeq
<1>18. NextSeqno(v) = wrap(v.abs_seqno_, ISN) /\ wrap(v.abs_seqno_, ISN) \in Raw
  <2>1. wrap(v.abs_seqno_, ISN) \in Raw
    BY <1>4, NumbersSurvive
  <2>2. CASE v.syn_set_
    BY <1>3, <2>1, <2>2, Zenon DEF NextSeqno
  <2>3. CASE ~ v.syn_set_
    <3>1. /\ One(v.syn_set_) = 0 /\ One(v.fin_set_) = 0 /\ i.popped = 0
          /\ v.abs_seqno_ = One(v.syn_set_) + i.popped + One(v.fin_set_)
      BY <1>3, <2>3, Zenon DEF One, syn
    <3>2. v.abs_seqno_ = 0
      <4> HIDE DEF v, i
      <4> QED
        BY <3>1
    <3>3. NextSeqno(v) = ISN
      BY <1>2, <2>3, Zenon DEF NextSeqno
    <3>4. wrap(0, ISN) = ISN
      <4>1. ISN \in 0 .. Range32 - 1 /\ Range32 \in Nat
        BY EnvironmentAssumption, WidthAssumption DEF Raw
      <4> QED
        BY <4>1 DEF wrap
    <3> QED
      BY <2>1, <3>2, <3>3, <3>4, Zenon
  <2> QED
    BY <2>2, <2>3
<1>19. ~ v.fin_set_
  BY <1>3, <1>7, <1>16, Zenon DEF syn
<1>20. /\ One(fin) = IF fin THEN 1 ELSE 0
       /\ SequenceLength(m) = One(syn) + size + One(fin)
  BY <1>10, <1>17 DEF One, SequenceLength
<1>21. One(syn) + size + One(fin) \in 1 .. w
  BY <1>1, <1>4, <1>7, <1>8, <1>9, <1>12, <1>15, <1>16, <1>20
<1>22. syn => size = 0 /\ ~ fin
  BY <1>1, <1>8, <1>12, <1>15
<1>23. fin => i.closed /\ size = Len(q)
  BY <1>8
<1>24. m \in Messages
  BY <1>4, <1>10, <1>17, <1>18, Zenon DEF number, rst
<1>25. IsNextMessage(m, v, w, size)
  <2>1. Len(m.payload) = size /\ m.payload = Bytes(i.popped, size)
    BY <1>10, <1>17, Zenon
  <2>2. SequenceLength(m) \in 1 .. w /\ SequenceLength(m) = One(~ v.syn_set_) + size + One(fin)
    BY <1>20, <1>21, Zenon DEF syn
  <2>3. One(m.FIN) = One(fin)
    BY <1>10, Zenon DEF One
  <2> QED
    BY <1>10, <1>15, <1>18, <1>19, <1>22, <1>23, <1>24, <2>1, <2>2, <2>3, Zenon
       DEF IsNextMessage, syn, number
<1> QED
  BY <1>6, <1>25, Zenon DEF w, size

(* t is the sender s after it has transmitted m.                           *)
HasSent(t, s, m) ==
    /\ DOMAIN t = SenderFields
    /\ t.input = PopFrom(s.input, Len(m.payload))
    /\ t.send_buffer_ = Append(s.send_buffer_, [first |-> s.abs_seqno_, message |-> m])
    /\ t.receive_window_ = (s.receive_window_ - SequenceLength(m)) % Range16
    /\ t.seqno_ = wrap(SequenceLength(m), NextSeqno(s))
    /\ t.abs_seqno_ = s.abs_seqno_ + SequenceLength(m)
    /\ t.current_RTO_ = IF m.SYN THEN InitialRTO ELSE s.current_RTO_
    /\ t.syn_set_
    /\ t["syn_set_"] \in BOOLEAN
    /\ t.fin_set_ <=> s.fin_set_ \/ m.FIN
    /\ t["fin_set_"] \in BOOLEAN
    /\ \A g \in {"isn_", "max_receive_window_", "receiver_full_", "num_consecutive_retran_",
                 "timer_", "pre_abs_ackno_"} : t[g] = s[g]

(* What one turn of the loop of push changes.                              *)
LEMMA TurnFields ==
    ASSUME NEW l, DOMAIN l.sender = SenderFields
    PROVE  /\ HasSent(Turn(l).sender, l.sender, NextMessage(l))
           /\ Turn(l).window = (l.window - SequenceLength(NextMessage(l))) % Range16
<1> DEFINE m == NextMessage(l)
           len == SequenceLength(m)
           s == l.sender
           input == PopFrom(s.input, Len(m.payload))
           b == Append(s.send_buffer_, [first |-> s.abs_seqno_, message |-> m])
           w == (s.receive_window_ - len) % Range16
           number == wrap(len, NextSeqno(s))
           next == s.abs_seqno_ + len
           rto == IF m.SYN THEN InitialRTO ELSE s.current_RTO_
           fin == s.fin_set_ \/ m.FIN
           t == [s EXCEPT !.input = input, !.send_buffer_ = b, !.receive_window_ = w,
                          !.seqno_ = number, !.abs_seqno_ = next, !.current_RTO_ = rto,
                          !.syn_set_ = TRUE, !.fin_set_ = fin]
           loop == [sent |-> Append(l.sent, m), window |-> (l.window - len) % Range16,
                    sender |-> t]
<1>1. Turn(l) = loop
  BY Zenon DEF Turn
<1>2. loop.sender = t /\ loop.window = (l.window - len) % Range16
  <2> HIDE DEF t, len, m
  <2> QED
    OBVIOUS
<1>3. fin \in BOOLEAN /\ (fin <=> s.fin_set_ \/ m.FIN)
  OBVIOUS
<1> HIDE DEF m, len, s, input, b, w, number, next, rto, fin
<1>4. /\ DOMAIN t = SenderFields
      /\ t.input = input
      /\ t.send_buffer_ = b
      /\ t.receive_window_ = w
      /\ t.seqno_ = number
      /\ t.abs_seqno_ = next
      /\ t.current_RTO_ = rto
      /\ t["syn_set_"] = TRUE
      /\ t["fin_set_"] = fin
      /\ \A g \in {"isn_", "max_receive_window_", "receiver_full_", "num_consecutive_retran_",
                   "timer_", "pre_abs_ackno_"} : t[g] = s[g]
  <2>1. DOMAIN s = SenderFields
    BY DEF s
  <2> QED
    BY <2>1 DEF SenderFields
<1> HIDE DEF t
<1>5. HasSent(t, s, m)
  BY <1>3, <1>4, Zenon DEF HasSent, input, b, w, number, next, rto, len
<1> QED
  BY <1>1, <1>2, <1>5, Zenon DEF s, m, len

(* What remains of the outbound stream once m has been taken from it.      *)
LEMMA InputLeft ==
    ASSUME NEW s, StreamOK(s), NEW m, NEW window, NEW size, IsNextMessage(m, s, window, size),
           NEW i, i = PopFrom(s.input, Len(m.payload))
    PROVE  /\ i \in StreamOf(Nat)
           /\ i.capacity = s.input.capacity
           /\ i.pushed = s.input.pushed
           /\ i.closed = s.input.closed
           /\ i.popped = s.input.popped + size
           /\ i.queue = Bytes(s.input.popped + size, Len(s.input.queue) - size)
           /\ Len(i.queue) = Len(s.input.queue) - size
           /\ i.queue = << >> <=> size = Len(s.input.queue)
<1> DEFINE o == s.input
           q == o.queue
           n == Len(q)
           p == o.popped
           rest == n - size
<1>1. /\ o \in StreamOf(Nat) /\ p \in Nat /\ n \in Nat /\ q \in Seq(Nat) /\ q = Bytes(p, n)
  <2>1. o \in StreamOf(Nat) /\ q = Bytes(p, n)
    BY Zenon DEF StreamOK
  <2> QED
    BY <2>1, SenderNumbers
<1>2. size \in Nat /\ size <= n /\ Len(m.payload) = size
  BY Zenon DEF IsNextMessage
<1> HIDE DEF p, n
<1>3. size = AtMost(size, n) /\ rest \in Nat /\ size + rest = n
  BY <1>1, <1>2 DEF AtMost
<1> HIDE DEF rest
<1>4. IsStream(Nat, PopFrom(o, size), o.capacity, SubSeq(q, size + 1, Len(q)),
               o.pushed, o.popped + size, o.closed, o.error)
  <2>1. size = AtMost(size, Len(o.queue)) /\ o \in StreamOf(Nat) /\ size \in Nat
    BY <1>1, <1>2, <1>3 DEF n
  <2> HIDE DEF o, q
  <2> QED
    BY <2>1, PopFromFields DEF q
<1>5. i = PopFrom(o, size)
  BY <1>2, Zenon
<1> HIDE DEF o, q
<1>6. /\ i \in StreamOf(Nat)
      /\ i.capacity = o.capacity
      /\ i.queue = SubSeq(q, size + 1, n)
      /\ i.pushed = o.pushed
      /\ i.popped = p + size
      /\ i.closed = o.closed
  BY <1>4, <1>5, Zenon DEF IsStream, n, p
<1>7. SubSeq(q, size + 1, n) = Bytes(p + size, rest)
  <2>1. \A x, y \in Nat : x + y <= n => SubSeq(Bytes(p, n), x + 1, x + y) = Bytes(p + x, y)
    BY <1>1, CutBytes
  <2>2. size \in Nat /\ rest \in Nat /\ size + rest <= n
    BY <1>1, <1>2, <1>3
  <2>3. SubSeq(Bytes(p, n), size + 1, size + rest) = Bytes(p + size, rest)
    BY <2>1, <2>2, Zenon
  <2> QED
    BY <1>1, <1>3, <2>3, Zenon
<1>8. Len(i.queue) = rest /\ (i.queue = << >> <=> rest = 0)
  <2>1. p + size \in Nat
    BY <1>1, <1>2
  <2>2. /\ Len(Bytes(p + size, rest)) = rest
        /\ Bytes(p + size, rest) = << >> <=> rest = 0
    BY <1>3, <2>1, BytesIsSeq
  <2> QED
    BY <1>6, <1>7, <2>2, Zenon
<1>9. rest = 0 <=> size = n
  BY <1>1, <1>2, <1>3
<1> QED
  BY <1>6, <1>7, <1>8, <1>9, Zenon DEF o, q, n, p, rest

(* The segment x carries m, and i is left of the stream of s.              *)
IsSent(x, i, s, m, size) ==
    /\ x = [first |-> s.abs_seqno_, message |-> m]
    /\ i.closed = s.input.closed
    /\ i.pushed = s.input.pushed
    /\ i.popped = s.input.popped + size

(* The new segment carries what it should.                                 *)
LEMMA SegmentSent ==
    ASSUME NEW s, StreamOK(s), NEW m, NEW window, NEW size, IsNextMessage(m, s, window, size),
           NEW i, NEW x, IsSent(x, i, s, m, size)
    PROVE  /\ x \in Segments
           /\ x.first = s.abs_seqno_
           /\ EndOf(x) = s.abs_seqno_ + SequenceLength(m)
           /\ SequenceLength(m) \in Nat /\ SequenceLength(m) > 0
           /\ IsSegment(x, i)
           /\ s.abs_seqno_ + SequenceLength(m) = One(TRUE) + i.popped + One(m.FIN)
<1> DEFINE next == s.abs_seqno_
           len == SequenceLength(m)
           p == s.input.popped
           n == Len(s.input.queue)
<1>0. /\ x = [first |-> s.abs_seqno_, message |-> m]
      /\ i.closed = s.input.closed
      /\ i.pushed = s.input.pushed
      /\ i.popped = s.input.popped + size
  BY Zenon DEF IsSent
<1>1. /\ next \in Nat /\ p \in Nat /\ n \in Nat
  BY SenderNumbers
<1>2. /\ s.syn_set_ \in BOOLEAN
      /\ ~ s.syn_set_ => p = 0
      /\ next = One(s.syn_set_) + p + One(s.fin_set_)
      /\ p + n = s.input.pushed
  BY Zenon DEF StreamOK
<1>3. /\ m \in Messages
      /\ m.seqno = wrap(next, ISN)
      /\ m.SYN <=> ~ s.syn_set_
      /\ m.payload = Bytes(p, size)
      /\ Len(m.payload) = size
      /\ size \in Nat
      /\ size <= n
      /\ len \in 1 .. window
      /\ len = One(~ s.syn_set_) + size + One(m.FIN)
      /\ ~ s.fin_set_
      /\ ~ s.syn_set_ => size = 0 /\ ~ m.FIN
      /\ m.FIN => s.input.closed /\ size = n
  BY Zenon DEF IsNextMessage
<1>4. /\ x \in Segments /\ x.first = next /\ x.message = m
  BY <1>0, <1>1, <1>3 DEF Segments
<1>5. EndOf(x) = next + len
  BY <1>4, Zenon DEF EndOf
<1>6. len \in Nat /\ len > 0
  BY <1>3
<1>7. /\ ~ s.syn_set_ => next = 0 /\ len = 1 /\ size = 0 /\ p = 0 /\ ~ m.FIN
      /\ s.syn_set_ => next = 1 + p /\ len = size + One(m.FIN)
  <2> HIDE DEF next, len, p, n
  <2> QED
    BY <1>1, <1>2, <1>3 DEF One
<1>8. One(m.FIN) \in Nat /\ (m.FIN => One(m.FIN) = 1) /\ (~ m.FIN => One(m.FIN) = 0)
      /\ One(TRUE) = 1
  BY DEF One
<1> HIDE DEF next, len, p, n
<1>9. next + len = 1 + i.popped + One(m.FIN)
  <2>1. i.popped = p + size
    BY <1>0 DEF p
  <2> DEFINE f == One(m.FIN)
             y == i.popped
  <2>2. f \in Nat /\ y = p + size /\ size \in Nat
    BY <1>3, <1>8, <2>1
  <2>3. CASE s.syn_set_
    <3>1. next = 1 + p /\ len = size + f
      BY <1>7, <2>3
    <3> HIDE DEF f, y
    <3>2. next + len = 1 + y + f
      BY <1>1, <2>2, <3>1
    <3> QED
      BY <3>2 DEF f, y
  <2>4. CASE ~ s.syn_set_
    <3>1. next = 0 /\ len = 1 /\ size = 0 /\ p = 0 /\ f = 0
      BY <1>7, <1>8, <2>4, Zenon
    <3> HIDE DEF f, y
    <3>2. next + len = 1 + y + f
      BY <2>2, <3>1
    <3> QED
      BY <3>2 DEF f, y
  <2> QED
    BY <2>3, <2>4
<1>10. m.SYN <=> next = 0
  BY <1>1, <1>3, <1>7
<1>11. Bytes(p, size) = Bytes(AtLeast(0, next - 1), size)
  <2>1. AtLeast(0, next - 1) = p
    BY <1>1, <1>2, <1>7 DEF AtLeast
  <2> QED
    BY <2>1
<1>12. m.FIN => i.closed /\ next + len = i.pushed + 2
  <2> SUFFICES ASSUME m.FIN PROVE i.closed /\ next + len = i.pushed + 2
    OBVIOUS
  <2>1. i.popped = p + size /\ p + n = i.pushed /\ size = n
    BY <1>0, <1>2, <1>3 DEF p
  <2>2. i.closed
    BY <1>0, <1>3
  <2>3. next + len = 1 + i.popped + 1
    BY <1>8, <1>9, Zenon
  <2>4. next + len = i.pushed + 2
    <3> DEFINE y == i.popped
               z == i.pushed
    <3>1. y = p + size /\ p + n = z /\ size = n /\ next + len = 1 + y + 1
      BY <2>1, <2>3
    <3> HIDE DEF y, z
    <3>2. next + len = z + 2
      BY <1>1, <3>1
    <3> QED
      BY <3>2 DEF z
  <2> QED
    BY <2>2, <2>4
<1>13. ~ m.FIN => next + len <= i.popped + 1
  <2>1. i.popped \in Nat
    <3>1. i.popped = p + size
      BY <1>0 DEF p
    <3> QED
      BY <1>1, <1>3, <3>1
  <2> QED
    BY <1>8, <1>9, <2>1
<1>14. next = 0 => next + len = 1
  BY <1>1, <1>2, <1>7
<1>15. next < next + len
  BY <1>1, <1>6
<1>16. IsSegment(x, i)
  BY <1>3, <1>4, <1>5, <1>10, <1>11, <1>12, <1>13, <1>14, <1>15, Zenon DEF IsSegment
<1>17. next + len = One(TRUE) + i.popped + One(m.FIN)
  BY <1>8, <1>9
<1> QED
  BY <1>4, <1>5, <1>6, <1>16, <1>17, Zenon DEF next, len

(* A stream that goes on, and one that has been closed stays as long.      *)
Continues(i, j) ==
    /\ i.popped \in Nat
    /\ j.popped \in Nat
    /\ i.popped <= j.popped
    /\ i.closed => j.closed /\ j.pushed = i.pushed

(* What has been sent keeps its meaning while the stream goes on.          *)
LEMMA SegmentKept ==
    ASSUME NEW x \in Segments, NEW i, NEW j, IsSegment(x, i), Continues(i, j)
    PROVE  IsSegment(x, j)
<1>1. ~ x.message.FIN => EndOf(x) <= j.popped + 1
  <2>1. EndOf(x) \in Nat
    BY SegmentFields
  <2>2. ~ x.message.FIN => EndOf(x) <= i.popped + 1
    BY Zenon DEF IsSegment
  <2>3. i.popped \in Nat /\ j.popped \in Nat /\ i.popped <= j.popped
    BY Zenon DEF Continues
  <2> QED
    BY <2>1, <2>2, <2>3
<1>2. x.message.FIN => j.closed /\ EndOf(x) = j.pushed + 2
  BY Zenon DEF IsSegment, Continues
<1> QED
  BY <1>1, <1>2, Zenon DEF IsSegment

(* A buffer stays one when the stream goes on.                             *)
LEMMA BufferKept ==
    ASSUME NEW b, NEW i, NEW next, NEW ack, IsBuffer(b, i, next, ack), NEW j, Continues(i, j)
    PROVE  IsBuffer(b, j, next, ack)
<1>1. /\ b \in Seq(Segments)
      /\ \A k \in 1 .. Len(b) : IsSegment(b[k], i)
      /\ IsChain(b, next, ack)
  BY Zenon DEF IsBuffer
<1>2. \A k \in 1 .. Len(b) : b[k] \in Segments
  BY <1>1, ElementOfSeq
<1>3. \A k \in 1 .. Len(b) : IsSegment(b[k], j)
  BY <1>1, <1>2, SegmentKept, Zenon
<1> QED
  BY <1>1, <1>3, Zenon DEF IsBuffer

(* Before anything is sent nothing is in flight.                           *)
LEMMA NothingSent ==
    ASSUME NEW b, NEW i, NEW next, NEW ack, IsBuffer(b, i, next, ack), next = 0
    PROVE  b = << >>
<1> SUFFICES ASSUME b # << >> PROVE FALSE
  OBVIOUS
<1>1. b \in Seq(Segments) /\ EndOf(b[Len(b)]) = next
  BY Zenon DEF IsBuffer, IsChain
<1>2. Len(b) \in 1 .. Len(b) /\ 1 \in 1 .. Len(b)
  <2>1. Len(b) \in Nat /\ Len(b) # 0
    BY <1>1, EmptySeq, LenProperties
  <2> QED
    BY <2>1
<1>3. b[1].first \in Nat
  <2>1. b[1] \in Segments
    BY <1>1, <1>2, ElementOfSeq
  <2> QED
    BY <2>1, SegmentFields
<1>4. b[1].first < EndOf(b[Len(b)])
  BY <1>2, ChainGrows
<1> QED
  BY <1>1, <1>3, <1>4

(* A new segment goes behind those in flight.                              *)
LEMMA BufferGrows ==
    ASSUME NEW b, NEW i, NEW next \in Nat, NEW ack, IsBuffer(b, i, next, ack),
           NEW x \in Segments, IsSegment(x, i), x.first = next, ack <= next
    PROVE  /\ IsBuffer(Append(b, x), i, EndOf(x), ack)
           /\ InFlight(Append(b, x), EndOf(x)) = InFlight(b, next) + (EndOf(x) - next)
           /\ Append(b, x) # << >>
<1> DEFINE c == Append(b, x)
           n == Len(b)
<1>1. /\ b \in Seq(Segments)
      /\ \A k \in 1 .. n : IsSegment(b[k], i)
      /\ \A k \in 2 .. n : b[k].first = EndOf(b[k - 1])
      /\ b = << >> => ack = next
      /\ b # << >> => b[1].first <= ack /\ ack < EndOf(b[1]) /\ EndOf(b[n]) = next
  BY Zenon DEF IsBuffer, IsChain
<1>2. /\ c \in Seq(Segments) /\ c # << >> /\ Len(c) = n + 1
      /\ \A k \in 1 .. n : c[k] = b[k]
      /\ c[n + 1] = x
      /\ n \in Nat
  BY <1>1, AppendProperties, LenProperties
<1>3. b = << >> <=> n = 0
  BY <1>1, EmptySeq
<1>4. x.first < EndOf(x) /\ x.first = next
  BY Zenon DEF IsSegment
<1> HIDE DEF c, n
<1>5. \A k \in 1 .. n + 1 : IsSegment(c[k], i)
  <2>1. \A k \in 1 .. n + 1 : k \in 1 .. n \/ k = n + 1
    BY <1>2
  <2> QED
    BY <1>1, <1>2, <2>1, Zenon
<1>6. \A k \in 2 .. n + 1 : c[k].first = EndOf(c[k - 1])
  <2>1. SUFFICES ASSUME NEW k \in 2 .. n + 1 PROVE c[k].first = EndOf(c[k - 1])
    OBVIOUS
  <2>2. CASE k \in 2 .. n
    <3>1. k \in 1 .. n /\ k - 1 \in 1 .. n
      BY <1>2, <2>2
    <3> QED
      BY <1>1, <1>2, <2>2, <3>1
  <2>3. CASE k \notin 2 .. n
    <3>1. k = n + 1 /\ k - 1 = n /\ n \in 1 .. n /\ n # 0
      BY <1>2, <2>3
    <3>2. c[k] = x /\ c[k - 1] = b[n] /\ EndOf(b[n]) = next
      BY <1>1, <1>2, <1>3, <3>1
    <3> QED
      BY <1>4, <3>2
  <2> QED
    BY <2>2, <2>3
<1>7. /\ c[1].first <= ack /\ ack < EndOf(c[1])
      /\ InFlight(c, EndOf(x)) = InFlight(b, next) + (EndOf(x) - next)
  <2>0. EndOf(x) \in Nat
    BY SegmentFields
  <2>1. CASE n = 0
    <3>1. c[1] = x /\ ack = next
      BY <1>1, <1>2, <1>3, <2>1
    <3>2. InFlight(c, EndOf(x)) = EndOf(x) - next /\ InFlight(b, next) = 0
      BY <1>2, <1>3, <1>4, <2>1, <3>1, Zenon DEF InFlight
    <3> QED
      BY <1>4, <2>0, <3>1, <3>2
  <2>2. CASE n # 0
    <3>1. 1 \in 1 .. n /\ b # << >>
      BY <1>2, <1>3, <2>2
    <3>2. c[1] = b[1]
      BY <1>2, <3>1
    <3>3. b[1].first \in Nat
      <4>1. b[1] \in Segments
        BY <1>1, <3>1, ElementOfSeq DEF n
      <4> QED
        BY <4>1, SegmentFields
    <3>4. InFlight(c, EndOf(x)) = EndOf(x) - b[1].first /\ InFlight(b, next) = next - b[1].first
      BY <1>2, <3>1, <3>2, Zenon DEF InFlight
    <3>5. EndOf(x) - b[1].first = (next - b[1].first) + (EndOf(x) - next)
      BY <2>0, <3>3
    <3> QED
      BY <1>1, <3>1, <3>2, <3>4, <3>5, Zenon
  <2> QED
    BY <2>1, <2>2
<1>8. IsBuffer(c, i, EndOf(x), ack)
  <2>1. c[n + 1] = x /\ Len(c) = n + 1 /\ c # << >>
    BY <1>2
  <2>2. IsChain(c, EndOf(x), ack)
    BY <1>6, <1>7, <2>1, Zenon DEF IsChain
  <2> QED
    BY <1>2, <1>5, <2>2, Zenon DEF IsBuffer
<1> QED
  BY <1>2, <1>7, <1>8, Zenon DEF c

(* Transmitting the next message leaves a sender.                          *)
LEMMA SendKeeps ==
    ASSUME NEW s, NEW ack \in Nat, IsSender(s, ack), ack <= s.abs_seqno_,
           NEW window \in Nat, window <= s.receive_window_,
           NEW m, NEW size, IsNextMessage(m, s, window, size), NEW t, HasSent(t, s, m)
    PROVE  /\ IsSender(t, ack)
           /\ t.syn_set_
           /\ s.abs_seqno_ <= t.abs_seqno_
           /\ t.input.pushed = s.input.pushed
           /\ (window - SequenceLength(m)) % Range16 \in Nat
           /\ (window - SequenceLength(m)) % Range16 <= t.receive_window_
<1> DEFINE len == SequenceLength(m)
           i == t.input
           o == s.input
           next == s.abs_seqno_
           b == s.send_buffer_
           x == [first |-> next, message |-> m]
           rw == s.receive_window_
           f == InFlight(b, next)
<1>1. /\ DOMAIN s = SenderFields /\ s.isn_ = ISN
      /\ StreamOK(s) /\ WindowOK(s, ack) /\ TimerOK(s, ack)
      /\ IsBuffer(b, o, next, ack)
  BY Zenon DEF IsSender
<1>2. /\ next \in Nat /\ o.popped \in Nat /\ o.pushed \in Nat /\ Len(o.queue) \in Nat
  BY <1>1, SenderNumbers
<1>3. /\ size \in Nat /\ size <= Len(o.queue) /\ len \in 1 .. window
      /\ m.seqno = NextSeqno(s) /\ NextSeqno(s) = wrap(next, ISN)
      /\ m.SYN <=> ~ s.syn_set_
      /\ ~ s.fin_set_
      /\ m.FIN => o.closed /\ size = Len(o.queue)
  BY Zenon DEF IsNextMessage
<1>4. /\ DOMAIN t = SenderFields
      /\ i = PopFrom(o, Len(m.payload))
      /\ t.send_buffer_ = Append(b, x)
      /\ t.receive_window_ = (rw - len) % Range16
      /\ t.seqno_ = wrap(len, NextSeqno(s))
      /\ t.abs_seqno_ = next + len
      /\ t.current_RTO_ = IF m.SYN THEN InitialRTO ELSE s.current_RTO_
      /\ t.syn_set_ /\ t["syn_set_"] \in BOOLEAN
      /\ t.fin_set_ <=> s.fin_set_ \/ m.FIN
      /\ t["fin_set_"] \in BOOLEAN
      /\ t.isn_ = s.isn_
      /\ t.max_receive_window_ = s.max_receive_window_
      /\ t["receiver_full_"] = s["receiver_full_"]
      /\ t.num_consecutive_retran_ = s.num_consecutive_retran_
      /\ t.timer_ = s.timer_
      /\ t.pre_abs_ackno_ = s.pre_abs_ackno_
  BY Zenon DEF HasSent
<1>5. /\ i \in StreamOf(Nat)
      /\ i.capacity = o.capacity
      /\ i.pushed = o.pushed
      /\ i.closed = o.closed
      /\ i.popped = o.popped + size
      /\ i.queue = Bytes(o.popped + size, Len(o.queue) - size)
      /\ Len(i.queue) = Len(o.queue) - size
      /\ i.queue = << >> <=> size = Len(o.queue)
  <2> HIDE DEF i
  <2> QED
    BY <1>1, <1>4, InputLeft
<1>6. /\ x \in Segments
      /\ x.first = next
      /\ EndOf(x) = next + len
      /\ IsSegment(x, i)
      /\ next + len = One(TRUE) + i.popped + One(m.FIN)
  <2> HIDE DEF i, x
  <2>1. IsSent(x, i, s, m, size)
    BY <1>5, Zenon DEF IsSent, x
  <2> QED
    BY <1>1, <2>1, SegmentSent, Zenon
<1> HIDE DEF x
<1>7. Continues(o, i)
  BY <1>2, <1>3, <1>5 DEF Continues
<1>8. IsBuffer(b, i, next, ack)
  BY <1>1, <1>7, BufferKept, Zenon
<1>9. /\ IsBuffer(t.send_buffer_, i, t.abs_seqno_, ack)
      /\ InFlight(t.send_buffer_, t.abs_seqno_) = f + len
      /\ t.send_buffer_ # << >>
  <2>1. /\ IsBuffer(Append(b, x), i, EndOf(x), ack)
        /\ InFlight(Append(b, x), EndOf(x)) = InFlight(b, next) + (EndOf(x) - next)
        /\ Append(b, x) # << >>
    <3> HIDE DEF b, i, next
    <3>1. x.first = next /\ ack <= next /\ next \in Nat /\ x \in Segments /\ IsSegment(x, i)
      BY <1>2, <1>6 DEF next
    <3> QED
      BY <1>8, <3>1, BufferGrows
  <2>2. EndOf(x) - next = len
    BY <1>2, <1>3, <1>6
  <2> QED
    BY <1>4, <1>6, <2>1, <2>2, Zenon
<1> HIDE DEF len, i, o, next, b, rw, f
<1>10. StreamOK(t)
  <2>1. i.queue = Bytes(i.popped, Len(i.queue))
    BY <1>5, Zenon
  <2>2. i.popped + Len(i.queue) = i.pushed /\ Len(i.queue) <= i.capacity /\ i.pushed <= MaxLength
    <3>1. o.popped + Len(o.queue) = o.pushed /\ Len(o.queue) <= o.capacity /\ o.pushed <= MaxLength
      BY <1>1, Zenon DEF StreamOK, o
    <3>2. o.capacity \in Nat
      BY <1>1, SenderNumbers DEF o
    <3> DEFINE n == Len(o.queue)
               k == Len(i.queue)
    <3>3. /\ k = n - size /\ i.popped = o.popped + size /\ i.pushed = o.pushed
          /\ i.capacity = o.capacity
          /\ o.popped + n = o.pushed /\ n <= o.capacity /\ o.pushed <= MaxLength
          /\ n \in Nat /\ size <= n
      BY <1>2, <1>3, <1>5, <3>1
    <3> HIDE DEF n, k
    <3>4. i.popped + k = i.pushed /\ k <= i.capacity /\ i.pushed <= MaxLength
      BY <1>2, <1>3, <3>2, <3>3
    <3> QED
      BY <3>4 DEF k
  <2>3. t.fin_set_ => IsFinished(i)
    BY <1>3, <1>4, <1>5, Zenon DEF IsFinished
  <2>4. t.abs_seqno_ = One(t.syn_set_) + i.popped + One(t.fin_set_)
    <3>1. One(t.syn_set_) = One(TRUE) /\ One(t.fin_set_) = One(m.FIN)
      BY <1>3, <1>4, Zenon DEF One
    <3> QED
      BY <1>4, <1>6, <3>1, Zenon
  <2>5. t.seqno_ = wrap(t.abs_seqno_, ISN)
    <3>1. t.seqno_ = (((ISN + next) % Range32) + len) % Range32
      BY <1>3, <1>4, Zenon DEF wrap
    <3>2. Range32 \in Nat /\ Range32 > 0 /\ ISN \in Int /\ len \in Int /\ ISN + next \in Int
      BY <1>2, <1>3, WidthAssumption, EnvironmentAssumption DEF Raw
    <3>3. t.seqno_ = ((ISN + next) + len) % Range32
      BY <3>1, <3>2, RemainderOfSum
    <3>4. (ISN + next) + len = ISN + (next + len)
      BY <1>2, <3>2
    <3>5. t.seqno_ = (ISN + (next + len)) % Range32
      BY <3>3, <3>4, Zenon
    <3> QED
      BY <1>4, <3>5, Zenon DEF wrap
  <2> QED
    BY <1>4, <1>5, <2>1, <2>2, <2>3, <2>4, <2>5, Zenon DEF StreamOK, i
<1>11. /\ len \in Nat /\ len <= window /\ window \in Nat /\ window <= rw
       /\ rw \in Nat /\ rw < Range16 /\ Range16 \in Nat /\ f \in Nat
  <2>1. /\ s.receive_window_ \in Nat /\ s.receive_window_ < Range16 /\ Range16 \in Nat
        /\ InFlight(s.send_buffer_, s.abs_seqno_) \in Nat
    BY WindowNumbers
  <2> QED
    BY <1>3, <2>1 DEF rw, f, b, next
<1>12. (rw - len) % Range16 = rw - len /\ (window - len) % Range16 = window - len
  <2> DEFINE y == rw - len
             z == window - len
  <2>1. y \in Nat /\ y < Range16 /\ z \in Nat /\ z < Range16
    BY <1>11
  <2> HIDE DEF y, z
  <2>2. y % Range16 = y /\ z % Range16 = z
    BY <1>11, <2>1
  <2> QED
    BY <2>2 DEF y, z
<1>13. WindowOK(t, ack)
  <2>1. /\ s["receiver_full_"] \in BOOLEAN
        /\ s.max_receive_window_ \in 1 .. PeerCapacity
        /\ rw + f = s.max_receive_window_
        /\ ack = 0 => s.max_receive_window_ = 1 /\ s.receiver_full_
    BY <1>1, Zenon DEF WindowOK, rw, f, b, next
  <2>2. t.receive_window_ \in Nat
        /\ t.receive_window_ + InFlight(t.send_buffer_, t.abs_seqno_) = t.max_receive_window_
    <3>1. t.receive_window_ = rw - len
      BY <1>4, <1>12, Zenon
    <3>2. InFlight(t.send_buffer_, t.abs_seqno_) = f + len
      BY <1>9
    <3>3. t.max_receive_window_ = rw + f
      BY <1>4, <2>1, Zenon
    <3> QED
      BY <1>11, <3>1, <3>2, <3>3
  <2> QED
    BY <1>4, <2>1, <2>2, Zenon DEF WindowOK
<1>14. TimerOK(t, ack)
  <2>1. /\ s.pre_abs_ackno_ = ack
        /\ s.num_consecutive_retran_ \in 0 .. MaxRetransmissions
        /\ s.timer_ \in Nat
        /\ s.syn_set_ =>
              /\ \E k \in 0 .. s.num_consecutive_retran_ : s.current_RTO_ = InitialRTO * 2 ^ k
              /\ s.timer_ < s.current_RTO_
        /\ b = << >> => s.timer_ = 0 /\ s.num_consecutive_retran_ = 0
    BY <1>1, Zenon DEF TimerOK, b
  <2>2. /\ \E k \in 0 .. t.num_consecutive_retran_ : t.current_RTO_ = InitialRTO * 2 ^ k
        /\ t.timer_ < t.current_RTO_
    <3>1. CASE s.syn_set_
      <4>1. t.current_RTO_ = s.current_RTO_
        BY <1>3, <1>4, <3>1, Zenon
      <4> QED
        BY <1>4, <2>1, <3>1, <4>1, Zenon
    <3>2. CASE ~ s.syn_set_
      <4>1. t.current_RTO_ = InitialRTO
        BY <1>3, <1>4, <3>2, Zenon
      <4>2. next = 0
        <5>1. /\ next = One(s.syn_set_) + o.popped + One(s.fin_set_)
              /\ o.popped = 0 /\ One(s.syn_set_) = 0 /\ One(s.fin_set_) = 0
          BY <1>1, <3>2, Zenon DEF StreamOK, One, next, o
        <5> QED
          BY <5>1
      <4>3. b = << >>
        BY <1>1, <4>2, NothingSent, Zenon
      <4>4. t.timer_ = 0 /\ t.num_consecutive_retran_ = 0
        BY <1>4, <2>1, <4>3, Zenon
      <4>5. 0 < InitialRTO
        BY NotDoubled
      <4> QED
        BY <4>1, <4>4, <4>5, NotDoubled, Zenon
    <3> QED
      BY <3>1, <3>2
  <2> QED
    BY <1>4, <1>9, <2>1, <2>2, Zenon DEF TimerOK
<1>15. IsSender(t, ack)
  BY <1>1, <1>4, <1>9, <1>10, <1>13, <1>14, Zenon DEF IsSender, i
<1>16. s.abs_seqno_ <= t.abs_seqno_
  BY <1>2, <1>4, <1>11 DEF next
<1>17. (window - len) % Range16 \in Nat /\ (window - len) % Range16 <= t.receive_window_
  BY <1>4, <1>11, <1>12
<1> QED
  BY <1>4, <1>5, <1>15, <1>16, <1>17, Zenon DEF len, i, o

(* push starts with at most the credit, and with a window of one for SYN.  *)
LEMMA StartOK ==
    ASSUME NEW s, NEW ack \in Nat, IsSender(s, ack), ack <= s.abs_seqno_
    PROVE  LoopOK(StartLoop(s), s, ack)
<1> DEFINE w == IF s.receiver_full_ /\ s.receive_window_ > 0 THEN 1 ELSE s.receive_window_
           l == [sender |-> s, sent |-> << >>, window |-> w]
           next == s.abs_seqno_
           rw == s.receive_window_
           f == InFlight(s.send_buffer_, next)
<1>1. StartLoop(s) = l
  BY Zenon DEF StartLoop
<1>2. l.sender = s /\ l.window = w
  <2> HIDE DEF w
  <2> QED
    OBVIOUS
<1>3. /\ StreamOK(s) /\ WindowOK(s, ack)
      /\ IsBuffer(s.send_buffer_, s.input, next, ack)
  BY Zenon DEF IsSender
<1>4. /\ rw \in Nat
      /\ rw + f = s.max_receive_window_
      /\ ack = 0 => s.max_receive_window_ = 1 /\ s.receiver_full_
  BY <1>3, Zenon DEF WindowOK
<1>5. w \in Nat /\ w <= rw
  BY <1>4
<1>6. ASSUME ~ s.syn_set_ PROVE w = 1
  <2>1. next = 0
    <3>1. /\ next = One(s.syn_set_) + s.input.popped + One(s.fin_set_)
          /\ s.input.popped = 0 /\ One(s.syn_set_) = 0 /\ One(s.fin_set_) = 0
      BY <1>3, <1>6, Zenon DEF StreamOK, One
    <3> HIDE DEF next
    <3> QED
      BY <3>1
  <2>2. f = 0
    <3>1. s.send_buffer_ = << >>
      BY <1>3, <2>1, NothingSent, Zenon
    <3> QED
      BY <3>1, Zenon DEF InFlight
  <2>3. ack = 0
    BY <2>1
  <2>4. rw = 1
    <3> HIDE DEF rw, f
    <3> QED
      BY <1>4, <2>2, <2>3
  <2> QED
    BY <2>4
<1>7. next <= next
  <2>1. next \in Nat
    BY <1>3, SenderNumbers
  <2> QED
    BY <2>1
<1> HIDE DEF l, w
<1> QED
  BY <1>1, <1>2, <1>5, <1>6, <1>7, Zenon DEF LoopOK

(* A turn keeps the loop's state in order.                                 *)
LEMMA TurnKeeps ==
    ASSUME NEW l, NEW s, NEW ack \in Nat, LoopOK(l, s, ack), ack <= s.abs_seqno_,
           s.abs_seqno_ \in Nat
    PROVE  LoopOK(Turned(l), s, ack)
<1>1. CASE ~ MoreToSend(l)
  BY <1>1, Zenon DEF Turned
<1>2. CASE MoreToSend(l)
  <2> DEFINE v == l.sender
             m == NextMessage(l)
             size == PayloadSize(l)
             t == Turn(l).sender
             w == Turn(l).window
  <2>1. /\ IsSender(v, ack) /\ l.window \in Nat /\ l.window <= v.receive_window_
        /\ s.abs_seqno_ <= v.abs_seqno_ /\ v.input.pushed = s.input.pushed
    BY Zenon DEF LoopOK
  <2>2. DOMAIN v = SenderFields /\ StreamOK(v)
    BY <2>1, Zenon DEF IsSender
  <2>3. v.abs_seqno_ \in Nat
    BY <2>2, SenderNumbers
  <2>4. ack <= v.abs_seqno_
    BY <2>1, <2>3
  <2>5. IsNextMessage(m, v, l.window, size)
    BY <1>2, NextMessageIsNext, Zenon
  <2>6. HasSent(t, v, m) /\ w = (l.window - SequenceLength(m)) % Range16
    BY <2>2, TurnFields, Zenon
  <2> HIDE DEF v, m, size, t, w
  <2>7. /\ IsSender(t, ack)
        /\ t.syn_set_
        /\ v.abs_seqno_ <= t.abs_seqno_
        /\ t.input.pushed = v.input.pushed
        /\ (l.window - SequenceLength(m)) % Range16 \in Nat
        /\ (l.window - SequenceLength(m)) % Range16 <= t.receive_window_
    BY <2>1, <2>4, <2>5, <2>6, SendKeeps
  <2>8. t.abs_seqno_ \in Nat
    <3>1. StreamOK(t)
      BY <2>7, Zenon DEF IsSender
    <3> QED
      BY <3>1, SenderNumbers
  <2>9. s.abs_seqno_ <= t.abs_seqno_
    BY <2>1, <2>3, <2>7, <2>8
  <2>10. Turned(l) = Turn(l)
    BY <1>2, Zenon DEF Turned
  <2> QED
    BY <2>1, <2>6, <2>7, <2>9, <2>10, Zenon DEF LoopOK, t, w
<1> QED
  BY <1>1, <1>2

(* push leaves a sender, that may have sent more of the same stream.       *)
LEMMA PushKeeps ==
    ASSUME NEW s, NEW ack \in Nat, IsSender(s, ack), ack <= s.abs_seqno_
    PROVE  /\ IsSender(push(s).sender, ack)
           /\ s.abs_seqno_ <= push(s).sender.abs_seqno_
           /\ push(s).sender.input.pushed = s.input.pushed
<1> DEFINE L == Range16
<1>1. L \in Nat /\ L = Range16
  BY WindowAssumption
<1> HIDE DEF L
<1>2. PICK f : /\ f[0] = StartLoop(s)
               /\ \A m \in 0 .. L - 1 : f[m + 1] = Turned(f[m])
               /\ push(s) = f[L]
  BY <1>1, PushRun
<1>3. s.abs_seqno_ \in Nat
  <2>1. StreamOK(s)
    BY Zenon DEF IsSender
  <2> QED
    BY <2>1, SenderNumbers
<1> DEFINE T == {m \in Nat : m <= L => LoopOK(f[m], s, ack)}
<1>4. 0 \in T
  <2>1. LoopOK(f[0], s, ack)
    BY <1>2, StartOK, Zenon
  <2> QED
    BY <2>1
<1>5. ASSUME NEW m \in T PROVE m + 1 \in T
  <2>0. m \in Nat /\ (m <= L => LoopOK(f[m], s, ack))
    OBVIOUS
  <2> HIDE DEF T
  <2>1. ASSUME m + 1 <= L PROVE LoopOK(f[m + 1], s, ack)
    <3>1. m \in 0 .. L - 1 /\ m <= L
      BY <1>1, <2>0, <2>1
    <3>2. f[m + 1] = Turned(f[m]) /\ LoopOK(f[m], s, ack)
      BY <1>2, <2>0, <3>1
    <3>3. LoopOK(Turned(f[m]), s, ack)
      BY <1>3, <3>2, TurnKeeps, Zenon
    <3> QED
      BY <3>2, <3>3, Zenon
  <2> QED
    BY <2>0, <2>1 DEF T
<1>6. T = Nat
  <2> HIDE DEF T
  <2>1. T \in SUBSET Nat
    BY DEF T
  <2> QED
    BY <1>4, <1>5, <2>1, AllNumbers
<1>7. LoopOK(f[L], s, ack)
  <2>1. L \in T
    <3> HIDE DEF T
    <3> QED
      BY <1>1, <1>6
  <2> QED
    BY <1>1, <2>1
<1> QED
  BY <1>2, <1>7, Zenon DEF LoopOK

(* A sender with another timer is a sender if the timer is in order.       *)
LEMMA TimerReplaced ==
    ASSUME NEW s, NEW ack, IsSender(s, ack), NEW t, DOMAIN t = SenderFields,
           \A g \in SenderFields \ {"timer_", "num_consecutive_retran_", "current_RTO_"} :
              t[g] = s[g],
           TimerOK(t, ack)
    PROVE  /\ IsSender(t, ack)
           /\ t.abs_seqno_ = s.abs_seqno_
           /\ t.input = s.input
<1> DEFINE F == {"input", "isn_", "send_buffer_", "abs_seqno_", "seqno_", "receive_window_",
                 "max_receive_window_", "receiver_full_", "syn_set_", "fin_set_"}
<1>1. F \subseteq SenderFields \ {"timer_", "num_consecutive_retran_", "current_RTO_"}
  BY DEF SenderFields
<1>2. \A g \in F : t[g] = s[g]
  <2> HIDE DEF F
  <2> QED
    BY <1>1
<1>3. /\ t.input = s.input
      /\ t.isn_ = s.isn_
      /\ t.send_buffer_ = s.send_buffer_
      /\ t.abs_seqno_ = s.abs_seqno_
      /\ t.receive_window_ = s.receive_window_
      /\ t.max_receive_window_ = s.max_receive_window_
      /\ t["receiver_full_"] = s["receiver_full_"]
  BY <1>2, Zenon
<1>4. /\ s.isn_ = ISN /\ StreamOK(s) /\ WindowOK(s, ack)
      /\ IsBuffer(s.send_buffer_, s.input, s.abs_seqno_, ack)
  BY Zenon DEF IsSender
<1>5. StreamOK(t)
  BY <1>2, <1>4, StreamKept, Zenon
<1>6. WindowOK(t, ack)
  BY <1>3, <1>4, Zenon DEF WindowOK
<1> QED
  BY <1>3, <1>4, <1>5, <1>6, Zenon DEF IsSender

(* A timeout that has been doubled k times is a positive number, and fits. *)
LEMMA DoubledTimeout ==
    ASSUME NEW k \in 0 .. MaxRetransmissions
    PROVE  /\ InitialRTO * 2 ^ k \in Nat
           /\ InitialRTO * 2 ^ k > 0
           /\ InitialRTO * 2 ^ k < Range64
           /\ 2 * (InitialRTO * 2 ^ k) = InitialRTO * 2 ^ (k + 1)
<1> DEFINE n == MaxRetransmissions
           p == 2 ^ k
           q == 2 ^ n
           r == 2 ^ (k + 1)
<1>1. k \in Nat /\ n \in Nat /\ InitialRTO \in Nat /\ InitialRTO > 0 /\ k \in 0 .. n
  BY EnvironmentAssumption, SenderAssumption
<1>2. InitialRTO * q < Range64 /\ Range64 \in Nat
  BY EnvironmentAssumption, WidthAssumption
<1>3. p \in Nat /\ p > 0 /\ r = 2 * p
  BY <1>1, PowersOfTwo
<1>4. q \in Nat /\ q > 0
  BY <1>1, PowersOfTwo
<1>5. p <= q
  <2> HIDE DEF n
  <2> QED
    BY <1>1, PowersGrow
<1> HIDE DEF p, q, r
<1>6. InitialRTO * p \in Nat /\ InitialRTO * q \in Nat /\ InitialRTO * p > 0
  BY <1>1, <1>3, <1>4
<1>7. InitialRTO * p <= InitialRTO * q
  <2>1. q = p + (q - p) /\ q - p \in Nat
    BY <1>3, <1>4, <1>5
  <2> DEFINE d == q - p
  <2>2. d \in Nat /\ q = p + d
    BY <2>1
  <2> HIDE DEF d
  <2>3. InitialRTO * q = InitialRTO * p + InitialRTO * d /\ InitialRTO * d \in Nat
    BY <1>1, <1>3, <2>2
  <2> QED
    BY <1>6, <2>3
<1>8. 2 * (InitialRTO * p) = InitialRTO * r
  BY <1>1, <1>3
<1> QED
  BY <1>2, <1>6, <1>7, <1>8 DEF p, q, r, n

(* Time that passes leaves a sender.                                       *)
LEMMA TickKeeps ==
    ASSUME NEW s, NEW ack, IsSender(s, ack), NEW ms \in Nat,
           s.num_consecutive_retran_ < MaxRetransmissions
    PROVE  /\ IsSender(tick(s, ms).sender, ack)
           /\ tick(s, ms).sender.abs_seqno_ = s.abs_seqno_
           /\ tick(s, ms).sender.input = s.input
<1> DEFINE elapsed == (s.timer_ + ms) % Range64
           b == s.send_buffer_
           num == s.num_consecutive_retran_
           rto == s.current_RTO_
           t0 == [s EXCEPT !.timer_ = 0]
           t1 == [s EXCEPT !.timer_ = elapsed]
<1>1. DOMAIN s = SenderFields /\ TimerOK(s, ack) /\ StreamOK(s)
      /\ IsBuffer(b, s.input, s.abs_seqno_, ack)
  BY Zenon DEF IsSender
<1>2. /\ s.pre_abs_ackno_ = ack
      /\ num \in 0 .. MaxRetransmissions
      /\ s.timer_ \in Nat
      /\ s.syn_set_ =>
            /\ \E k \in 0 .. num : rto = InitialRTO * 2 ^ k
            /\ s.timer_ < rto
      /\ b = << >> =>
            /\ s.timer_ = 0
            /\ num = 0
            /\ s.syn_set_ => rto = InitialRTO
  BY <1>1, Zenon DEF TimerOK
<1>3. /\ MaxRetransmissions \in Nat /\ Range64 \in Nat /\ Range64 > 0
      /\ num \in Nat /\ num < MaxRetransmissions
  BY <1>2, EnvironmentAssumption, WidthAssumption
<1>4. elapsed \in Nat
  BY <1>2, <1>3
<1>5. ASSUME NEW time \in Nat, s.syn_set_ => time < rto, b = << >> => time = 0
      PROVE  /\ IsSender([s EXCEPT !.timer_ = time], ack)
             /\ [s EXCEPT !.timer_ = time].abs_seqno_ = s.abs_seqno_
             /\ [s EXCEPT !.timer_ = time].input = s.input
  <2> DEFINE t == [s EXCEPT !.timer_ = time]
  <2>1. /\ DOMAIN t = SenderFields
        /\ t.timer_ = time
        /\ \A g \in SenderFields \ {"timer_"} : t[g] = s[g]
    BY <1>1 DEF SenderFields
  <2> HIDE DEF t
  <2>2. /\ \A g \in SenderFields \ {"timer_", "num_consecutive_retran_", "current_RTO_"} :
              t[g] = s[g]
        /\ t.pre_abs_ackno_ = s.pre_abs_ackno_
        /\ t.num_consecutive_retran_ = num
        /\ t.current_RTO_ = rto
        /\ t["syn_set_"] = s["syn_set_"]
        /\ t.send_buffer_ = b
    BY <2>1, Zenon DEF SenderFields
  <2>3. TimerOK(t, ack)
    BY <1>2, <1>5, <2>1, <2>2, Zenon DEF TimerOK
  <2> QED
    BY <2>1, <2>2, <2>3, TimerReplaced, Zenon DEF t
<1>6. CASE b = << >>
  <2>1. tick(s, ms).sender = t0
    <3> DEFINE none == << >>
    <3>1. tick(s, ms) = [sent |-> none, sender |-> t0]
      BY <1>6, Zenon DEF tick
    <3>2. [sent |-> none, sender |-> t0].sender = t0
      <4> HIDE DEF t0, none
      <4> QED
        OBVIOUS
    <3> QED
      BY <3>1, <3>2, Zenon
  <2>2. 0 \in Nat /\ (s.syn_set_ => 0 < rto)
    <3>1. s.syn_set_ => s.timer_ = 0 /\ s.timer_ < rto
      BY <1>2, <1>6, Zenon
    <3> QED
      BY <3>1, Zenon
  <2> QED
    BY <1>5, <2>1, <2>2, Zenon
<1>7. CASE b # << >> /\ ~ (elapsed >= rto)
  <2>1. tick(s, ms).sender = t1
    <3> DEFINE none == << >>
    <3>1. tick(s, ms) = [sent |-> none, sender |-> t1]
      BY <1>7, Zenon DEF tick
    <3>2. [sent |-> none, sender |-> t1].sender = t1
      <4> HIDE DEF t1, none
      <4> QED
        OBVIOUS
    <3> QED
      BY <3>1, <3>2, Zenon
  <2>2. s.syn_set_ => elapsed < rto
    <3> SUFFICES ASSUME s.syn_set_ PROVE elapsed < rto
      OBVIOUS
    <3>1. PICK k \in 0 .. num : rto = InitialRTO * 2 ^ k
      BY <1>2, Zenon
    <3>2. k \in 0 .. MaxRetransmissions
      BY <1>3
    <3>3. rto \in Nat
      BY <3>1, <3>2, DoubledTimeout, Zenon
    <3> HIDE DEF rto, elapsed
    <3> QED
      BY <1>4, <1>7, <3>3
  <2> HIDE DEF elapsed, b, rto
  <2> QED
    BY <1>4, <1>5, <1>7, <2>1, <2>2, Zenon
<1>8. CASE b # << >> /\ elapsed >= rto
  <2> DEFINE oldest == Head(b).message
             backoff == ~ s.receiver_full_ \/ oldest.SYN
             rto1 == IF backoff THEN (2 * rto) % Range64 ELSE rto
             num1 == num + 1
             t == [s EXCEPT !.num_consecutive_retran_ = num1, !.current_RTO_ = rto1,
                            !.timer_ = 0]
  <2>1. tick(s, ms).sender = t
    <3> DEFINE again == << oldest >>
    <3>1. tick(s, ms) = [sent |-> again, sender |-> t]
      BY <1>8, Zenon DEF tick, Retransmit
    <3>2. [sent |-> again, sender |-> t].sender = t
      <4> HIDE DEF t, again
      <4> QED
        OBVIOUS
    <3> QED
      BY <3>1, <3>2, Zenon
  <2>2. s.syn_set_ => \E k \in 0 .. num1 : rto1 = InitialRTO * 2 ^ k /\ 0 < rto1
    <3> SUFFICES ASSUME s.syn_set_
                 PROVE  \E k \in 0 .. num1 : rto1 = InitialRTO * 2 ^ k /\ 0 < rto1
      OBVIOUS
    <3>1. PICK k \in 0 .. num : rto = InitialRTO * 2 ^ k
      BY <1>2, Zenon
    <3>2. /\ k \in 0 .. MaxRetransmissions /\ k + 1 \in 0 .. MaxRetransmissions
          /\ k \in 0 .. num1 /\ k + 1 \in 0 .. num1
      BY <1>3
    <3>3. CASE backoff
      <4> DEFINE more == InitialRTO * 2 ^ (k + 1)
      <4>1. 2 * rto = more
        BY <3>1, <3>2, DoubledTimeout, Zenon
      <4>2. more \in Nat /\ more < Range64 /\ more > 0
        <5> DEFINE j == k + 1
        <5>1. j \in 0 .. MaxRetransmissions
          BY <3>2
        <5> HIDE DEF j
        <5>2. /\ InitialRTO * 2 ^ j \in Nat /\ InitialRTO * 2 ^ j < Range64
              /\ InitialRTO * 2 ^ j > 0
          BY <5>1, DoubledTimeout
        <5> QED
          BY <5>2, Zenon DEF j
      <4> HIDE DEF more
      <4>3. more % Range64 = more /\ 0 < more
        BY <1>3, <4>2
      <4>4. rto1 = more
        BY <3>3, <4>1, <4>3, Zenon
      <4> QED
        BY <3>2, <4>3, <4>4, Zenon DEF more
    <3>4. CASE ~ backoff
      <4>1. rto1 = rto
        BY <3>4, Zenon
      <4>2. rto \in Nat /\ rto > 0
        BY <3>1, <3>2, DoubledTimeout, Zenon
      <4>3. 0 < rto
        <5> HIDE DEF rto
        <5> QED
          BY <4>2
      <4> HIDE DEF rto1
      <4> QED
        BY <3>1, <3>2, <4>1, <4>3, Zenon
    <3> QED
      BY <3>3, <3>4
  <2>3. num1 \in 0 .. MaxRetransmissions
    BY <1>3
  <2> HIDE DEF rto1, num1
  <2>4. /\ DOMAIN t = SenderFields
        /\ t.timer_ = 0
        /\ t.num_consecutive_retran_ = num1
        /\ t.current_RTO_ = rto1
        /\ \A g \in SenderFields \ {"timer_", "num_consecutive_retran_", "current_RTO_"} :
              t[g] = s[g]
    BY <1>1 DEF SenderFields
  <2> HIDE DEF t
  <2>5. /\ t.pre_abs_ackno_ = s.pre_abs_ackno_
        /\ t["syn_set_"] = s["syn_set_"]
        /\ t.send_buffer_ = b
    BY <2>4, Zenon DEF SenderFields
  <2>6. TimerOK(t, ack)
    BY <1>2, <1>8, <2>2, <2>3, <2>4, <2>5, 0 \in Nat, Zenon DEF TimerOK
  <2>7. /\ DOMAIN t = SenderFields
        /\ \A g \in SenderFields \ {"timer_", "num_consecutive_retran_", "current_RTO_"} :
              t[g] = s[g]
    BY <2>4, Zenon
  <2>8. IsSender(t, ack) /\ t.abs_seqno_ = s.abs_seqno_ /\ t.input = s.input
    BY <2>6, <2>7, TimerReplaced, Zenon
  <2> QED
    BY <2>1, <2>8, Zenon
<1> QED
  BY <1>6, <1>7, <1>8

(* The outbound stream j is i with bytes added, or marked.                 *)
GoesOn(i, j) ==
    /\ j \in StreamOf(Nat)
    /\ j.queue = Bytes(j.popped, Len(j.queue))
    /\ j.popped + Len(j.queue) = j.pushed
    /\ Len(j.queue) <= j.capacity
    /\ j.pushed <= MaxLength
    /\ j.popped = i.popped
    /\ i.closed => j.closed /\ j.pushed = i.pushed /\ j.queue = i.queue

(* A sender whose application goes on with the stream is a sender.         *)
LEMMA InputReplaced ==
    ASSUME NEW s, NEW ack, IsSender(s, ack), NEW i, GoesOn(s.input, i)
    PROVE  /\ IsSender([s EXCEPT !.input = i], ack)
           /\ [s EXCEPT !.input = i].abs_seqno_ = s.abs_seqno_
           /\ [s EXCEPT !.input = i].input = i
<1> DEFINE t == [s EXCEPT !.input = i]
           o == s.input
<1>1. /\ DOMAIN s = SenderFields /\ s.isn_ = ISN /\ StreamOK(s) /\ WindowOK(s, ack)
      /\ TimerOK(s, ack)
      /\ IsBuffer(s.send_buffer_, o, s.abs_seqno_, ack)
  BY Zenon DEF IsSender
<1>2. /\ DOMAIN t = SenderFields
      /\ t.input = i
      /\ \A g \in SenderFields \ {"input"} : t[g] = s[g]
  BY <1>1 DEF SenderFields
<1> HIDE DEF t
<1>3. /\ t.isn_ = s.isn_
      /\ t.send_buffer_ = s.send_buffer_
      /\ t.abs_seqno_ = s.abs_seqno_
      /\ t.seqno_ = s.seqno_
      /\ t.receive_window_ = s.receive_window_
      /\ t.max_receive_window_ = s.max_receive_window_
      /\ t["receiver_full_"] = s["receiver_full_"]
      /\ t.num_consecutive_retran_ = s.num_consecutive_retran_
      /\ t.current_RTO_ = s.current_RTO_
      /\ t.timer_ = s.timer_
      /\ t.pre_abs_ackno_ = s.pre_abs_ackno_
      /\ t["syn_set_"] = s["syn_set_"]
      /\ t["fin_set_"] = s["fin_set_"]
  BY <1>2, Zenon DEF SenderFields
<1>4. /\ o.popped \in Nat
      /\ o.closed \in BOOLEAN
  BY <1>1, SenderNumbers
<1>5. Continues(o, i)
  <2>1. i.popped = o.popped /\ (o.closed => i.closed /\ i.pushed = o.pushed)
    BY Zenon DEF GoesOn
  <2>2. o.popped <= i.popped
    BY <1>4, <2>1
  <2> QED
    BY <1>4, <2>1, <2>2, Zenon DEF Continues
<1>6. IsBuffer(s.send_buffer_, i, s.abs_seqno_, ack)
  BY <1>1, <1>5, BufferKept, Zenon
<1>7. StreamOK(t)
  <2>1. s.fin_set_ => IsFinished(i)
    BY <1>1, Zenon DEF StreamOK, IsFinished, GoesOn
  <2>2. i.popped = o.popped
    BY Zenon DEF GoesOn
  <2>3. /\ s.syn_set_ \in BOOLEAN
        /\ s.fin_set_ \in BOOLEAN
        /\ ~ s.syn_set_ => i.popped = 0 /\ ~ s.fin_set_
        /\ s.abs_seqno_ = One(s.syn_set_) + i.popped + One(s.fin_set_)
        /\ s.seqno_ = IF s.syn_set_ THEN wrap(s.abs_seqno_, ISN) ELSE 0
    BY <1>1, <2>2, Zenon DEF StreamOK
  <2> QED
    BY <1>2, <1>3, <2>1, <2>3, Zenon DEF StreamOK, GoesOn
<1>8. WindowOK(t, ack)
  BY <1>1, <1>3, Zenon DEF WindowOK
<1>9. TimerOK(t, ack)
  BY <1>1, <1>3, Zenon DEF TimerOK
<1>10. IsSender(t, ack)
  BY <1>1, <1>2, <1>3, <1>6, <1>7, <1>8, <1>9, Zenon DEF IsSender
<1> QED
  BY <1>2, <1>3, <1>10, Zenon DEF t

(* Closing the stream, or marking it, goes on with it.                     *)
LEMMA FlagsGoOn ==
    ASSUME NEW s, StreamOK(s)
    PROVE  /\ GoesOn(s.input, CloseOf(s.input))
           /\ CloseOf(s.input).pushed = s.input.pushed
           /\ GoesOn(s.input, SetErrorOf(s.input))
           /\ SetErrorOf(s.input).pushed = s.input.pushed
<1> DEFINE i == s.input
           c == CloseOf(i)
           e == SetErrorOf(i)
<1>1. /\ i \in StreamOf(Nat)
      /\ i.queue = Bytes(i.popped, Len(i.queue))
      /\ i.popped + Len(i.queue) = i.pushed
      /\ Len(i.queue) <= i.capacity
      /\ i.pushed <= MaxLength
  BY Zenon DEF StreamOK
<1> HIDE DEF i, c, e
<1>2. /\ IsStream(Nat, c, i.capacity, i.queue, i.pushed, i.popped, TRUE, i.error)
      /\ IsStream(Nat, e, i.capacity, i.queue, i.pushed, i.popped, i.closed, TRUE)
  BY <1>1, FlagFields, Zenon DEF c, e
<1>3. GoesOn(i, c) /\ c.pushed = i.pushed
  BY <1>1, <1>2, Zenon DEF IsStream, GoesOn
<1>4. GoesOn(i, e) /\ e.pushed = i.pushed
  BY <1>1, <1>2, Zenon DEF IsStream, GoesOn
<1> QED
  BY <1>3, <1>4, Zenon DEF c, e, i

(* So does writing the next bytes of it, as many as fit.                   *)
LEMMA WriteGoesOn ==
    ASSUME NEW s, StreamOK(s), ~ s.input.closed, NEW size \in Nat,
           s.input.pushed + size <= MaxLength
    PROVE  /\ GoesOn(s.input, PushTo(s.input, Substring(s.input.pushed, size)))
           /\ s.input.pushed <= PushTo(s.input, Substring(s.input.pushed, size)).pushed
<1> DEFINE i == s.input
           q == i.queue
           p == i.popped
           k == Len(q)
           data == Bytes(i.pushed, size)
           j == PushTo(i, data)
           n == AtMost(i.capacity - k, size)
<1>1. /\ i \in StreamOf(Nat)
      /\ q = Bytes(p, k)
      /\ p + k = i.pushed
      /\ k <= i.capacity
      /\ i.pushed <= MaxLength
  BY Zenon DEF StreamOK
<1>2. p \in Nat /\ i.pushed \in Nat /\ i.capacity \in Nat /\ k \in Nat /\ MaxLength \in Nat
  BY SenderNumbers, EnvironmentAssumption
<1>3. Substring(i.pushed, size) = data
  BY Zenon DEF Substring, Bytes
<1>4. data \in Seq(Nat) /\ Len(data) = size
  <2> HIDE DEF i
  <2> QED
    BY <1>2, BytesIsSeq
<1>5. n \in Nat /\ n <= size /\ k + n <= i.capacity
  BY <1>1, <1>2 DEF AtMost
<1>6. IsStream(Nat, j, i.capacity, q \o SubSeq(data, 1, n), i.pushed + n, p, i.closed, i.error)
  <2>1. n = AtMost(i.capacity - Len(i.queue), Len(data))
    BY <1>4, Zenon
  <2>2. Len(i.queue) <= i.capacity
    BY <1>1
  <2> HIDE DEF i, data, n
  <2>3. IsStream(Nat, PushTo(i, data), i.capacity, i.queue \o SubSeq(data, 1, n),
                 i.pushed + n, i.popped, i.closed, i.error)
    BY <1>1, <1>4, <2>1, <2>2, PushToFields, Zenon
  <2> QED
    BY <2>3, Zenon
<1>7. q \o SubSeq(data, 1, n) = Bytes(p, k + n)
  <2>1. SubSeq(data, 1, n) = Bytes(i.pushed, n)
    <3> HIDE DEF i, n
    <3> QED
      BY <1>2, <1>5, FrontBytes
  <2>2. Bytes(p, k) \o Bytes(p + k, n) = Bytes(p, k + n)
    <3> HIDE DEF p, k, n
    <3> QED
      BY <1>2, <1>5, JoinBytes
  <2> QED
    BY <1>1, <2>1, <2>2, Zenon
<1> HIDE DEF n, data, j
<1>8. /\ j \in StreamOf(Nat)
      /\ j.capacity = i.capacity
      /\ j.queue = Bytes(p, k + n)
      /\ j.pushed = i.pushed + n
      /\ j.popped = p
      /\ j.closed <=> i.closed
  BY <1>6, <1>7, Zenon DEF IsStream
<1>9. Len(j.queue) = k + n
  <2>1. k + n \in Nat
    BY <1>2, <1>5
  <2>2. Len(Bytes(p, k + n)) = k + n
    <3> HIDE DEF p, k
    <3> QED
      BY <1>2, <2>1, BytesIsSeq
  <2> QED
    BY <1>8, <2>2, Zenon
<1> HIDE DEF q, p, k, i
<1>10. GoesOn(i, j)
  <2>1. /\ j.popped + Len(j.queue) = j.pushed /\ Len(j.queue) <= j.capacity
        /\ j.pushed <= MaxLength
    <3>1. i.pushed + size <= MaxLength
      BY DEF i
    <3>2. p + (k + n) = i.pushed + n /\ k + n <= i.capacity /\ i.pushed + n <= MaxLength
      BY <1>1, <1>2, <1>5, <3>1
    <3> QED
      BY <1>8, <1>9, <3>2, Zenon
  <2>2. j.queue = Bytes(j.popped, Len(j.queue))
    BY <1>8, <1>9, Zenon
  <2>3. ~ i.closed
    BY DEF i
  <2> QED
    BY <1>8, <2>1, <2>2, <2>3, Zenon DEF GoesOn, p
<1>11. i.pushed <= j.pushed
  BY <1>2, <1>5, <1>8
<1> QED
  BY <1>3, <1>10, <1>11, Zenon DEF i, j

(* The bytes of a stream of that many bytes in front of the number n.      *)
Before(n, pushed) == AtLeast(0, AtMost(n - 1, pushed))

(* More numbers hold no fewer bytes.                                       *)
LEMMA BeforeGrows ==
    ASSUME NEW m \in Nat, NEW n \in Nat, m <= n, NEW pushed \in Nat
    PROVE  Before(m, pushed) \in Nat /\ Before(m, pushed) <= Before(n, pushed)
BY DEF Before, AtLeast, AtMost

(* A stream that is written to does not change what is in front of what    *)
(* has been sent.                                                          *)
LEMMA BeforeStays ==
    ASSUME NEW n \in Nat, NEW i \in Nat, NEW j \in Nat, i <= j, n <= i + 1
    PROVE  Before(n, i) = Before(n, j)
BY DEF Before, AtLeast, AtMost

(* The state, part by part.                                                *)
LEMMA StateFacts ==
    IInv => /\ StreamOK(sender) /\ DOMAIN sender = SenderFields
            /\ sender.abs_seqno_ \in Nat /\ sender.abs_seqno_ <= MaxLength + 2
            /\ sender.input.pushed \in Nat
            /\ acked \in Nat /\ rcvd \in Nat /\ acked <= rcvd /\ rcvd <= sender.abs_seqno_
            /\ acked <= sender.abs_seqno_
            /\ Before(rcvd, sender.input.pushed) \in Nat
            /\ BytesBefore(rcvd) = Before(rcvd, sender.input.pushed)
            /\ ~ sender.input.closed => sender.abs_seqno_ <= sender.input.pushed + 1
<1> SUFFICES ASSUME IInv
             PROVE  /\ StreamOK(sender) /\ DOMAIN sender = SenderFields
                    /\ sender.abs_seqno_ \in Nat /\ sender.abs_seqno_ <= MaxLength + 2
                    /\ sender.input.pushed \in Nat
                    /\ acked \in Nat /\ rcvd \in Nat /\ acked <= rcvd
                    /\ rcvd <= sender.abs_seqno_
                    /\ acked <= sender.abs_seqno_
                    /\ Before(rcvd, sender.input.pushed) \in Nat
                    /\ BytesBefore(rcvd) = Before(rcvd, sender.input.pushed)
                    /\ ~ sender.input.closed => sender.abs_seqno_ <= sender.input.pushed + 1
  OBVIOUS
<1>1. StreamOK(sender) /\ DOMAIN sender = SenderFields
  BY Zenon DEF IInv, IsSender
<1>2. /\ sender.abs_seqno_ \in Nat /\ sender.abs_seqno_ <= MaxLength + 2
      /\ sender.input.popped \in Nat /\ sender.input.pushed \in Nat
      /\ sender.input.popped <= sender.input.pushed
  BY <1>1, SenderNumbers
<1>3. rcvd \in 0 .. sender.abs_seqno_ /\ acked \in 0 .. rcvd
  BY Zenon DEF IInv, PeerOK
<1>4. acked \in Nat /\ rcvd \in Nat /\ acked <= rcvd /\ rcvd <= sender.abs_seqno_
      /\ acked <= sender.abs_seqno_
  BY <1>2, <1>3
<1>5. Before(rcvd, sender.input.pushed) \in Nat
  <2>1. rcvd <= rcvd
    BY <1>4
  <2> QED
    BY <1>2, <1>4, <2>1, BeforeGrows
<1>6. BytesBefore(rcvd) = Before(rcvd, sender.input.pushed)
  BY Zenon DEF BytesBefore, Before
<1>7. ASSUME ~ sender.input.closed
      PROVE  sender.abs_seqno_ <= sender.input.pushed + 1
  <2>1. /\ sender.abs_seqno_ =
              One(sender.syn_set_) + sender.input.popped + One(sender.fin_set_)
        /\ One(sender.fin_set_) = 0
    BY <1>1, <1>7, Zenon DEF StreamOK, IsFinished, One
  <2>2. One(sender.syn_set_) \in 0 .. 1
    BY DEF One
  <2> QED
    BY <1>2, <2>1, <2>2
<1> QED
  BY <1>1, <1>2, <1>4, <1>5, <1>6, <1>7, Zenon

(* Steps of the sender leave the peer's state in order.                    *)
LEMMA PeerKept ==
    ASSUME IInv, UNCHANGED <<rcvd, room, acks>>, acked' \in 0 .. rcvd,
           sender'.abs_seqno_ \in Nat, sender.abs_seqno_ <= sender'.abs_seqno_,
           sender'.input.pushed \in Nat,
           \/ sender'.input.pushed = sender.input.pushed
           \/ ~ sender.input.closed /\ sender.input.pushed <= sender'.input.pushed
    PROVE  PeerOK'
<1>1. /\ rcvd \in 0 .. sender.abs_seqno_
      /\ room \in BytesBefore(rcvd) .. BytesBefore(rcvd) + PeerCapacity
      /\ \A ack \in acks : /\ ack.abs \in 0 .. rcvd
                           /\ ack.window_size \in 0 .. PeerCapacity
  BY Zenon DEF IInv, PeerOK
<1>2. BytesBefore(rcvd)' = BytesBefore(rcvd)
  <2>1. BytesBefore(rcvd)' = Before(rcvd, sender'.input.pushed)
    BY Zenon DEF BytesBefore, Before
  <2>2. BytesBefore(rcvd) = Before(rcvd, sender.input.pushed)
    BY Zenon DEF BytesBefore, Before
  <2>3. Before(rcvd, sender.input.pushed) = Before(rcvd, sender'.input.pushed)
    <3>1. CASE sender'.input.pushed = sender.input.pushed
      BY <3>1, Zenon
    <3>2. CASE ~ sender.input.closed /\ sender.input.pushed <= sender'.input.pushed
      <4> DEFINE a == sender.input.pushed
                 b == sender'.input.pushed
      <4>1. a \in Nat /\ b \in Nat /\ a <= b /\ rcvd \in Nat /\ rcvd <= a + 1
        BY <3>2, StateFacts
      <4> HIDE DEF a, b
      <4>2. Before(rcvd, a) = Before(rcvd, b)
        BY <4>1, BeforeStays
      <4> QED
        BY <4>2, Zenon DEF a, b
    <3> QED
      BY <3>1, <3>2
  <2> QED
    BY <2>1, <2>2, <2>3, Zenon
<1>3. rcvd \in 0 .. sender'.abs_seqno_
  BY <1>1, StateFacts
<1> QED
  BY <1>1, <1>2, <1>3, Zenon DEF PeerOK

(* A new sender, field by field.                                           *)
LEMMA NewSenderFields ==
    /\ DOMAIN NewSender(Capacity, ISN) = SenderFields
    /\ NewSender(Capacity, ISN).input = NewStream(Capacity)
    /\ NewSender(Capacity, ISN).isn_ = ISN
    /\ NewSender(Capacity, ISN).send_buffer_ = << >>
    /\ NewSender(Capacity, ISN).abs_seqno_ = 0
    /\ NewSender(Capacity, ISN).seqno_ = 0
    /\ NewSender(Capacity, ISN).receive_window_ = 1
    /\ NewSender(Capacity, ISN).max_receive_window_ = 1
    /\ NewSender(Capacity, ISN)["receiver_full_"] = TRUE
    /\ NewSender(Capacity, ISN).num_consecutive_retran_ = 0
    /\ NewSender(Capacity, ISN).timer_ = 0
    /\ NewSender(Capacity, ISN).pre_abs_ackno_ = 0
    /\ NewSender(Capacity, ISN)["syn_set_"] = FALSE
    /\ NewSender(Capacity, ISN)["fin_set_"] = FALSE
BY DEF NewSender, SenderFields

(* The invariant holds of the initial state.                               *)
LEMMA InitIInv == Init => IInv
<1> SUFFICES ASSUME Init PROVE IInv
  OBVIOUS
<1> DEFINE s == NewSender(Capacity, ISN)
           i == NewStream(Capacity)
<1>1. /\ sender = s /\ rcvd = 0 /\ room \in 0 .. PeerCapacity
      /\ acks = {AckOf(0, room)} /\ acked = 0
  BY Zenon DEF Init
<1>2. /\ DOMAIN s = SenderFields
      /\ s.input = i
      /\ s.isn_ = ISN
      /\ s.send_buffer_ = << >>
      /\ s.abs_seqno_ = 0
      /\ s.seqno_ = 0
      /\ s.receive_window_ = 1
      /\ s.max_receive_window_ = 1
      /\ s["receiver_full_"] = TRUE
      /\ s.num_consecutive_retran_ = 0
      /\ s.timer_ = 0
      /\ s.pre_abs_ackno_ = 0
      /\ s["syn_set_"] = FALSE
      /\ s["fin_set_"] = FALSE
  BY NewSenderFields, Zenon
<1>3. /\ Capacity \in Nat /\ PeerCapacity \in Nat /\ 1 \in 1 .. PeerCapacity /\ MaxLength \in Nat
      /\ 0 \in 0 .. MaxRetransmissions
  BY EnvironmentAssumption
<1>4. /\ i \in StreamOf(Nat) /\ i.queue = << >> /\ i.pushed = 0 /\ i.popped = 0
      /\ i.capacity = Capacity
  BY <1>3 DEF NewStream, StreamOf
<1> HIDE DEF s, i
<1>5. StreamOK(s)
  <2>1. Bytes(0, 0) = << >> /\ Len(<< >>) = 0
    BY BytesIsSeq
  <2>2. i.queue = Bytes(i.popped, Len(i.queue))
    BY <1>4, <2>1, Zenon
  <2>3. i.popped + Len(i.queue) = i.pushed /\ Len(i.queue) <= i.capacity /\ i.pushed <= MaxLength
    BY <1>3, <1>4, <2>1
  <2>4. s.abs_seqno_ = One(s.syn_set_) + i.popped + One(s.fin_set_)
    <3>1. One(s.syn_set_) = 0 /\ One(s.fin_set_) = 0
      BY <1>2, Zenon DEF One
    <3> QED
      BY <1>2, <1>4, <3>1
  <2> QED
    BY <1>2, <1>4, <2>2, <2>3, <2>4, Zenon DEF StreamOK
<1>6. IsBuffer(s.send_buffer_, s.input, s.abs_seqno_, 0)
  <2>1. << >> \in Seq(Segments) /\ Len(<< >>) = 0
    OBVIOUS
  <2>2. \A k \in 1 .. 0 : FALSE
    OBVIOUS
  <2>3. \A k \in 2 .. 0 : FALSE
    OBVIOUS
  <2> QED
    BY <1>2, <2>1, <2>2, <2>3, Zenon DEF IsBuffer, IsChain
<1>7. WindowOK(s, 0)
  <2>1. 1 + 0 = 1 /\ 1 \in Nat
    OBVIOUS
  <2> QED
    BY <1>2, <1>3, <2>1, Zenon DEF WindowOK, InFlight
<1>8. TimerOK(s, 0)
  <2>1. 0 \in Nat
    OBVIOUS
  <2> QED
    BY <1>2, <1>3, <2>1, Zenon DEF TimerOK
<1>9. IsSender(sender, acked)
  BY <1>1, <1>2, <1>5, <1>6, <1>7, <1>8, Zenon DEF IsSender, s
<1>10. BytesBefore(0) = 0
  <2>1. sender.input.pushed = 0
    BY <1>1, <1>2, <1>4, Zenon
  <2> QED
    BY <2>1 DEF BytesBefore, AtLeast, AtMost
<1>11. \A ack \in acks : ack.abs \in 0 .. rcvd /\ ack.window_size \in 0 .. PeerCapacity
  <2>1. AckOf(0, room).abs = 0 /\ AckOf(0, room).window_size = room
    BY <1>1, <1>3, <1>10 DEF AckOf, Window
  <2> QED
    BY <1>1, <2>1
<1>12. PeerOK
  BY <1>1, <1>2, <1>3, <1>10, <1>11 DEF PeerOK, s
<1> QED
  BY <1>9, <1>12 DEF IInv

(* What the peer expects and announces after it took in what was sent.     *)
LEMMA PeerReceivesKeeps ==
    ASSUME IInv, NEW n \in rcvd + 1 .. sender.abs_seqno_, PeerReceives(n)
    PROVE  IInv'
<1>1. /\ UNCHANGED <<sender, room, acked>> /\ rcvd' = n /\ acks' = acks \cup {AckOf(n, room)}
      /\ BytesBefore(n) <= room
  BY Zenon DEF PeerReceives
<1>2. /\ room \in BytesBefore(rcvd) .. BytesBefore(rcvd) + PeerCapacity
      /\ \A ack \in acks : /\ ack.abs \in 0 .. rcvd
                           /\ ack.window_size \in 0 .. PeerCapacity
  BY Zenon DEF IInv, PeerOK
<1> DEFINE p == sender.input.pushed
           low == BytesBefore(rcvd)
           high == BytesBefore(n)
           k == AckOf(n, room)
<1>3. /\ sender.abs_seqno_ \in Nat /\ rcvd \in Nat /\ acked \in Nat /\ acked <= rcvd
      /\ low = Before(rcvd, p) /\ p \in Nat /\ PeerCapacity \in Nat
  BY StateFacts, EnvironmentAssumption
<1>4. n \in Nat /\ n > 0 /\ rcvd <= n /\ n <= sender.abs_seqno_
  BY <1>3
<1>5. high = Before(n, p)
  BY Zenon DEF BytesBefore, Before
<1>6. low \in Nat /\ high \in Nat /\ low <= high
  <2> HIDE DEF p, low, high
  <2>1. Before(rcvd, p) \in Nat /\ Before(rcvd, p) <= Before(n, p)
    BY <1>3, <1>4, BeforeGrows
  <2>2. n <= n
    BY <1>4
  <2>3. Before(n, p) \in Nat
    BY <1>3, <1>4, <2>2, BeforeGrows
  <2> QED
    BY <1>3, <1>5, <2>1, <2>3, Zenon
<1>7. k.abs = n /\ k.window_size = room - high
  BY DEF AckOf, Window
<1> HIDE DEF p, low, high, k
<1>8. room \in Nat /\ room \in high .. high + PeerCapacity
  <2>1. room \in low .. low + PeerCapacity /\ high <= room
    BY <1>1, <1>2, Zenon DEF low, high
  <2> QED
    BY <1>3, <1>6, <2>1
<1>9. k.abs \in 0 .. n /\ k.window_size \in 0 .. PeerCapacity
  BY <1>3, <1>4, <1>6, <1>7, <1>8
<1>10. \A ack \in acks' : /\ ack.abs \in 0 .. n
                          /\ ack.window_size \in 0 .. PeerCapacity
  <2>1. ASSUME NEW ack \in acks
        PROVE  ack.abs \in 0 .. n /\ ack.window_size \in 0 .. PeerCapacity
    <3>1. ack.abs \in 0 .. rcvd /\ ack.window_size \in 0 .. PeerCapacity
      BY <1>2, Zenon
    <3> QED
      BY <1>3, <1>4, <3>1
  <2>2. acks' = acks \cup {k}
    BY <1>1, Zenon DEF k
  <2> QED
    BY <1>9, <2>1, <2>2, Zenon
<1>11. PeerOK'
  <2>1. n \in 0 .. sender.abs_seqno_ /\ acked \in 0 .. n
    BY <1>3, <1>4
  <2>2. BytesBefore(rcvd)' = high
    BY <1>1, Zenon DEF BytesBefore, high
  <2> QED
    BY <1>1, <1>8, <1>10, <2>1, <2>2, Zenon DEF PeerOK
<1>12. IsSender(sender, acked)'
  BY <1>1, Zenon DEF IInv
<1> QED
  BY <1>11, <1>12, Zenon DEF IInv

(* The same when its application has read some bytes.                      *)
LEMMA PeerOpensKeeps == IInv /\ PeerOpens => IInv'
<1> SUFFICES ASSUME IInv, PeerOpens PROVE IInv'
  OBVIOUS
<1> DEFINE low == BytesBefore(rcvd)
           k == AckOf(rcvd, room + 1)
<1>1. /\ UNCHANGED <<sender, rcvd, acked>> /\ room' = room + 1 /\ acks' = acks \cup {k}
      /\ room < low + PeerCapacity
  BY Zenon DEF PeerOpens
<1>2. /\ rcvd \in 0 .. sender.abs_seqno_ /\ acked \in 0 .. rcvd
      /\ room \in low .. low + PeerCapacity
      /\ \A ack \in acks : /\ ack.abs \in 0 .. rcvd
                           /\ ack.window_size \in 0 .. PeerCapacity
  BY Zenon DEF IInv, PeerOK
<1>3. rcvd \in Nat /\ low \in Nat /\ PeerCapacity \in Nat
  BY StateFacts, EnvironmentAssumption
<1>4. k.abs = rcvd /\ k.window_size = (room + 1) - low
  BY DEF AckOf, Window
<1>5. low' = low
  BY <1>1, Zenon DEF BytesBefore
<1> HIDE DEF low, k
<1>6. room + 1 \in low .. low + PeerCapacity
  BY <1>1, <1>2, <1>3
<1>7. k.abs \in 0 .. rcvd /\ k.window_size \in 0 .. PeerCapacity
  BY <1>2, <1>3, <1>4, <1>6
<1>8. PeerOK'
  <2>1. \A ack \in acks' : ack.abs \in 0 .. rcvd /\ ack.window_size \in 0 .. PeerCapacity
    BY <1>1, <1>2, <1>7, Zenon
  <2>2. BytesBefore(rcvd)' = low
    BY <1>5, Zenon DEF low
  <2> QED
    BY <1>1, <1>2, <1>6, <2>1, <2>2, Zenon DEF PeerOK
<1>9. IsSender(sender, acked)'
  BY <1>1, Zenon DEF IInv
<1> QED
  BY <1>8, <1>9, Zenon DEF IInv

(* What an acknowledgement that the peer sent finds and leaves.            *)
LEMMA ReceiveEffect ==
    ASSUME IInv, NEW ack \in acks, ack.abs > 0, Receive(ack, 0)
    PROVE  /\ IsSender(sender, acked)'
           /\ sender'.abs_seqno_ = sender.abs_seqno_
           /\ sender'.input = sender.input
           /\ acked' \in 0 .. rcvd
           /\ ack.abs <= acked =>
                 /\ sender'.send_buffer_ = sender.send_buffer_
                 /\ sender'.timer_ = sender.timer_
                 /\ sender'.current_RTO_ = sender.current_RTO_
                 /\ sender'.num_consecutive_retran_ = sender.num_consecutive_retran_
                 /\ sender.receive_window_ <= sender'.receive_window_
<1>1. acked' = AtLeast(acked, ack.abs) /\ sender' = receive(sender, OnTheWire(ack), 0)
  BY Zenon DEF Receive
<1>2. ack.abs \in 0 .. rcvd /\ ack.window_size \in 0 .. PeerCapacity
  BY Zenon DEF IInv, PeerOK
<1>3. /\ ack.abs \in Nat /\ ack.abs >= 1 /\ ack.abs <= sender.abs_seqno_ /\ ack.abs <= rcvd
      /\ acked \in Nat /\ acked <= sender.abs_seqno_ /\ acked <= rcvd /\ rcvd \in Nat
  BY <1>2, StateFacts
<1>4. IsSender(sender, acked)
  BY Zenon DEF IInv
<1> DEFINE t == receive(sender, OnTheWire(ack), 0)
<1>5. /\ IsSender(t, AtLeast(acked, ack.abs))
      /\ t.abs_seqno_ = sender.abs_seqno_
      /\ t.input = sender.input
      /\ ack.abs <= acked =>
            /\ t.send_buffer_ = sender.send_buffer_
            /\ t.timer_ = sender.timer_
            /\ t.current_RTO_ = sender.current_RTO_
            /\ t.num_consecutive_retran_ = sender.num_consecutive_retran_
            /\ sender.receive_window_ <= t.receive_window_
  BY <1>2, <1>3, <1>4, ReceiveKeeps, Zenon
<1>6. AtLeast(acked, ack.abs) \in 0 .. rcvd
  BY <1>3 DEF AtLeast
<1> HIDE DEF t
<1>7. sender' = t
  BY <1>1, Zenon DEF t
<1> QED
  BY <1>1, <1>5, <1>6, <1>7, Zenon

(* The sender's own steps change what the peer is about only by sending.   *)
LEMMA OwnStepKeeps ==
    ASSUME IInv, UNCHANGED <<rcvd, room, acks, acked>>,
           IsSender(sender', acked), sender.abs_seqno_ <= sender'.abs_seqno_,
           \/ sender'.input.pushed = sender.input.pushed
           \/ ~ sender.input.closed /\ sender.input.pushed <= sender'.input.pushed
    PROVE  IInv'
<1>1. StreamOK(sender')
  BY Zenon DEF IsSender
<1>2. sender'.abs_seqno_ \in Nat /\ sender'.input.pushed \in Nat
  BY <1>1, SenderNumbers, Zenon
<1>3. acked' \in 0 .. rcvd
  BY Zenon DEF IInv, PeerOK
<1>4. PeerOK'
  BY <1>2, <1>3, PeerKept, Zenon
<1>5. IsSender(sender, acked)'
  BY Zenon
<1> QED
  BY <1>4, <1>5, Zenon DEF IInv

(* Every step keeps the invariant.                                         *)
LEMMA NextIInv == IInv /\ [Next]_vars => IInv'
<1> SUFFICES ASSUME IInv, [Next]_vars PROVE IInv'
  OBVIOUS
<1>1. /\ StreamOK(sender) /\ IsSender(sender, acked) /\ sender.abs_seqno_ \in Nat
      /\ acked \in Nat /\ acked <= sender.abs_seqno_
      /\ sender.abs_seqno_ <= sender.abs_seqno_
  <2>1. IsSender(sender, acked)
    BY Zenon DEF IInv
  <2> QED
    BY <2>1, StateFacts
<1> DEFINE i == sender.input
<1>2. ASSUME NEW size \in 1 .. MaxLength, Write(size) PROVE IInv'
  <2> DEFINE j == PushTo(i, Substring(i.pushed, size))
  <2>1. /\ ~ i.closed /\ i.pushed + size <= MaxLength
        /\ sender' = [sender EXCEPT !.input = j]
        /\ UNCHANGED <<rcvd, room, acks, acked>>
    BY <1>2, Zenon DEF Write
  <2>2. size \in Nat
    BY EnvironmentAssumption
  <2>3. GoesOn(i, j) /\ i.pushed <= j.pushed
    BY <1>1, <2>1, <2>2, WriteGoesOn, Zenon
  <2> HIDE DEF j
  <2>4. IsSender(sender', acked) /\ sender'.abs_seqno_ = sender.abs_seqno_ /\ sender'.input = j
    BY <1>1, <2>1, <2>3, InputReplaced, Zenon
  <2>5. /\ IsSender(sender', acked) /\ sender.abs_seqno_ <= sender'.abs_seqno_
        /\ ~ sender.input.closed /\ sender.input.pushed <= sender'.input.pushed
    BY <1>1, <2>1, <2>3, <2>4, Zenon
  <2> QED
    BY <2>1, <2>5, OwnStepKeeps, Zenon
<1>3. CASE Close
  <2> DEFINE j == CloseOf(i)
  <2>1. sender' = [sender EXCEPT !.input = j] /\ UNCHANGED <<rcvd, room, acks, acked>>
    BY <1>3, Zenon DEF Close
  <2>2. GoesOn(i, j) /\ j.pushed = i.pushed
    BY <1>1, FlagsGoOn, Zenon
  <2> HIDE DEF j
  <2>3. IsSender(sender', acked) /\ sender'.abs_seqno_ = sender.abs_seqno_ /\ sender'.input = j
    BY <1>1, <2>1, <2>2, InputReplaced, Zenon
  <2>4. /\ IsSender(sender', acked) /\ sender.abs_seqno_ <= sender'.abs_seqno_
        /\ sender'.input.pushed = sender.input.pushed
    BY <1>1, <2>2, <2>3, Zenon
  <2> QED
    BY <2>1, <2>4, OwnStepKeeps, Zenon
<1>4. CASE SetError
  <2> DEFINE j == SetErrorOf(i)
  <2>1. sender' = [sender EXCEPT !.input = j] /\ UNCHANGED <<rcvd, room, acks, acked>>
    BY <1>4, Zenon DEF SetError
  <2>2. GoesOn(i, j) /\ j.pushed = i.pushed
    BY <1>1, FlagsGoOn, Zenon
  <2> HIDE DEF j
  <2>3. IsSender(sender', acked) /\ sender'.abs_seqno_ = sender.abs_seqno_ /\ sender'.input = j
    BY <1>1, <2>1, <2>2, InputReplaced, Zenon
  <2>4. /\ IsSender(sender', acked) /\ sender.abs_seqno_ <= sender'.abs_seqno_
        /\ sender'.input.pushed = sender.input.pushed
    BY <1>1, <2>2, <2>3, Zenon
  <2> QED
    BY <2>1, <2>4, OwnStepKeeps, Zenon
<1>5. CASE Push
  <2>1. sender' = push(sender).sender /\ UNCHANGED <<rcvd, room, acks, acked>>
    BY <1>5, Zenon DEF Push
  <2>2. /\ IsSender(sender', acked) /\ sender.abs_seqno_ <= sender'.abs_seqno_
        /\ sender'.input.pushed = sender.input.pushed
    BY <1>1, <2>1, PushKeeps, Zenon
  <2> QED
    BY <2>1, <2>2, OwnStepKeeps, Zenon
<1>6. ASSUME NEW ms \in 1 .. MaxTick, Tick(ms) PROVE IInv'
  <2>1. /\ sender.num_consecutive_retran_ < MaxRetransmissions
        /\ sender' = tick(sender, ms).sender /\ UNCHANGED <<rcvd, room, acks, acked>>
    BY <1>6, Zenon DEF Tick
  <2>2. ms \in Nat
    BY EnvironmentAssumption
  <2>3. /\ IsSender(sender', acked) /\ sender'.abs_seqno_ = sender.abs_seqno_
        /\ sender'.input = sender.input
    BY <1>1, <2>1, <2>2, TickKeeps, Zenon
  <2>4. /\ IsSender(sender', acked) /\ sender.abs_seqno_ <= sender'.abs_seqno_
        /\ sender'.input.pushed = sender.input.pushed
    BY <1>1, <2>3, Zenon
  <2> QED
    BY <2>1, <2>4, OwnStepKeeps, Zenon
<1>7. ASSUME NEW ack \in acks, ack.abs > 0, Receive(ack, 0) PROVE IInv'
  <2>1. UNCHANGED <<rcvd, room, acks>>
    BY <1>7, Zenon DEF Receive
  <2>2. /\ IsSender(sender, acked)' /\ acked' \in 0 .. rcvd
        /\ sender'.abs_seqno_ = sender.abs_seqno_ /\ sender'.input = sender.input
    BY <1>7, ReceiveEffect, Zenon
  <2>3. /\ sender'.abs_seqno_ \in Nat /\ sender.abs_seqno_ <= sender'.abs_seqno_
        /\ sender'.input.pushed \in Nat /\ sender'.input.pushed = sender.input.pushed
    BY <1>1, <2>2, StateFacts, Zenon
  <2>4. PeerOK'
    BY <2>1, <2>2, <2>3, PeerKept, Zenon
  <2> QED
    BY <2>2, <2>4, Zenon DEF IInv
<1>8. ASSUME NEW n \in rcvd + 1 .. sender.abs_seqno_, PeerReceives(n) PROVE IInv'
  BY <1>8, PeerReceivesKeeps, Zenon
<1>9. CASE PeerOpens
  BY <1>9, PeerOpensKeeps, Zenon
<1>10. CASE UNCHANGED vars
  <2>1. UNCHANGED <<sender, rcvd, room, acks, acked>>
    BY <1>10, Zenon DEF vars
  <2> QED
    BY <2>1, Zenon DEF IInv, PeerOK, BytesBefore
<1> QED
  BY <1>2, <1>3, <1>4, <1>5, <1>6, <1>7, <1>8, <1>9, <1>10, Zenon DEF Next

(* Whatever the writer, the clock, the network and the peer do, the sender *)
(* is in a state that IInv describes.                                      *)
THEOREM Invariance == Spec => []IInv
BY InitIInv, NextIInv, PTL DEF Spec

-----------------------------------------------------------------------------
(* A segment with n bytes, a SYN and a FIN or not, takes the numbers from  *)
(* first to end - 1 of a stream with pushed bytes, popped of them sent.    *)
Spans(first, end, n, syn, fin, popped, pushed) ==
    /\ {first, end, n, popped, pushed} \subseteq Nat
    /\ {syn, fin} \subseteq BOOLEAN
    /\ popped <= pushed
    /\ end = first + One(syn) + n + One(fin)
    /\ first < end
    /\ syn <=> first = 0
    /\ first = 0 => end = 1
    /\ fin => end = pushed + 2
    /\ ~ fin => end <= popped + 1

(* The bytes of a segment lie where its numbers say.                       *)
LEMMA BytesOfSegment ==
    ASSUME NEW first, NEW end, NEW n, NEW syn, NEW fin, NEW popped, NEW pushed,
           Spans(first, end, n, syn, fin, popped, pushed)
    PROVE  /\ Before(first, pushed) = AtLeast(0, first - 1)
           /\ Before(end, pushed) - Before(first, pushed) = n
           /\ fin <=> end = pushed + 2
<1>1. /\ first \in Nat /\ end \in Nat /\ n \in Nat /\ popped \in Nat /\ pushed \in Nat
      /\ syn \in BOOLEAN /\ fin \in BOOLEAN
  BY DEF Spans
<1>2. /\ popped <= pushed /\ end = first + One(syn) + n + One(fin) /\ first < end
      /\ first = 0 => end = 1
  BY Zenon DEF Spans
<1>3. (syn <=> first = 0) /\ (fin => end = pushed + 2) /\ (~ fin => end <= popped + 1)
  BY Zenon DEF Spans
<1>4. One(syn) \in Nat /\ One(fin) \in Nat
  BY DEF One
<1>5. CASE syn
  <2>1. One(syn) = 1 /\ first = 0
    BY <1>3, <1>5, Zenon DEF One
  <2>2. end = 1 /\ n = 0 /\ One(fin) = 0
    BY <1>1, <1>4, <1>2, <2>1
  <2>3. ~ fin
    BY <2>2 DEF One
  <2>4. /\ Before(first, pushed) = AtLeast(0, first - 1)
        /\ Before(end, pushed) - Before(first, pushed) = n
        /\ end # pushed + 2
    BY <1>1, <2>1, <2>2 DEF Before, AtLeast, AtMost
  <2> QED
    BY <2>3, <2>4, Zenon
<1>6. CASE ~ syn
  <2>1. One(syn) = 0 /\ first # 0
    BY <1>3, <1>6, Zenon DEF One
  <2>2. CASE fin
    <3>1. One(fin) = 1 /\ end = pushed + 2
      BY <1>3, <2>2, Zenon DEF One
    <3>2. end = first + n + 1
      BY <1>1, <1>2, <2>1, <3>1
    <3>3. /\ Before(first, pushed) = AtLeast(0, first - 1)
          /\ Before(end, pushed) - Before(first, pushed) = n
      BY <1>1, <2>1, <3>1, <3>2 DEF Before, AtLeast, AtMost
    <3> QED
      BY <2>2, <3>1, <3>3, Zenon
  <2>3. CASE ~ fin
    <3>1. One(fin) = 0 /\ end <= popped + 1
      BY <1>3, <2>3, Zenon DEF One
    <3>2. end = first + n /\ end <= pushed + 1 /\ end # pushed + 2
      BY <1>1, <1>2, <2>1, <3>1
    <3>3. /\ Before(first, pushed) = AtLeast(0, first - 1)
          /\ Before(end, pushed) - Before(first, pushed) = n
      BY <1>1, <2>1, <3>2 DEF Before, AtLeast, AtMost
    <3> QED
      BY <2>3, <3>2, <3>3, Zenon
  <2> QED
    BY <2>2, <2>3
<1> QED
  BY <1>5, <1>6

(* A message and a record of the fields that Original gives.               *)
LEMMA FieldByField ==
    ASSUME NEW m, NEW number, NEW syn, NEW bytes, NEW fin,
           m.seqno = number, m.SYN = syn, m.payload = bytes, m.FIN = fin,
           NEW r, r = [seqno |-> number, SYN |-> syn, payload |-> bytes, FIN |-> fin]
    PROVE  \A field \in DOMAIN r : m[field] = r[field]
OBVIOUS

(* A segment in the buffer holds the original message.                     *)
LEMMA SegmentIsOriginal ==
    ASSUME IInv, NEW x \in Segments, IsSegment(x, sender.input)
    PROVE  \A field \in DOMAIN Original(x.first, EndOf(x)) :
              x.message[field] = Original(x.first, EndOf(x))[field]
<1> DEFINE m == x.message
           first == x.first
           end == EndOf(x)
           pushed == sender.input.pushed
           popped == sender.input.popped
           n == Len(m.payload)
           syn == first = 0
           fin == end = pushed + 2
           bytes == Substring(BytesBefore(first), BytesBefore(end) - BytesBefore(first))
           r == Original(first, end)
<1>1. /\ first \in Nat /\ m.SYN \in BOOLEAN /\ m.FIN \in BOOLEAN /\ n \in Nat
      /\ end = first + SequenceLength(m)
      /\ SequenceLength(m) = One(m.SYN) + n + One(m.FIN)
  BY SegmentFields, Zenon
<1>2. /\ m.seqno = wrap(first, ISN)
      /\ m.SYN <=> first = 0
      /\ m.payload = Bytes(AtLeast(0, first - 1), n)
      /\ first < end
      /\ first = 0 => end = 1
      /\ m.FIN => end = pushed + 2
      /\ ~ m.FIN => end <= popped + 1
  BY Zenon DEF IsSegment
<1>3. popped \in Nat /\ pushed \in Nat /\ popped <= pushed
  <2>1. StreamOK(sender)
    BY StateFacts
  <2> QED
    BY <2>1, SenderNumbers, Zenon
<1>4. BytesBefore(first) = Before(first, pushed) /\ BytesBefore(end) = Before(end, pushed)
  BY Zenon DEF BytesBefore, Before
<1>5. r = [seqno |-> wrap(first, ISN), SYN |-> syn, payload |-> bytes, FIN |-> fin]
  BY Zenon DEF Original
<1>6. syn \in BOOLEAN /\ fin \in BOOLEAN
  OBVIOUS
<1>7. (syn <=> first = 0) /\ (fin <=> end = pushed + 2)
  OBVIOUS
<1>8. /\ Before(first, pushed) = AtLeast(0, first - 1)
      /\ Before(end, pushed) - Before(first, pushed) = n
      /\ m.FIN <=> end = pushed + 2
  <2> DEFINE s == m.SYN
             f == m.FIN
  <2>1. s \in BOOLEAN /\ f \in BOOLEAN
    BY <1>1
  <2>2. (s <=> first = 0) /\ (f => end = pushed + 2) /\ (~ f => end <= popped + 1)
    BY <1>2, Zenon
  <2> HIDE DEF m, first, end, pushed, popped, n, syn, fin, bytes, r
  <2>3. One(s) \in Nat /\ One(f) \in Nat /\ SequenceLength(m) = One(s) + n + One(f)
    BY <1>1 DEF One
  <2> HIDE DEF s, f
  <2>4. end = first + One(s) + n + One(f)
    BY <1>1, <2>3
  <2>5. {first, end, n, popped, pushed} \subseteq Nat /\ {s, f} \subseteq BOOLEAN
    <3>1. first \in Nat /\ end \in Nat /\ n \in Nat /\ popped \in Nat /\ pushed \in Nat
      BY <1>1, <1>3, <2>3, <2>4
    <3> QED
      BY <2>1, <3>1
  <2>6. Spans(first, end, n, s, f, popped, pushed)
    BY <1>2, <1>3, <2>2, <2>4, <2>5, Zenon DEF Spans
  <2>7. /\ Before(first, pushed) = AtLeast(0, first - 1)
        /\ Before(end, pushed) - Before(first, pushed) = n
        /\ f <=> end = pushed + 2
    BY <2>6, BytesOfSegment
  <2> QED
    BY <2>7, Zenon DEF f
<1> HIDE DEF m, first, end, pushed, popped, n, r
<1>9. m.payload = bytes
  BY <1>2, <1>4, <1>8, Zenon DEF Substring, Bytes
<1> HIDE DEF syn, fin, bytes
<1>10. (m.SYN <=> syn) /\ (m.FIN <=> fin)
  BY <1>2, <1>7, <1>8, Zenon
<1>11. m.SYN = syn /\ m.FIN = fin
  BY <1>1, <1>6, <1>10
<1>12. \A field \in DOMAIN r : m[field] = r[field]
  BY <1>2, <1>5, <1>9, <1>11, FieldByField
<1> QED
  BY <1>12, Zenon DEF m, r, first, end

(* What the invariant says of the sender's buffer.                         *)
LEMMA IInvOutstanding == IInv => Outstanding
<1> SUFFICES ASSUME IInv PROVE Outstanding
  OBVIOUS
<1>1. /\ StreamOK(sender)
      /\ IsBuffer(buffer, sender.input, sender.abs_seqno_, acked)
  BY Zenon DEF IInv, IsSender, buffer
<1>2. /\ buffer \in Seq(Segments)
      /\ \A k \in 1 .. Len(buffer) : IsSegment(buffer[k], sender.input)
      /\ \A k \in 2 .. Len(buffer) : buffer[k].first = EndOf(buffer[k - 1])
      /\ buffer = << >> => acked = sender.abs_seqno_
      /\ buffer # << >> => /\ buffer[1].first <= acked
                           /\ acked < EndOf(buffer[1])
                           /\ EndOf(buffer[Len(buffer)]) = sender.abs_seqno_
  BY <1>1, Zenon DEF IsBuffer, IsChain
<1>3. DOMAIN buffer = 1 .. Len(buffer) /\ \A k \in 1 .. Len(buffer) : buffer[k] \in Segments
  <2> DEFINE b == buffer
  <2>1. b \in Seq(Segments)
    BY <1>2
  <2> HIDE DEF b
  <2>2. DOMAIN b = 1 .. Len(b) /\ \A k \in 1 .. Len(b) : b[k] \in Segments
    BY <2>1, LenProperties, ElementOfSeq
  <2> QED
    BY <2>2, Zenon DEF b
<1>4. Len(buffer) \in Nat
  BY <1>2, LenProperties
<1>5. Head(buffer) = buffer[1] /\ Last(buffer) = buffer[Len(buffer)]
  <2> DEFINE b == buffer
  <2>1. b \in Seq(Segments)
    BY <1>2
  <2> HIDE DEF b
  <2>2. Head(b) = b[1] /\ Last(b) = b[Len(b)]
    BY <2>1 DEF Last
  <2> QED
    BY <2>2, Zenon DEF b
<1>6. ASSUME NEW k \in DOMAIN buffer
      PROVE  /\ k > 1 => buffer[k].first = EndOf(buffer[k - 1])
             /\ \A field \in DOMAIN Original(buffer[k].first, EndOf(buffer[k])) :
                   buffer[k].message[field] =
                      Original(buffer[k].first, EndOf(buffer[k]))[field]
  <2>1. k \in 1 .. Len(buffer)
    BY <1>3, Zenon
  <2>2. k > 1 => k \in 2 .. Len(buffer)
    BY <1>4, <2>1
  <2>3. buffer[k] \in Segments /\ IsSegment(buffer[k], sender.input)
    BY <1>2, <1>3, <2>1, Zenon
  <2> QED
    BY <1>2, <2>2, <2>3, SegmentIsOriginal, Zenon
<1>7. /\ sender.abs_seqno_ = One(sender.syn_set_) + sender.input.popped + One(sender.fin_set_)
      /\ sender.seqno_ = (IF sender.syn_set_ THEN wrap(sender.abs_seqno_, ISN) ELSE 0)
      /\ sender.fin_set_ => IsFinished(sender.input)
  BY <1>1, Zenon DEF StreamOK
<1> QED
  BY <1>2, <1>5, <1>6, <1>7, Zenon DEF Outstanding

(* send_buffer_ is exactly what the peer may still need: the segments that *)
(* push sent and receive did not drop, with the bytes they were sent with. *)
THEOREM WhatIsMissingIsKept == Spec => []Outstanding
BY Invariance, IInvOutstanding, PTL

(* What the invariant says of the credit.                                  *)
LEMMA IInvCredit == IInv => CreditConserved
<1> SUFFICES ASSUME IInv PROVE CreditConserved
  OBVIOUS
<1> DEFINE next == sender.abs_seqno_
           rw == sender.receive_window_
<1>1. /\ WindowOK(sender, acked)
      /\ IsBuffer(buffer, sender.input, next, acked)
  BY Zenon DEF IInv, IsSender, buffer
<1>2. buffer \in Seq(Segments) /\ IsChain(buffer, next, acked)
  BY <1>1, Zenon DEF IsBuffer
<1>3. sequence_numbers_in_flight(sender) = InFlight(buffer, next)
  <2> DEFINE b == buffer
  <2>1. sender.send_buffer_ = b /\ b \in Seq(Segments) /\ IsChain(b, next, acked)
    BY <1>2 DEF buffer
  <2> HIDE DEF b
  <2>2. sequence_numbers_in_flight(sender) = InFlight(b, next)
    BY <2>1, FlightIsInterval
  <2> QED
    BY <2>2, Zenon DEF b
<1>4. /\ rw \in Nat /\ sender.max_receive_window_ \in 1 .. PeerCapacity
      /\ rw + InFlight(buffer, next) = sender.max_receive_window_
  BY <1>1, Zenon DEF WindowOK, buffer
<1>5. ASSUME buffer = << >> PROVE rw > 0
  <2>1. InFlight(buffer, next) = 0
    BY <1>5, Zenon DEF InFlight
  <2> HIDE DEF rw, next
  <2>2. PeerCapacity \in Nat
    BY EnvironmentAssumption
  <2> QED
    BY <1>4, <2>1, <2>2
<1> QED
  BY <1>3, <1>4, <1>5, Zenon DEF CreditConserved

(* receive_window_ and what is in flight make up max_receive_window_, so   *)
(* the credit neither leaks nor grows however acknowledgements, their      *)
(* repetitions and segments cross, and an idle sender can always send.     *)
THEOREM CreditIsConserved == Spec => []CreditConserved
BY Invariance, IInvCredit, PTL

(* What the invariant says of the timer.                                   *)
LEMMA IInvBackoff == IInv => Backoff
<1> SUFFICES ASSUME IInv PROVE Backoff
  OBVIOUS
<1>1. TimerOK(sender, acked)
  BY Zenon DEF IInv, IsSender
<1> QED
  BY <1>1, Zenon DEF TimerOK, Backoff, buffer

(* The timer of tick never passes its timeout, the timeout is the initial  *)
(* one doubled at most once for each retransmission counted, and both      *)
(* start afresh when nothing is in flight.                                 *)
THEOREM TimerBacksOff == Spec => []Backoff
BY Invariance, IInvBackoff, PTL

(* A step of the sender that takes in an acknowledgement it knows.         *)
LEMMA OutdatedStep ==
    IInv /\ IInv' =>
       \A ack \in acks :
          ack.abs > 0 /\ ack.abs <= acked /\ Receive(ack, 0)
          => /\ buffer' = buffer
             /\ Timing' = Timing
             /\ sender.receive_window_ <= sender'.receive_window_
             /\ sender'.max_receive_window_ <= PeerCapacity
<1> SUFFICES ASSUME IInv, IInv', NEW ack \in acks, ack.abs > 0, ack.abs <= acked,
                    Receive(ack, 0)
             PROVE  /\ buffer' = buffer
                    /\ Timing' = Timing
                    /\ sender.receive_window_ <= sender'.receive_window_
                    /\ sender'.max_receive_window_ <= PeerCapacity
  BY Zenon
<1>1. /\ sender'.send_buffer_ = sender.send_buffer_
      /\ sender'.timer_ = sender.timer_
      /\ sender'.current_RTO_ = sender.current_RTO_
      /\ sender'.num_consecutive_retran_ = sender.num_consecutive_retran_
      /\ sender.receive_window_ <= sender'.receive_window_
  BY ReceiveEffect, Zenon
<1>2. sender'.max_receive_window_ \in 1 .. PeerCapacity
  BY Zenon DEF IInv, IsSender, WindowOK
<1>3. sender'.max_receive_window_ <= PeerCapacity
  BY <1>2, EnvironmentAssumption
<1> QED
  BY <1>1, <1>3, Zenon DEF buffer, Timing

(* receive takes nothing from the buffer, the timer or the credit for an   *)
(* acknowledgement that arrives late or once more.                         *)
THEOREM OutdatedIsHarmless == Spec => OutdatedHarmless
<1>1. IInv /\ IInv' /\ [Next]_vars =>
        [\A ack \in acks :
            ack.abs > 0 /\ ack.abs <= acked /\ Receive(ack, 0)
            => /\ buffer' = buffer
               /\ Timing' = Timing
               /\ sender.receive_window_ <= sender'.receive_window_
               /\ sender'.max_receive_window_ <= PeerCapacity]_vars
  BY OutdatedStep, Zenon
<1> QED
  BY <1>1, Invariance, PTL DEF Spec, OutdatedHarmless
=============================================================================
