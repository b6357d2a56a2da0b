-------------------------- MODULE StreamCopy_proofs --------------------------
(***************************************************************************)
(* The four rules of the bidirectional stream copy, for every size of its  *)
(* buffers and of the kernel's, and every length of what is fed to it: the *)
(* end is passed on behind the last byte, the loop neither spins nor fails *)
(* while both far ends are there, and each direction is one bounded pipe.  *)
(***************************************************************************)
EXTENDS StreamCopy, OperatorLemmas

(* The rules, whatever is left of them. *)
AllRules == {"read stdin", "write socket", "read socket", "write stdout"}

(* The place of a rule in Rules. *)
Rank(rule) == CASE rule = "read stdin"   -> 1
                [] rule = "write socket" -> 2
                [] rule = "read socket"  -> 3
                [] OTHER                 -> 4

(* A list of rules in the order they were added. *)
InOrder(s) ==
    /\ s \in Seq(AllRules)
    /\ \A i, j \in 1 .. Len(s) : i < j => Rank(s[i]) < Rank(s[j])

(* s holds rule. *)
Member(s, rule) == \E i \in 1 .. Len(s) : s[i] = rule

(* The rule has not been erased. *)
Kept(w, rule) == Member(w.rules, rule)

(* The fields of a world. *)
Fields == {"rules", "polled", "loop", "failed", "fd", "outbound", "inbound", "shutdown",
           "stdin", "stdout", "sent", "received"}

(* A descriptor between two callbacks. *)
IsIdle(fd) ==
    /\ fd \in [eof_ : BOOLEAN, closed_ : BOOLEAN, read_count_ : Nat, write_count_ : Nat]
    /\ fd.read_count_ = 0
    /\ fd.write_count_ = 0

(* A world between two steps of the loop. *)
IsWorld(w) ==
    /\ DOMAIN w = Fields
    /\ DOMAIN w.fd = {"input", "output", "socket"}
    /\ DOMAIN w.shutdown = {"outbound", "inbound"}
    /\ \A name \in DOMAIN w.fd : IsIdle(w.fd[name])

(* A stream that holds the bytes behind the last one popped. *)
IsPipe(s, capacity) ==
    /\ s \in StreamOf(Nat)
    /\ s.capacity = capacity
    /\ Len(s.queue) <= capacity
    /\ s.pushed = s.popped + Len(s.queue)
    /\ s.queue = Bytes(s.popped + 1, Len(s.queue))

(* Each stream goes on where the one before it stands. *)
OneWay(source, stream, sink) ==
    /\ IsPipe(source, KernelSize)
    /\ IsPipe(stream, BufferSize)
    /\ IsPipe(sink, KernelSize)
    /\ source.popped = stream.pushed
    /\ stream.popped = sink.pushed
    /\ source.pushed <= Length

(* Nothing more will come out of the socket. *)
ReceivedEnded(w) == w.received.closed /\ (w.received.queue = << >> \/ w.received.error)

(* From standard input to the socket: who closed what, and when. *)
OutwardOK(w) ==
    /\ ~w.stdin.error
    /\ ~w.fd["input"].eof_ /\ ~w.fd["input"].closed_ /\ ~w.fd["socket"].closed_
    /\ ~Kept(w, "read stdin") => w.outbound.closed
    /\ Kept(w, "write socket") /\ w.outbound.closed => IsFinished(w.stdin)
    /\ ~Kept(w, "write socket") => w.outbound.closed /\ (w.sent.closed \/ w.sent.error)
    /\ w.sent.closed => IsFinished(w.stdin) /\ IsFinished(w.outbound)
    /\ w.shutdown["outbound"] => w.sent.closed

(* From the socket to standard output. *)
InwardOK(w) ==
    /\ w.received.error => w.received.closed /\ w.sent.error
    /\ w.fd["socket"].eof_ => ReceivedEnded(w)
    /\ ~Kept(w, "read socket") => w.inbound.closed
    /\ Kept(w, "write stdout") /\ w.inbound.closed => ReceivedEnded(w)
    /\ ~Kept(w, "write stdout") => w.stdout.error \/ w.stdout.closed
    /\ w.stdout.closed => ReceivedEnded(w) /\ IsFinished(w.inbound)
    /\ w.shutdown["inbound"] => w.stdout.closed
    /\ w.fd["output"].closed_ => w.stdout.closed
    /\ HasError(w) => w.received.error \/ w.stdout.error

(* What holds wherever the loop stands. *)
Sound(w) ==
    /\ IsWorld(w)
    /\ InOrder(w.rules)
    /\ OneWay(w.stdin, w.outbound, w.sent)
    /\ OneWay(w.received, w.inbound, w.stdout)
    /\ OutwardOK(w)
    /\ InwardOK(w)

(* What is still true, when a rule is served, of what poll said of it. *)
SaidOfReadStdin(w, p) ==
    /\ ~p.error
    /\ p.hup /\ p.events /\ ~p.ready => IsFinished(w.stdin)
    /\ p.ready => /\ w.stdin.queue # << >>
                  /\ ~w.outbound.closed
                  /\ AvailableCapacity(w.outbound) > 0

SaidOfWriteSocket(w, p) ==
    /\ p.error => w.received.error
    /\ p.hup => w.sent.closed \/ w.sent.error
    /\ p.ready => /\ AvailableCapacity(w.sent) > 0
                  /\ \/ w.outbound.queue # << >>
                     \/ IsFinished(w.outbound) /\ ~w.shutdown["outbound"]

SaidOfReadSocket(w, p) ==
    /\ p.error => w.received.error
    /\ p.hup /\ p.events => p.ready
    /\ p.ready => /\ w.received.queue # << >> \/ w.received.closed
                  /\ ~w.inbound.closed
                  /\ AvailableCapacity(w.inbound) > 0

SaidOfWriteStdout(w, p) ==
    /\ p.error => w.stdout.error
    /\ ~p.hup
    /\ p.ready => /\ AvailableCapacity(w.stdout) > 0
                  /\ \/ w.inbound.queue # << >>
                     \/ IsFinished(w.inbound) /\ ~w.shutdown["inbound"]

(* ... of any rule. *)
SaidOf(w, rule, p) ==
    /\ rule = "read stdin" => SaidOfReadStdin(w, p)
    /\ rule = "write socket" => SaidOfWriteSocket(w, p)
    /\ rule = "read socket" => SaidOfReadSocket(w, p)
    /\ rule = "write stdout" => SaidOfWriteStdout(w, p)

(* The rules ahead are still as poll found them. *)
StillSaid(w, ahead) ==
    \A rule \in ahead : Kept(w, rule) => SaidOf(w, rule, w.polled[rule])

(* Broken, of any world. *)
BrokenIn(w) == w.sent.error \/ w.stdout.error

(* The end has been passed on each way, where somebody is left. *)
PassedOn(w) ==
    ~w.stdout.error => /\ w.sent.error \/ w.sent.closed
                       /\ w.received.error \/ w.stdout.closed

(* The inductive invariant, of any world: what each stretch of the loop   *)
(* may rely on.                                                            *)
Standing(w) ==
    /\ Sound(w)
    /\ w.loop \in {"poll", "serve", "exit", "failed"}
    /\ w.loop = "poll" => w.polled = << >> /\ ~w.failed
    /\ w.loop = "serve" => StillSaid(w, AllRules) /\ ~w.failed
    /\ w.loop = "exit" => PassedOn(w)
    /\ w.loop = "failed" => BrokenIn(w)

IInv == Standing(world)

(* Erasing a rule keeps the others, in their order.                        *)
LEMMA EraseKeepsOrder ==
    ASSUME NEW s, InOrder(s), NEW rule
    PROVE  /\ InOrder(RemoveFirst(s, rule))
           /\ \A x : Member(RemoveFirst(s, rule), x) <=> Member(s, x) /\ x # rule
<1> DEFINE n == Len(s)
           found == {i \in 1 .. n : s[i] = rule}
<1>1. /\ s \in Seq(AllRules) /\ n \in Nat
      /\ \A i \in 1 .. n : Rank(s[i]) \in Nat
      /\ \A i, j \in 1 .. n : i < j => Rank(s[i]) < Rank(s[j])
  <2>1. s \in Seq(AllRules) /\ n \in Nat
    BY LenProperties DEF InOrder
  <2>2. \A r : Rank(r) \in Nat
    BY DEF Rank
  <2> QED
    BY <2>1, <2>2 DEF InOrder
<1>2. CASE ~Member(s, rule)
  <2>1. RemoveFirst(s, rule) = s
    BY <1>2, Zenon DEF RemoveFirst, Member
  <2> QED
    BY <1>2, <2>1 DEF Member
<1>3. CASE Member(s, rule)
  <2> DEFINE k == Min(found)
             t == SubSeq(s, 1, k - 1) \o SubSeq(s, k + 1, n)
  <2>1. k \in found
    <3>1. PICK i \in found : TRUE
      BY <1>3 DEF Member
    <3>2. \A x, y \in found : x = y
      <4> HIDE DEF n
      <4> QED
        BY <1>1
    <3>3. \E x \in found : \A y \in found : x =< y
      <4>1. \A y \in found : i =< y
        <5>1. i \in Nat
          BY <1>1
        <5> QED
          BY <3>1, <3>2, <5>1
      <4> QED
        BY <3>1, <4>1
    <3> HIDE DEF found
    <3> QED
      BY <3>3, Zenon DEF Min
  <2>2. RemoveFirst(s, rule) = t
    <3>1. SelectInSeq(s, LAMBDA v : v = rule) = k
      BY <2>1, Zenon DEF SelectInSeq
    <3>2. \E i \in 1 .. Len(s) : s[i] = rule
      BY <2>1
    <3> HIDE DEF k
    <3> QED
      BY <3>1, <3>2, Zenon DEF RemoveFirst, RemoveAt
  <2>3. k \in 1 .. n /\ s[k] = rule
    BY <2>1
  <2> DEFINE before == k - 1
             after == n - k
             a == SubSeq(s, 1, before)
             b == SubSeq(s, k + 1, n)
  <2> HIDE DEF k, n
  <2>4. before \in Nat /\ after \in Nat /\ k \in Nat /\ before < n /\ k + after = n
        /\ before + 1 = k /\ before + after = n - 1 /\ n = Len(s)
    BY <1>1, <2>3 DEF n
  <2>5. a \in Seq(AllRules) /\ Len(a) = before /\ \A i \in 1 .. before : a[i] = s[i]
    <3>1. /\ SubSeq(s, 0 + 1, 0 + before) \in Seq(AllRules)
          /\ Len(SubSeq(s, 0 + 1, 0 + before)) = before
          /\ \A i \in 1 .. before : SubSeq(s, 0 + 1, 0 + before)[i] = s[0 + i]
      <4> HIDE DEF before
      <4>1. 0 \in Nat /\ 0 + before <= Len(s)
        BY <2>4
      <4>2. \A x, y \in Nat : x + y <= Len(s) =>
               /\ SubSeq(s, x + 1, x + y) \in Seq(AllRules)
               /\ Len(SubSeq(s, x + 1, x + y)) = y
               /\ \A i \in 1 .. y : SubSeq(s, x + 1, x + y)[i] = s[x + i]
        BY <1>1, ViewOf
      <4> QED
        BY <2>4, <4>1, <4>2
    <3>2. 0 + 1 = 1 /\ 0 + before = before /\ \A i \in 1 .. before : 0 + i = i
      BY <2>4
    <3> HIDE DEF before
    <3> QED
      BY <3>1, <3>2
  <2>6. b \in Seq(AllRules) /\ Len(b) = after /\ \A i \in 1 .. after : b[i] = s[k + i]
    <3> HIDE DEF after
    <3>1. /\ SubSeq(s, k + 1, k + after) \in Seq(AllRules)
          /\ Len(SubSeq(s, k + 1, k + after)) = after
          /\ \A i \in 1 .. after : SubSeq(s, k + 1, k + after)[i] = s[k + i]
      BY <1>1, <2>4, ViewOf
    <3> QED
      BY <2>4, <3>1
  <2> HIDE DEF before, after, a, b
  <2>7. /\ a \o b \in Seq(AllRules) /\ Len(a \o b) = n - 1
        /\ \A i \in 1 .. n - 1 : (a \o b)[i] = IF i < k THEN s[i] ELSE s[i + 1]
    <3>1. /\ a \o b \in Seq(AllRules) /\ Len(a \o b) = before + after
          /\ \A i \in 1 .. before + after :
                (a \o b)[i] = IF i <= before THEN a[i] ELSE b[i - before]
      BY <2>5, <2>6, ConcatProperties
    <3>2. ASSUME NEW i \in 1 .. before + after
          PROVE  (a \o b)[i] = IF i < k THEN s[i] ELSE s[i + 1]
      <4>1. CASE i <= before
        BY <2>4, <2>5, <3>1, <4>1
      <4>2. CASE ~(i <= before)
        <5>1. i - before \in 1 .. after /\ k + (i - before) = i + 1 /\ ~(i < k)
          BY <2>4, <4>2
        <5>2. b[i - before] = s[k + (i - before)]
          BY <2>6, <5>1
        <5> QED
          BY <3>1, <4>2, <5>1, <5>2
      <4> QED
        BY <4>1, <4>2
    <3> QED
      BY <2>4, <3>1, <3>2
  <2>8. t = a \o b
    BY <2>4 DEF a, b, before
  <2> HIDE DEF t
  <2> DEFINE u == a \o b
  <2>9. u \in Seq(AllRules) /\ Len(u) = n - 1
        /\ \A i \in 1 .. n - 1 : u[i] = IF i < k THEN s[i] ELSE s[i + 1]
    BY <2>7
  <2> HIDE DEF u
  <2>10. InOrder(u)
    <3>1. ASSUME NEW i \in 1 .. n - 1, NEW j \in 1 .. n - 1, i < j
          PROVE  Rank(u[i]) < Rank(u[j])
      <4>1. i \in 1 .. n /\ j \in 1 .. n /\ i + 1 \in 1 .. n /\ j + 1 \in 1 .. n
            /\ (j < k => i < k) /\ i < j + 1 /\ i + 1 < j + 1
        BY <1>1, <2>3, <3>1 DEF n
      <4>2. CASE j < k
        BY <1>1, <2>9, <3>1, <4>1, <4>2
      <4>3. CASE ~(j < k) /\ i < k
        BY <1>1, <2>9, <3>1, <4>1, <4>3
      <4>4. CASE ~(i < k)
        BY <1>1, <2>9, <3>1, <4>1, <4>4
      <4> QED
        BY <4>2, <4>3, <4>4
    <3> QED
      BY <2>9, <3>1 DEF InOrder
  <2>11. ASSUME NEW x PROVE Member(u, x) <=> Member(s, x) /\ x # rule
    <3>1. ASSUME NEW i \in 1 .. n - 1 PROVE \E j \in 1 .. n : u[i] = s[j] /\ s[j] # rule
      <4>1. i \in 1 .. n /\ i + 1 \in 1 .. n
        BY <1>1, <3>1 DEF n
      <4>2. CASE i < k
        <5>1. Rank(s[i]) < Rank(s[k]) /\ Rank(s[k]) \in Nat
          BY <1>1, <2>3, <4>1, <4>2
        <5>2. s[i] # rule
          BY <2>3, <5>1
        <5> QED
          BY <2>9, <4>1, <4>2, <5>2
      <4>3. CASE ~(i < k)
        <5>1. k < i + 1
          BY <1>1, <2>3, <4>1, <4>3
        <5>2. Rank(s[k]) < Rank(s[i + 1]) /\ Rank(s[k]) \in Nat
          BY <1>1, <2>3, <4>1, <5>1
        <5>3. s[i + 1] # rule
          BY <2>3, <5>2
        <5> QED
          BY <2>9, <4>1, <4>3, <5>3
      <4> QED
        BY <4>2, <4>3
    <3>2. ASSUME NEW j \in 1 .. n, s[j] # rule PROVE \E i \in 1 .. n - 1 : u[i] = s[j]
      <4>1. CASE j < k
        <5>1. j \in 1 .. n - 1
          BY <1>1, <2>3, <4>1
        <5> QED
          BY <2>9, <4>1, <5>1
      <4>2. CASE ~(j < k)
        <5>1. j - 1 \in 1 .. n - 1 /\ ~(j - 1 < k) /\ j - 1 + 1 = j
          BY <1>1, <2>3, <3>2, <4>2
        <5> QED
          BY <2>9, <5>1
      <4> QED
        BY <4>1, <4>2
    <3>3. Len(s) = n
      BY DEF n
    <3> QED
      BY <2>9, <3>1, <3>2, <3>3 DEF Member
  <2> QED
    BY <2>2, <2>8, <2>10, <2>11 DEF u
<1> QED
  BY <1>2, <1>3

(* What the counters of a pipe say of what it holds.                       *)
LEMMA PipeCounts ==
    ASSUME NEW capacity \in Nat, NEW s, IsPipe(s, capacity)
    PROVE  /\ s.popped \in Nat /\ s.pushed \in Nat /\ s.popped <= s.pushed
           /\ s.closed \in BOOLEAN /\ s.error \in BOOLEAN
           /\ Len(s.queue) = s.pushed - s.popped
           /\ Len(s.queue) \in Nat
           /\ AvailableCapacity(s) = capacity - (s.pushed - s.popped)
           /\ AvailableCapacity(s) \in Nat
           /\ s.queue \in Seq(Nat)
           /\ s.queue = << >> <=> s.pushed = s.popped
<1>1. /\ s.queue \in Seq(Nat) /\ s.popped \in Nat /\ s.pushed \in Nat
      /\ s.closed \in BOOLEAN /\ s.error \in BOOLEAN
  BY DEF IsPipe, StreamOf
<1>2. Len(s.queue) \in Nat /\ (s.queue = << >> <=> Len(s.queue) = 0)
  BY <1>1, LenProperties, EmptySeq
<1> QED
  BY <1>1, <1>2 DEF IsPipe, AvailableCapacity

(* A pipe with these counters and flags.                                   *)
IsPipeWith(s, capacity, pushed, popped, closed, error) ==
    /\ IsPipe(s, capacity)
    /\ s.pushed = pushed
    /\ s.popped = popped
    /\ s.closed = closed
    /\ s.error = error

(* A pipe that is closed or marked is a pipe.                              *)
LEMMA PipeFlags ==
    ASSUME NEW capacity \in Nat, NEW s, IsPipe(s, capacity)
    PROVE  /\ IsPipeWith(CloseOf(s), capacity, s.pushed, s.popped, TRUE, s.error)
           /\ IsPipeWith(SetErrorOf(s), capacity, s.pushed, s.popped, s.closed, TRUE)
           /\ CloseOf(s).queue = s.queue
           /\ SetErrorOf(s).queue = s.queue
<1>1. s \in StreamOf(Nat)
  BY DEF IsPipe
<1>2. /\ IsStream(Nat, CloseOf(s), s.capacity, s.queue, s.pushed, s.popped, TRUE, s.error)
      /\ IsStream(Nat, SetErrorOf(s), s.capacity, s.queue, s.pushed, s.popped, s.closed, TRUE)
  BY <1>1, FlagFields
<1> QED
  BY <1>2, Zenon DEF IsPipe, IsPipeWith, IsStream

(* What is popped from a pipe leaves a pipe.                               *)
LEMMA PipePop ==
    ASSUME NEW capacity \in Nat, NEW s, IsPipe(s, capacity),
           NEW n \in Nat, n <= Len(s.queue)
    PROVE  IsPipeWith(PopFrom(s, n), capacity, s.pushed, s.popped + n, s.closed, s.error)
<1> DEFINE len == Len(s.queue)
           rest == len - n
           left == SubSeq(s.queue, n + 1, len)
           popped == s.popped + n
<1>1. /\ s \in StreamOf(Nat) /\ s.capacity = capacity /\ len <= capacity
      /\ s.pushed = s.popped + len
      /\ s.queue = Bytes(s.popped + 1, len)
      /\ s.popped \in Nat /\ len \in Nat
  BY PipeCounts DEF IsPipe
<1>2. rest \in Nat /\ n + rest = len
  BY <1>1
<1>3. n = AtMost(n, len)
  BY DEF AtMost
<1>4. IsStream(Nat, PopFrom(s, n), s.capacity, left, s.pushed, popped, s.closed, s.error)
  BY <1>1, <1>3, PopFromFields
<1>5. left = Bytes(popped + 1, rest)
  <2> DEFINE first == s.popped + 1
  <2>1. first \in Nat
    BY <1>1
  <2> HIDE DEF first, rest
  <2>2. SubSeq(Bytes(first, n + rest), n + 1, n + rest) = Bytes(first + n, rest)
    BY <1>2, <2>1, TailBytes
  <2>3. first + n = popped + 1
    BY <1>1 DEF first
  <2> QED
    BY <1>1, <1>2, <2>2, <2>3 DEF first
<1>6. popped + 1 \in Nat
  BY <1>1
<1> HIDE DEF left, popped, rest
<1>7. Len(left) = rest
  BY <1>2, <1>5, <1>6, BytesIsSeq
<1>8. s.pushed = popped + rest /\ rest <= capacity
  BY <1>1, <1>2 DEF popped
<1> HIDE DEF len
<1>9. IsPipeWith(PopFrom(s, n), capacity, s.pushed, popped, s.closed, s.error)
  BY <1>1, <1>4, <1>5, <1>7, <1>8, Zenon DEF IsStream, IsPipe, IsPipeWith
<1> QED
  BY <1>9 DEF popped

(* What goes on where a pipe ends, and fits, leaves a pipe.                *)
LEMMA PipePush ==
    ASSUME NEW capacity \in Nat, NEW s, IsPipe(s, capacity),
           NEW n \in Nat, n <= AvailableCapacity(s)
    PROVE  IsPipeWith(PushTo(s, Bytes(s.pushed + 1, n)), capacity,
                      s.pushed + n, s.popped, s.closed, s.error)
<1> DEFINE len == Len(s.queue)
           data == Bytes(s.pushed + 1, n)
           queue == s.queue \o SubSeq(data, 1, n)
           pushed == s.pushed + n
           sum == len + n
<1>1. /\ s \in StreamOf(Nat) /\ s.capacity = capacity /\ len <= capacity
      /\ s.pushed = s.popped + len
      /\ s.queue = Bytes(s.popped + 1, len)
      /\ s.popped \in Nat /\ len \in Nat /\ s.pushed \in Nat
      /\ n <= s.capacity - len
  BY PipeCounts DEF IsPipe, AvailableCapacity
<1>2. s.pushed + 1 \in Nat /\ s.popped + 1 \in Nat
  BY <1>1
<1>3. data \in Seq(Nat) /\ Len(data) = n
  BY <1>2, BytesIsSeq
<1>4. n = AtMost(s.capacity - len, Len(data))
  <2> HIDE DEF data, len
  <2> QED
    BY <1>1, <1>3 DEF AtMost
<1>5. IsStream(Nat, PushTo(s, data), s.capacity, queue, pushed, s.popped, s.closed, s.error)
  <2> HIDE DEF data
  <2> QED
    BY <1>1, <1>3, <1>4, PushToFields
<1>6. SubSeq(data, 1, n) = data
  <2> DEFINE first == s.pushed + 1
  <2>1. first \in Nat /\ n <= n
    BY <1>2
  <2> HIDE DEF first
  <2>2. SubSeq(Bytes(first, n), 1, n) = Bytes(first, n)
    BY <2>1, FrontBytes
  <2> QED
    BY <2>2 DEF first
<1>7. queue = Bytes(s.popped + 1, sum)
  <2> DEFINE first == s.popped + 1
  <2>1. first \in Nat /\ s.pushed + 1 = first + len
    BY <1>1
  <2>2. Bytes(first, len) \o Bytes(first + len, n) = Bytes(first, len + n)
    <3> HIDE DEF first, len
    <3> QED
      BY <1>1, <2>1, JoinBytes, ZenonT(40)
  <2> HIDE DEF first
  <2>3. queue = Bytes(first, len) \o Bytes(first + len, n)
    BY <1>1, <1>6, <2>1, Zenon DEF first
  <2> QED
    BY <2>2, <2>3 DEF first
<1>8. sum \in Nat /\ pushed = s.popped + sum /\ sum <= capacity
  BY <1>1
<1> HIDE DEF queue, pushed, sum, data
<1>9. Len(queue) = sum
  BY <1>2, <1>7, <1>8, BytesIsSeq
<1> HIDE DEF len
<1>10. IsPipeWith(PushTo(s, data), capacity, pushed, s.popped, s.closed, s.error)
  BY <1>1, <1>5, <1>7, <1>8, <1>9, Zenon DEF IsStream, IsPipe, IsPipeWith
<1> QED
  BY <1>10 DEF pushed, data

(* The front of what a pipe holds, for the pipe that goes on where it      *)
(* stands.                                                                 *)
LEMMA PipeFront ==
    ASSUME NEW capacity \in Nat, NEW s, IsPipe(s, capacity),
           NEW n \in Nat, n <= Len(s.queue)
    PROVE  SubSeq(s.queue, 1, n) = Bytes(s.popped + 1, n)
<1>1. s.popped + 1 \in Nat /\ Len(s.queue) \in Nat
  BY PipeCounts
<1>2. s.queue = Bytes(s.popped + 1, Len(s.queue))
  BY DEF IsPipe
<1>3. SubSeq(Bytes(s.popped + 1, Len(s.queue)), 1, n) = Bytes(s.popped + 1, n)
  BY <1>1, FrontBytes
<1> QED
  BY <1>2, <1>3

(* A descriptor, its reads and writes counted or not.                      *)
Descriptor == [eof_ : BOOLEAN, closed_ : BOOLEAN, read_count_ : Nat, write_count_ : Nat]

(* step is what a read of n bytes returns.                                 *)
IsRead(step, fd, source, size, n) ==
    /\ n <= size /\ n <= Len(source.queue)
    /\ n = 0 <=> source.queue = << >>
    /\ step.data = Bytes(source.popped + 1, n)
    /\ IsPipeWith(step.kernel, KernelSize, source.pushed, source.popped + n,
                  source.closed, source.error)
    /\ step.failed <=> n = 0 /\ source.error
    /\ step.fd \in Descriptor
    /\ step.fd.read_count_ = 1
    /\ step.fd.closed_ = fd.closed_
    /\ step.fd.eof_ <=> fd.eof_ \/ n = 0

(* step is what a write that takes n bytes of the stream returns.          *)
IsWrite(step, fd, sink, stream, n) ==
    /\ n <= Len(stream.queue)
    /\ n = 0 <=> BrokenPipe(sink) \/ AvailableCapacity(sink) = 0
    /\ step.written = n
    /\ IsPipeWith(step.kernel, KernelSize, sink.pushed + n, sink.popped,
                  sink.closed, sink.error)
    /\ step.failed <=> n = 0
    /\ step.fd \in Descriptor
    /\ step.fd.write_count_ = 1
    /\ step.fd.closed_ = fd.closed_
    /\ step.fd.eof_ = fd.eof_

(* A read that does not have to wait, from where the stream stands: what   *)
(* comes is the next n bytes, n is 0 at the end only, and only then is the *)
(* end of file noted, or an error thrown.                                  *)
LEMMA ReadMoves ==
    ASSUME SizeAssumption, NEW source, IsPipe(source, KernelSize),
           NEW fd, IsIdle(fd), NEW size \in Nat \ {0},
           source.queue # << >> \/ source.closed
    PROVE  \E n \in Nat : IsRead(read(fd, source, size), fd, source, size, n)
<1> DEFINE n == AtMost(size, Len(source.queue))
           data == SubSeq(source.queue, 1, n)
           step == read(fd, source, size)
<1>1. KernelSize \in Nat /\ Len(source.queue) \in Nat
      /\ (source.queue = << >> <=> Len(source.queue) = 0)
  <2>1. KernelSize \in Nat
    BY DEF SizeAssumption
  <2>2. source.queue \in Seq(Nat) /\ Len(source.queue) \in Nat
    BY <2>1, PipeCounts
  <2> QED
    BY <2>1, <2>2, EmptySeq
<1>2. n \in Nat /\ n <= size /\ n <= Len(source.queue) /\ (n = 0 <=> source.queue = << >>)
  BY <1>1 DEF AtMost
<1> HIDE DEF n
<1>3. data = Bytes(source.popped + 1, n)
  BY <1>1, <1>2, PipeFront
<1>4. source.popped + 1 \in Nat
  BY <1>1, PipeCounts
<1>5. Len(data) = n /\ (data = << >> <=> n = 0)
  <2> HIDE DEF data
  <2> QED
    BY <1>2, <1>3, <1>4, BytesIsSeq
<1>6. ~TryAgain(source)
  BY DEF TryAgain
<1> DEFINE next == [register_read(fd) EXCEPT !.eof_ = @ \/ data = << >>]
<1>7. /\ step.data = data
      /\ step.kernel = PopFrom(source, Len(data))
      /\ step.failed = (data = << >> /\ source.error)
      /\ step.fd = next
  BY <1>6, Zenon DEF read, n
<1>8. IsPipeWith(step.kernel, KernelSize, source.pushed, source.popped + n,
                 source.closed, source.error)
  <2>1. IsPipeWith(PopFrom(source, n), KernelSize, source.pushed, source.popped + n,
                   source.closed, source.error)
    BY <1>1, <1>2, PipePop
  <2> QED
    BY <1>5, <1>7, <2>1
<1>9. step.failed <=> n = 0 /\ source.error
  <2>1. step.failed <=> data = << >> /\ source.error
    BY <1>7
  <2> QED
    BY <1>5, <2>1
<1> HIDE DEF data
<1>10. next \in Descriptor /\ next.read_count_ = 1 /\ next.closed_ = fd.closed_
       /\ (next.eof_ <=> fd.eof_ \/ data = << >>)
  <2> DEFINE e == register_read(fd).eof_ \/ data = << >>
  <2>1. next = [register_read(fd) EXCEPT !.eof_ = e]
    OBVIOUS
  <2>2. e \in BOOLEAN
    OBVIOUS
  <2>3. e <=> register_read(fd).eof_ \/ data = << >>
    OBVIOUS
  <2> HIDE DEF next, e
  <2> DEFINE r == register_read(fd)
  <2>4. /\ r \in Descriptor /\ r.read_count_ = 1 /\ r.closed_ = fd.closed_
        /\ r.eof_ = fd.eof_
    BY DEF Descriptor, IsIdle, register_read
  <2> HIDE DEF r
  <2>5. next = [r EXCEPT !.eof_ = e]
    BY <2>1 DEF r
  <2>6. /\ next \in Descriptor /\ next.read_count_ = r.read_count_
        /\ next.closed_ = r.closed_ /\ next.eof_ = e
    BY <2>2, <2>4, <2>5 DEF Descriptor
  <2> QED
    BY <2>3, <2>4, <2>6 DEF r
<1> HIDE DEF next, step
<1>11. /\ step.fd \in Descriptor /\ step.fd.read_count_ = 1
       /\ step.fd.closed_ = fd.closed_
       /\ step.fd.eof_ <=> fd.eof_ \/ n = 0
  BY <1>5, <1>7, <1>10
<1> QED
  BY <1>2, <1>3, <1>7, <1>8, <1>9, <1>11, Zenon DEF step, IsRead

(* A write of what a stream holds to a pipe that goes on where it stands:  *)
(* the pipe takes the next n bytes, and n is 0, and an error thrown, when  *)
(* the pipe is broken or full.                                             *)
LEMMA WriteMoves ==
    ASSUME SizeAssumption, NEW sink, IsPipe(sink, KernelSize),
           NEW stream, IsPipe(stream, BufferSize), stream.popped = sink.pushed,
           stream.queue # << >>, NEW fd, IsIdle(fd)
    PROVE  \E n \in Nat : IsWrite(write(fd, sink, stream.queue), fd, sink, stream, n)
<1> DEFINE data == stream.queue
           room == AvailableCapacity(sink)
           n == IF BrokenPipe(sink) THEN 0 ELSE AtMost(room, Len(data))
           step == write(fd, sink, data)
<1>1. /\ KernelSize \in Nat /\ BufferSize \in Nat
      /\ room \in Nat /\ Len(data) \in Nat /\ Len(data) # 0
  <2>1. KernelSize \in Nat /\ BufferSize \in Nat
    BY DEF SizeAssumption
  <2>2. data \in Seq(Nat) /\ Len(data) \in Nat /\ room \in Nat
    BY <2>1, PipeCounts
  <2> QED
    BY <2>1, <2>2, EmptySeq
<1> HIDE DEF room
<1>2. n \in Nat /\ n <= Len(data) /\ n <= room /\ (n = 0 <=> BrokenPipe(sink) \/ room = 0)
  BY <1>1 DEF AtMost
<1>3. /\ step.written = n
      /\ step.kernel = PushTo(sink, SubSeq(data, 1, n))
      /\ step.failed = (n = 0 /\ data # << >>)
      /\ step.fd = register_write(fd)
  BY Zenon DEF write, room
<1> HIDE DEF n
<1>4. SubSeq(data, 1, n) = Bytes(sink.pushed + 1, n)
  <2>1. SubSeq(stream.queue, 1, n) = Bytes(stream.popped + 1, n)
    BY <1>1, <1>2, PipeFront
  <2> QED
    BY <2>1
<1>5. IsPipeWith(step.kernel, KernelSize, sink.pushed + n, sink.popped, sink.closed, sink.error)
  <2>1. IsPipeWith(PushTo(sink, Bytes(sink.pushed + 1, n)), KernelSize, sink.pushed + n,
                   sink.popped, sink.closed, sink.error)
    BY <1>1, <1>2, PipePush DEF room
  <2> QED
    BY <1>3, <1>4, <2>1
<1>6. step.failed <=> n = 0
  BY <1>3
<1> DEFINE next == register_write(fd)
<1>7. next \in Descriptor /\ next.write_count_ = 1 /\ next.closed_ = fd.closed_
      /\ next.eof_ = fd.eof_
  BY DEF Descriptor, IsIdle, register_write
<1> HIDE DEF next
<1>8. step.fd = next
  BY <1>3 DEF next
<1> HIDE DEF step
<1> QED
  BY <1>2, <1>3, <1>5, <1>6, <1>7, <1>8, Zenon DEF step, room, IsWrite

(* v is w but for a descriptor, its kernel's side, a stream, and failed.   *)
IsUpdate(v, w, name, kernel, stream) ==
    /\ DOMAIN v = Fields
    /\ DOMAIN v.fd = DOMAIN w.fd
    /\ \A g \in DOMAIN w.fd \ {name} : v.fd[g] = w.fd[g]
    /\ \A g \in Fields \ {"fd", "failed", kernel, stream} : v[g] = w[g]

(* The rules that read, and those that write.                              *)
InRules == {"read stdin", "read socket"}
OutRules == {"write socket", "write stdout"}

(* The names a rule is about are names of fields, and differ.              *)
LEMMA RuleNames ==
    ASSUME NEW w, IsWorld(w), NEW rule \in AllRules
    PROVE  /\ KernelOf(rule) \in Fields \ {"fd", "failed", "shutdown"}
           /\ StreamOfRule(rule) \in Fields \ {"fd", "failed", "shutdown"}
           /\ KernelOf(rule) # StreamOfRule(rule)
           /\ FdOf(rule) \in DOMAIN w.fd
           /\ StreamOfRule(rule) \in DOMAIN w.shutdown
           /\ IsIdle(w.fd[FdOf(rule)])
           /\ IsIn(rule) <=> rule \in InRules
           /\ rule \in OutRules \/ rule \in InRules
BY DEF Fields, IsWorld, AllRules, InRules, OutRules, KernelOf, StreamOfRule, FdOf, IsIn

(* The read of a rule.                                                     *)
ReadOf(w, rule) ==
    read(w.fd[FdOf(rule)], w[KernelOf(rule)], AvailableCapacity(w[StreamOfRule(rule)]))

(* The stream of the rule behind that read.                                *)
FullOf(w, rule) == PushTo(w[StreamOfRule(rule)], ReadOf(w, rule).data)

(* What Fill changes.                                                      *)
LEMMA FillFields ==
    ASSUME NEW w, IsWorld(w), NEW rule \in InRules
    PROVE  /\ IsUpdate(Fill(w, rule), w, FdOf(rule), KernelOf(rule), StreamOfRule(rule))
           /\ Fill(w, rule).fd[FdOf(rule)] = ReadOf(w, rule).fd
           /\ Fill(w, rule).failed = ReadOf(w, rule).failed
           /\ Fill(w, rule)[KernelOf(rule)] = ReadOf(w, rule).kernel
           /\ Fill(w, rule)[StreamOfRule(rule)] =
                 IF ReadOf(w, rule).fd.eof_ THEN CloseOf(FullOf(w, rule)) ELSE FullOf(w, rule)
<1> DEFINE f == FdOf(rule)
           k == KernelOf(rule)
           n == StreamOfRule(rule)
           step == ReadOf(w, rule)
           next == IF step.fd.eof_ THEN CloseOf(FullOf(w, rule)) ELSE FullOf(w, rule)
           v == Fill(w, rule)
<1>1. rule \in AllRules
  BY DEF AllRules, InRules
<1>2. /\ DOMAIN w = Fields /\ f \in DOMAIN w.fd /\ k # n
      /\ k \in Fields \ {"fd", "failed"} /\ n \in Fields \ {"fd", "failed"}
  BY <1>1, RuleNames DEF IsWorld
<1>3. v = [w EXCEPT !.fd[f] = step.fd, ![k] = step.kernel, ![n] = next, !.failed = step.failed]
  BY Zenon DEF Fill, FullOf, ReadOf
<1> HIDE DEF f, k, n, step, next, v
<1>4. /\ DOMAIN v = Fields /\ DOMAIN v.fd = DOMAIN w.fd /\ v.fd[f] = step.fd
      /\ v[k] = step.kernel /\ v[n] = next /\ v.failed = step.failed
      /\ \A g \in DOMAIN w.fd \ {f} : v.fd[g] = w.fd[g]
      /\ \A g \in Fields \ {"fd", "failed", k, n} : v[g] = w[g]
  BY <1>2, <1>3 DEF Fields
<1> QED
  BY <1>4, Zenon DEF f, k, n, step, next, v, IsUpdate

(* The write of a rule.                                                    *)
WriteOf(w, rule) ==
    write(w.fd[FdOf(rule)], w[KernelOf(rule)], w[StreamOfRule(rule)].queue)

(* What Drain changes, when there is something to write.                   *)
LEMMA DrainFields ==
    ASSUME NEW w, IsWorld(w), NEW rule \in OutRules, w[StreamOfRule(rule)].queue # << >>
    PROVE  /\ IsUpdate(Drain(w, rule), w, FdOf(rule), KernelOf(rule), StreamOfRule(rule))
           /\ Drain(w, rule).fd[FdOf(rule)] = WriteOf(w, rule).fd
           /\ Drain(w, rule).failed = WriteOf(w, rule).failed
           /\ Drain(w, rule)[KernelOf(rule)] = WriteOf(w, rule).kernel
           /\ Drain(w, rule)[StreamOfRule(rule)] =
                 PopFrom(w[StreamOfRule(rule)], WriteOf(w, rule).written)
<1> DEFINE f == FdOf(rule)
           k == KernelOf(rule)
           n == StreamOfRule(rule)
           step == WriteOf(w, rule)
           next == PopFrom(w[StreamOfRule(rule)], step.written)
           v == Drain(w, rule)
<1>1. rule \in AllRules
  BY DEF AllRules, OutRules
<1>2. /\ DOMAIN w = Fields /\ f \in DOMAIN w.fd /\ k # n
      /\ k \in Fields \ {"fd", "failed"} /\ n \in Fields \ {"fd", "failed"}
  BY <1>1, RuleNames DEF IsWorld
<1>3. v = [w EXCEPT !.fd[f] = step.fd, ![k] = step.kernel, ![n] = next, !.failed = step.failed]
  <2>1. v = [w EXCEPT !.fd[f] = step.fd, ![k] = step.kernel,
                      ![n] = PopFrom(@, step.written), !.failed = step.failed]
    BY Zenon DEF Drain, WriteOf
  <2>2. [w EXCEPT !.fd[f] = step.fd, ![k] = step.kernel][n] = w[n]
    <3> HIDE DEF f, k, n, step
    <3> QED
      BY <1>2
  <2> QED
    BY <2>1, <2>2, Zenon
<1> HIDE DEF f, k, n, step, next, v
<1>4. /\ DOMAIN v = Fields /\ DOMAIN v.fd = DOMAIN w.fd /\ v.fd[f] = step.fd
      /\ v[k] = step.kernel /\ v[n] = next /\ v.failed = step.failed
      /\ \A g \in DOMAIN w.fd \ {f} : v.fd[g] = w.fd[g]
      /\ \A g \in Fields \ {"fd", "failed", k, n} : v[g] = w[g]
  BY <1>2, <1>3 DEF Fields
<1> QED
  BY <1>4, Zenon DEF f, k, n, step, next, v, IsUpdate

(* What the callback of a rule that reads has done: n bytes moved on.      *)
HasRead(v, w, rule, n) ==
    /\ IsUpdate(v, w, FdOf(rule), KernelOf(rule), StreamOfRule(rule))
    /\ v.fd[FdOf(rule)] \in Descriptor
    /\ v.fd[FdOf(rule)].read_count_ = 1
    /\ v.fd[FdOf(rule)].closed_ = w.fd[FdOf(rule)].closed_
    /\ v.fd[FdOf(rule)].eof_ <=> w.fd[FdOf(rule)].eof_ \/ n = 0
    /\ v.failed <=> n = 0 /\ w[KernelOf(rule)].error
    /\ IsPipeWith(v[KernelOf(rule)], KernelSize, w[KernelOf(rule)].pushed,
                  w[KernelOf(rule)].popped + n, w[KernelOf(rule)].closed,
                  w[KernelOf(rule)].error)
    /\ IsPipe(v[StreamOfRule(rule)], BufferSize)
    /\ v[StreamOfRule(rule)].pushed = w[StreamOfRule(rule)].pushed + n
    /\ v[StreamOfRule(rule)].popped = w[StreamOfRule(rule)].popped
    /\ v[StreamOfRule(rule)].error = w[StreamOfRule(rule)].error
    /\ v[StreamOfRule(rule)].closed <=>
          w[StreamOfRule(rule)].closed \/ v.fd[FdOf(rule)].eof_

(* The callback of a rule that reads, called when there is something to    *)
(* read, or the end, and room for it.                                      *)
LEMMA FillReads ==
    ASSUME SizeAssumption, NEW w, IsWorld(w), NEW rule \in InRules,
           IsPipe(w[KernelOf(rule)], KernelSize), IsPipe(w[StreamOfRule(rule)], BufferSize),
           w[KernelOf(rule)].popped = w[StreamOfRule(rule)].pushed,
           AvailableCapacity(w[StreamOfRule(rule)]) > 0,
           w[KernelOf(rule)].queue # << >> \/ w[KernelOf(rule)].closed
    PROVE  \E n \in Nat : /\ HasRead(CallbackOf(w, rule), w, rule, n)
                          /\ n = 0 <=> w[KernelOf(rule)].queue = << >>
<1> DEFINE source == w[KernelOf(rule)]
           stream == w[StreamOfRule(rule)]
           fd == w.fd[FdOf(rule)]
           size == AvailableCapacity(stream)
           step == ReadOf(w, rule)
           full == FullOf(w, rule)
           v == Fill(w, rule)
<1>1. rule \in AllRules /\ IsIn(rule)
  BY DEF AllRules, InRules, IsIn
<1>2. IsIdle(fd)
  BY <1>1, RuleNames
<1>3. KernelSize \in Nat /\ BufferSize \in Nat /\ size \in Nat \ {0}
  <2>1. KernelSize \in Nat /\ BufferSize \in Nat
    BY DEF SizeAssumption
  <2>2. size \in Nat
    BY <2>1, PipeCounts
  <2> QED
    BY <2>1, <2>2
<1> HIDE DEF size, source, fd
<1>4. PICK n \in Nat : IsRead(step, fd, source, size, n)
  <2>1. step = read(fd, source, size)
    BY Zenon DEF ReadOf, fd, source, size
  <2>2. IsPipe(source, KernelSize) /\ (source.queue # << >> \/ source.closed)
    BY DEF source
  <2>3. \E n \in Nat : IsRead(read(fd, source, size), fd, source, size, n)
    BY <1>2, <1>3, <2>2, ReadMoves
  <2> HIDE DEF step
  <2> QED
    BY <2>1, <2>3, Zenon
<1>5. IsPipeWith(full, BufferSize, stream.pushed + n, stream.popped, stream.closed, stream.error)
  <2>1. full = PushTo(stream, Bytes(stream.pushed + 1, n))
    BY <1>4, Zenon DEF FullOf, source, IsRead
  <2>2. n <= size
    BY <1>4, Zenon DEF IsRead
  <2> QED
    BY <1>3, <2>1, <2>2, PipePush DEF size
<1>6. /\ IsPipe(CloseOf(full), BufferSize)
      /\ CloseOf(full).pushed = full.pushed /\ CloseOf(full).popped = full.popped
      /\ CloseOf(full).error = full.error /\ CloseOf(full).closed = TRUE
  BY <1>3, <1>5, PipeFlags DEF IsPipeWith
<1>7. /\ IsUpdate(v, w, FdOf(rule), KernelOf(rule), StreamOfRule(rule))
      /\ v.fd[FdOf(rule)] = step.fd
      /\ v.failed = step.failed
      /\ v[KernelOf(rule)] = step.kernel
      /\ v[StreamOfRule(rule)] = IF step.fd.eof_ THEN CloseOf(full) ELSE full
  BY FillFields
<1> DEFINE next == v[StreamOfRule(rule)]
<1>8. /\ IsPipe(next, BufferSize) /\ next.pushed = stream.pushed + n
      /\ next.popped = stream.popped /\ next.error = stream.error
      /\ next.closed <=> stream.closed \/ step.fd.eof_
  <2> HIDE DEF stream, step, full, next
  <2>1. CASE step.fd.eof_
    <3>1. next = CloseOf(full)
      BY <1>7, <2>1, Zenon DEF next
    <3> QED
      BY <1>5, <1>6, <2>1, <3>1, Zenon DEF IsPipeWith
  <2>2. CASE ~step.fd.eof_
    <3>1. next = full
      BY <1>7, <2>2, Zenon DEF next
    <3> QED
      BY <1>5, <2>2, <3>1, Zenon DEF IsPipeWith
  <2> QED
    BY <2>1, <2>2
<1>9. CallbackOf(w, rule) = v
  BY <1>1, Zenon DEF CallbackOf
<1> HIDE DEF v, step, full
<1>10. HasRead(v, w, rule, n)
  BY <1>4, <1>7, <1>8, Zenon DEF IsRead, HasRead, source, stream, fd, next
<1> QED
  BY <1>4, <1>9, <1>10, Zenon DEF IsRead, source

(* What PassEndOn changes, when the end is to be passed on.                *)
HasEnded(v, u, rule) ==
    /\ DOMAIN v = Fields
    /\ DOMAIN v.fd = DOMAIN u.fd
    /\ \A g \in DOMAIN u.fd \ {FdOf(rule)} : v.fd[g] = u.fd[g]
    /\ DOMAIN v.shutdown = DOMAIN u.shutdown
    /\ \A g \in DOMAIN u.shutdown \ {StreamOfRule(rule)} : v.shutdown[g] = u.shutdown[g]
    /\ v.shutdown[StreamOfRule(rule)] = TRUE
    /\ v[KernelOf(rule)] = CloseOf(u[KernelOf(rule)])
    /\ \A g \in Fields \ {"fd", "shutdown", KernelOf(rule)} : v[g] = u[g]
    /\ v.fd[FdOf(rule)] \in Descriptor
    /\ rule = "write socket" =>
          /\ v.fd[FdOf(rule)].write_count_ = u.fd[FdOf(rule)].write_count_ + 1
          /\ v.fd[FdOf(rule)].closed_ = u.fd[FdOf(rule)].closed_
          /\ v.fd[FdOf(rule)].eof_ = u.fd[FdOf(rule)].eof_
    /\ rule = "write stdout" => v.fd[FdOf(rule)].closed_ = TRUE

(* What PassEndOn does once the stream has come to its end.                *)
LEMMA PassEndOnFields ==
    ASSUME NEW u, NEW rule \in OutRules, DOMAIN u = Fields,
           FdOf(rule) \in DOMAIN u.fd, u.fd[FdOf(rule)] \in Descriptor,
           StreamOfRule(rule) \in DOMAIN u.shutdown,
           ~u.failed, IsFinished(u[StreamOfRule(rule)])
    PROVE  HasEnded(PassEndOn(u, rule), u, rule)
<1> DEFINE f == FdOf(rule)
           k == KernelOf(rule)
           n == StreamOfRule(rule)
           old == u.fd[f]
           new == IF n = "outbound" THEN register_write(old) ELSE close(old)
           kernel == CloseOf(u[k])
           v == PassEndOn(u, rule)
<1>1. /\ k \in Fields \ {"fd", "shutdown"}
      /\ n = "outbound" <=> rule = "write socket"
      /\ n = "outbound" <=> rule # "write stdout"
  BY DEF OutRules, KernelOf, StreamOfRule, Fields
<1>2. v = [u EXCEPT !.fd[f] = new, ![k] = CloseOf(@), !.shutdown[n] = TRUE]
  BY Zenon DEF PassEndOn
<1>3. [u EXCEPT !.fd[f] = new][k] = u[k]
  <2> HIDE DEF f, k, n, new
  <2> QED
    BY <1>1 DEF Fields
<1>4. v = [u EXCEPT !.fd[f] = new, ![k] = kernel, !.shutdown[n] = TRUE]
  BY <1>2, <1>3, Zenon
<1>5. old \in Descriptor
  OBVIOUS
<1>6. /\ new \in Descriptor
      /\ n = "outbound" => /\ new.write_count_ = old.write_count_ + 1
                           /\ new.closed_ = old.closed_ /\ new.eof_ = old.eof_
      /\ n # "outbound" => new.closed_ = TRUE
  <2> HIDE DEF n, old
  <2>1. /\ register_write(old) \in Descriptor
        /\ register_write(old).write_count_ = old.write_count_ + 1
        /\ register_write(old).closed_ = old.closed_
        /\ register_write(old).eof_ = old.eof_
    BY <1>5 DEF Descriptor, register_write
  <2>2. close(old) \in Descriptor /\ close(old).closed_ = TRUE
    BY <1>5 DEF Descriptor, close
  <2> QED
    BY <2>1, <2>2
<1> HIDE DEF f, k, n, new, kernel, v, old
<1>7. /\ DOMAIN u = Fields /\ f \in DOMAIN u.fd /\ n \in DOMAIN u.shutdown
  BY DEF f, n
<1>8. /\ DOMAIN v = Fields /\ DOMAIN v.fd = DOMAIN u.fd /\ v.fd[f] = new
      /\ v[k] = kernel /\ v.shutdown[n] = TRUE
      /\ DOMAIN v.shutdown = DOMAIN u.shutdown
      /\ \A g \in DOMAIN u.fd \ {f} : v.fd[g] = u.fd[g]
      /\ \A g \in DOMAIN u.shutdown \ {n} : v.shutdown[g] = u.shutdown[g]
      /\ \A g \in Fields \ {"fd", "shutdown", k} : v[g] = u[g]
  BY <1>1, <1>4, <1>7 DEF Fields
<1>9. /\ rule = "write socket" => /\ v.fd[f].write_count_ = old.write_count_ + 1
                                  /\ v.fd[f].closed_ = old.closed_ /\ v.fd[f].eof_ = old.eof_
      /\ rule = "write stdout" => v.fd[f].closed_ = TRUE
      /\ v.fd[f] \in Descriptor
  BY <1>1, <1>6, <1>8, Zenon
<1> QED
  BY <1>8, <1>9, Zenon DEF f, k, n, kernel, v, old, HasEnded

(* What Drain has done: n bytes moved on.                                  *)
HasDrained(u, w, rule, n) ==
    /\ IsUpdate(u, w, FdOf(rule), KernelOf(rule), StreamOfRule(rule))
    /\ u.fd[FdOf(rule)] \in Descriptor
    /\ w[StreamOfRule(rule)].queue # << >> => u.fd[FdOf(rule)].write_count_ = 1
    /\ u.fd[FdOf(rule)].closed_ = w.fd[FdOf(rule)].closed_
    /\ u.fd[FdOf(rule)].eof_ = w.fd[FdOf(rule)].eof_
    /\ u.failed => BrokenPipe(w[KernelOf(rule)]) /\ w[StreamOfRule(rule)].queue # << >>
    /\ IsPipeWith(u[StreamOfRule(rule)], BufferSize, w[StreamOfRule(rule)].pushed,
                  w[StreamOfRule(rule)].popped + n, w[StreamOfRule(rule)].closed,
                  w[StreamOfRule(rule)].error)
    /\ IsPipeWith(u[KernelOf(rule)], KernelSize, w[KernelOf(rule)].pushed + n,
                  w[KernelOf(rule)].popped, w[KernelOf(rule)].closed,
                  w[KernelOf(rule)].error)

(* A rule that writes moves on what the kernel has room for.               *)
LEMMA DrainWrites ==
    ASSUME SizeAssumption, NEW w, IsWorld(w), NEW rule \in OutRules, ~w.failed,
           IsPipe(w[KernelOf(rule)], KernelSize), IsPipe(w[StreamOfRule(rule)], BufferSize),
           w[StreamOfRule(rule)].popped = w[KernelOf(rule)].pushed,
           AvailableCapacity(w[KernelOf(rule)]) > 0
    PROVE  \E n \in Nat : HasDrained(Drain(w, rule), w, rule, n)
<1> DEFINE stream == w[StreamOfRule(rule)]
           sink == w[KernelOf(rule)]
           fd == w.fd[FdOf(rule)]
           step == WriteOf(w, rule)
           u == Drain(w, rule)
<1>1. rule \in AllRules
  BY DEF AllRules, OutRules
<1>2. IsIdle(fd) /\ fd \in Descriptor
  <2>1. IsIdle(fd)
    BY <1>1, RuleNames
  <2> QED
    BY <2>1, Zenon DEF IsIdle, Descriptor
<1>3. KernelSize \in Nat /\ BufferSize \in Nat /\ AvailableCapacity(sink) # 0
  <2>1. KernelSize \in Nat /\ BufferSize \in Nat
    BY DEF SizeAssumption
  <2>2. AvailableCapacity(sink) \in Nat
    BY <2>1, PipeCounts
  <2> QED
    BY <2>1, <2>2
<1>4. CASE stream.queue = << >>
  <2>1. u = w
    BY <1>4, Zenon DEF Drain
  <2>2. IsUpdate(w, w, FdOf(rule), KernelOf(rule), StreamOfRule(rule))
    BY Zenon DEF IsUpdate, IsWorld
  <2>3. sink.pushed + 0 = sink.pushed /\ stream.popped + 0 = stream.popped
    BY <1>3, PipeCounts
  <2>4. HasDrained(w, w, rule, 0)
    <3>1. /\ IsPipeWith(stream, BufferSize, stream.pushed, stream.popped + 0,
                        stream.closed, stream.error)
          /\ IsPipeWith(sink, KernelSize, sink.pushed + 0, sink.popped,
                        sink.closed, sink.error)
      BY <2>3, Zenon DEF IsPipeWith
    <3> QED
      BY <1>2, <1>4, <2>2, <3>1, Zenon DEF HasDrained
  <2>5. 0 \in Nat
    OBVIOUS
  <2> HIDE DEF u
  <2> QED
    BY <2>1, <2>4, <2>5, Zenon DEF u
<1>5. CASE stream.queue # << >>
  <2> HIDE DEF fd, stream, sink
  <2>1. PICK n \in Nat : IsWrite(step, fd, sink, stream, n)
    <3>1. step = write(fd, sink, stream.queue)
      BY Zenon DEF WriteOf, fd, stream, sink
    <3>2. IsPipe(sink, KernelSize) /\ IsPipe(stream, BufferSize) /\ stream.popped = sink.pushed
      BY Zenon DEF sink, stream
    <3>3. \E n \in Nat : IsWrite(write(fd, sink, stream.queue), fd, sink, stream, n)
      BY <1>2, <1>5, <3>2, WriteMoves
    <3> HIDE DEF step
    <3> QED
      BY <3>1, <3>3, Zenon
  <2>2. IsPipeWith(PopFrom(stream, n), BufferSize, stream.pushed, stream.popped + n,
                   stream.closed, stream.error)
    <3>1. n <= Len(stream.queue)
      BY <2>1, Zenon DEF IsWrite
    <3>2. IsPipe(stream, BufferSize)
      BY DEF stream
    <3> QED
      BY <1>3, <3>1, <3>2, PipePop
  <2>3. /\ IsUpdate(u, w, FdOf(rule), KernelOf(rule), StreamOfRule(rule))
        /\ u.fd[FdOf(rule)] = step.fd
        /\ u.failed = step.failed
        /\ u[KernelOf(rule)] = step.kernel
        /\ u[StreamOfRule(rule)] = PopFrom(stream, step.written)
    BY <1>5, DrainFields DEF stream
  <2>4. step.failed => BrokenPipe(sink)
    BY <1>3, <2>1, Zenon DEF IsWrite
  <2> HIDE DEF u, step
  <2>5. HasDrained(u, w, rule, n)
    BY <1>5, <2>1, <2>2, <2>3, <2>4, Zenon DEF IsWrite, HasDrained, stream, sink, fd
  <2> QED
    BY <2>5 DEF u
<1> QED
  BY <1>4, <1>5

(* What the callback of a rule that writes has done: n bytes moved on, and *)
(* the end behind them if that is it.                                      *)
HasWritten(v, w, rule, n, ended) ==
    /\ DOMAIN v = Fields
    /\ DOMAIN v.fd = DOMAIN w.fd
    /\ \A g \in DOMAIN w.fd \ {FdOf(rule)} : v.fd[g] = w.fd[g]
    /\ DOMAIN v.shutdown = DOMAIN w.shutdown
    /\ \A g \in DOMAIN w.shutdown \ {StreamOfRule(rule)} : v.shutdown[g] = w.shutdown[g]
    /\ v.shutdown[StreamOfRule(rule)] => w.shutdown[StreamOfRule(rule)] \/ ended
    /\ \A g \in Fields \ {"fd", "failed", "shutdown", KernelOf(rule), StreamOfRule(rule)} :
          v[g] = w[g]
    /\ v.fd[FdOf(rule)] \in Descriptor
    /\ v.fd[FdOf(rule)].write_count_ # 0 \/ v.fd[FdOf(rule)].closed_
    /\ rule = "write socket" => /\ v.fd[FdOf(rule)].closed_ = w.fd[FdOf(rule)].closed_
                                /\ v.fd[FdOf(rule)].eof_ = w.fd[FdOf(rule)].eof_
    /\ v.fd[FdOf(rule)].closed_ => w.fd[FdOf(rule)].closed_ \/ ended
    /\ v.failed => BrokenPipe(w[KernelOf(rule)]) /\ w[StreamOfRule(rule)].queue # << >>
    /\ ended => IsFinished(v[StreamOfRule(rule)])
    /\ IsPipeWith(v[StreamOfRule(rule)], BufferSize, w[StreamOfRule(rule)].pushed,
                  w[StreamOfRule(rule)].popped + n, w[StreamOfRule(rule)].closed,
                  w[StreamOfRule(rule)].error)
    /\ IsPipe(v[KernelOf(rule)], KernelSize)
    /\ v[KernelOf(rule)].pushed = w[KernelOf(rule)].pushed + n
    /\ v[KernelOf(rule)].popped = w[KernelOf(rule)].popped
    /\ v[KernelOf(rule)].error = w[KernelOf(rule)].error
    /\ v[KernelOf(rule)].closed <=> w[KernelOf(rule)].closed \/ ended

(* The callback of a rule that writes, called when there is something to   *)
(* write and room for it, or the end to pass on.                           *)
LEMMA CallbackWrites ==
    ASSUME SizeAssumption, NEW w, IsWorld(w), NEW rule \in OutRules, ~w.failed,
           IsPipe(w[KernelOf(rule)], KernelSize), IsPipe(w[StreamOfRule(rule)], BufferSize),
           w[StreamOfRule(rule)].popped = w[KernelOf(rule)].pushed,
           AvailableCapacity(w[KernelOf(rule)]) > 0,
           w[StreamOfRule(rule)].queue # << >> \/ IsFinished(w[StreamOfRule(rule)])
    PROVE  \E n \in Nat : \E ended \in BOOLEAN :
              HasWritten(CallbackOf(w, rule), w, rule, n, ended)
<1> DEFINE u == Drain(w, rule)
           v == PassEndOn(u, rule)
           f == FdOf(rule)
           k == KernelOf(rule)
           s == StreamOfRule(rule)
           ended == ~u.failed /\ IsFinished(u[s])
<1>1. rule \in AllRules /\ ~IsIn(rule)
  BY DEF AllRules, OutRules, IsIn
<1>2. CallbackOf(w, rule) = v
  BY <1>1, Zenon DEF CallbackOf
<1>3. PICK n \in Nat : HasDrained(u, w, rule, n)
  BY DrainWrites
<1>4. /\ f \in DOMAIN w.fd /\ s \in DOMAIN w.shutdown /\ s # "shutdown" /\ k # s
      /\ "shutdown" \in Fields \ {"fd", "failed", k, s}
      /\ {"fd", "failed", k, s} \subseteq Fields
  <2>1. "shutdown" \in Fields \ {"fd", "failed"} /\ {"fd", "failed"} \subseteq Fields
    BY DEF Fields
  <2> QED
    BY <1>1, <2>1, RuleNames
<1>5. KernelSize \in Nat
  BY DEF SizeAssumption
<1> HIDE DEF u, f, k, s
<1>6. /\ IsUpdate(u, w, f, k, s)
      /\ u.shutdown = w.shutdown
      /\ u.fd[f] \in Descriptor
      /\ IsPipe(u[k], KernelSize)
  <2>1. IsUpdate(u, w, f, k, s) /\ u.fd[f] \in Descriptor /\ IsPipe(u[k], KernelSize)
    BY <1>3, Zenon DEF HasDrained, f, k, s, IsPipeWith
  <2>2. u["shutdown"] = w["shutdown"]
    BY <1>4, <2>1, Zenon DEF IsUpdate
  <2> QED
    BY <2>1, <2>2
<1>7. CASE ~ended
  <2>1. v = u
    BY <1>7, Zenon DEF PassEndOn, s
  <2>2. w[s].queue # << >>
    <3>1. CASE w[s].queue = << >>
      <4>1. u = w
        BY <3>1, Zenon DEF Drain, u, s
      <4>2. ~u.failed /\ IsFinished(u[s])
        BY <3>1, <4>1, Zenon DEF s
      <4> QED
        BY <1>7, <4>2
    <3> QED
      BY <3>1
  <2>3. u.fd[f].write_count_ # 0
    <3>1. u.fd[f].write_count_ = 1
      BY <1>3, <2>2, Zenon DEF HasDrained, f, s
    <3> QED
      BY <3>1
  <2>4. /\ \A g \in Fields \ {"fd", "failed", "shutdown", k, s} : u[g] = w[g]
        /\ DOMAIN u = Fields /\ DOMAIN u.fd = DOMAIN w.fd
        /\ \A g \in DOMAIN w.fd \ {f} : u.fd[g] = w.fd[g]
    BY <1>6, Zenon DEF IsUpdate
  <2>5. HasWritten(u, w, rule, n, FALSE)
    <3> HIDE DEF ended
    <3> QED
      BY <1>3, <1>6, <2>3, <2>4, Zenon DEF HasDrained, HasWritten, IsPipeWith, f, k, s
  <2> HIDE DEF v, ended
  <2> QED
    BY <1>2, <2>1, <2>5, Zenon
<1>8. CASE ended
  <2>1. HasEnded(v, u, rule)
    <3>1. /\ DOMAIN u = Fields /\ DOMAIN u.fd = DOMAIN w.fd
      BY <1>6, Zenon DEF IsUpdate
    <3>2. /\ DOMAIN u = Fields /\ FdOf(rule) \in DOMAIN u.fd
          /\ u.fd[FdOf(rule)] \in Descriptor
          /\ StreamOfRule(rule) \in DOMAIN u.shutdown
          /\ ~u.failed /\ IsFinished(u[StreamOfRule(rule)])
      BY <1>4, <1>6, <1>8, <3>1, Zenon DEF f, s
    <3> HIDE DEF v, ended
    <3>3. HasEnded(PassEndOn(u, rule), u, rule)
      BY <3>2, PassEndOnFields
    <3> QED
      BY <3>3 DEF v
  <2> HIDE DEF v
  <2>2. /\ v[k] = CloseOf(u[k])
        /\ IsPipe(v[k], KernelSize)
        /\ v[k].pushed = u[k].pushed /\ v[k].popped = u[k].popped
        /\ v[k].error = u[k].error /\ v[k].closed = TRUE
    <3>1. v[k] = CloseOf(u[k])
      BY <2>1, Zenon DEF HasEnded, k
    <3>2. IsPipeWith(CloseOf(u[k]), KernelSize, u[k].pushed, u[k].popped, TRUE, u[k].error)
      BY <1>5, <1>6, PipeFlags
    <3> QED
      BY <3>1, <3>2, Zenon DEF IsPipeWith
  <2>3. v[s] = u[s] /\ v["failed"] = u["failed"]
    <3>1. s \in Fields \ {"fd", "shutdown", k} /\ "failed" \in Fields \ {"fd", "shutdown", k}
      <4>1. "failed" \in Fields \ {"fd", "shutdown"} /\ "fd" # "failed"
        BY DEF Fields
      <4>2. k # "failed" /\ s # "fd"
        BY <1>1, RuleNames DEF k, s
      <4> QED
        BY <1>4, <4>1, <4>2
    <3> QED
      BY <2>1, <3>1, Zenon DEF HasEnded, k
  <2>4. /\ DOMAIN v = Fields /\ DOMAIN v.fd = DOMAIN w.fd
        /\ \A g \in DOMAIN w.fd \ {f} : v.fd[g] = w.fd[g]
        /\ \A g \in Fields \ {"fd", "failed", "shutdown", k, s} : v[g] = w[g]
        /\ DOMAIN v.shutdown = DOMAIN w.shutdown
        /\ \A g \in DOMAIN w.shutdown \ {s} : v.shutdown[g] = w.shutdown[g]
    BY <1>6, <2>1, Zenon DEF IsUpdate, HasEnded, f, k, s
  <2>5. /\ v.fd[f] \in Descriptor
        /\ v.fd[f].write_count_ # 0 \/ v.fd[f].closed_
        /\ rule = "write socket" => /\ v.fd[f].closed_ = u.fd[f].closed_
                                    /\ v.fd[f].eof_ = u.fd[f].eof_
    <3>1. /\ v.fd[f] \in Descriptor
          /\ rule = "write socket" => /\ v.fd[f].closed_ = u.fd[f].closed_
                                      /\ v.fd[f].eof_ = u.fd[f].eof_
      BY <2>1, Zenon DEF HasEnded, f
    <3>2. CASE rule = "write socket"
      <4>1. v.fd[f].write_count_ = u.fd[f].write_count_ + 1
        BY <2>1, <3>2, Zenon DEF HasEnded, f
      <4>2. u.fd[f].write_count_ \in Nat
        BY <1>6 DEF Descriptor
      <4>3. v.fd[f].write_count_ # 0
        BY <4>1, <4>2
      <4> QED
        BY <3>1, <4>3
    <3>3. CASE rule = "write stdout"
      <4>1. v.fd[f].closed_ = TRUE
        BY <2>1, <3>3, Zenon DEF HasEnded, f
      <4> QED
        BY <3>1, <4>1
    <3> QED
      BY <3>2, <3>3 DEF OutRules
  <2>6. HasWritten(v, w, rule, n, TRUE)
    <3>1. ~v.failed /\ IsFinished(v[s])
      <4>1. ~u.failed /\ IsFinished(u[s])
        BY <1>8
      <4> QED
        BY <2>3, <4>1, Zenon
    <3> HIDE DEF ended
    <3>2. /\ IsPipeWith(u[s], BufferSize, w[s].pushed, w[s].popped + n, w[s].closed, w[s].error)
          /\ IsPipeWith(u[k], KernelSize, w[k].pushed + n, w[k].popped, w[k].closed, w[k].error)
          /\ rule = "write socket" => /\ u.fd[f].closed_ = w.fd[f].closed_
                                      /\ u.fd[f].eof_ = w.fd[f].eof_
      BY <1>3, Zenon DEF HasDrained, f, k, s
    <3>3. /\ IsPipeWith(v[s], BufferSize, w[s].pushed, w[s].popped + n, w[s].closed, w[s].error)
          /\ IsPipe(v[k], KernelSize)
          /\ v[k].pushed = w[k].pushed + n
          /\ v[k].popped = w[k].popped
          /\ v[k].error = w[k].error
          /\ v[k].closed = TRUE
          /\ rule = "write socket" => /\ v.fd[f].closed_ = w.fd[f].closed_
                                      /\ v.fd[f].eof_ = w.fd[f].eof_
      BY <2>2, <2>3, <2>5, <3>2, Zenon DEF IsPipeWith
    <3> QED
      BY <2>4, <2>5, <3>1, <3>3, Zenon DEF HasWritten, f, k, s
  <2> HIDE DEF ended
  <2> QED
    BY <1>2, <2>6, Zenon DEF v
<1> QED
  BY <1>7, <1>8

(* v is u after the callback, its reads and writes no longer counted.      *)
IsReset(v, u, name) ==
    /\ DOMAIN v = Fields
    /\ DOMAIN v.fd = DOMAIN u.fd
    /\ \A g \in DOMAIN u.fd \ {name} : v.fd[g] = u.fd[g]
    /\ IsIdle(v.fd[name])
    /\ v.fd[name].eof_ = u.fd[name].eof_
    /\ v.fd[name].closed_ = u.fd[name].closed_
    /\ \A g \in Fields \ {"fd", "loop"} : v[g] = u[g]

(* u is what a callback has left that has read, written or closed.         *)
Effective(u, rule) ==
    /\ DOMAIN u = Fields
    /\ FdOf(rule) \in DOMAIN u.fd
    /\ u.fd[FdOf(rule)] \in Descriptor
    /\ \/ IsIn(rule) /\ u.fd[FdOf(rule)].read_count_ # 0
       \/ ~IsIn(rule) /\ u.fd[FdOf(rule)].write_count_ # 0
       \/ u.fd[FdOf(rule)].closed_

(* Such a callback is not taken for a busy wait.                           *)
LEMMA ServedFields ==
    ASSUME NEW w, NEW rule, Effective(CallbackOf(w, rule), rule)
    PROVE  /\ IsReset(Loop!Serve1(w, rule), CallbackOf(w, rule), FdOf(rule))
           /\ Loop!Serve1(w, rule).loop =
                 IF CallbackOf(w, rule).failed THEN "failed" ELSE "poll"
<1> DEFINE u == CallbackOf(w, rule)
           f == FdOf(rule)
           v == Loop!Serve1(w, rule)
           loop == IF u.failed THEN "failed"
                   ELSE IF Loop!BusyWait(u, rule) THEN "busy wait" ELSE "poll"
<1>1. ~Loop!BusyWait(u, rule)
  BY Zenon DEF Loop!BusyWait, Loop!service_count, Effective
<1>2. v = [u EXCEPT !.fd[f].read_count_ = 0, !.fd[f].write_count_ = 0, !.loop = loop]
  BY Zenon DEF Loop!Serve1
<1>3. loop = IF u.failed THEN "failed" ELSE "poll"
  BY <1>1
<1> DEFINE fd == u.fd[f]
<1>4. DOMAIN u = Fields /\ f \in DOMAIN u.fd /\ fd \in Descriptor
  BY Zenon DEF Effective
<1> HIDE DEF loop, v, f, u
<1>5. /\ DOMAIN v = Fields /\ DOMAIN v.fd = DOMAIN u.fd /\ v.loop = loop
      /\ \A g \in DOMAIN u.fd \ {f} : v.fd[g] = u.fd[g]
      /\ \A g \in Fields \ {"fd", "loop"} : v[g] = u[g]
      /\ IsIdle(v.fd[f]) /\ v.fd[f].eof_ = fd.eof_ /\ v.fd[f].closed_ = fd.closed_
  BY <1>2, <1>4 DEF Fields, IsIdle, Descriptor
<1> QED
  BY <1>3, <1>5, Zenon DEF IsReset, f, v, u

(* v is w without a rule, and with the stream of the rule closed.          *)
IsCancelled(v, w, rule) ==
    /\ DOMAIN v = Fields
    /\ v[StreamOfRule(rule)] = CloseOf(w[StreamOfRule(rule)])
    /\ InOrder(v.rules)
    /\ \A x : Kept(v, x) <=> Kept(w, x) /\ x # rule
    /\ \A g \in Fields \ {"rules", StreamOfRule(rule)} : v[g] = w[g]

(* What the cancellation of a rule changes.                                *)
LEMMA CancelFields ==
    ASSUME NEW w, DOMAIN w = Fields, InOrder(w.rules), NEW rule \in AllRules
    PROVE  IsCancelled(Loop!CancelRule(w, rule), w, rule)
<1> DEFINE s == StreamOfRule(rule)
           u == CancelOf(w, rule)
           v == Loop!CancelRule(w, rule)
           closed == CloseOf(w[s])
           rules == RemoveFirst(w.rules, rule)
<1>1. s \in Fields \ {"rules"}
  BY DEF StreamOfRule, Fields
<1>2. u = [w EXCEPT ![s] = closed]
  BY Zenon DEF CancelOf
<1>3. v = [u EXCEPT !.rules = Loop!RemoveFirst(@, rule)]
  BY Zenon DEF Loop!CancelRule, Loop!Erase
<1> HIDE DEF s, closed, u, v
<1>4. /\ DOMAIN u = Fields /\ u[s] = closed
      /\ \A g \in Fields \ {s} : u[g] = w[g]
  BY <1>1, <1>2
<1>5. u.rules = w.rules
  <2>1. "rules" \in Fields \ {s}
    BY <1>1 DEF Fields
  <2>2. u["rules"] = w["rules"]
    BY <1>4, <2>1
  <2> QED
    BY <2>2
<1>6. Loop!RemoveFirst(u.rules, rule) = rules
  <2> DEFINE q == w.rules
             found == {i \in 1 .. Len(q) : q[i] = rule}
             least == CHOOSE x \in found : \A y \in found : x =< y
             k == IF found # {} THEN least ELSE 0
             rest == IF \E i \in 1 .. Len(q) : q[i] = rule
                       THEN SubSeq(q, 1, k - 1) \o SubSeq(q, k + 1, Len(q)) ELSE q
  <2>1. RemoveFirst(q, rule) = rest
    <3>1. SelectInSeq(q, LAMBDA v1 : v1 = rule) = k
      BY Zenon DEF SelectInSeq, Min
    <3> HIDE DEF k
    <3> QED
      BY <3>1, Zenon DEF RemoveFirst, RemoveAt
  <2>2. Loop!RemoveFirst(q, rule) = rest
    <3>1. Loop!SelectInSeq(q, LAMBDA v1 : v1 = rule) = k
      BY Zenon DEF Loop!SelectInSeq, Loop!Min
    <3> HIDE DEF k
    <3> QED
      BY <3>1, Zenon DEF Loop!RemoveFirst, Loop!RemoveAt
  <2> HIDE DEF rest
  <2> QED
    BY <1>5, <2>1, <2>2
<1> HIDE DEF rules
<1>7. /\ DOMAIN v = Fields /\ v.rules = rules
      /\ \A g \in Fields \ {"rules"} : v[g] = u[g]
  <2>1. v = [u EXCEPT !.rules = rules]
    BY <1>3, <1>6, Zenon
  <2> QED
    BY <1>4, <2>1 DEF Fields
<1>8. InOrder(rules) /\ \A x : Member(rules, x) <=> Member(w.rules, x) /\ x # rule
  BY EraseKeepsOrder DEF rules
<1>9. v[s] = closed /\ \A g \in Fields \ {"rules", s} : v[g] = w[g]
  BY <1>1, <1>4, <1>7
<1> QED
  BY <1>7, <1>8, <1>9, Zenon DEF IsCancelled, Kept, s, v, closed

(* v is w with both streams in error.                                      *)
LEMMA ErrorFields ==
    ASSUME NEW w, DOMAIN w = Fields, NEW rule
    PROVE  /\ DOMAIN ErrorOf(w, rule) = Fields
           /\ ErrorOf(w, rule).outbound = SetErrorOf(w.outbound)
           /\ ErrorOf(w, rule).inbound = SetErrorOf(w.inbound)
           /\ \A g \in Fields \ {"outbound", "inbound"} : ErrorOf(w, rule)[g] = w[g]
<1> DEFINE a == SetErrorOf(w.outbound)
           b == SetErrorOf(w.inbound)
           v == ErrorOf(w, rule)
<1>1. v = [w EXCEPT !.outbound = a, !.inbound = SetErrorOf(@)]
  BY Zenon DEF ErrorOf
<1>2. [w EXCEPT !.outbound = a].inbound = w.inbound
  <2> HIDE DEF a
  <2> QED
    BY DEF Fields
<1>3. v = [w EXCEPT !.outbound = a, !.inbound = b]
  <2> DEFINE x == [w EXCEPT !.outbound = a]
  <2>1. v = [x EXCEPT !.inbound = SetErrorOf(x.inbound)]
    BY <1>1, Zenon
  <2>2. SetErrorOf(x.inbound) = b
    BY <1>2, Zenon
  <2> QED
    BY <2>1, <2>2, Zenon
<1> HIDE DEF a, b, v
<1>4. /\ DOMAIN v = Fields /\ v.outbound = a /\ v.inbound = b
      /\ \A g \in Fields \ {"outbound", "inbound"} : v[g] = w[g]
  BY <1>3 DEF Fields
<1> QED
  BY <1>4, Zenon DEF a, b, v

(* What the far ends can see of the two directions has not changed.        *)
SameEnds(v, w) ==
    /\ v.stdin.pushed = w.stdin.pushed
    /\ v.stdin.closed = w.stdin.closed
    /\ v.sent.popped = w.sent.popped
    /\ v.sent.error = w.sent.error
    /\ v.received.pushed = w.received.pushed
    /\ v.received.closed = w.received.closed
    /\ v.stdout.popped = w.stdout.popped
    /\ v.stdout.error = w.stdout.error

(* v is w but for the rules, and for flags of the two streams.             *)
SameButFlags(v, w) ==
    /\ v.fd = w.fd /\ v.shutdown = w.shutdown
    /\ v.stdin = w.stdin /\ v.sent = w.sent
    /\ v.received = w.received /\ v.stdout = w.stdout
    /\ v.outbound.queue = w.outbound.queue
    /\ v.outbound.pushed = w.outbound.pushed
    /\ v.outbound.popped = w.outbound.popped
    /\ v.inbound.queue = w.inbound.queue
    /\ v.inbound.pushed = w.inbound.pushed
    /\ v.inbound.popped = w.inbound.popped
    /\ AvailableCapacity(v.outbound) = AvailableCapacity(w.outbound)
    /\ AvailableCapacity(v.inbound) = AvailableCapacity(w.inbound)

(* Flags say nothing of what goes through a direction.                     *)
LEMMA FlagsKeepDirections ==
    ASSUME NEW w, Sound(w), NEW v, DOMAIN v = Fields, SameButFlags(v, w),
           IsPipe(v.outbound, BufferSize), IsPipe(v.inbound, BufferSize)
    PROVE  /\ IsWorld(v)
           /\ OneWay(v.stdin, v.outbound, v.sent)
           /\ OneWay(v.received, v.inbound, v.stdout)
           /\ SameEnds(v, w)
<1>1. IsWorld(v)
  <2>1. /\ DOMAIN w.fd = {"input", "output", "socket"}
        /\ DOMAIN w.shutdown = {"outbound", "inbound"}
        /\ \A name \in DOMAIN w.fd : IsIdle(w.fd[name])
    BY Zenon DEF Sound, IsWorld
  <2>2. v.fd = w.fd /\ v.shutdown = w.shutdown
    BY Zenon DEF SameButFlags
  <2> QED
    BY <2>1, <2>2, Zenon DEF IsWorld
<1>2. OneWay(w.stdin, w.outbound, w.sent) /\ OneWay(w.received, w.inbound, w.stdout)
  BY Zenon DEF Sound
<1>3. OneWay(v.stdin, v.outbound, v.sent) /\ OneWay(v.received, v.inbound, v.stdout)
  BY <1>2, Zenon DEF OneWay, SameButFlags
<1>4. SameEnds(v, w)
  BY Zenon DEF SameEnds, SameButFlags
<1> QED
  BY <1>1, <1>3, <1>4

(* A rule whose use is over can be cancelled.                              *)
IsOver(w, rule) ==
    /\ rule = "read stdin" => IsFinished(w.stdin)
    /\ rule = "write socket" => w.sent.closed \/ w.sent.error
    /\ rule = "read socket" => ReceivedEnded(w)
    /\ rule = "write stdout" => w.stdout.error \/ w.stdout.closed

(* The streams after a rule has been cancelled.                            *)
LEMMA CancelledStreams ==
    ASSUME SizeAssumption, NEW w, Sound(w), NEW rule \in AllRules, NEW v, IsCancelled(v, w, rule)
    PROVE  /\ SameButFlags(v, w)
           /\ IsPipe(v.outbound, BufferSize) /\ IsPipe(v.inbound, BufferSize)
           /\ v.outbound.error = w.outbound.error /\ v.inbound.error = w.inbound.error
           /\ v.outbound.closed <=> w.outbound.closed \/ StreamOfRule(rule) = "outbound"
           /\ v.inbound.closed <=> w.inbound.closed \/ StreamOfRule(rule) = "inbound"
           /\ v.loop = w.loop /\ v.failed = w.failed /\ v.polled = w.polled
<1> DEFINE s == StreamOfRule(rule)
<1>1. BufferSize \in Nat /\ IsPipe(w.outbound, BufferSize) /\ IsPipe(w.inbound, BufferSize)
  BY DEF SizeAssumption, Sound, OneWay
<1>2. \A x : IsPipe(x, BufferSize) =>
         /\ IsPipeWith(CloseOf(x), BufferSize, x.pushed, x.popped, TRUE, x.error)
         /\ CloseOf(x).queue = x.queue
  BY <1>1, PipeFlags
<1>3. \A x, y : IsPipe(x, BufferSize) /\ IsPipe(y, BufferSize) /\ x.queue = y.queue =>
         AvailableCapacity(x) = AvailableCapacity(y)
  BY Zenon DEF IsPipe, AvailableCapacity
<1>4. /\ s \in {"outbound", "inbound"}
      /\ v[s] = CloseOf(w[s])
      /\ \A g \in Fields \ {"rules", s} : v[g] = w[g]
  BY Zenon DEF IsCancelled, StreamOfRule
<1> HIDE DEF s
<1>5. /\ v.fd = w.fd /\ v.shutdown = w.shutdown
      /\ v.stdin = w.stdin /\ v.sent = w.sent
      /\ v.received = w.received /\ v.stdout = w.stdout
      /\ v.loop = w.loop /\ v.failed = w.failed /\ v.polled = w.polled
  BY <1>4 DEF Fields
<1>6. CASE s = "outbound"
  <2>1. v.outbound = CloseOf(w.outbound) /\ v.inbound = w.inbound
    BY <1>4, <1>6 DEF Fields
  <2>2. /\ IsPipeWith(v.outbound, BufferSize, w.outbound.pushed, w.outbound.popped, TRUE,
                      w.outbound.error)
        /\ v.outbound.queue = w.outbound.queue
    BY <1>1, <1>2, <2>1, Zenon
  <2>3. IsPipe(v.outbound, BufferSize)
    BY <2>2 DEF IsPipeWith
  <2>4. AvailableCapacity(v.outbound) = AvailableCapacity(w.outbound)
    BY <1>1, <1>3, <2>2, <2>3, Zenon
  <2>5. SameButFlags(v, w)
    BY <1>5, <2>1, <2>2, <2>4, Zenon DEF SameButFlags, IsPipeWith
  <2>6. v.outbound.closed /\ v.outbound.error = w.outbound.error
    BY <2>2 DEF IsPipeWith
  <2>7. v.inbound.closed <=> w.inbound.closed \/ s = "inbound"
    BY <1>6, <2>1
  <2> QED
    BY <1>1, <1>5, <1>6, <2>1, <2>3, <2>5, <2>6, <2>7, Zenon DEF s
<1>7. CASE s = "inbound"
  <2>1. v.inbound = CloseOf(w.inbound) /\ v.outbound = w.outbound
    BY <1>4, <1>7 DEF Fields
  <2>2. /\ IsPipeWith(v.inbound, BufferSize, w.inbound.pushed, w.inbound.popped, TRUE,
                      w.inbound.error)
        /\ v.inbound.queue = w.inbound.queue
    BY <1>1, <1>2, <2>1, Zenon
  <2>3. IsPipe(v.inbound, BufferSize)
    BY <2>2 DEF IsPipeWith
  <2>4. AvailableCapacity(v.inbound) = AvailableCapacity(w.inbound)
    BY <1>1, <1>3, <2>2, <2>3, Zenon
  <2>5. SameButFlags(v, w)
    BY <1>5, <2>1, <2>2, <2>4, Zenon DEF SameButFlags, IsPipeWith
  <2>6. v.inbound.closed /\ v.inbound.error = w.inbound.error
    BY <2>2 DEF IsPipeWith
  <2>7. v.outbound.closed <=> w.outbound.closed \/ s = "outbound"
    BY <1>7, <2>1
  <2> QED
    BY <1>1, <1>5, <1>7, <2>1, <2>3, <2>5, <2>6, <2>7, Zenon DEF s
<1> QED
  BY <1>4, <1>6, <1>7

(* To cancel a rule whose use is over leaves a sound world, in which only  *)
(* the stream of the rule has been closed.                                 *)
LEMMA CancelIsSound ==
    ASSUME SizeAssumption, NEW w, Sound(w), NEW rule \in AllRules, IsOver(w, rule),
           NEW v, IsCancelled(v, w, rule)
    PROVE  /\ Sound(v) /\ SameEnds(v, w)
           /\ SameButFlags(v, w)
           /\ v.outbound.closed <=> w.outbound.closed \/ StreamOfRule(rule) = "outbound"
           /\ v.inbound.closed <=> w.inbound.closed \/ StreamOfRule(rule) = "inbound"
           /\ v.loop = w.loop /\ v.failed = w.failed /\ v.polled = w.polled
<1>1. IsCancelled(v, w, rule)
  OBVIOUS
<1>2. /\ SameButFlags(v, w)
      /\ IsPipe(v.outbound, BufferSize) /\ IsPipe(v.inbound, BufferSize)
      /\ v.outbound.error = w.outbound.error /\ v.inbound.error = w.inbound.error
      /\ v.outbound.closed <=> w.outbound.closed \/ StreamOfRule(rule) = "outbound"
      /\ v.inbound.closed <=> w.inbound.closed \/ StreamOfRule(rule) = "inbound"
      /\ v.loop = w.loop /\ v.failed = w.failed /\ v.polled = w.polled
  BY <1>1, CancelledStreams
<1>3. DOMAIN v = Fields /\ InOrder(v.rules) /\ \A x : Kept(v, x) <=> Kept(w, x) /\ x # rule
  BY <1>1, Zenon DEF IsCancelled
<1>4. /\ IsWorld(v)
      /\ OneWay(v.stdin, v.outbound, v.sent)
      /\ OneWay(v.received, v.inbound, v.stdout)
      /\ SameEnds(v, w)
  BY <1>2, <1>3, FlagsKeepDirections
<1>5. OutwardOK(w) /\ InwardOK(w)
  BY DEF Sound
<1>6. /\ v.fd = w.fd /\ v.shutdown = w.shutdown
      /\ v.stdin = w.stdin /\ v.sent = w.sent
      /\ v.received = w.received /\ v.stdout = w.stdout
      /\ v.outbound.queue = w.outbound.queue
      /\ v.inbound.queue = w.inbound.queue
  BY <1>2, Zenon DEF SameButFlags
<1>7. OutwardOK(v)
  <2>1. CASE rule = "read stdin"
    BY <1>2, <1>3, <1>5, <1>6, <2>1 DEF OutwardOK, IsFinished, IsOver, StreamOfRule
  <2>2. CASE rule = "write socket"
    BY <1>2, <1>3, <1>5, <1>6, <2>2 DEF OutwardOK, IsFinished, IsOver, StreamOfRule
  <2>3. CASE rule \in {"read socket", "write stdout"}
    BY <1>2, <1>3, <1>5, <1>6, <2>3 DEF OutwardOK, IsFinished, IsOver, StreamOfRule
  <2> QED
    BY <2>1, <2>2, <2>3 DEF AllRules
<1>8. InwardOK(v)
  <2>1. CASE rule = "read socket"
    BY <1>2, <1>3, <1>5, <1>6, <2>1
       DEF InwardOK, IsFinished, IsOver, StreamOfRule, ReceivedEnded, HasError
  <2>2. CASE rule = "write stdout"
    BY <1>2, <1>3, <1>5, <1>6, <2>2
       DEF InwardOK, IsFinished, IsOver, StreamOfRule, ReceivedEnded, HasError
  <2>3. CASE rule \in {"read stdin", "write socket"}
    BY <1>2, <1>3, <1>5, <1>6, <2>3
       DEF InwardOK, IsFinished, IsOver, StreamOfRule, ReceivedEnded, HasError
  <2> QED
    BY <2>1, <2>2, <2>3 DEF AllRules
<1> QED
  BY <1>1, <1>2, <1>3, <1>4, <1>7, <1>8, Zenon DEF Sound

(* v is w after a rule has been served.                                    *)
ServedOK(v, w) ==
    /\ Sound(v)
    /\ SameEnds(v, w)
    /\ v.rules = w.rules
    /\ v.loop \in {"poll", "failed"}
    /\ v.loop = "poll" => ~v.failed
    /\ v.loop = "failed" => BrokenIn(v)

(* Standard input is served: what is there moves on.                       *)
LEMMA ServeReadStdin ==
    ASSUME SizeAssumption, NEW w, Sound(w), w.stdin.queue # << >>, ~w.outbound.closed,
           AvailableCapacity(w.outbound) > 0
    PROVE  ServedOK(Loop!Serve1(w, "read stdin"), w)
<1> DEFINE r == "read stdin"
           u == CallbackOf(w, r)
           v == Loop!Serve1(w, r)
<1>1. /\ IsWorld(w) /\ OneWay(w.stdin, w.outbound, w.sent) /\ OutwardOK(w) /\ InwardOK(w)
      /\ OneWay(w.received, w.inbound, w.stdout) /\ InOrder(w.rules)
  BY Zenon DEF Sound
<1>2. /\ FdOf(r) = "input" /\ KernelOf(r) = "stdin" /\ StreamOfRule(r) = "outbound" /\ IsIn(r)
      /\ r \in InRules
  BY DEF FdOf, KernelOf, StreamOfRule, IsIn, InRules
<1>3. PICK n \in Nat : HasRead(u, w, r, n) /\ (n = 0 <=> w["stdin"].queue = << >>)
  <2>1. /\ IsPipe(w[KernelOf(r)], KernelSize) /\ IsPipe(w[StreamOfRule(r)], BufferSize)
        /\ w[KernelOf(r)].popped = w[StreamOfRule(r)].pushed
        /\ AvailableCapacity(w[StreamOfRule(r)]) > 0
        /\ w[KernelOf(r)].queue # << >> \/ w[KernelOf(r)].closed
    BY <1>1, <1>2 DEF OneWay
  <2> HIDE DEF r
  <2>2. \E n \in Nat : /\ HasRead(CallbackOf(w, r), w, r, n)
                       /\ n = 0 <=> w[KernelOf(r)].queue = << >>
    BY <1>1, <1>2, <2>1, FillReads
  <2> QED
    BY <1>2, <2>2
<1> HIDE DEF u
<1>4. n # 0
  BY <1>3
<1>5. /\ IsUpdate(u, w, "input", "stdin", "outbound")
      /\ u.fd["input"] \in Descriptor /\ u.fd["input"].read_count_ = 1
      /\ u.fd["input"].closed_ = w.fd["input"].closed_
      /\ u.fd["input"].eof_ <=> w.fd["input"].eof_
      /\ ~u.failed
      /\ IsPipeWith(u["stdin"], KernelSize, w["stdin"].pushed, w["stdin"].popped + n,
                    w["stdin"].closed, w["stdin"].error)
      /\ IsPipe(u["outbound"], BufferSize)
      /\ u["outbound"].pushed = w["outbound"].pushed + n
      /\ u["outbound"].popped = w["outbound"].popped
      /\ u["outbound"].error = w["outbound"].error
      /\ u["outbound"].closed <=> w["outbound"].closed \/ u.fd["input"].eof_
  BY <1>2, <1>3, <1>4, Zenon DEF HasRead
<1>6. /\ DOMAIN u = Fields /\ DOMAIN u.fd = {"input", "output", "socket"}
      /\ u.fd["output"] = w.fd["output"] /\ u.fd["socket"] = w.fd["socket"]
      /\ u["rules"] = w["rules"] /\ u["inbound"] = w["inbound"]
      /\ u["sent"] = w["sent"] /\ u["received"] = w["received"] /\ u["stdout"] = w["stdout"]
      /\ u["shutdown"] = w["shutdown"]
  BY <1>1, <1>5 DEF IsUpdate, IsWorld, Fields
<1>7. IsReset(v, u, "input") /\ v.loop = IF u.failed THEN "failed" ELSE "poll"
  <2>1. Effective(u, r)
    <3>1. u.fd["input"].read_count_ # 0
      <4>1. u.fd["input"].read_count_ = 1
        BY <1>5
      <4> QED
        BY <4>1
    <3> QED
      BY <1>2, <1>5, <1>6, <3>1 DEF Effective
  <2>2. IsReset(Loop!Serve1(w, r), CallbackOf(w, r), FdOf(r))
        /\ Loop!Serve1(w, r).loop = IF CallbackOf(w, r).failed THEN "failed" ELSE "poll"
    <3> HIDE DEF r
    <3> QED
      BY <2>1, ServedFields DEF u
  <2> QED
    BY <1>2, <2>2, Zenon DEF u
<1> HIDE DEF v
<1>8. /\ DOMAIN v = Fields /\ DOMAIN v.fd = {"input", "output", "socket"}
      /\ IsIdle(v.fd["input"])
      /\ v.fd["input"].eof_ = u.fd["input"].eof_
      /\ v.fd["input"].closed_ = u.fd["input"].closed_
      /\ v.fd["output"] = w.fd["output"] /\ v.fd["socket"] = w.fd["socket"]
      /\ v["rules"] = w["rules"] /\ v["inbound"] = w["inbound"]
      /\ v["sent"] = w["sent"] /\ v["received"] = w["received"] /\ v["stdout"] = w["stdout"]
      /\ v["shutdown"] = w["shutdown"] /\ v["stdin"] = u["stdin"]
      /\ v["outbound"] = u["outbound"] /\ v["failed"] = u["failed"]
  BY <1>6, <1>7 DEF IsReset, Fields
<1>9. IsWorld(v)
  BY <1>1, <1>8 DEF IsWorld
<1>10. OneWay(v.stdin, v.outbound, v.sent) /\ OneWay(v.received, v.inbound, v.stdout)
  <2>1. OneWay(v.received, v.inbound, v.stdout)
    BY <1>1, <1>8
  <2>2. v.stdin.popped = v.outbound.pushed
    BY <1>1, <1>5, <1>8, Zenon DEF OneWay, IsPipeWith
  <2> QED
    BY <1>1, <1>5, <1>8, <2>1, <2>2, Zenon DEF OneWay, IsPipeWith
<1>11. SameEnds(v, w)
  BY <1>5, <1>8, Zenon DEF SameEnds, IsPipeWith
<1>12. \A x : Kept(v, x) <=> Kept(w, x)
  BY <1>8 DEF Kept
<1>13. /\ ~v.fd["input"].eof_ /\ ~v.fd["input"].closed_ /\ ~v.outbound.closed
       /\ ~v.stdin.error /\ v.outbound.error = w.outbound.error
  BY <1>1, <1>5, <1>8 DEF OutwardOK, IsPipeWith
<1>14. OutwardOK(v)
  BY <1>1, <1>8, <1>12, <1>13 DEF OutwardOK, IsFinished
<1>15. InwardOK(v)
  BY <1>1, <1>8, <1>12, <1>13 DEF InwardOK, IsFinished, ReceivedEnded, HasError
<1>16. Sound(v)
  BY <1>1, <1>8, <1>9, <1>10, <1>14, <1>15 DEF Sound
<1> QED
  BY <1>5, <1>7, <1>8, <1>11, <1>16 DEF ServedOK, v

(* The socket is read: what is there moves on, and nothing comes at the    *)
(* end only, or behind a reset.                                            *)
LEMMA ServeReadSocket ==
    ASSUME SizeAssumption, NEW w, Sound(w), ~w.inbound.closed,
           w.received.queue # << >> \/ w.received.closed,
           AvailableCapacity(w.inbound) > 0
    PROVE  ServedOK(Loop!Serve1(w, "read socket"), w)
<1> DEFINE r == "read socket"
           u == CallbackOf(w, r)
           v == Loop!Serve1(w, r)
<1>1. /\ IsWorld(w) /\ OneWay(w.stdin, w.outbound, w.sent) /\ OutwardOK(w) /\ InwardOK(w)
      /\ OneWay(w.received, w.inbound, w.stdout) /\ InOrder(w.rules)
  BY Zenon DEF Sound
<1>2. /\ FdOf(r) = "socket" /\ KernelOf(r) = "received" /\ StreamOfRule(r) = "inbound" /\ IsIn(r)
      /\ r \in InRules
  BY DEF FdOf, KernelOf, StreamOfRule, IsIn, InRules
<1>3. PICK n \in Nat : HasRead(u, w, r, n) /\ (n = 0 <=> w["received"].queue = << >>)
  <2>1. /\ IsPipe(w[KernelOf(r)], KernelSize) /\ IsPipe(w[StreamOfRule(r)], BufferSize)
        /\ w[KernelOf(r)].popped = w[StreamOfRule(r)].pushed
        /\ AvailableCapacity(w[StreamOfRule(r)]) > 0
        /\ w[KernelOf(r)].queue # << >> \/ w[KernelOf(r)].closed
    BY <1>1, <1>2 DEF OneWay
  <2> HIDE DEF r
  <2>2. \E n \in Nat : /\ HasRead(CallbackOf(w, r), w, r, n)
                       /\ n = 0 <=> w[KernelOf(r)].queue = << >>
    BY <1>1, <1>2, <2>1, FillReads
  <2> QED
    BY <1>2, <2>2
<1> HIDE DEF u
<1>5. /\ IsUpdate(u, w, "socket", "received", "inbound")
      /\ u.fd["socket"] \in Descriptor /\ u.fd["socket"].read_count_ = 1
      /\ u.fd["socket"].closed_ = w.fd["socket"].closed_
      /\ u.fd["socket"].eof_ <=> w.fd["socket"].eof_ \/ n = 0
      /\ u.failed <=> n = 0 /\ w["received"].error
      /\ IsPipeWith(u["received"], KernelSize, w["received"].pushed, w["received"].popped + n,
                    w["received"].closed, w["received"].error)
      /\ IsPipe(u["inbound"], BufferSize)
      /\ u["inbound"].pushed = w["inbound"].pushed + n
      /\ u["inbound"].popped = w["inbound"].popped
      /\ u["inbound"].error = w["inbound"].error
      /\ u["inbound"].closed <=> w["inbound"].closed \/ u.fd["socket"].eof_
  BY <1>2, <1>3, Zenon DEF HasRead
<1>6. /\ DOMAIN u = Fields /\ DOMAIN u.fd = {"input", "output", "socket"}
      /\ u.fd["output"] = w.fd["output"] /\ u.fd["input"] = w.fd["input"]
      /\ u["rules"] = w["rules"] /\ u["outbound"] = w["outbound"]
      /\ u["sent"] = w["sent"] /\ u["stdin"] = w["stdin"] /\ u["stdout"] = w["stdout"]
      /\ u["shutdown"] = w["shutdown"]
  BY <1>1, <1>5 DEF IsUpdate, IsWorld, Fields
<1>7. IsReset(v, u, "socket") /\ v.loop = IF u.failed THEN "failed" ELSE "poll"
  <2>1. Effective(u, r)
    <3>1. u.fd["socket"].read_count_ # 0
      <4>1. u.fd["socket"].read_count_ = 1
        BY <1>5
      <4> QED
        BY <4>1
    <3> QED
      BY <1>2, <1>5, <1>6, <3>1 DEF Effective
  <2>2. IsReset(Loop!Serve1(w, r), CallbackOf(w, r), FdOf(r))
        /\ Loop!Serve1(w, r).loop = IF CallbackOf(w, r).failed THEN "failed" ELSE "poll"
    <3> HIDE DEF r
    <3> QED
      BY <2>1, ServedFields DEF u
  <2> QED
    BY <1>2, <2>2, Zenon DEF u
<1> HIDE DEF v
<1>8. /\ DOMAIN v = Fields /\ DOMAIN v.fd = {"input", "output", "socket"}
      /\ IsIdle(v.fd["socket"])
      /\ v.fd["socket"].eof_ = u.fd["socket"].eof_
      /\ v.fd["socket"].closed_ = u.fd["socket"].closed_
      /\ v.fd["output"] = w.fd["output"] /\ v.fd["input"] = w.fd["input"]
      /\ v["rules"] = w["rules"] /\ v["outbound"] = w["outbound"]
      /\ v["sent"] = w["sent"] /\ v["stdin"] = w["stdin"] /\ v["stdout"] = w["stdout"]
      /\ v["shutdown"] = w["shutdown"] /\ v["received"] = u["received"]
      /\ v["inbound"] = u["inbound"] /\ v["failed"] = u["failed"]
  BY <1>6, <1>7 DEF IsReset, Fields
<1>9. IsWorld(v)
  BY <1>1, <1>8 DEF IsWorld
<1>10. OneWay(v.stdin, v.outbound, v.sent) /\ OneWay(v.received, v.inbound, v.stdout)
  <2>1. OneWay(v.stdin, v.outbound, v.sent)
    BY <1>1, <1>8
  <2>2. v.received.popped = v.inbound.pushed
    BY <1>1, <1>5, <1>8, Zenon DEF OneWay, IsPipeWith
  <2> QED
    BY <1>1, <1>5, <1>8, <2>1, <2>2, Zenon DEF OneWay, IsPipeWith
<1>11. SameEnds(v, w)
  BY <1>5, <1>8, Zenon DEF SameEnds, IsPipeWith
<1>12. \A x : Kept(v, x) <=> Kept(w, x)
  BY <1>8 DEF Kept
<1>13. n = 0 => v.received.queue = << >>
  <2>1. KernelSize \in Nat
    BY DEF SizeAssumption
  <2>2. IsPipe(v["received"], KernelSize) /\ v["received"].pushed = w["received"].pushed
        /\ v["received"].popped = w["received"].popped + n
    BY <1>5, <1>8, Zenon DEF IsPipeWith
  <2>3. IsPipe(w["received"], KernelSize)
    BY <1>1 DEF OneWay
  <2>4. w["received"].popped \in Nat /\ w["received"].pushed \in Nat
        /\ (w["received"].queue = << >> <=> w["received"].pushed = w["received"].popped)
    BY <2>1, <2>3, PipeCounts
  <2>5. v["received"].queue = << >> <=> v["received"].pushed = v["received"].popped
    BY <2>1, <2>2, PipeCounts
  <2>6. CASE n = 0
    <3>1. w["received"].queue = << >>
      BY <1>3, <2>6, Zenon
    <3>2. w["received"].pushed = w["received"].popped
      BY <2>4, <3>1, Zenon
    <3>3. v["received"].pushed = v["received"].popped
      BY <2>2, <2>4, <2>6, <3>2
    <3> QED
      BY <2>5, <3>3, Zenon
  <2> QED
    BY <2>6
<1>14. /\ ~v.fd["socket"].closed_
       /\ v.fd["socket"].eof_ <=> w.fd["socket"].eof_ \/ n = 0
       /\ v.inbound.closed <=> v.fd["socket"].eof_
       /\ v.received.closed = w.received.closed /\ v.received.error = w.received.error
       /\ v.inbound.error = w.inbound.error
       /\ n = 0 => w.received.queue = << >>
       /\ v.failed => w.received.error
  BY <1>1, <1>3, <1>5, <1>8, Zenon DEF OutwardOK, IsPipeWith
<1>15. OutwardOK(v)
  BY <1>1, <1>8, <1>12, <1>14 DEF OutwardOK, IsFinished
<1>16. InwardOK(v)
  <2>1. v.fd["socket"].eof_ => ReceivedEnded(v)
    <3>1. CASE n = 0
      BY <1>13, <1>14, <3>1 DEF ReceivedEnded
    <3>2. CASE n # 0
      BY <1>1, <1>3, <1>14, <3>2 DEF ReceivedEnded, InwardOK
    <3> QED
      BY <3>1, <3>2
  <2> QED
    BY <1>1, <1>8, <1>12, <1>14, <2>1 DEF InwardOK, IsFinished, ReceivedEnded, HasError
<1>17. Sound(v)
  BY <1>1, <1>8, <1>9, <1>10, <1>15, <1>16 DEF Sound
<1>18. v.failed => BrokenIn(v)
  BY <1>1, <1>8, <1>14 DEF InwardOK, BrokenIn
<1> QED
  BY <1>7, <1>8, <1>11, <1>17, <1>18 DEF ServedOK, v

(* The socket is written: what there is moves on, and the end behind the   *)
(* last of it; a write fails when the peer has gone only.                  *)
LEMMA ServeWriteSocket ==
    ASSUME SizeAssumption, NEW w, Sound(w), ~w.failed, w.outbound.closed => IsFinished(w.stdin),
           AvailableCapacity(w.sent) > 0,
           w.outbound.queue # << >> \/ IsFinished(w.outbound)
    PROVE  ServedOK(Loop!Serve1(w, "write socket"), w)
<1> DEFINE r == "write socket"
           u == CallbackOf(w, r)
           v == Loop!Serve1(w, r)
<1>1. /\ IsWorld(w) /\ OneWay(w.stdin, w.outbound, w.sent) /\ OutwardOK(w) /\ InwardOK(w)
      /\ OneWay(w.received, w.inbound, w.stdout) /\ InOrder(w.rules)
  BY Zenon DEF Sound
<1>2. /\ FdOf(r) = "socket" /\ KernelOf(r) = "sent" /\ StreamOfRule(r) = "outbound" /\ ~IsIn(r)
      /\ r \in OutRules
  BY DEF FdOf, KernelOf, StreamOfRule, IsIn, OutRules
<1>3. PICK n \in Nat, ended \in BOOLEAN : HasWritten(u, w, r, n, ended)
  <2>1. /\ IsPipe(w[KernelOf(r)], KernelSize) /\ IsPipe(w[StreamOfRule(r)], BufferSize)
        /\ w[StreamOfRule(r)].popped = w[KernelOf(r)].pushed
        /\ AvailableCapacity(w[KernelOf(r)]) > 0
        /\ w[StreamOfRule(r)].queue # << >> \/ IsFinished(w[StreamOfRule(r)])
    BY <1>1, <1>2 DEF OneWay
  <2> HIDE DEF r
  <2> QED
    BY <1>1, <1>2, <2>1, CallbackWrites
<1> HIDE DEF u
<1>4. /\ DOMAIN u = Fields
      /\ DOMAIN u.fd = DOMAIN w.fd
      /\ \A g \in DOMAIN w.fd \ {"socket"} : u.fd[g] = w.fd[g]
      /\ DOMAIN u.shutdown = DOMAIN w.shutdown
      /\ \A g \in DOMAIN w.shutdown \ {"outbound"} : u.shutdown[g] = w.shutdown[g]
      /\ u.shutdown["outbound"] => w.shutdown["outbound"] \/ ended
      /\ \A g \in Fields \ {"fd", "failed", "shutdown", "sent", "outbound"} : u[g] = w[g]
      /\ u.fd["socket"] \in Descriptor
      /\ u.fd["socket"].write_count_ # 0 \/ u.fd["socket"].closed_
      /\ u.fd["socket"].closed_ = w.fd["socket"].closed_
      /\ u.fd["socket"].eof_ = w.fd["socket"].eof_
      /\ u.failed => BrokenPipe(w["sent"]) /\ w["outbound"].queue # << >>
      /\ ended => IsFinished(u["outbound"])
      /\ IsPipeWith(u["outbound"], BufferSize, w["outbound"].pushed, w["outbound"].popped + n,
                    w["outbound"].closed, w["outbound"].error)
      /\ IsPipe(u["sent"], KernelSize)
      /\ u["sent"].pushed = w["sent"].pushed + n
      /\ u["sent"].popped = w["sent"].popped
      /\ u["sent"].error = w["sent"].error
      /\ u["sent"].closed <=> w["sent"].closed \/ ended
  BY <1>2, <1>3, Zenon DEF HasWritten
<1>5. /\ u.fd["output"] = w.fd["output"] /\ u.fd["input"] = w.fd["input"]
      /\ DOMAIN u.fd = {"input", "output", "socket"}
      /\ DOMAIN u.shutdown = {"outbound", "inbound"}
      /\ u.shutdown["inbound"] = w.shutdown["inbound"]
      /\ u["rules"] = w["rules"] /\ u["inbound"] = w["inbound"]
      /\ u["stdin"] = w["stdin"] /\ u["received"] = w["received"] /\ u["stdout"] = w["stdout"]
  BY <1>1, <1>4 DEF IsWorld, Fields
<1>6. IsReset(v, u, "socket") /\ v.loop = IF u.failed THEN "failed" ELSE "poll"
  <2>1. Effective(u, r)
    BY <1>2, <1>4, <1>5, Zenon DEF Effective, OutRules
  <2>2. IsReset(Loop!Serve1(w, r), CallbackOf(w, r), FdOf(r))
        /\ Loop!Serve1(w, r).loop = IF CallbackOf(w, r).failed THEN "failed" ELSE "poll"
    <3> HIDE DEF r
    <3> QED
      BY <2>1, ServedFields DEF u
  <2> QED
    BY <1>2, <2>2, Zenon DEF u
<1> HIDE DEF v
<1>7. /\ DOMAIN v = Fields /\ DOMAIN v.fd = {"input", "output", "socket"}
      /\ IsIdle(v.fd["socket"])
      /\ v.fd["socket"].eof_ = u.fd["socket"].eof_
      /\ v.fd["socket"].closed_ = u.fd["socket"].closed_
      /\ v.fd["output"] = w.fd["output"] /\ v.fd["input"] = w.fd["input"]
      /\ v["rules"] = w["rules"] /\ v["inbound"] = w["inbound"]
      /\ v["stdin"] = w["stdin"] /\ v["received"] = w["received"] /\ v["stdout"] = w["stdout"]
      /\ v["shutdown"] = u["shutdown"] /\ v["sent"] = u["sent"]
      /\ v["outbound"] = u["outbound"] /\ v["failed"] = u["failed"]
  BY <1>4, <1>5, <1>6 DEF IsReset, Fields
<1>8. IsWorld(v)
  BY <1>1, <1>5, <1>7 DEF IsWorld
<1>9. OneWay(v.stdin, v.outbound, v.sent) /\ OneWay(v.received, v.inbound, v.stdout)
  <2>1. OneWay(v.received, v.inbound, v.stdout)
    BY <1>1, <1>7
  <2>2. v.outbound.popped = v.sent.pushed
    BY <1>1, <1>4, <1>7, ZenonT(40) DEF OneWay, IsPipeWith
  <2> QED
    BY <1>1, <1>4, <1>7, <2>1, <2>2, ZenonT(40) DEF OneWay, IsPipeWith
<1>10. SameEnds(v, w)
  BY <1>4, <1>7, Zenon DEF SameEnds
<1>11. \A x : Kept(v, x) <=> Kept(w, x)
  BY <1>7 DEF Kept
<1>12. /\ v.outbound.closed = w.outbound.closed
       /\ v.outbound.error = w.outbound.error
       /\ v.sent.error = w.sent.error
       /\ v.sent.closed <=> w.sent.closed \/ ended
       /\ v.shutdown["outbound"] => w.shutdown["outbound"] \/ ended
       /\ v.shutdown["inbound"] = w.shutdown["inbound"]
       /\ v.fd["socket"].closed_ = w.fd["socket"].closed_
       /\ v.fd["socket"].eof_ = w.fd["socket"].eof_
       /\ ended => IsFinished(v.outbound)
  BY <1>4, <1>5, <1>7, Zenon DEF IsPipeWith
<1>13. IsFinished(w.outbound) => IsFinished(v.outbound)
  <2>1. BufferSize \in Nat
    BY DEF SizeAssumption
  <2>2. IsPipe(v["outbound"], BufferSize) /\ v["outbound"].pushed = w["outbound"].pushed
        /\ v["outbound"].popped = w["outbound"].popped + n
    BY <1>4, <1>7, Zenon DEF IsPipeWith
  <2>3. IsPipe(w["outbound"], BufferSize)
    BY <1>1 DEF OneWay
  <2>4. w["outbound"].popped \in Nat /\ w["outbound"].pushed \in Nat
        /\ (w["outbound"].queue = << >> <=> w["outbound"].pushed = w["outbound"].popped)
    BY <2>1, <2>3, PipeCounts
  <2>5. v["outbound"].popped <= v["outbound"].pushed
        /\ (v["outbound"].queue = << >> <=> v["outbound"].pushed = v["outbound"].popped)
    BY <2>1, <2>2, PipeCounts
  <2>6. CASE IsFinished(w.outbound)
    <3>1. w["outbound"].queue = << >> /\ v.outbound.closed
      BY <1>12, <2>6, Zenon DEF IsFinished
    <3>2. w["outbound"].pushed = w["outbound"].popped
      BY <2>4, <3>1, Zenon
    <3>3. v["outbound"].pushed = v["outbound"].popped
      <4> DEFINE a == v["outbound"].pushed
                 b == v["outbound"].popped
                 c == w["outbound"].popped
      <4>1. a = c /\ b = c + n /\ b <= a /\ c \in Nat
        BY <2>2, <2>4, <2>5, <3>2, Zenon
      <4> HIDE DEF a, b, c
      <4>2. a = b
        BY <4>1
      <4> QED
        BY <4>2 DEF a, b
    <3> QED
      BY <2>5, <3>1, <3>3, Zenon DEF IsFinished
  <2> QED
    BY <2>6
<1>14. OutwardOK(v)
  <2>1. ended => w.outbound.closed
    BY <1>12, Zenon DEF IsFinished
  <2> QED
    BY <1>1, <1>7, <1>11, <1>12, <1>13, <2>1, Zenon DEF OutwardOK
<1>15. InwardOK(v)
  BY <1>1, <1>7, <1>11, <1>12, Zenon DEF InwardOK, ReceivedEnded, HasError
<1>16. Sound(v)
  BY <1>1, <1>7, <1>8, <1>9, <1>14, <1>15, Zenon DEF Sound
<1>17. v.failed => BrokenIn(v)
  BY <1>1, <1>4, <1>7, <1>12, Zenon DEF OutwardOK, BrokenIn, BrokenPipe, IsFinished
<1> QED
  BY <1>6, <1>7, <1>10, <1>16, <1>17 DEF ServedOK, v

(* Standard output is written, and closed behind the last of what came; a  *)
(* write fails when its reader has gone only.                              *)
LEMMA ServeWriteStdout ==
    ASSUME SizeAssumption, NEW w, Sound(w), ~w.failed, w.inbound.closed => ReceivedEnded(w),
           AvailableCapacity(w.stdout) > 0,
           w.inbound.queue # << >> \/ IsFinished(w.inbound)
    PROVE  ServedOK(Loop!Serve1(w, "write stdout"), w)
<1> DEFINE r == "write stdout"
           u == CallbackOf(w, r)
           v == Loop!Serve1(w, r)
<1>1. /\ IsWorld(w) /\ OneWay(w.received, w.inbound, w.stdout) /\ OutwardOK(w) /\ InwardOK(w)
      /\ OneWay(w.stdin, w.outbound, w.sent) /\ InOrder(w.rules)
  BY Zenon DEF Sound
<1>2. /\ FdOf(r) = "output" /\ KernelOf(r) = "stdout" /\ StreamOfRule(r) = "inbound" /\ ~IsIn(r)
      /\ r \in OutRules
  BY DEF FdOf, KernelOf, StreamOfRule, IsIn, OutRules
<1>3. PICK n \in Nat, ended \in BOOLEAN : HasWritten(u, w, r, n, ended)
  <2>1. /\ IsPipe(w[KernelOf(r)], KernelSize) /\ IsPipe(w[StreamOfRule(r)], BufferSize)
        /\ w[StreamOfRule(r)].popped = w[KernelOf(r)].pushed
        /\ AvailableCapacity(w[KernelOf(r)]) > 0
        /\ w[StreamOfRule(r)].queue # << >> \/ IsFinished(w[StreamOfRule(r)])
    BY <1>1, <1>2 DEF OneWay
  <2> HIDE DEF r
  <2> QED
    BY <1>1, <1>2, <2>1, CallbackWrites
<1> HIDE DEF u
<1>4. /\ DOMAIN u = Fields
      /\ DOMAIN u.fd = DOMAIN w.fd
      /\ \A g \in DOMAIN w.fd \ {"output"} : u.fd[g] = w.fd[g]
      /\ DOMAIN u.shutdown = DOMAIN w.shutdown
      /\ \A g \in DOMAIN w.shutdown \ {"inbound"} : u.shutdown[g] = w.shutdown[g]
      /\ u.shutdown["inbound"] => w.shutdown["inbound"] \/ ended
      /\ \A g \in Fields \ {"fd", "failed", "shutdown", "stdout", "inbound"} : u[g] = w[g]
      /\ u.fd["output"] \in Descriptor
      /\ u.fd["output"].write_count_ # 0 \/ u.fd["output"].closed_
      /\ u.fd["output"].closed_ => w.fd["output"].closed_ \/ ended
      /\ u.failed => BrokenPipe(w["stdout"]) /\ w["inbound"].queue # << >>
      /\ ended => IsFinished(u["inbound"])
      /\ IsPipeWith(u["inbound"], BufferSize, w["inbound"].pushed, w["inbound"].popped + n,
                    w["inbound"].closed, w["inbound"].error)
      /\ IsPipe(u["stdout"], KernelSize)
      /\ u["stdout"].pushed = w["stdout"].pushed + n
      /\ u["stdout"].popped = w["stdout"].popped
      /\ u["stdout"].error = w["stdout"].error
      /\ u["stdout"].closed <=> w["stdout"].closed \/ ended
  BY <1>2, <1>3, Zenon DEF HasWritten
<1>5. /\ u.fd["socket"] = w.fd["socket"] /\ u.fd["input"] = w.fd["input"]
      /\ DOMAIN u.fd = {"input", "output", "socket"}
      /\ DOMAIN u.shutdown = {"outbound", "inbound"}
      /\ u.shutdown["outbound"] = w.shutdown["outbound"]
      /\ u["rules"] = w["rules"] /\ u["outbound"] = w["outbound"]
      /\ u["received"] = w["received"] /\ u["stdin"] = w["stdin"] /\ u["sent"] = w["sent"]
  BY <1>1, <1>4 DEF IsWorld, Fields
<1>6. IsReset(v, u, "output") /\ v.loop = IF u.failed THEN "failed" ELSE "poll"
  <2>1. Effective(u, r)
    BY <1>2, <1>4, <1>5, Zenon DEF Effective, OutRules
  <2>2. IsReset(Loop!Serve1(w, r), CallbackOf(w, r), FdOf(r))
        /\ Loop!Serve1(w, r).loop = IF CallbackOf(w, r).failed THEN "failed" ELSE "poll"
    <3> HIDE DEF r
    <3> QED
      BY <2>1, ServedFields DEF u
  <2> QED
    BY <1>2, <2>2, Zenon DEF u
<1> HIDE DEF v
<1>7. /\ DOMAIN v = Fields /\ DOMAIN v.fd = {"input", "output", "socket"}
      /\ IsIdle(v.fd["output"])
      /\ v.fd["output"].eof_ = u.fd["output"].eof_
      /\ v.fd["output"].closed_ = u.fd["output"].closed_
      /\ v.fd["socket"] = w.fd["socket"] /\ v.fd["input"] = w.fd["input"]
      /\ v["rules"] = w["rules"] /\ v["outbound"] = w["outbound"]
      /\ v["received"] = w["received"] /\ v["stdin"] = w["stdin"] /\ v["sent"] = w["sent"]
      /\ v["shutdown"] = u["shutdown"] /\ v["stdout"] = u["stdout"]
      /\ v["inbound"] = u["inbound"] /\ v["failed"] = u["failed"]
  BY <1>4, <1>5, <1>6 DEF IsReset, Fields
<1>8. IsWorld(v)
  BY <1>1, <1>5, <1>7 DEF IsWorld
<1>9. OneWay(v.received, v.inbound, v.stdout) /\ OneWay(v.stdin, v.outbound, v.sent)
  <2>1. OneWay(v.stdin, v.outbound, v.sent)
    BY <1>1, <1>7
  <2>2. v.inbound.popped = v.stdout.pushed
    BY <1>1, <1>4, <1>7, ZenonT(40) DEF OneWay, IsPipeWith
  <2> QED
    BY <1>1, <1>4, <1>7, <2>1, <2>2, ZenonT(40) DEF OneWay, IsPipeWith
<1>10. SameEnds(v, w)
  BY <1>4, <1>7, Zenon DEF SameEnds
<1>11. \A x : Kept(v, x) <=> Kept(w, x)
  BY <1>7 DEF Kept
<1>12. /\ v.inbound.closed = w.inbound.closed
       /\ v.inbound.error = w.inbound.error
       /\ v.stdout.error = w.stdout.error
       /\ v.stdout.closed <=> w.stdout.closed \/ ended
       /\ v.shutdown["inbound"] => w.shutdown["inbound"] \/ ended
       /\ v.shutdown["outbound"] = w.shutdown["outbound"]
       /\ v.fd["output"].closed_ => w.fd["output"].closed_ \/ ended
       /\ ended => IsFinished(v.inbound)
  BY <1>4, <1>5, <1>7, Zenon DEF IsPipeWith
<1>13. IsFinished(w.inbound) => IsFinished(v.inbound)
  <2>1. BufferSize \in Nat
    BY DEF SizeAssumption
  <2>2. IsPipe(v["inbound"], BufferSize) /\ v["inbound"].pushed = w["inbound"].pushed
        /\ v["inbound"].popped = w["inbound"].popped + n
    BY <1>4, <1>7, Zenon DEF IsPipeWith
  <2>3. IsPipe(w["inbound"], BufferSize)
    BY <1>1 DEF OneWay
  <2>4. w["inbound"].popped \in Nat /\ w["inbound"].pushed \in Nat
        /\ (w["inbound"].queue = << >> <=> w["inbound"].pushed = w["inbound"].popped)
    BY <2>1, <2>3, PipeCounts
  <2>5. v["inbound"].popped <= v["inbound"].pushed
        /\ (v["inbound"].queue = << >> <=> v["inbound"].pushed = v["inbound"].popped)
    BY <2>1, <2>2, PipeCounts
  <2>6. CASE IsFinished(w.inbound)
    <3>1. w["inbound"].queue = << >> /\ v.inbound.closed
      BY <1>12, <2>6, Zenon DEF IsFinished
    <3>2. w["inbound"].pushed = w["inbound"].popped
      BY <2>4, <3>1, Zenon
    <3>3. v["inbound"].pushed = v["inbound"].popped
      <4> DEFINE a == v["inbound"].pushed
                 b == v["inbound"].popped
                 c == w["inbound"].popped
      <4>1. a = c /\ b = c + n /\ b <= a /\ c \in Nat
        BY <2>2, <2>4, <2>5, <3>2, Zenon
      <4> HIDE DEF a, b, c
      <4>2. a = b
        BY <4>1
      <4> QED
        BY <4>2 DEF a, b
    <3> QED
      BY <2>5, <3>1, <3>3, Zenon DEF IsFinished
  <2> QED
    BY <2>6
<1>14. OutwardOK(v)
  BY <1>1, <1>7, <1>11, <1>12, Zenon DEF OutwardOK
<1>15. InwardOK(v)
  <2>1. ended => w.inbound.closed
    BY <1>12, Zenon DEF IsFinished
  <2>2. ReceivedEnded(v) <=> ReceivedEnded(w)
    BY <1>7, Zenon DEF ReceivedEnded
  <2>3. HasError(v) <=> HasError(w)
    BY <1>7, <1>12, Zenon DEF HasError
  <2> QED
    BY <1>1, <1>7, <1>11, <1>12, <1>13, <2>1, <2>2, <2>3, Zenon DEF InwardOK
<1>16. Sound(v)
  BY <1>1, <1>7, <1>8, <1>9, <1>14, <1>15, Zenon DEF Sound
<1>17. v.failed => BrokenIn(v)
  BY <1>1, <1>4, <1>7, <1>12, Zenon DEF InwardOK, BrokenIn, BrokenPipe, IsFinished
<1> QED
  BY <1>6, <1>7, <1>10, <1>16, <1>17 DEF ServedOK, v

(* v is w, where at most the stream of the rule has been closed.           *)
OnlyClosed(v, w, rule) ==
    /\ SameButFlags(v, w)
    /\ v.loop = w.loop /\ v.failed = w.failed /\ v.polled = w.polled
    /\ w.outbound.closed => v.outbound.closed
    /\ v.outbound.closed => w.outbound.closed \/ StreamOfRule(rule) = "outbound"
    /\ w.inbound.closed => v.inbound.closed
    /\ v.inbound.closed => w.inbound.closed \/ StreamOfRule(rule) = "inbound"

(* Both streams may be in error once the socket or the output is.          *)
LEMMA ErrorIsSound ==
    ASSUME SizeAssumption, NEW w, Sound(w), w.received.error \/ w.stdout.error, NEW rule
    PROVE  /\ Sound(ErrorOf(w, rule))
           /\ SameEnds(ErrorOf(w, rule), w)
           /\ OnlyClosed(ErrorOf(w, rule), w, rule)
           /\ ErrorOf(w, rule).rules = w.rules
<1> DEFINE v == ErrorOf(w, rule)
<1>1. /\ IsWorld(w) /\ OneWay(w.stdin, w.outbound, w.sent) /\ OutwardOK(w) /\ InwardOK(w)
      /\ OneWay(w.received, w.inbound, w.stdout) /\ InOrder(w.rules)
  BY Zenon DEF Sound
<1>2. /\ DOMAIN v = Fields
      /\ v.outbound = SetErrorOf(w.outbound)
      /\ v.inbound = SetErrorOf(w.inbound)
      /\ \A g \in Fields \ {"outbound", "inbound"} : v[g] = w[g]
  BY <1>1, ErrorFields DEF IsWorld
<1> HIDE DEF v
<1>3. BufferSize \in Nat /\ IsPipe(w.outbound, BufferSize) /\ IsPipe(w.inbound, BufferSize)
  BY <1>1 DEF SizeAssumption, OneWay
<1>4. \A x : IsPipe(x, BufferSize) =>
         /\ IsPipeWith(SetErrorOf(x), BufferSize, x.pushed, x.popped, x.closed, TRUE)
         /\ SetErrorOf(x).queue = x.queue
  BY <1>3, PipeFlags
<1>5. \A x, y : IsPipe(x, BufferSize) /\ IsPipe(y, BufferSize) /\ x.queue = y.queue =>
         AvailableCapacity(x) = AvailableCapacity(y)
  BY Zenon DEF IsPipe, AvailableCapacity
<1>6. /\ v.fd = w.fd /\ v.shutdown = w.shutdown
      /\ v.stdin = w.stdin /\ v.sent = w.sent
      /\ v.received = w.received /\ v.stdout = w.stdout
      /\ v.loop = w.loop /\ v.failed = w.failed /\ v.polled = w.polled
      /\ v.rules = w.rules
  BY <1>2 DEF Fields
<1>7. /\ IsPipeWith(v.outbound, BufferSize, w.outbound.pushed, w.outbound.popped,
                    w.outbound.closed, TRUE)
      /\ v.outbound.queue = w.outbound.queue
      /\ IsPipeWith(v.inbound, BufferSize, w.inbound.pushed, w.inbound.popped,
                    w.inbound.closed, TRUE)
      /\ v.inbound.queue = w.inbound.queue
  BY <1>2, <1>3, <1>4, Zenon
<1>8. /\ IsPipe(v.outbound, BufferSize) /\ IsPipe(v.inbound, BufferSize)
      /\ v.outbound.closed = w.outbound.closed /\ v.inbound.closed = w.inbound.closed
  BY <1>7, Zenon DEF IsPipeWith
<1>9. /\ AvailableCapacity(v.outbound) = AvailableCapacity(w.outbound)
      /\ AvailableCapacity(v.inbound) = AvailableCapacity(w.inbound)
  BY <1>3, <1>5, <1>7, <1>8, Zenon
<1>10. SameButFlags(v, w)
  BY <1>6, <1>7, <1>9, Zenon DEF SameButFlags, IsPipeWith
<1>11. OnlyClosed(v, w, rule)
  BY <1>6, <1>8, <1>10, Zenon DEF OnlyClosed
<1>12. /\ IsWorld(v)
       /\ OneWay(v.stdin, v.outbound, v.sent)
       /\ OneWay(v.received, v.inbound, v.stdout)
       /\ SameEnds(v, w)
  BY <1>2, <1>8, <1>10, FlagsKeepDirections
<1>13. \A x : Kept(v, x) <=> Kept(w, x)
  BY <1>6 DEF Kept
<1>14. OutwardOK(v)
  BY <1>1, <1>6, <1>7, <1>8, <1>13, Zenon DEF OutwardOK, IsFinished
<1>15. InwardOK(v)
  BY <1>1, <1>6, <1>7, <1>8, <1>13, Zenon DEF InwardOK, IsFinished, ReceivedEnded
<1>16. Sound(v)
  BY <1>1, <1>6, <1>12, <1>14, <1>15, Zenon DEF Sound
<1> QED
  BY <1>6, <1>11, <1>12, <1>16 DEF v

(* The outcome of one result of poll: the rule has been served, or it has  *)
(* been cancelled or left alone.                                           *)
Resulted(v, w, rule) ==
    /\ Sound(v)
    /\ SameEnds(v, w)
    /\ \A x : x # rule => (Kept(v, x) <=> Kept(w, x))
    /\ ServedOK(v, w) \/ OnlyClosed(v, w, rule)

(* A rule is cancelled when its use is over.                               *)
LEMMA CancelResults ==
    ASSUME SizeAssumption, NEW w, Sound(w), NEW rule \in AllRules, IsOver(w, rule)
    PROVE  Resulted(Loop!CancelRule(w, rule), w, rule)
<1> DEFINE v == Loop!CancelRule(w, rule)
<1>1. IsCancelled(v, w, rule)
  BY CancelFields DEF Sound, IsWorld
<1> HIDE DEF v
<1>2. /\ Sound(v) /\ SameEnds(v, w)
      /\ SameButFlags(v, w)
      /\ v.outbound.closed <=> w.outbound.closed \/ StreamOfRule(rule) = "outbound"
      /\ v.inbound.closed <=> w.inbound.closed \/ StreamOfRule(rule) = "inbound"
      /\ v.loop = w.loop /\ v.failed = w.failed /\ v.polled = w.polled
  BY <1>1, CancelIsSound
<1>3. OnlyClosed(v, w, rule)
  BY <1>2, Zenon DEF OnlyClosed
<1>4. \A x : x # rule => (Kept(v, x) <=> Kept(w, x))
  BY <1>1, Zenon DEF IsCancelled
<1> QED
  BY <1>2, <1>3, <1>4, Zenon DEF Resulted, v

(* Changes of both kinds, one after the other.                             *)
LEMMA ResultedTwice ==
    ASSUME NEW v, NEW u, NEW w, NEW rule, Sound(v), SameEnds(v, u), SameEnds(u, w),
           \A x : x # rule => (Kept(v, x) <=> Kept(u, x)), u.rules = w.rules,
           OnlyClosed(v, u, rule), OnlyClosed(u, w, rule)
    PROVE  Resulted(v, w, rule)
<1>1. SameEnds(v, w)
  BY Zenon DEF SameEnds
<1>2. OnlyClosed(v, w, rule)
  BY Zenon DEF OnlyClosed, SameButFlags
<1>3. \A x : x # rule => (Kept(v, x) <=> Kept(w, x))
  BY Zenon DEF Kept
<1> QED
  BY <1>1, <1>2, <1>3, Zenon DEF Resulted

(* To leave a rule alone changes nothing.                                  *)
LEMMA NothingResults ==
    ASSUME NEW w, Sound(w), NEW rule
    PROVE  Resulted(w, w, rule)
BY Zenon DEF Resulted, SameEnds, OnlyClosed, SameButFlags

(* What comes of one result of poll.                                       *)
LEMMA OneResult ==
    ASSUME SizeAssumption, NEW w, Sound(w), NEW rule \in AllRules, w.loop = "serve",
           ~w.failed, Kept(w, rule), SaidOf(w, rule, w.polled[rule])
    PROVE  Resulted(Loop!Result(w, rule), w, rule)
<1> DEFINE p == w.polled[rule]
           v == Loop!Result(w, rule)
<1>1. OutwardOK(w) /\ InwardOK(w) /\ SaidOf(w, rule, p)
  BY Zenon DEF Sound
<1>2. CASE p.error
  <2> DEFINE u == ErrorOf(w, rule)
  <2>1. v = Loop!CancelRule(u, rule)
    BY <1>2, Zenon DEF Loop!Result
  <2> HIDE DEF p
  <2>2. /\ rule # "read stdin"
        /\ rule = "write socket" => w.received.error
        /\ rule = "read socket" => w.received.error
        /\ rule = "write stdout" => w.stdout.error
    BY <1>1, <1>2, Zenon DEF SaidOf, SaidOfReadStdin, SaidOfWriteSocket, SaidOfReadSocket,
                             SaidOfWriteStdout
  <2>3. w.received.error \/ w.stdout.error
    BY <2>2, Zenon DEF AllRules
  <2>4. Sound(u) /\ SameEnds(u, w) /\ OnlyClosed(u, w, rule) /\ u.rules = w.rules
    BY <2>3, ErrorIsSound
  <2> HIDE DEF u
  <2>5. IsOver(u, rule)
    <3>1. u.received = w.received /\ u.sent = w.sent /\ u.stdout = w.stdout
      BY <2>4, Zenon DEF OnlyClosed, SameButFlags
    <3>2. w.received.error => w.received.closed /\ w.sent.error
      BY <1>1, Zenon DEF InwardOK
    <3> QED
      BY <2>2, <3>1, <3>2, Zenon DEF IsOver, ReceivedEnded
  <2>6. Resulted(Loop!CancelRule(u, rule), u, rule)
    BY <2>4, <2>5, CancelResults
  <2>7. IsCancelled(v, u, rule)
    BY <2>1, <2>4, CancelFields DEF Sound, IsWorld
  <2> HIDE DEF v
  <2>8. ~ServedOK(v, u)
    <3>1. u.loop = "serve"
      BY <2>4, Zenon DEF OnlyClosed
    <3>2. v["loop"] = u["loop"]
      BY <2>7 DEF IsCancelled, Fields, StreamOfRule
    <3> QED
      BY <3>1, <3>2 DEF ServedOK
  <2>9. /\ Sound(v) /\ SameEnds(v, u)
        /\ \A x : x # rule => (Kept(v, x) <=> Kept(u, x))
        /\ OnlyClosed(v, u, rule)
    BY <2>1, <2>6, <2>8, Zenon DEF Resulted
  <2> QED
    BY <2>4, <2>9, ResultedTwice DEF v
<1>3. CASE ~p.error /\ Loop!HungUp(rule, p)
  <2>1. v = Loop!CancelRule(w, rule)
    BY <1>3, Zenon DEF Loop!Result
  <2>2. p.hup /\ ((p.events /\ ~p.ready) \/ ~IsIn(rule))
    BY <1>3, Zenon DEF Loop!HungUp
  <2>3. IsOver(w, rule)
    <3> HIDE DEF p
    <3>1. rule = "read stdin" => IsFinished(w.stdin)
      <4>1. rule = "read stdin" => IsIn(rule)
        BY DEF IsIn
      <4> QED
        BY <1>1, <2>2, <4>1, Zenon DEF SaidOf, SaidOfReadStdin
    <3>2. rule = "write socket" => w.sent.closed \/ w.sent.error
      BY <1>1, <2>2, Zenon DEF SaidOf, SaidOfWriteSocket
    <3>3. rule # "read socket"
      <4>1. rule = "read socket" => IsIn(rule)
        BY DEF IsIn
      <4> QED
        BY <1>1, <2>2, <4>1, Zenon DEF SaidOf, SaidOfReadSocket
    <3>4. rule # "write stdout"
      BY <1>1, <2>2, Zenon DEF SaidOf, SaidOfWriteStdout
    <3> QED
      BY <3>1, <3>2, <3>3, <3>4, Zenon DEF IsOver
  <2> QED
    BY <2>1, <2>3, CancelResults
<1>4. CASE ~p.error /\ ~Loop!HungUp(rule, p) /\ p.ready
  <2>1. v = Loop!Serve1(w, rule)
    BY <1>4, Zenon DEF Loop!Result
  <2>2. ServedOK(v, w)
    <3>1. CASE rule = "read stdin"
      <4>1. w.stdin.queue # << >> /\ ~w.outbound.closed /\ AvailableCapacity(w.outbound) > 0
        BY <1>1, <1>4, <3>1, Zenon DEF SaidOf, SaidOfReadStdin, p
      <4>2. ServedOK(Loop!Serve1(w, "read stdin"), w)
        BY <4>1, ServeReadStdin
      <4> QED
        BY <2>1, <3>1, <4>2, Zenon
    <3>2. CASE rule = "write socket"
      <4>1. /\ AvailableCapacity(w.sent) > 0
            /\ w.outbound.queue # << >> \/ IsFinished(w.outbound)
        BY <1>1, <1>4, <3>2, Zenon DEF SaidOf, SaidOfWriteSocket, p
      <4>2. w.outbound.closed => IsFinished(w.stdin)
        BY <1>1, <3>2, Zenon DEF OutwardOK
      <4>3. ServedOK(Loop!Serve1(w, "write socket"), w)
        BY <4>1, <4>2, ServeWriteSocket
      <4> QED
        BY <2>1, <3>2, <4>3, Zenon
    <3>3. CASE rule = "read socket"
      <4>1. /\ w.received.queue # << >> \/ w.received.closed
            /\ ~w.inbound.closed /\ AvailableCapacity(w.inbound) > 0
        BY <1>1, <1>4, <3>3, Zenon DEF SaidOf, SaidOfReadSocket, p
      <4>2. ServedOK(Loop!Serve1(w, "read socket"), w)
        BY <4>1, ServeReadSocket
      <4> QED
        BY <2>1, <3>3, <4>2, Zenon
    <3>4. CASE rule = "write stdout"
      <4>1. /\ AvailableCapacity(w.stdout) > 0
            /\ w.inbound.queue # << >> \/ IsFinished(w.inbound)
        BY <1>1, <1>4, <3>4, Zenon DEF SaidOf, SaidOfWriteStdout, p
      <4>2. w.inbound.closed => ReceivedEnded(w)
        BY <1>1, <3>4, Zenon DEF InwardOK
      <4>3. ServedOK(Loop!Serve1(w, "write stdout"), w)
        BY <4>1, <4>2, ServeWriteStdout
      <4> QED
        BY <2>1, <3>4, <4>3, Zenon
    <3> QED
      BY <3>1, <3>2, <3>3, <3>4 DEF AllRules
  <2> HIDE DEF v
  <2>3. \A x : Kept(v, x) <=> Kept(w, x)
    BY <2>2, Zenon DEF ServedOK, Kept
  <2> QED
    BY <2>2, <2>3, Zenon DEF Resulted, ServedOK, v
<1>5. CASE ~p.error /\ ~Loop!HungUp(rule, p) /\ ~p.ready
  <2>1. v = w
    BY <1>5, Zenon DEF Loop!Result
  <2> QED
    BY <2>1, NothingResults
<1> QED
  BY <1>2, <1>3, <1>4, <1>5

(* The results of poll, rule by rule, and what is set up before it.        *)
AllResults(w, b) == Loop!FoldLeft(Loop!Result, w, b)

(* The rules of b set up, one by one.                                      *)
AllSetUp(w, b) == Loop!FoldLeft(Loop!SetUpRule, w, b)

(* The worlds between the results of poll, gone through one by one.        *)
ResultGo(f, w, b, n) ==
    /\ f[0] = w
    /\ \A m \in 0 .. n - 1 : f[m + 1] = Loop!Result(f[m], b[m + 1])
    /\ AllResults(w, b) = f[n]

(* There are such values.                                                  *)
LEMMA ResultRun ==
    ASSUME NEW w, NEW b, NEW L \in Nat, DOMAIN b = 1 .. L
    PROVE  \E f : ResultGo(f, w, b, L)
<1> DEFINE S == 1 .. L
           Iterates(h, D) ==
              h = [s \in SUBSET D |->
                     IF s = {} THEN w ELSE Loop!Result(h[s \ {Loop!Max(s)}], b[Loop!Max(s)])]
           loop == CHOOSE h : Iterates(h, S)
           T == {m \in Nat : \E h : Iterates(h, Below(S, m))}
<1>1. AllResults(w, b) = loop[S]
  BY Zenon DEF AllResults, Loop!FoldLeft, Loop!MapThenFoldSet
<1>2. /\ S \in SUBSET Nat
      /\ S = Below(S, L + 1)
      /\ 0 \notin S
      /\ \A m \in 0 .. L - 1 : m + 1 \in S /\ m + 1 \in Nat
  BY DEF Below
<1>3. \A s : Loop!Max(s) = Max(s)
  BY Zenon DEF Max, Loop!Max
<1> HIDE DEF S
<1>4. 0 \in T
  <2>1. \A s \in SUBSET Below(S, 0) : s = {}
    BY <1>2, OneByOne
  <2>2. Iterates([s \in SUBSET Below(S, 0) |-> w], Below(S, 0))
    BY <2>1, Zenon
  <2> QED
    BY <2>2
<1>5. ASSUME NEW m \in T PROVE m + 1 \in T
  <2>1. PICK h : Iterates(h, Below(S, m))
    OBVIOUS
  <2> DEFINE D == Below(S, m + 1)
             k == [s \in SUBSET D |->
                     IF m \in s THEN Loop!Result(h[s \ {Loop!Max(s)}], b[Loop!Max(s)])
                     ELSE h[s]]
             value(s) == IF s = {} THEN w
                         ELSE Loop!Result(k[s \ {Loop!Max(s)}], b[Loop!Max(s)])
  <2>2. \A s \in SUBSET Below(S, m) : k[s] = h[s]
    BY <1>2, OneByOne
  <2>3. ASSUME NEW s \in SUBSET D
        PROVE  k[s] = value(s)
    <3>1. s \ {Loop!Max(s)} \in SUBSET Below(S, m) /\ (m \notin s => s \in SUBSET Below(S, m))
      BY <1>2, <1>3, LargestBelow
    <3>2. k[s \ {Loop!Max(s)}] = h[s \ {Loop!Max(s)}]
      BY <2>2, <3>1
    <3> QED
      BY <2>1, <2>2, <3>1, <3>2
  <2>4. Iterates(k, D)
    <3>1. k = [s \in SUBSET D |-> k[s]]
      OBVIOUS
    <3>2. k = [s \in SUBSET D |-> value(s)]
      <4> HIDE DEF k, value
      <4> QED
        BY <2>3, <3>1
    <3> QED
      BY <3>2, Zenon
  <2>5. m + 1 \in Nat /\ \E f : Iterates(f, D)
    <3> HIDE DEF k, Iterates
    <3> QED
      BY <2>4
  <2> QED
    BY <2>5
<1>6. Iterates(loop, S)
  <2>1. T = Nat
    BY <1>4, <1>5, AllNumbers
  <2>2. L + 1 \in T
    <3> HIDE DEF T
    <3> QED
      BY <2>1
  <2>3. \E h : Iterates(h, S)
    <3>1. \E h : Iterates(h, Below(S, L + 1))
      BY <2>2
    <3> QED
      BY <1>2, <3>1
  <2> QED
    BY <2>3, Zenon
<1> HIDE DEF loop
<1> DEFINE f == [m \in Nat |-> loop[Below(S, m + 1)]]
<1>7. f[0] = w /\ f[L] = loop[S]
  <2>1. f[0] = loop[Below(S, 0 + 1)] /\ f[L] = loop[Below(S, L + 1)]
    OBVIOUS
  <2>2. loop[{}] = w
    BY <1>6
  <2>3. Below(S, 0 + 1) = {}
    BY <1>2, OneByOne
  <2> QED
    BY <1>2, <2>1, <2>2, <2>3
<1>8. ASSUME NEW m \in 0 .. L - 1
      PROVE  f[m + 1] = Loop!Result(f[m], b[m + 1])
  <2> DEFINE n == m + 1
  <2>1. n \in S /\ n \in Nat
    BY <1>2
  <2>2. f[m] = loop[Below(S, n)] /\ f[m + 1] = loop[Below(S, n + 1)]
    OBVIOUS
  <2>3. /\ Below(S, n + 1) \in SUBSET S
        /\ Below(S, n + 1) # {} /\ Loop!Max(Below(S, n + 1)) = n
        /\ Below(S, n + 1) \ {n} = Below(S, n)
    <3> HIDE DEF n
    <3>1. n + 1 \in Nat
      BY <2>1
    <3>2. \A j \in Nat : Below(S, j) \in SUBSET S
      BY <1>2, OneByOne
    <3>3. n \in S => /\ Below(S, n + 1) # {} /\ Max(Below(S, n + 1)) = n
                     /\ Below(S, n + 1) \ {n} = Below(S, n)
      <4>1. S \in SUBSET Nat
        BY <1>2
      <4> QED
        BY <2>1, <4>1, OneByOne
    <3> QED
      BY <1>3, <2>1, <3>1, <3>2, <3>3
  <2> HIDE DEF f, n
  <2>4. loop[Below(S, n + 1)] = Loop!Result(loop[Below(S, n)], b[n])
    BY <1>6, <2>3
  <2> QED
    BY <2>2, <2>4 DEF n
<1> QED
  <2> HIDE DEF f
  <2> QED
    BY <1>1, <1>7, <1>8, Zenon DEF ResultGo

(* The worlds between the rules set up one by one.                         *)
SetUpGo(f, w, b, n) ==
    /\ f[0] = w
    /\ \A m \in 0 .. n - 1 : f[m + 1] = Loop!SetUpRule(f[m], b[m + 1])
    /\ AllSetUp(w, b) = f[n]

(* There are such values.                                                  *)
LEMMA SetUpRun ==
    ASSUME NEW w, NEW b, NEW L \in Nat, DOMAIN b = 1 .. L
    PROVE  \E f : SetUpGo(f, w, b, L)
<1> DEFINE S == 1 .. L
           Iterates(h, D) ==
              h = [s \in SUBSET D |->
                     IF s = {} THEN w ELSE Loop!SetUpRule(h[s \ {Loop!Max(s)}], b[Loop!Max(s)])]
           loop == CHOOSE h : Iterates(h, S)
           T == {m \in Nat : \E h : Iterates(h, Below(S, m))}
<1>1. AllSetUp(w, b) = loop[S]
  BY Zenon DEF AllSetUp, Loop!FoldLeft, Loop!MapThenFoldSet
<1>2. /\ S \in SUBSET Nat
      /\ S = Below(S, L + 1)
      /\ 0 \notin S
      /\ \A m \in 0 .. L - 1 : m + 1 \in S /\ m + 1 \in Nat
  BY DEF Below
<1>3. \A s : Loop!Max(s) = Max(s)
  BY Zenon DEF Max, Loop!Max
<1> HIDE DEF S
<1>4. 0 \in T
  <2>1. \A s \in SUBSET Below(S, 0) : s = {}
    BY <1>2, OneByOne
  <2>2. Iterates([s \in SUBSET Below(S, 0) |-> w], Below(S, 0))
    BY <2>1, Zenon
  <2> QED
    BY <2>2
<1>5. ASSUME NEW m \in T PROVE m + 1 \in T
  <2>1. PICK h : Iterates(h, Below(S, m))
    OBVIOUS
  <2> DEFINE D == Below(S, m + 1)
             k == [s \in SUBSET D |->
                     IF m \in s THEN Loop!SetUpRule(h[s \ {Loop!Max(s)}], b[Loop!Max(s)])
                     ELSE h[s]]
             value(s) == IF s = {} THEN w
                         ELSE Loop!SetUpRule(k[s \ {Loop!Max(s)}], b[Loop!Max(s)])
  <2>2. \A s \in SUBSET Below(S, m) : k[s] = h[s]
    BY <1>2, OneByOne
  <2>3. ASSUME NEW s \in SUBSET D
        PROVE  k[s] = value(s)
    <3>1. s \ {Loop!Max(s)} \in SUBSET Below(S, m) /\ (m \notin s => s \in SUBSET Below(S, m))
      BY <1>2, <1>3, LargestBelow
    <3>2. k[s \ {Loop!Max(s)}] = h[s \ {Loop!Max(s)}]
      BY <2>2, <3>1
    <3> QED
      BY <2>1, <2>2, <3>1, <3>2
  <2>4. Iterates(k, D)
    <3>1. k = [s \in SUBSET D |-> k[s]]
      OBVIOUS
    <3>2. k = [s \in SUBSET D |-> value(s)]
      <4> HIDE DEF k, value
      <4> QED
        BY <2>3, <3>1
    <3> QED
      BY <3>2, Zenon
  <2>5. m + 1 \in Nat /\ \E f : Iterates(f, D)
    <3> HIDE DEF k, Iterates
    <3> QED
      BY <2>4
  <2> QED
    BY <2>5
<1>6. Iterates(loop, S)
  <2>1. T = Nat
    BY <1>4, <1>5, AllNumbers
  <2>2. L + 1 \in T
    <3> HIDE DEF T
    <3> QED
      BY <2>1
  <2>3. \E h : Iterates(h, S)
    <3>1. \E h : Iterates(h, Below(S, L + 1))
      BY <2>2
    <3> QED
      BY <1>2, <3>1
  <2> QED
    BY <2>3, Zenon
<1> HIDE DEF loop
<1> DEFINE f == [m \in Nat |-> loop[Below(S, m + 1)]]
<1>7. f[0] = w /\ f[L] = loop[S]
  <2>1. f[0] = loop[Below(S, 0 + 1)] /\ f[L] = loop[Below(S, L + 1)]
    OBVIOUS
  <2>2. loop[{}] = w
    BY <1>6
  <2>3. Below(S, 0 + 1) = {}
    BY <1>2, OneByOne
  <2> QED
    BY <1>2, <2>1, <2>2, <2>3
<1>8. ASSUME NEW m \in 0 .. L - 1
      PROVE  f[m + 1] = Loop!SetUpRule(f[m], b[m + 1])
  <2> DEFINE n == m + 1
  <2>1. n \in S /\ n \in Nat
    BY <1>2
  <2>2. f[m] = loop[Below(S, n)] /\ f[m + 1] = loop[Below(S, n + 1)]
    OBVIOUS
  <2>3. /\ Below(S, n + 1) \in SUBSET S
        /\ Below(S, n + 1) # {} /\ Loop!Max(Below(S, n + 1)) = n
        /\ Below(S, n + 1) \ {n} = Below(S, n)
    <3> HIDE DEF n
    <3>1. n + 1 \in Nat
      BY <2>1
    <3>2. \A j \in Nat : Below(S, j) \in SUBSET S
      BY <1>2, OneByOne
    <3>3. n \in S => /\ Below(S, n + 1) # {} /\ Max(Below(S, n + 1)) = n
                     /\ Below(S, n + 1) \ {n} = Below(S, n)
      <4>1. S \in SUBSET Nat
        BY <1>2
      <4> QED
        BY <2>1, <4>1, OneByOne
    <3> QED
      BY <1>3, <2>1, <3>1, <3>2, <3>3
  <2> HIDE DEF f, n
  <2>4. loop[Below(S, n + 1)] = Loop!SetUpRule(loop[Below(S, n)], b[n])
    BY <1>6, <2>3
  <2> QED
    BY <2>2, <2>4 DEF n
<1> QED
  <2> HIDE DEF f
  <2> QED
    BY <1>1, <1>7, <1>8, Zenon DEF SetUpGo

(* The first m of the rules in b are those of a place up to k.             *)
Passed(b, m, k) ==
    /\ m \in 0 .. Len(b)
    /\ \A i \in 1 .. m : Rank(b[i]) <= k
    /\ \A i \in m + 1 .. Len(b) : Rank(b[i]) > k

(* From the first i rules on to the first j the rule has its turn, if it   *)
(* is there at all.                                                        *)
HasTurn(b, rule, i, j) ==
    IF Member(b, rule) THEN i \in 0 .. Len(b) - 1 /\ j = i + 1 /\ b[j] = rule
    ELSE j = i

(* The next place in the order is that of the next rule in the list, or of *)
(* none.                                                                   *)
LEMMA NextTurn ==
    ASSUME NEW b, InOrder(b), NEW rule \in AllRules, NEW k \in Nat, Rank(rule) = k + 1,
           NEW m, Passed(b, m, k)
    PROVE  \E n : HasTurn(b, rule, m, n) /\ Passed(b, n, k + 1)
<1>1. /\ b \in Seq(AllRules) /\ Len(b) \in Nat /\ m \in 0 .. Len(b)
      /\ \A i \in 1 .. m : Rank(b[i]) <= k
      /\ \A i \in m + 1 .. Len(b) : Rank(b[i]) > k
      /\ \A i \in 1 .. Len(b) : b[i] \in AllRules
      /\ \A i, j \in 1 .. Len(b) : i < j => Rank(b[i]) < Rank(b[j])
  BY LenProperties DEF InOrder, Passed
<1>2. /\ \A x : Rank(x) \in Nat
      /\ \A x, y \in AllRules : Rank(x) = Rank(y) => x = y
  <2>1. /\ Rank("read stdin") = 1 /\ Rank("write socket") = 2
        /\ Rank("read socket") = 3 /\ Rank("write stdout") = 4
    BY DEF Rank
  <2>2. \A x : Rank(x) \in Nat
    BY DEF Rank
  <2>3. \A x, y \in AllRules : Rank(x) = Rank(y) => x = y
    <3>1. 1 # 2 /\ 1 # 3 /\ 1 # 4 /\ 2 # 3 /\ 2 # 4 /\ 3 # 4
      OBVIOUS
    <3> QED
      BY <2>1, <3>1, Zenon DEF AllRules
  <2> QED
    BY <2>2, <2>3
<1> DEFINE size == Len(b)
           R(i) == Rank(b[i])
<1>3. \A i \in 1 .. size : R(i) \in Nat
  BY <1>2
<1>4. CASE Member(b, rule)
  <2>1. PICK i \in 1 .. size : b[i] = rule
    BY <1>4 DEF Member
  <2>2. R(i) = k + 1
    BY <2>1
  <2> HIDE DEF size, R
  <2>3. /\ size \in Nat /\ m \in 0 .. size
        /\ \A j \in 1 .. m : R(j) <= k
        /\ \A j \in m + 1 .. size : R(j) > k
        /\ \A x, y \in 1 .. size : x < y => R(x) < R(y)
    BY <1>1 DEF size, R
  <2>4. i = m + 1
    <3>1. i > m
      BY <2>2, <2>3
    <3>2. ~(i > m + 1)
      <4>1. SUFFICES ASSUME i > m + 1 PROVE FALSE
        OBVIOUS
      <4> DEFINE next == m + 1
      <4>2. next \in 1 .. size /\ next \in m + 1 .. size /\ next < i
        BY <2>3, <4>1
      <4> HIDE DEF next
      <4>3. R(next) < R(i) /\ R(next) > k /\ R(next) \in Nat
        BY <1>3, <2>3, <4>2 DEF size, R
      <4> QED
        BY <2>2, <4>3
    <3> QED
      BY <2>3, <3>1, <3>2
  <2>5. HasTurn(b, rule, m, m + 1)
    BY <1>4, <2>1, <2>3, <2>4 DEF HasTurn, size
  <2>6. /\ m + 1 \in 0 .. size
        /\ \A j \in 1 .. m + 1 : R(j) <= k + 1
        /\ \A j \in m + 1 + 1 .. size : R(j) > k + 1
    <3>1. m + 1 \in 0 .. size
      BY <2>3, <2>4
    <3>2. \A j \in 1 .. m + 1 : R(j) <= k + 1
      <4> SUFFICES ASSUME NEW j \in 1 .. m + 1 PROVE R(j) <= k + 1
        OBVIOUS
      <4>1. CASE j = i
        BY <2>2, <4>1
      <4>2. CASE j # i
        <5>1. j \in 1 .. m /\ j \in 1 .. size
          BY <2>3, <2>4, <4>2
        <5>2. R(j) <= k /\ R(j) \in Nat
          BY <1>3, <2>3, <5>1 DEF size, R
        <5> QED
          BY <5>2
      <4> QED
        BY <4>1, <4>2
    <3>3. \A j \in m + 1 + 1 .. size : R(j) > k + 1
      <4> SUFFICES ASSUME NEW j \in m + 1 + 1 .. size PROVE R(j) > k + 1
        OBVIOUS
      <4>1. j \in 1 .. size /\ i < j
        BY <2>3, <2>4
      <4>2. R(i) < R(j) /\ R(j) \in Nat
        BY <1>3, <2>3, <4>1 DEF size, R
      <4> QED
        BY <2>2, <4>2
    <3> QED
      BY <3>1, <3>2, <3>3
  <2>7. Passed(b, m + 1, k + 1)
    BY <2>6 DEF Passed, size, R
  <2> QED
    BY <2>5, <2>7
<1>5. CASE ~Member(b, rule)
  <2>1. HasTurn(b, rule, m, m)
    BY <1>5 DEF HasTurn
  <2>2. \A i \in 1 .. size : R(i) # k + 1
    BY <1>1, <1>2, <1>5 DEF Member
  <2> HIDE DEF size, R
  <2>3. /\ size \in Nat /\ m \in 0 .. size
        /\ \A j \in 1 .. m : R(j) <= k
        /\ \A j \in m + 1 .. size : R(j) > k
    BY <1>1 DEF size, R
  <2>4. /\ \A j \in 1 .. m : R(j) <= k + 1
        /\ \A j \in m + 1 .. size : R(j) > k + 1
    <3>1. \A j \in 1 .. m : j \in 1 .. size
      BY <2>3
    <3>2. \A j \in m + 1 .. size : j \in 1 .. size
      BY <2>3
    <3>3. \A j \in 1 .. size : R(j) \in Nat /\ R(j) # k + 1
      BY <1>3, <2>2 DEF size, R
    <3> QED
      BY <2>3, <3>1, <3>2, <3>3
  <2>5. Passed(b, m, k + 1)
    BY <2>3, <2>4 DEF Passed, size, R
  <2> QED
    BY <2>1, <2>5
<1> QED
  BY <1>4, <1>5

(* The four turns of a list of rules.                                      *)
HasTurns(b, i, j, k) ==
    /\ HasTurn(b, "read stdin", 0, i)
    /\ HasTurn(b, "write socket", i, j)
    /\ HasTurn(b, "read socket", j, k)
    /\ HasTurn(b, "write stdout", k, Len(b))

(* Every list of rules has its four turns.                                 *)
LEMMA FourTurns ==
    ASSUME NEW b, InOrder(b)
    PROVE  \E i, j, k : HasTurns(b, i, j, k)
<1>1. b \in Seq(AllRules) /\ Len(b) \in Nat /\ \A i \in 1 .. Len(b) : b[i] \in AllRules
  BY LenProperties DEF InOrder
<1>2. /\ Rank("read stdin") = 0 + 1 /\ Rank("write socket") = 1 + 1
      /\ Rank("read socket") = 2 + 1 /\ Rank("write stdout") = 3 + 1
      /\ \A x \in AllRules : Rank(x) \in 1 .. 4
  BY DEF Rank, AllRules
<1>3. Passed(b, 0, 0)
  <2>1. \A i \in 0 + 1 .. Len(b) : Rank(b[i]) > 0
    <3>1. \A i \in 1 .. Len(b) : Rank(b[i]) \in 1 .. 4
      BY <1>1, <1>2
    <3> QED
      BY <1>1, <3>1
  <2> QED
    BY <1>1, <2>1 DEF Passed
<1>4. PICK i : HasTurn(b, "read stdin", 0, i) /\ Passed(b, i, 1)
  <2>1. \E n : HasTurn(b, "read stdin", 0, n) /\ Passed(b, n, 0 + 1)
    BY <1>2, <1>3, NextTurn DEF AllRules
  <2>2. 0 + 1 = 1
    OBVIOUS
  <2> QED
    BY <2>1, <2>2, Zenon
<1>5. PICK j : HasTurn(b, "write socket", i, j) /\ Passed(b, j, 2)
  <2>1. \E n : HasTurn(b, "write socket", i, n) /\ Passed(b, n, 1 + 1)
    BY <1>2, <1>4, NextTurn DEF AllRules
  <2>2. 1 + 1 = 2
    OBVIOUS
  <2> QED
    BY <2>1, <2>2, Zenon
<1>6. PICK k : HasTurn(b, "read socket", j, k) /\ Passed(b, k, 3)
  <2>1. \E n : HasTurn(b, "read socket", j, n) /\ Passed(b, n, 2 + 1)
    BY <1>2, <1>5, NextTurn DEF AllRules
  <2>2. 2 + 1 = 3
    OBVIOUS
  <2> QED
    BY <2>1, <2>2, Zenon
<1>7. PICK l : HasTurn(b, "write stdout", k, l) /\ Passed(b, l, 4)
  <2>1. \E n : HasTurn(b, "write stdout", k, n) /\ Passed(b, n, 3 + 1)
    BY <1>2, <1>6, NextTurn DEF AllRules
  <2>2. 3 + 1 = 4
    OBVIOUS
  <2> QED
    BY <2>1, <2>2, Zenon
<1>8. l = Len(b)
  <2>1. l \in 0 .. Len(b) /\ \A x \in l + 1 .. Len(b) : Rank(b[x]) > 4
    BY <1>7 DEF Passed
  <2>2. \A x \in 1 .. Len(b) : Rank(b[x]) \in 1 .. 4
    BY <1>1, <1>2
  <2>3. ~(l < Len(b))
    <3>1. SUFFICES ASSUME l < Len(b) PROVE FALSE
      OBVIOUS
    <3>2. Len(b) \in l + 1 .. Len(b) /\ Len(b) \in 1 .. Len(b)
      BY <1>1, <2>1, <3>1
    <3>3. Rank(b[Len(b)]) > 4 /\ Rank(b[Len(b)]) \in 1 .. 4
      BY <2>1, <2>2, <3>2
    <3> QED
      BY <3>3
  <2> QED
    BY <1>1, <2>1, <2>3
<1> QED
  BY <1>4, <1>5, <1>6, <1>7, <1>8, Zenon DEF HasTurns

(* The result of one rule of b is in: v comes of w.                        *)
HasResult(v, w, b, rule) == v = IF Member(b, rule) THEN Loop!Result(w, rule) ELSE w

(* The results of the four rules, in their order.                          *)
LEMMA FourResults ==
    ASSUME NEW w, NEW b, InOrder(b)
    PROVE  \E g1, g2, g3 :
              /\ HasResult(g1, w, b, "read stdin")
              /\ HasResult(g2, g1, b, "write socket")
              /\ HasResult(g3, g2, b, "read socket")
              /\ HasResult(AllResults(w, b), g3, b, "write stdout")
<1> DEFINE size == Len(b)
<1>1. size \in Nat /\ DOMAIN b = 1 .. size
  BY LenProperties DEF InOrder
<1>2. PICK i, j, k : HasTurns(b, i, j, k)
  BY FourTurns
<1>3. /\ HasTurn(b, "read stdin", 0, i) /\ HasTurn(b, "write socket", i, j)
      /\ HasTurn(b, "read socket", j, k) /\ HasTurn(b, "write stdout", k, size)
  BY <1>2, Zenon DEF HasTurns
<1> HIDE DEF size
<1>4. PICK f : ResultGo(f, w, b, size)
  BY <1>1, ResultRun
<1>5. ASSUME NEW rule, NEW x, NEW y, HasTurn(b, rule, x, y)
      PROVE  HasResult(f[y], f[x], b, rule)
  <2>1. IF Member(b, rule) THEN x \in 0 .. size - 1 /\ y = x + 1 /\ b[y] = rule ELSE y = x
    BY <1>5, Zenon DEF HasTurn, size
  <2>2. CASE Member(b, rule)
    <3>1. f[x + 1] = Loop!Result(f[x], b[x + 1])
      BY <1>4, <2>1, <2>2, Zenon DEF ResultGo
    <3> QED
      BY <2>1, <2>2, <3>1, Zenon DEF HasResult
  <2>3. CASE ~Member(b, rule)
    BY <2>1, <2>3, Zenon DEF HasResult
  <2> QED
    BY <2>2, <2>3
<1> QED
  BY <1>3, <1>4, <1>5, ZenonT(40) DEF ResultGo, size

(* One rule of b is set up: v comes of w.                                  *)
HasSetUp(v, w, b, rule) == v = IF Member(b, rule) THEN Loop!SetUpRule(w, rule) ELSE w

(* The four rules set up, in their order.                                  *)
LEMMA FourSetUp ==
    ASSUME NEW w, NEW b, InOrder(b)
    PROVE  \E g1, g2, g3 :
              /\ HasSetUp(g1, w, b, "read stdin")
              /\ HasSetUp(g2, g1, b, "write socket")
              /\ HasSetUp(g3, g2, b, "read socket")
              /\ HasSetUp(AllSetUp(w, b), g3, b, "write stdout")
<1> DEFINE size == Len(b)
<1>1. size \in Nat /\ DOMAIN b = 1 .. size
  BY LenProperties DEF InOrder
<1>2. PICK i, j, k : HasTurns(b, i, j, k)
  BY FourTurns
<1>3. /\ HasTurn(b, "read stdin", 0, i) /\ HasTurn(b, "write socket", i, j)
      /\ HasTurn(b, "read socket", j, k) /\ HasTurn(b, "write stdout", k, size)
  BY <1>2, Zenon DEF HasTurns
<1> HIDE DEF size
<1>4. PICK f : SetUpGo(f, w, b, size)
  BY <1>1, SetUpRun
<1>5. ASSUME NEW rule, NEW x, NEW y, HasTurn(b, rule, x, y)
      PROVE  HasSetUp(f[y], f[x], b, rule)
  <2>1. IF Member(b, rule) THEN x \in 0 .. size - 1 /\ y = x + 1 /\ b[y] = rule ELSE y = x
    BY <1>5, Zenon DEF HasTurn, size
  <2>2. CASE Member(b, rule)
    <3>1. f[x + 1] = Loop!SetUpRule(f[x], b[x + 1])
      BY <1>4, <2>1, <2>2, Zenon DEF SetUpGo
    <3> QED
      BY <2>1, <2>2, <3>1, Zenon DEF HasSetUp
  <2>3. CASE ~Member(b, rule)
    BY <2>1, <2>3, Zenon DEF HasSetUp
  <2> QED
    BY <2>2, <2>3
<1> QED
  BY <1>3, <1>4, <1>5, ZenonT(40) DEF SetUpGo, size

(* What poll said of a rule remains true when another is cancelled.        *)
LEMMA SaidRemains ==
    ASSUME NEW v, NEW w, NEW rule, OnlyClosed(v, w, rule), NEW x, NEW p, SaidOf(w, x, p),
           x = "read stdin" /\ v.outbound.closed => w.outbound.closed,
           x = "read socket" /\ v.inbound.closed => w.inbound.closed
    PROVE  SaidOf(v, x, p)
<1>1. /\ v.received = w.received /\ v.sent = w.sent /\ v.stdout = w.stdout
      /\ v.shutdown = w.shutdown /\ v.stdin = w.stdin
      /\ v.outbound.queue = w.outbound.queue /\ v.inbound.queue = w.inbound.queue
      /\ AvailableCapacity(v.inbound) = AvailableCapacity(w.inbound)
      /\ AvailableCapacity(v.outbound) = AvailableCapacity(w.outbound)
      /\ w.outbound.closed => v.outbound.closed
      /\ w.inbound.closed => v.inbound.closed
  BY Zenon DEF OnlyClosed, SameButFlags
<1>2. IsFinished(w.outbound) => IsFinished(v.outbound)
  BY <1>1, Zenon DEF IsFinished
<1>3. IsFinished(w.inbound) => IsFinished(v.inbound)
  BY <1>1, Zenon DEF IsFinished
<1>4. CASE x = "write socket"
  <2>1. SaidOfWriteSocket(v, p)
    BY <1>1, <1>2, <1>4, Zenon DEF SaidOf, SaidOfWriteSocket
  <2> QED
    BY <1>4, <2>1, Zenon DEF SaidOf
<1>5. CASE x = "read socket"
  <2>1. SaidOfReadSocket(v, p)
    BY <1>1, <1>5, Zenon DEF SaidOf, SaidOfReadSocket
  <2> QED
    BY <1>5, <2>1, Zenon DEF SaidOf
<1>6. CASE x = "write stdout"
  <2>1. SaidOfWriteStdout(v, p)
    BY <1>1, <1>3, <1>6, Zenon DEF SaidOf, SaidOfWriteStdout
  <2> QED
    BY <1>6, <2>1, Zenon DEF SaidOf
<1>7. CASE x = "read stdin"
  <2>1. SaidOfReadStdin(v, p)
    BY <1>1, <1>7, Zenon DEF SaidOf, SaidOfReadStdin
  <2> QED
    BY <1>7, <2>1, Zenon DEF SaidOf
<1>8. CASE x \notin AllRules
  BY <1>8, Zenon DEF SaidOf, AllRules
<1> QED
  BY <1>4, <1>5, <1>6, <1>7, <1>8 DEF AllRules

(* Between the results of poll: v has come of w, and poll's word of the    *)
(* rules ahead counts until one has been served.                           *)
MidServe(v, w, ahead) ==
    /\ Sound(v)
    /\ SameEnds(v, w)
    /\ \A x \in ahead : Kept(v, x) <=> Kept(w, x)
    /\ v.loop \in {"serve", "poll", "failed"}
    /\ v.loop = "serve" => StillSaid(v, ahead)
    /\ v.loop # "failed" => ~v.failed
    /\ v.loop = "failed" => BrokenIn(v)

(* One result after another.                                               *)
LEMMA NextResult ==
    ASSUME SizeAssumption, NEW v, NEW u, NEW w, NEW rule \in AllRules, NEW ahead,
           rule \notin ahead, MidServe(u, w, {rule} \cup ahead), HasResult(v, u, w.rules, rule),
           \A x \in ahead : /\ x # "read stdin"
                            /\ x = "read socket" => StreamOfRule(rule) = "outbound"
    PROVE  MidServe(v, w, ahead)
<1>1. /\ Sound(u) /\ SameEnds(u, w)
      /\ Kept(u, rule) <=> Kept(w, rule)
      /\ \A x \in ahead : Kept(u, x) <=> Kept(w, x)
      /\ u.loop = "serve" => StillSaid(u, {rule} \cup ahead)
      /\ u.loop # "failed" => ~u.failed
  BY Zenon DEF MidServe
<1>2. CASE v = u
  <2>1. u.loop = "serve" => StillSaid(u, ahead)
    BY <1>1, Zenon DEF StillSaid
  <2> QED
    BY <1>2, <2>1, Zenon DEF MidServe
<1>3. CASE v # u
  <2>1. Member(w.rules, rule) /\ v = Loop!Result(u, rule)
    BY <1>3, Zenon DEF HasResult
  <2>2. u.loop = "serve"
    BY <1>3, <2>1, Zenon DEF Loop!Result
  <2>3. ~u.failed
    <3>1. u.loop # "failed"
      BY <2>2
    <3> QED
      BY <1>1, <3>1
  <2>4. Kept(u, rule) /\ SaidOf(u, rule, u.polled[rule])
    BY <1>1, <2>1, <2>2, Zenon DEF Kept, StillSaid
  <2>5. Resulted(v, u, rule)
    BY <1>1, <2>1, <2>2, <2>3, <2>4, OneResult
  <2>6. /\ Sound(v) /\ SameEnds(v, u)
        /\ \A x : x # rule => (Kept(v, x) <=> Kept(u, x))
        /\ ServedOK(v, u) \/ OnlyClosed(v, u, rule)
    BY <2>5, Zenon DEF Resulted
  <2>7. SameEnds(v, w)
    BY <1>1, <2>6, Zenon DEF SameEnds
  <2>8. \A x \in ahead : Kept(v, x) <=> Kept(w, x)
    BY <1>1, <2>6, Zenon
  <2>9. CASE ServedOK(v, u)
    <3>1. /\ v.loop \in {"poll", "failed"}
          /\ v.loop = "poll" => ~v.failed
          /\ v.loop = "failed" => BrokenIn(v)
      BY <2>9, Zenon DEF ServedOK
    <3>2. v.loop # "serve"
      BY <3>1
    <3> QED
      BY <2>6, <2>7, <2>8, <3>1, <3>2, Zenon DEF MidServe
  <2>10. CASE OnlyClosed(v, u, rule)
    <3>1. v.loop = "serve" /\ ~v.failed /\ v.polled = u.polled
      BY <2>2, <2>3, <2>10, Zenon DEF OnlyClosed
    <3>2. v.loop # "failed"
      BY <3>1
    <3>3. ASSUME NEW x \in ahead, Kept(v, x) PROVE SaidOf(v, x, v.polled[x])
      <4>1. SaidOf(u, x, u.polled[x])
        BY <1>1, <2>2, <2>6, <3>3, Zenon DEF StillSaid
      <4>2. x # "read stdin"
        OBVIOUS
      <4>3. x = "read socket" /\ v.inbound.closed => u.inbound.closed
        <5>1. x = "read socket" => StreamOfRule(rule) # "inbound"
          <6>1. "outbound" # "inbound"
            OBVIOUS
          <6> QED
            BY <6>1, Zenon
        <5> QED
          BY <2>10, <5>1, Zenon DEF OnlyClosed
      <4>4. SaidOf(v, x, u.polled[x])
        BY <2>10, <4>1, <4>2, <4>3, SaidRemains, Zenon
      <4> QED
        BY <3>1, <4>4, Zenon
    <3>4. StillSaid(v, ahead)
      BY <3>3, Zenon DEF StillSaid
    <3> QED
      BY <2>6, <2>7, <2>8, <3>1, <3>2, <3>4, Zenon DEF MidServe
  <2> QED
    BY <2>6, <2>9, <2>10
<1> QED
  BY <1>2, <1>3

(* Where the loop stands, and what poll said, is not what is sound.        *)
LEMMA SoundApart ==
    ASSUME NEW w, Sound(w), NEW v, DOMAIN v = Fields,
           \A g \in Fields \ {"loop", "polled", "failed"} : v[g] = w[g]
    PROVE  Sound(v) /\ SameEnds(v, w)
<1>1. /\ v.rules = w.rules /\ v.fd = w.fd /\ v.shutdown = w.shutdown
      /\ v.stdin = w.stdin /\ v.outbound = w.outbound /\ v.sent = w.sent
      /\ v.received = w.received /\ v.inbound = w.inbound /\ v.stdout = w.stdout
  BY DEF Fields
<1>2. \A x : Kept(v, x) <=> Kept(w, x)
  BY <1>1 DEF Kept
<1>3. IsWorld(v)
  <2>1. /\ DOMAIN w.fd = {"input", "output", "socket"}
        /\ DOMAIN w.shutdown = {"outbound", "inbound"}
        /\ \A name \in DOMAIN w.fd : IsIdle(w.fd[name])
    BY Zenon DEF Sound, IsWorld
  <2> QED
    BY <1>1, <2>1, Zenon DEF IsWorld
<1>4. OutwardOK(v)
  <2>1. OutwardOK(w)
    BY Zenon DEF Sound
  <2> QED
    BY <1>1, <1>2, <2>1, Zenon DEF OutwardOK
<1>5. InwardOK(v)
  <2>1. InwardOK(w)
    BY Zenon DEF Sound
  <2> QED
    BY <1>1, <1>2, <2>1, Zenon DEF InwardOK, ReceivedEnded, HasError
<1>6. /\ InOrder(v.rules)
      /\ OneWay(v.stdin, v.outbound, v.sent)
      /\ OneWay(v.received, v.inbound, v.stdout)
  BY <1>1, Zenon DEF Sound
<1>7. SameEnds(v, w)
  BY <1>1, Zenon DEF SameEnds
<1> QED
  BY <1>3, <1>4, <1>5, <1>6, <1>7, Zenon DEF Sound

(* The results of one poll are served.                                     *)
LEMMA ServeStands ==
    ASSUME SizeAssumption, NEW w, Standing(w), w.loop = "serve"
    PROVE  Standing(Loop!Serve(w)) /\ SameEnds(Loop!Serve(w), w)
<1> DEFINE b == w.rules
           r == AllResults(w, b)
           v == Loop!Serve(w)
<1>1. Sound(w) /\ StillSaid(w, AllRules) /\ ~w.failed /\ InOrder(b)
  BY Zenon DEF Standing, Sound
<1>2. PICK g1, g2, g3 : /\ HasResult(g1, w, b, "read stdin")
                        /\ HasResult(g2, g1, b, "write socket")
                        /\ HasResult(g3, g2, b, "read socket")
                        /\ HasResult(r, g3, b, "write stdout")
  BY <1>1, FourResults
<1> HIDE DEF r
<1>3. /\ StreamOfRule("read stdin") = "outbound" /\ StreamOfRule("write socket") = "outbound"
      /\ AllRules = {"read stdin"} \cup {"write socket", "read socket", "write stdout"}
      /\ {"write socket", "read socket", "write stdout"}
           = {"write socket"} \cup {"read socket", "write stdout"}
      /\ {"read socket", "write stdout"} = {"read socket"} \cup {"write stdout"}
      /\ {"write stdout"} = {"write stdout"} \cup {}
  BY DEF StreamOfRule, AllRules
<1>4. MidServe(w, w, AllRules)
  <2>1. SameEnds(w, w) /\ \A x \in AllRules : Kept(w, x) <=> Kept(w, x)
    BY Zenon DEF SameEnds
  <2>2. w.loop \in {"serve", "poll", "failed"} /\ w.loop # "failed"
    OBVIOUS
  <2> QED
    BY <1>1, <2>1, <2>2, Zenon DEF MidServe
<1>5. MidServe(g1, w, {"write socket", "read socket", "write stdout"})
  <2>1. /\ "read stdin" \in AllRules
        /\ "read stdin" \notin {"write socket", "read socket", "write stdout"}
        /\ \A x \in {"write socket", "read socket", "write stdout"} : x # "read stdin"
    BY DEF AllRules
  <2>2. MidServe(w, w, {"read stdin"} \cup {"write socket", "read socket", "write stdout"})
    BY <1>3, <1>4, Zenon
  <2> QED
    BY <1>2, <1>3, <2>1, <2>2, NextResult, Zenon
<1>6. MidServe(g2, w, {"read socket", "write stdout"})
  <2>1. /\ "write socket" \in AllRules /\ "write socket" \notin {"read socket", "write stdout"}
        /\ \A x \in {"read socket", "write stdout"} : x # "read stdin"
    BY DEF AllRules
  <2>2. MidServe(g1, w, {"write socket"} \cup {"read socket", "write stdout"})
    BY <1>3, <1>5, Zenon
  <2> QED
    BY <1>2, <1>3, <2>1, <2>2, NextResult, Zenon
<1>7. MidServe(g3, w, {"write stdout"})
  <2>1. /\ "read socket" \in AllRules /\ "read socket" \notin {"write stdout"}
        /\ \A x \in {"write stdout"} : x # "read stdin" /\ x # "read socket"
    BY DEF AllRules
  <2>2. MidServe(g2, w, {"read socket"} \cup {"write stdout"})
    BY <1>3, <1>6, Zenon
  <2> QED
    BY <1>2, <2>1, <2>2, NextResult, Zenon
<1>8. MidServe(r, w, {})
  <2>1. /\ "write stdout" \in AllRules /\ "write stdout" \notin {}
        /\ \A x \in {} : x # "read stdin" /\ x # "read socket"
    BY DEF AllRules
  <2>2. MidServe(g3, w, {"write stdout"} \cup {})
    BY <1>3, <1>7, Zenon
  <2> QED
    BY <1>2, <2>1, <2>2, NextResult, Zenon
<1> DEFINE loop == IF r.loop = "serve" THEN "poll" ELSE r.loop
<1>9. v = [r EXCEPT !.polled = << >>, !.loop = IF @ = "serve" THEN "poll" ELSE @]
  BY Zenon DEF Loop!Serve, AllResults, r
<1>10. /\ Sound(r) /\ SameEnds(r, w) /\ DOMAIN r = Fields
       /\ r.loop \in {"serve", "poll", "failed"}
       /\ r.loop # "failed" => ~r.failed
       /\ r.loop = "failed" => BrokenIn(r)
  BY <1>8, Zenon DEF MidServe, Sound, IsWorld
<1>11. v = [r EXCEPT !.polled = << >>, !.loop = loop]
  BY <1>9, <1>10 DEF Fields
<1>12. loop \in {"poll", "failed"} /\ (loop = "failed" <=> r.loop = "failed")
  BY <1>10
<1> HIDE DEF v, loop
<1>13. /\ DOMAIN v = Fields
       /\ \A g \in Fields \ {"loop", "polled", "failed"} : v[g] = r[g]
       /\ v.loop = loop /\ v.polled = << >> /\ v["failed"] = r["failed"]
       /\ v.sent = r.sent /\ v.stdout = r.stdout
  BY <1>10, <1>11 DEF Fields
<1>14. Sound(v) /\ SameEnds(v, r)
  BY <1>10, <1>13, SoundApart
<1>15. SameEnds(v, w)
  BY <1>10, <1>14, Zenon DEF SameEnds
<1>16. /\ v.loop \in {"poll", "failed"}
       /\ v.loop = "failed" => BrokenIn(v)
       /\ v.loop = "poll" => ~v.failed
  <2>1. v.loop = "poll" => r.loop # "failed"
    BY <1>12, <1>13
  <2>2. v.loop = "failed" => BrokenIn(v)
    BY <1>10, <1>12, <1>13, Zenon DEF BrokenIn
  <2> QED
    BY <1>10, <1>12, <1>13, <2>1, <2>2, Zenon
<1>17. /\ v.loop \in {"poll", "serve", "exit", "failed"}
       /\ v.loop # "serve" /\ v.loop # "exit"
  BY <1>16
<1>18. Standing(v)
  BY <1>13, <1>14, <1>16, <1>17, Zenon DEF Standing
<1> QED
  BY <1>15, <1>18 DEF v

(* Why nothing is asked of a rule.                                         *)
Quiet(w, rule) ==
    /\ rule = "read stdin" => HasError(w) \/ w.outbound.queue # << >> \/ w.outbound.closed
    /\ rule = "write socket" => /\ w.outbound.queue = << >>
                                /\ ~w.outbound.closed \/ w.shutdown["outbound"]
    /\ rule = "read socket" => HasError(w) \/ w.inbound.queue # << >> \/ w.inbound.closed
    /\ rule = "write stdout" => /\ w.inbound.queue = << >>
                                /\ ~w.inbound.closed \/ w.shutdown["inbound"]

(* What the pollfd of a rule tells.                                        *)
Told(w, rule, p) ==
    /\ SaidOf(w, rule, p)
    /\ ~p.events => Quiet(w, rule)

(* A pollfd just set up tells the truth.                                   *)
LEMMA PollfdTells ==
    ASSUME SizeAssumption, NEW w, Sound(w), NEW rule \in AllRules
    PROVE  Told(w, rule, Loop!Pollfd(w, rule))
<1> DEFINE events == InterestOf(w, rule)
           revents == KernelReports(w, rule)
           p == Loop!Pollfd(w, rule)
<1>1. /\ p.events = events
      /\ p.ready = (events /\ revents.ready)
      /\ p.hup = revents.hup
      /\ p.error = revents.error
  <2>1. p = [events |-> events, ready |-> events /\ revents.ready,
             hup |-> revents.hup, error |-> revents.error]
    BY Zenon DEF Loop!Pollfd
  <2> HIDE DEF p, events, revents
  <2> QED
    BY <2>1
<1>2. \A s : IsPipe(s, BufferSize) /\ ~(AvailableCapacity(s) > 0) => s.queue # << >>
  <2> SUFFICES ASSUME NEW s, IsPipe(s, BufferSize), s.queue = << >>
               PROVE  AvailableCapacity(s) > 0
    BY Zenon
  <2>1. s.capacity = BufferSize /\ BufferSize \in Nat \ {0} /\ Len(s.queue) = 0
    BY DEF IsPipe, SizeAssumption
  <2> QED
    BY <2>1 DEF AvailableCapacity
<1>3. IsPipe(w.outbound, BufferSize) /\ IsPipe(w.inbound, BufferSize)
  BY Zenon DEF Sound, OneWay
<1>4. CASE rule = "read stdin"
  <2>1. /\ StreamOfRule(rule) = "outbound" /\ IsIn(rule) /\ KernelOf(rule) = "stdin"
    BY <1>4 DEF StreamOfRule, IsIn, KernelOf
  <2>2. events <=> ~HasError(w) /\ AvailableCapacity(w.outbound) > 0 /\ ~w.outbound.closed
    BY <2>1, Zenon DEF InterestOf
  <2>3. revents = [ready |-> w.stdin.queue # << >>, hup |-> w.stdin.closed, error |-> FALSE]
    BY <1>4, <2>1 DEF KernelReports
  <2> HIDE DEF p, events, revents
  <2>4. /\ revents.ready = (w.stdin.queue # << >>)
        /\ revents.hup = w.stdin.closed
        /\ revents.error = FALSE
    BY <2>3
  <2>5. SaidOfReadStdin(w, p)
    BY <1>1, <2>2, <2>4, Zenon DEF SaidOfReadStdin, IsFinished
  <2>6. ~p.events => HasError(w) \/ w.outbound.queue # << >> \/ w.outbound.closed
    BY <1>1, <1>2, <1>3, <2>2, Zenon
  <2>7. rule # "write socket" /\ rule # "read socket" /\ rule # "write stdout"
    BY <1>4
  <2> QED
    BY <2>5, <2>6, <2>7, Zenon DEF Told, SaidOf, Quiet, p
<1>5. CASE rule = "write socket"
  <2>1. /\ StreamOfRule(rule) = "outbound" /\ ~IsIn(rule) /\ KernelOf(rule) = "sent"
    BY <1>5 DEF StreamOfRule, IsIn, KernelOf
  <2>2. events <=> \/ w.outbound.queue # << >>
                   \/ IsFinished(w.outbound) /\ ~w.shutdown["outbound"]
    BY <2>1, Zenon DEF InterestOf
  <2>3. revents = [ready |-> AvailableCapacity(w.sent) > 0,
                   hup |-> w.received.closed /\ (w.sent.closed \/ w.sent.error),
                   error |-> w.received.error]
    BY <1>5, <2>1 DEF KernelReports
  <2> HIDE DEF p, events, revents
  <2>4. /\ revents.ready = (AvailableCapacity(w.sent) > 0)
        /\ revents.hup = (w.received.closed /\ (w.sent.closed \/ w.sent.error))
        /\ revents.error = w.received.error
    BY <2>3
  <2>5. SaidOfWriteSocket(w, p)
    BY <1>1, <2>2, <2>4, Zenon DEF SaidOfWriteSocket
  <2>6. ~p.events => /\ w.outbound.queue = << >>
                     /\ ~w.outbound.closed \/ w.shutdown["outbound"]
    BY <1>1, <2>2, Zenon DEF IsFinished
  <2>7. rule # "read stdin" /\ rule # "read socket" /\ rule # "write stdout"
    BY <1>5
  <2> QED
    BY <2>5, <2>6, <2>7, Zenon DEF Told, SaidOf, Quiet, p
<1>6. CASE rule = "read socket"
  <2>1. /\ StreamOfRule(rule) = "inbound" /\ IsIn(rule) /\ KernelOf(rule) = "received"
    BY <1>6 DEF StreamOfRule, IsIn, KernelOf
  <2>2. events <=> ~HasError(w) /\ AvailableCapacity(w.inbound) > 0 /\ ~w.inbound.closed
    BY <2>1, Zenon DEF InterestOf
  <2>3. revents = [ready |-> w.received.queue # << >> \/ w.received.closed,
                   hup |-> w.received.closed /\ (w.sent.closed \/ w.sent.error),
                   error |-> w.received.error]
    BY <1>6, <2>1 DEF KernelReports
  <2> HIDE DEF p, events, revents
  <2>4. /\ revents.ready = (w.received.queue # << >> \/ w.received.closed)
        /\ revents.hup = (w.received.closed /\ (w.sent.closed \/ w.sent.error))
        /\ revents.error = w.received.error
    BY <2>3
  <2>5. SaidOfReadSocket(w, p)
    BY <1>1, <2>2, <2>4, Zenon DEF SaidOfReadSocket
  <2>6. ~p.events => HasError(w) \/ w.inbound.queue # << >> \/ w.inbound.closed
    BY <1>1, <1>2, <1>3, <2>2, Zenon
  <2>7. rule # "read stdin" /\ rule # "write socket" /\ rule # "write stdout"
    BY <1>6
  <2> QED
    BY <2>5, <2>6, <2>7, Zenon DEF Told, SaidOf, Quiet, p
<1>7. CASE rule = "write stdout"
  <2>1. /\ StreamOfRule(rule) = "inbound" /\ ~IsIn(rule) /\ KernelOf(rule) = "stdout"
    BY <1>7 DEF StreamOfRule, IsIn, KernelOf
  <2>2. events <=> \/ w.inbound.queue # << >>
                   \/ IsFinished(w.inbound) /\ ~w.shutdown["inbound"]
    BY <2>1, Zenon DEF InterestOf
  <2>3. revents = [ready |-> AvailableCapacity(w.stdout) > 0, hup |-> FALSE,
                   error |-> w.stdout.error]
    BY <1>7, <2>1 DEF KernelReports
  <2> HIDE DEF p, events, revents
  <2>4. /\ revents.ready = (AvailableCapacity(w.stdout) > 0)
        /\ revents.hup = FALSE
        /\ revents.error = w.stdout.error
    BY <2>3
  <2>5. SaidOfWriteStdout(w, p)
    BY <1>1, <2>2, <2>4, Zenon DEF SaidOfWriteStdout
  <2>6. ~p.events => /\ w.inbound.queue = << >>
                     /\ ~w.inbound.closed \/ w.shutdown["inbound"]
    BY <1>1, <2>2, Zenon DEF IsFinished
  <2>7. rule # "read stdin" /\ rule # "write socket" /\ rule # "read socket"
    BY <1>7
  <2> QED
    BY <2>5, <2>6, <2>7, Zenon DEF Told, SaidOf, Quiet, p
<1> QED
  BY <1>4, <1>5, <1>6, <1>7 DEF AllRules

(* Setting another pollfd up changes nothing of what one told.             *)
LEMMA ToldApart ==
    ASSUME NEW w, NEW v, \A g \in Fields \ {"polled"} : v[g] = w[g], NEW x, NEW p, Told(w, x, p)
    PROVE  Told(v, x, p)
<1>1. /\ v.received = w.received /\ v.sent = w.sent /\ v.stdout = w.stdout
      /\ v.shutdown = w.shutdown /\ v.stdin = w.stdin
      /\ v.outbound = w.outbound /\ v.inbound = w.inbound
  BY DEF Fields
<1>2. SaidOf(v, x, p)
  BY <1>1, Zenon DEF Told, SaidOf, SaidOfReadStdin, SaidOfWriteSocket, SaidOfReadSocket,
                     SaidOfWriteStdout
<1>3. ~p.events => Quiet(v, x)
  BY <1>1, Zenon DEF Told, Quiet, HasError
<1> QED
  BY <1>2, <1>3, Zenon DEF Told

(* What a pollfd told remains true when nothing more can come of another.  *)
LEMMA ToldRemains ==
    ASSUME NEW v, NEW w, NEW rule, OnlyClosed(v, w, rule), StreamOfRule(rule) = "inbound",
           v.outbound.error = w.outbound.error, v.inbound.error = w.inbound.error,
           NEW x, NEW p, Told(w, x, p), x = "read socket" /\ v.inbound.closed => w.inbound.closed,
           x = "write stdout" => v.inbound = w.inbound
    PROVE  Told(v, x, p)
<1>1. StreamOfRule(rule) # "outbound"
  <2>1. "inbound" # "outbound"
    OBVIOUS
  <2> QED
    BY <2>1, Zenon
<1>2. /\ v.shutdown = w.shutdown
      /\ v.outbound.queue = w.outbound.queue /\ v.inbound.queue = w.inbound.queue
      /\ v.outbound.closed <=> w.outbound.closed
      /\ w.inbound.closed => v.inbound.closed
  BY <1>1, Zenon DEF OnlyClosed, SameButFlags
<1>3. SaidOf(v, x, p)
  <2>1. SaidOf(w, x, p)
    BY Zenon DEF Told
  <2>2. x = "read stdin" /\ v.outbound.closed => w.outbound.closed
    BY <1>2, Zenon
  <2> QED
    BY <2>1, <2>2, SaidRemains
<1>4. HasError(w) => HasError(v)
  BY Zenon DEF HasError
<1>5. ASSUME Quiet(w, x) PROVE Quiet(v, x)
  BY <1>2, <1>4, <1>5, Zenon DEF Quiet
<1> QED
  BY <1>3, <1>5, Zenon DEF Told

(* While the rules are set up: v has come of w, the rules done that are    *)
(* left have a pollfd, and each tells the truth.                           *)
MidSetUp(v, w, done) ==
    /\ Sound(v)
    /\ SameEnds(v, w)
    /\ \A x : x \notin done => (Kept(v, x) <=> Kept(w, x))
    /\ DOMAIN v.polled = {x \in done : Kept(v, x)}
    /\ \A x \in DOMAIN v.polled : Told(v, x, v.polled[x])
    /\ v.failed = w.failed

(* Nothing more can come of a rule only when its use is over, and that of  *)
(* the inward stream.                                                      *)
LEMMA DefunctIsOver ==
    ASSUME NEW w, Sound(w), NEW rule \in AllRules, Loop!Defunct(w, rule)
    PROVE  /\ IsOver(w, rule)
           /\ StreamOfRule(rule) = "inbound"
           /\ rule = "write stdout" => w.inbound.closed
<1>1. OutwardOK(w) /\ InwardOK(w)
  BY Zenon DEF Sound
<1>2. (IsIn(rule) /\ w.fd[FdOf(rule)].eof_) \/ w.fd[FdOf(rule)].closed_
  BY Zenon DEF Loop!Defunct
<1>3. ~w.fd["input"].eof_ /\ ~w.fd["input"].closed_ /\ ~w.fd["socket"].closed_
  BY <1>1, Zenon DEF OutwardOK
<1>4. rule # "read stdin"
  <2>1. FdOf("read stdin") = "input"
    BY DEF FdOf
  <2> QED
    BY <1>2, <1>3, <2>1, Zenon
<1>5. rule # "write socket"
  <2>1. FdOf("write socket") = "socket" /\ ~IsIn("write socket")
    BY DEF FdOf, IsIn
  <2> QED
    BY <1>2, <1>3, <2>1, Zenon
<1>6. rule = "read socket" => ReceivedEnded(w)
  <2>1. FdOf("read socket") = "socket"
    BY DEF FdOf
  <2> QED
    BY <1>1, <1>2, <1>3, <2>1, Zenon DEF InwardOK
<1>7. rule = "write stdout" => w.stdout.closed /\ w.inbound.closed
  <2>1. FdOf("write stdout") = "output" /\ ~IsIn("write stdout")
    BY DEF FdOf, IsIn
  <2> QED
    BY <1>1, <1>2, <2>1, Zenon DEF InwardOK, IsFinished
<1>8. IsOver(w, rule)
  BY <1>4, <1>5, <1>6, <1>7, Zenon DEF IsOver
<1>9. StreamOfRule(rule) = "inbound"
  BY <1>4, <1>5 DEF StreamOfRule
<1> QED
  BY <1>7, <1>8, <1>9, Zenon

(* A rule of which nothing more can come is cancelled.                     *)
LEMMA DefunctRule ==
    ASSUME SizeAssumption, NEW v, NEW u, NEW w, NEW rule \in AllRules, NEW done,
           rule \notin done, MidSetUp(u, w, done), Loop!Defunct(u, rule),
           v = Loop!CancelRule(u, rule), rule = "read socket" => "write stdout" \notin done
    PROVE  MidSetUp(v, w, {rule} \cup done)
<1>1. /\ Sound(u) /\ SameEnds(u, w)
      /\ \A x : x \notin done => (Kept(u, x) <=> Kept(w, x))
      /\ DOMAIN u.polled = {x \in done : Kept(u, x)}
      /\ \A x \in DOMAIN u.polled : Told(u, x, u.polled[x])
      /\ u.failed = w.failed
  BY Zenon DEF MidSetUp
<1>2. /\ IsOver(u, rule) /\ StreamOfRule(rule) = "inbound"
      /\ rule = "write stdout" => u.inbound.closed
  BY <1>1, DefunctIsOver
<1>3. IsCancelled(v, u, rule)
  <2>1. DOMAIN u = Fields /\ InOrder(u.rules)
    BY <1>1, Zenon DEF Sound, IsWorld
  <2> QED
    BY <2>1, CancelFields, Zenon
<1>4. /\ Sound(v) /\ SameEnds(v, u) /\ SameButFlags(v, u)
      /\ v.outbound.closed <=> u.outbound.closed \/ StreamOfRule(rule) = "outbound"
      /\ v.inbound.closed <=> u.inbound.closed \/ StreamOfRule(rule) = "inbound"
      /\ v.loop = u.loop /\ v.failed = u.failed /\ v.polled = u.polled
  BY <1>1, <1>2, <1>3, CancelIsSound, ZenonT(40)
<1>5. v.outbound.error = u.outbound.error /\ v.inbound.error = u.inbound.error
  BY <1>1, <1>3, CancelledStreams
<1>6. OnlyClosed(v, u, rule)
  BY <1>4, Zenon DEF OnlyClosed
<1>7. \A x : Kept(v, x) <=> Kept(u, x) /\ x # rule
  BY <1>3, Zenon DEF IsCancelled
<1>8. DOMAIN v.polled = {x \in {rule} \cup done : Kept(v, x)}
  <2> SUFFICES {x \in done : Kept(u, x)} = {x \in {rule} \cup done : Kept(v, x)}
    BY <1>1, <1>4, Zenon
  <2> QED
    BY <1>7, Zenon
<1>9. ASSUME NEW x \in DOMAIN v.polled PROVE Told(v, x, v.polled[x])
  <2>1. x \in done /\ Told(u, x, u.polled[x]) /\ v.polled = u.polled
    BY <1>1, <1>4, Zenon
  <2>2. x = "read socket" /\ v.inbound.closed => u.inbound.closed
    <3>1. x = "read socket" => rule = "write stdout"
      <4>1. rule # "read stdin" /\ rule # "write socket"
        BY <1>2 DEF StreamOfRule
      <4>2. x # rule
        BY <2>1, Zenon
      <4> QED
        BY <4>1, <4>2, Zenon DEF AllRules
    <3> QED
      BY <1>2, <3>1, Zenon
  <2>3. x # "write stdout"
    <3>1. rule # "read stdin" /\ rule # "write socket"
      BY <1>2 DEF StreamOfRule
    <3> QED
      BY <2>1, <3>1, Zenon DEF AllRules
  <2>4. Told(v, x, u.polled[x])
    BY <1>2, <1>5, <1>6, <2>1, <2>2, <2>3, ToldRemains, Zenon
  <2> QED
    BY <2>1, <2>4, Zenon
<1>10. SameEnds(v, w)
  BY <1>1, <1>4, Zenon DEF SameEnds
<1>11. \A x : x \notin {rule} \cup done => (Kept(v, x) <=> Kept(w, x))
  BY <1>1, <1>7, Zenon
<1>12. v.failed = w.failed
  BY <1>1, <1>4, Zenon
<1> QED
  BY <1>4, <1>8, <1>9, <1>10, <1>11, <1>12, Zenon DEF MidSetUp

(* Any other is given its pollfd.                                          *)
LEMMA PolledRule ==
    ASSUME SizeAssumption, NEW v, NEW u, NEW w, NEW rule \in AllRules, NEW done,
           rule \notin done, MidSetUp(u, w, done), Kept(w, rule),
           v = Loop!SetUpRule(u, rule), ~Loop!Defunct(u, rule)
    PROVE  MidSetUp(v, w, {rule} \cup done)
<1> DEFINE p == Loop!Pollfd(u, rule)
<1>1. /\ Sound(u) /\ SameEnds(u, w)
      /\ \A x : x \notin done => (Kept(u, x) <=> Kept(w, x))
      /\ DOMAIN u.polled = {x \in done : Kept(u, x)}
      /\ \A x \in DOMAIN u.polled : Told(u, x, u.polled[x])
      /\ u.failed = w.failed
  BY Zenon DEF MidSetUp
<1>2. DOMAIN u = Fields
  BY <1>1, Zenon DEF Sound, IsWorld
<1>3. Told(u, rule, p)
  BY <1>1, PollfdTells
<1> DEFINE polled == [r \in DOMAIN u.polled \cup {rule} |->
                        IF r = rule THEN p ELSE u.polled[r]]
<1>4. /\ DOMAIN polled = {rule} \cup DOMAIN u.polled
      /\ polled[rule] = p
      /\ \A x \in DOMAIN u.polled \ {rule} : polled[x] = u.polled[x]
  <2> HIDE DEF p
  <2> QED
    OBVIOUS
<1>5. /\ DOMAIN v = Fields
      /\ \A g \in Fields \ {"polled"} : v[g] = u[g]
      /\ v.polled = polled
  <2>1. v = [u EXCEPT !.polled = polled]
    BY Zenon DEF Loop!SetUpRule
  <2> HIDE DEF polled
  <2> QED
    BY <1>2, <2>1 DEF Fields
<1> HIDE DEF polled, p
<1>6. Sound(v) /\ SameEnds(v, u) /\ v.failed = u.failed /\ v.rules = u.rules
  <2>1. /\ \A g \in Fields \ {"loop", "polled", "failed"} : v[g] = u[g]
        /\ v["failed"] = u["failed"] /\ v["rules"] = u["rules"]
    BY <1>5 DEF Fields
  <2> QED
    BY <1>1, <1>5, <2>1, SoundApart
<1>7. \A x : Kept(v, x) <=> Kept(u, x)
  BY <1>6, Zenon DEF Kept
<1>8. DOMAIN v.polled = {x \in {rule} \cup done : Kept(v, x)}
  BY <1>1, <1>4, <1>5, <1>7, Zenon
<1>9. ASSUME NEW x \in DOMAIN v.polled PROVE Told(v, x, v.polled[x])
  <2>1. Told(u, x, polled[x])
    BY <1>1, <1>3, <1>4, <1>5, Zenon
  <2> QED
    BY <1>5, <2>1, ToldApart, Zenon
<1>10. SameEnds(v, w)
  BY <1>1, <1>6, Zenon DEF SameEnds
<1>11. \A x : x \notin {rule} \cup done => (Kept(v, x) <=> Kept(w, x))
  BY <1>1, <1>7, Zenon
<1>12. v.failed = w.failed
  BY <1>1, <1>6, Zenon
<1> QED
  BY <1>6, <1>8, <1>9, <1>10, <1>11, <1>12, Zenon DEF MidSetUp

(* One rule after another.                                                 *)
LEMMA NextSetUp ==
    ASSUME SizeAssumption, NEW v, NEW u, NEW w, NEW rule \in AllRules, NEW done,
           rule \notin done, MidSetUp(u, w, done), HasSetUp(v, u, w.rules, rule),
           rule = "read socket" => "write stdout" \notin done
    PROVE  MidSetUp(v, w, {rule} \cup done)
<1>1. CASE ~Kept(w, rule)
  <2>1. v = u
    BY <1>1, Zenon DEF HasSetUp, Kept
  <2>2. /\ \A x : x \notin done => (Kept(u, x) <=> Kept(w, x))
        /\ DOMAIN u.polled = {x \in done : Kept(u, x)}
    BY Zenon DEF MidSetUp
  <2>3. {x \in done : Kept(u, x)} = {x \in {rule} \cup done : Kept(u, x)}
    BY <1>1, <2>2, Zenon
  <2> QED
    BY <2>1, <2>2, <2>3, Zenon DEF MidSetUp
<1>2. CASE Kept(w, rule) /\ Loop!Defunct(u, rule)
  <2>1. v = Loop!CancelRule(u, rule)
    BY <1>2, Zenon DEF HasSetUp, Kept, Loop!SetUpRule
  <2> QED
    BY <1>2, <2>1, DefunctRule, Zenon
<1>3. CASE Kept(w, rule) /\ ~Loop!Defunct(u, rule)
  <2>1. v = Loop!SetUpRule(u, rule)
    BY <1>3, Zenon DEF HasSetUp, Kept
  <2> QED
    BY <1>3, <2>1, PolledRule, Zenon
<1> QED
  BY <1>1, <1>2, <1>3

(* The rules as set up for the next poll.                                  *)
LEMMA SetUpTells ==
    ASSUME SizeAssumption, NEW w, Sound(w), w.polled = << >>
    PROVE  MidSetUp(AllSetUp(w, w.rules), w, AllRules)
<1> DEFINE b == w.rules
           r == AllSetUp(w, b)
<1>1. InOrder(b)
  BY Zenon DEF Sound
<1>2. PICK g1, g2, g3 : /\ HasSetUp(g1, w, b, "read stdin")
                        /\ HasSetUp(g2, g1, b, "write socket")
                        /\ HasSetUp(g3, g2, b, "read socket")
                        /\ HasSetUp(r, g3, b, "write stdout")
  BY <1>1, FourSetUp
<1> HIDE DEF r
<1> DEFINE d1 == {"read stdin"} \cup {}
           d2 == {"write socket"} \cup d1
           d3 == {"read socket"} \cup d2
           d4 == {"write stdout"} \cup d3
<1>3. MidSetUp(w, w, {})
  <2>1. SameEnds(w, w)
    BY Zenon DEF SameEnds
  <2>2. DOMAIN w.polled = {}
    OBVIOUS
  <2> QED
    BY <2>1, <2>2, Zenon DEF MidSetUp
<1>4. MidSetUp(g1, w, d1)
  <2>1. "read stdin" \in AllRules /\ "read stdin" \notin {} /\ "write stdout" \notin {}
    BY DEF AllRules
  <2> QED
    BY <1>2, <1>3, <2>1, NextSetUp, Zenon
<1>5. MidSetUp(g2, w, d2)
  <2>1. "write socket" \in AllRules /\ "write socket" \notin d1 /\ "write stdout" \notin d1
    BY DEF AllRules
  <2> HIDE DEF d1
  <2> QED
    BY <1>2, <1>4, <2>1, NextSetUp, Zenon
<1>6. MidSetUp(g3, w, d3)
  <2>1. "read socket" \in AllRules /\ "read socket" \notin d2 /\ "write stdout" \notin d2
    BY DEF AllRules
  <2> HIDE DEF d2
  <2> QED
    BY <1>2, <1>5, <2>1, NextSetUp, Zenon
<1>7. MidSetUp(r, w, d4)
  <2>1. "write stdout" \in AllRules /\ "write stdout" \notin d3 /\ "write stdout" # "read socket"
    BY DEF AllRules
  <2> HIDE DEF d3
  <2> QED
    BY <1>2, <1>6, <2>1, NextSetUp, Zenon
<1>8. d4 = AllRules
  BY DEF AllRules
<1> QED
  BY <1>7, <1>8, Zenon DEF r

(* When nothing is asked of any rule, the end has been passed on.          *)
LEMMA QuietIsPassedOn ==
    ASSUME NEW w, Sound(w), \A x \in AllRules : Kept(w, x) => Quiet(w, x)
    PROVE  PassedOn(w)
<1> SUFFICES ASSUME ~w.stdout.error
             PROVE  /\ w.sent.error \/ w.sent.closed
                    /\ w.received.error \/ w.stdout.closed
  BY Zenon DEF PassedOn
<1>1. OutwardOK(w) /\ InwardOK(w)
  BY Zenon DEF Sound
<1>2. HasError(w) => w.received.error /\ w.sent.error
  BY <1>1, Zenon DEF InwardOK
<1>3. \A x : x \in AllRules /\ Kept(w, x) => Quiet(w, x)
  BY Zenon
<1>4. Kept(w, "write socket") /\ ~w.sent.closed =>
         w.outbound.queue = << >> /\ ~w.outbound.closed
  <2>1. Kept(w, "write socket") => Quiet(w, "write socket")
    BY <1>3, Zenon DEF AllRules
  <2>2. Kept(w, "write socket") => /\ w.outbound.queue = << >>
                                   /\ ~w.outbound.closed \/ w.shutdown["outbound"]
    BY <2>1, Zenon DEF Quiet
  <2> QED
    BY <1>1, <2>2, Zenon DEF OutwardOK
<1>5. Kept(w, "read stdin") => HasError(w) \/ w.outbound.queue # << >> \/ w.outbound.closed
  <2>1. Kept(w, "read stdin") => Quiet(w, "read stdin")
    BY <1>3, Zenon DEF AllRules
  <2> QED
    BY <2>1, Zenon DEF Quiet
<1>6. w.sent.error \/ w.sent.closed
  BY <1>1, <1>2, <1>4, <1>5, Zenon DEF OutwardOK
<1>7. Kept(w, "write stdout") /\ ~w.stdout.closed =>
         w.inbound.queue = << >> /\ ~w.inbound.closed
  <2>1. Kept(w, "write stdout") => Quiet(w, "write stdout")
    BY <1>3, Zenon DEF AllRules
  <2>2. Kept(w, "write stdout") => /\ w.inbound.queue = << >>
                                   /\ ~w.inbound.closed \/ w.shutdown["inbound"]
    BY <2>1, Zenon DEF Quiet
  <2> QED
    BY <1>1, <2>2, Zenon DEF InwardOK
<1>8. Kept(w, "read socket") => HasError(w) \/ w.inbound.queue # << >> \/ w.inbound.closed
  <2>1. Kept(w, "read socket") => Quiet(w, "read socket")
    BY <1>3, Zenon DEF AllRules
  <2> QED
    BY <2>1, Zenon DEF Quiet
<1>9. w.received.error \/ w.stdout.closed
  BY <1>1, <1>2, <1>7, <1>8, Zenon DEF InwardOK
<1> QED
  BY <1>6, <1>9

(* From the set up to the return of poll.                                  *)
LEMMA PollStands ==
    ASSUME SizeAssumption, NEW w, Standing(w), w.loop = "poll"
    PROVE  Standing(Loop!Poll(w)) /\ SameEnds(Loop!Poll(w), w)
<1> DEFINE r == AllSetUp(w, w.rules)
           v == Loop!Poll(w)
           loop == IF Loop!SomethingToPoll(r.polled) THEN "serve" ELSE "exit"
<1>1. Sound(w) /\ w.polled = << >> /\ ~w.failed
  BY Zenon DEF Standing
<1>2. MidSetUp(r, w, AllRules)
  BY <1>1, SetUpTells
<1>3. v = [r EXCEPT !.loop = loop]
  BY Zenon DEF Loop!Poll, Loop!SetUp, AllSetUp
<1> HIDE DEF r
<1>4. /\ Sound(r) /\ SameEnds(r, w) /\ DOMAIN r = Fields /\ ~r.failed
      /\ DOMAIN r.polled = {x \in AllRules : Kept(r, x)}
      /\ \A x \in DOMAIN r.polled : Told(r, x, r.polled[x])
  BY <1>1, <1>2, Zenon DEF MidSetUp, Sound, IsWorld
<1>5. loop \in {"serve", "exit"}
  OBVIOUS
<1> HIDE DEF v, loop
<1>6. /\ DOMAIN v = Fields
      /\ \A g \in Fields \ {"loop"} : v[g] = r[g]
      /\ v.loop = loop
  BY <1>3, <1>4 DEF Fields
<1>7. /\ \A g \in Fields \ {"loop", "polled", "failed"} : v[g] = r[g]
      /\ v["failed"] = r["failed"] /\ v["polled"] = r["polled"]
      /\ v.stdin = r.stdin /\ v.outbound = r.outbound /\ v.sent = r.sent
      /\ v.received = r.received /\ v.inbound = r.inbound /\ v.stdout = r.stdout
      /\ v.shutdown = r.shutdown /\ v.rules = r.rules
  BY <1>6 DEF Fields
<1>8. Sound(v) /\ SameEnds(v, r)
  BY <1>4, <1>6, <1>7, SoundApart
<1>9. SameEnds(v, w)
  BY <1>4, <1>8, Zenon DEF SameEnds
<1>10. \A x : Kept(v, x) <=> Kept(r, x)
  BY <1>7, Zenon DEF Kept
<1>11. \A x \in AllRules : Kept(v, x) => Told(r, x, r.polled[x])
  BY <1>4, <1>10, Zenon
<1>12. CASE loop = "serve"
  <2>1. \A x \in AllRules : Kept(v, x) => SaidOf(v, x, v.polled[x])
    BY <1>7, <1>11, Zenon DEF Told, SaidOf, SaidOfReadStdin, SaidOfWriteSocket,
                              SaidOfReadSocket, SaidOfWriteStdout
  <2>2. /\ v.loop \in {"poll", "serve", "exit", "failed"}
        /\ v.loop # "poll" /\ v.loop # "exit" /\ v.loop # "failed"
    BY <1>6, <1>12
  <2>3. StillSaid(v, AllRules) /\ ~v.failed
    BY <1>4, <1>7, <2>1, Zenon DEF StillSaid
  <2>4. Standing(v)
    BY <1>8, <2>2, <2>3, Zenon DEF Standing
  <2> QED
    BY <1>9, <2>4 DEF v
<1>13. CASE loop = "exit"
  <2>1. ~Loop!SomethingToPoll(r.polled)
    BY <1>13 DEF loop
  <2>2. \A x \in AllRules : Kept(r, x) => Quiet(r, x)
    BY <1>4, <2>1, Zenon DEF Loop!SomethingToPoll, Told
  <2>3. PassedOn(r)
    BY <1>4, <2>2, QuietIsPassedOn
  <2>4. PassedOn(v)
    BY <1>7, <2>3, Zenon DEF PassedOn
  <2>5. /\ v.loop \in {"poll", "serve", "exit", "failed"}
        /\ v.loop # "poll" /\ v.loop # "serve" /\ v.loop # "failed"
    BY <1>6, <1>13
  <2>6. Standing(v)
    BY <1>8, <2>4, <2>5, Zenon DEF Standing
  <2> QED
    BY <1>9, <2>6 DEF v
<1> QED
  BY <1>5, <1>12, <1>13

(* What the far end may make of a stream the loop reads.                   *)
Fed(t, s) ==
    /\ IsPipe(t, KernelSize)
    /\ t.popped = s.popped
    /\ t.pushed <= Length
    /\ s.queue # << >> => t.queue # << >>
    /\ s.closed => t.closed
    /\ s.closed /\ s.queue = << >> => t.queue = << >>
    /\ s.error => t.error

(* What the far end may make of a stream the loop writes.                  *)
Taken(t, s) ==
    /\ IsPipe(t, KernelSize)
    /\ t.pushed = s.pushed
    /\ AvailableCapacity(s) > 0 => AvailableCapacity(t) > 0
    /\ t.closed = s.closed
    /\ s.error => t.error

(* v is w after a step of the far ends.                                    *)
Moved(v, w) ==
    /\ DOMAIN v = Fields
    /\ \A g \in Fields \ {"stdin", "sent", "received", "stdout"} : v[g] = w[g]
    /\ Fed(v.stdin, w.stdin)
    /\ v.stdin.error = w.stdin.error
    /\ Taken(v.sent, w.sent)
    /\ Fed(v.received, w.received)
    /\ v.received.error => v.received.closed /\ v.sent.error
    /\ Taken(v.stdout, w.stdout)

(* The far ends take nothing back: what stands goes on standing.           *)
LEMMA MovedStands ==
    ASSUME NEW v, NEW w, Standing(w), Moved(v, w)
    PROVE  Standing(v)
<1>1. /\ Sound(w)
      /\ IsWorld(w) /\ OutwardOK(w) /\ InwardOK(w) /\ InOrder(w.rules)
      /\ OneWay(w.stdin, w.outbound, w.sent) /\ OneWay(w.received, w.inbound, w.stdout)
  BY Zenon DEF Standing, Sound
<1>2. /\ v.rules = w.rules /\ v.polled = w.polled /\ v.loop = w.loop /\ v.failed = w.failed
      /\ v.fd = w.fd /\ v.shutdown = w.shutdown
      /\ v.outbound = w.outbound /\ v.inbound = w.inbound
  BY DEF Moved, Fields
<1>3. /\ IsPipe(v.stdin, KernelSize) /\ IsPipe(v.received, KernelSize)
      /\ v.stdin.popped = w.stdin.popped /\ v.received.popped = w.received.popped
      /\ v.stdin.pushed <= Length /\ v.received.pushed <= Length
      /\ w.stdin.queue # << >> => v.stdin.queue # << >>
      /\ w.received.queue # << >> => v.received.queue # << >>
      /\ v.stdin.error = w.stdin.error
      /\ w.received.error => v.received.error
      /\ v.received.error => v.received.closed /\ v.sent.error
      /\ w.received.closed => v.received.closed
      /\ IsFinished(w.stdin) => IsFinished(v.stdin)
      /\ IsFinished(w.received) => IsFinished(v.received)
  BY Zenon DEF Moved, Fed, IsFinished
<1>4. /\ IsPipe(v.sent, KernelSize) /\ IsPipe(v.stdout, KernelSize)
      /\ v.sent.pushed = w.sent.pushed /\ v.stdout.pushed = w.stdout.pushed
      /\ AvailableCapacity(w.sent) > 0 => AvailableCapacity(v.sent) > 0
      /\ AvailableCapacity(w.stdout) > 0 => AvailableCapacity(v.stdout) > 0
      /\ v.sent.closed = w.sent.closed /\ v.stdout.closed = w.stdout.closed
      /\ w.sent.error => v.sent.error
      /\ w.stdout.error => v.stdout.error
  BY Zenon DEF Moved, Taken
<1>5. IsWorld(v)
  <2>1. DOMAIN v = Fields
    BY Zenon DEF Moved
  <2> QED
    BY <1>1, <1>2, <2>1, Zenon DEF IsWorld
<1>6. OneWay(v.stdin, v.outbound, v.sent) /\ OneWay(v.received, v.inbound, v.stdout)
  BY <1>1, <1>2, <1>3, <1>4, Zenon DEF OneWay
<1>7. \A x : Kept(v, x) <=> Kept(w, x)
  BY <1>2, Zenon DEF Kept
<1>8. ReceivedEnded(w) => ReceivedEnded(v)
  BY <1>3, Zenon DEF ReceivedEnded, IsFinished
<1>9. OutwardOK(v)
  <2>1. IsFinished(v.outbound) <=> IsFinished(w.outbound)
    BY <1>2, Zenon
  <2> QED
    BY <1>1, <1>2, <1>3, <1>4, <1>7, <2>1, Zenon DEF OutwardOK
<1>10. InwardOK(v)
  <2>1. (IsFinished(v.inbound) <=> IsFinished(w.inbound)) /\ (HasError(v) <=> HasError(w))
    BY <1>2, Zenon DEF HasError
  <2> QED
    BY <1>1, <1>2, <1>3, <1>4, <1>7, <1>8, <2>1, Zenon DEF InwardOK
<1>11. Sound(v)
  BY <1>1, <1>2, <1>5, <1>6, <1>9, <1>10, Zenon DEF Sound
<1>12. ASSUME NEW x, NEW p, SaidOf(w, x, p) PROVE SaidOf(v, x, p)
  <2>1. SaidOfReadStdin(w, p) => SaidOfReadStdin(v, p)
    BY <1>2, <1>3, Zenon DEF SaidOfReadStdin
  <2>2. SaidOfWriteSocket(w, p) => SaidOfWriteSocket(v, p)
    BY <1>2, <1>3, <1>4, Zenon DEF SaidOfWriteSocket
  <2>3. SaidOfReadSocket(w, p) => SaidOfReadSocket(v, p)
    BY <1>2, <1>3, Zenon DEF SaidOfReadSocket
  <2>4. SaidOfWriteStdout(w, p) => SaidOfWriteStdout(v, p)
    BY <1>2, <1>4, Zenon DEF SaidOfWriteStdout
  <2> QED
    BY <1>12, <2>1, <2>2, <2>3, <2>4, Zenon DEF SaidOf
<1>13. StillSaid(w, AllRules) => StillSaid(v, AllRules)
  BY <1>2, <1>7, <1>12, Zenon DEF StillSaid
<1>14. PassedOn(w) => PassedOn(v)
  BY <1>3, <1>4, Zenon DEF PassedOn
<1>15. BrokenIn(w) => BrokenIn(v)
  BY <1>4, Zenon DEF BrokenIn
<1> QED
  BY <1>2, <1>11, <1>13, <1>14, <1>15, Zenon DEF Standing

(* One byte more, the next in number.                                      *)
LEMMA PushOne ==
    ASSUME NEW capacity \in Nat, NEW s, IsPipe(s, capacity), AvailableCapacity(s) > 0
    PROVE  IsPipeWith(PushTo(s, << s.pushed + 1 >>), capacity, s.pushed + 1, s.popped,
                      s.closed, s.error)
<1>1. s.pushed \in Nat /\ AvailableCapacity(s) \in Nat
  BY PipeCounts
<1>2. Bytes(s.pushed + 1, 1) = << s.pushed + 1 >>
  BY <1>1 DEF Bytes
<1>3. 1 \in Nat /\ 1 <= AvailableCapacity(s)
  BY <1>1
<1>4. IsPipeWith(PushTo(s, Bytes(s.pushed + 1, 1)), capacity, s.pushed + 1, s.popped,
                 s.closed, s.error)
  BY <1>3, PipePush
<1> QED
  BY <1>2, <1>4, Zenon

(* One byte less.                                                          *)
LEMMA PopOne ==
    ASSUME NEW capacity \in Nat, NEW s, IsPipe(s, capacity), s.queue # << >>
    PROVE  IsPipeWith(PopFrom(s, 1), capacity, s.pushed, s.popped + 1, s.closed, s.error)
<1>1. 1 \in Nat /\ 1 <= Len(s.queue)
  BY PipeCounts
<1> QED
  BY <1>1, PipePop

(* A byte more, or the end, or a reset, at the far end of what is read.    *)
LEMMA FeedPipe ==
    ASSUME SizeAssumption, NEW s, IsPipe(s, KernelSize), s.pushed <= Length
    PROVE  /\ Fed(s, s)
           /\ Fed(CloseOf(s), s)
           /\ Fed(SetErrorOf(CloseOf(s)), s)
           /\ ~s.closed /\ s.pushed < Length /\ AvailableCapacity(s) > 0 =>
                 Fed(PushTo(s, << s.pushed + 1 >>), s)
<1>1. KernelSize \in Nat /\ Length \in Nat
  BY DEF SizeAssumption
<1>2. Fed(s, s)
  BY Zenon DEF Fed
<1>3. \A x : IsPipe(x, KernelSize) =>
         /\ IsPipeWith(CloseOf(x), KernelSize, x.pushed, x.popped, TRUE, x.error)
         /\ IsPipeWith(SetErrorOf(x), KernelSize, x.pushed, x.popped, x.closed, TRUE)
         /\ CloseOf(x).queue = x.queue
         /\ SetErrorOf(x).queue = x.queue
  BY <1>1, PipeFlags
<1>4. Fed(CloseOf(s), s)
  <2>1. /\ IsPipeWith(CloseOf(s), KernelSize, s.pushed, s.popped, TRUE, s.error)
        /\ CloseOf(s).queue = s.queue
    BY <1>3, Zenon
  <2>2. CloseOf(s).closed
    BY <2>1 DEF IsPipeWith
  <2> QED
    BY <2>1, <2>2, Zenon DEF Fed, IsPipeWith
<1>5. Fed(SetErrorOf(CloseOf(s)), s)
  <2> DEFINE t == CloseOf(s)
  <2>1. IsPipeWith(t, KernelSize, s.pushed, s.popped, TRUE, s.error) /\ t.queue = s.queue
    BY <1>3, Zenon
  <2> HIDE DEF t
  <2>2. IsPipe(t, KernelSize) /\ t.closed
    BY <2>1 DEF IsPipeWith
  <2>3. /\ IsPipeWith(SetErrorOf(t), KernelSize, t.pushed, t.popped, t.closed, TRUE)
        /\ SetErrorOf(t).queue = t.queue
    BY <1>3, <2>2, Zenon
  <2>4. SetErrorOf(t).closed /\ SetErrorOf(t).error
    BY <2>2, <2>3 DEF IsPipeWith
  <2>5. Fed(SetErrorOf(t), s)
    BY <2>1, <2>3, <2>4, Zenon DEF Fed, IsPipeWith
  <2> QED
    BY <2>5 DEF t
<1>6. ASSUME ~s.closed, s.pushed < Length, AvailableCapacity(s) > 0
      PROVE  Fed(PushTo(s, << s.pushed + 1 >>), s)
  <2> DEFINE a == s.pushed
             b == s.popped
             t == PushTo(s, << s.pushed + 1 >>)
  <2>1. /\ a \in Nat /\ b \in Nat /\ b <= a
        /\ AvailableCapacity(s) \in Nat
        /\ \A x : IsPipe(x, KernelSize) =>
              (x.queue = << >> <=> x.pushed = x.popped)
    BY <1>1, PipeCounts
  <2>4. IsPipeWith(t, KernelSize, a + 1, b, s.closed, s.error)
    BY <1>1, <1>6, PushOne
  <2> HIDE DEF t
  <2>5. IsPipe(t, KernelSize) /\ t.pushed = a + 1 /\ t.popped = b /\ t.error = s.error
    BY <2>4, Zenon DEF IsPipeWith
  <2>6. t.queue # << >>
    <3>1. a + 1 # b
      <4> HIDE DEF a, b
      <4> QED
        BY <2>1
    <3> QED
      BY <2>1, <2>5, <3>1, Zenon
  <2>7. t.pushed <= Length
    BY <1>1, <1>6, <2>1, <2>5
  <2> QED
    BY <1>6, <2>5, <2>6, <2>7, Zenon DEF Fed, t
<1> QED
  BY <1>2, <1>4, <1>5, <1>6

(* A byte less, or nobody there any more, at the far end of what is        *)
(* written.                                                                *)
LEMMA TakePipe ==
    ASSUME SizeAssumption, NEW s, IsPipe(s, KernelSize)
    PROVE  /\ Taken(s, s)
           /\ Taken(SetErrorOf(s), s)
           /\ s.queue # << >> => Taken(PopFrom(s, 1), s)
<1>1. KernelSize \in Nat
  BY DEF SizeAssumption
<1>2. Taken(s, s)
  BY Zenon DEF Taken
<1>3. \A x : IsPipe(x, KernelSize) =>
         /\ x.pushed \in Nat /\ x.popped \in Nat /\ x.popped <= x.pushed
         /\ Len(x.queue) = x.pushed - x.popped
         /\ AvailableCapacity(x) = KernelSize - (x.pushed - x.popped)
         /\ (x.queue = << >> <=> x.pushed = x.popped)
  BY <1>1, PipeCounts
<1>4. Taken(SetErrorOf(s), s)
  <2>1. IsPipeWith(SetErrorOf(s), KernelSize, s.pushed, s.popped, s.closed, TRUE)
    BY <1>1, PipeFlags
  <2> DEFINE t == SetErrorOf(s)
  <2> HIDE DEF t
  <2>2. /\ IsPipe(t, KernelSize) /\ t.pushed = s.pushed /\ t.popped = s.popped
        /\ t.closed = s.closed /\ t.error = TRUE
    BY <2>1, Zenon DEF IsPipeWith, t
  <2>3. AvailableCapacity(t) = AvailableCapacity(s)
    BY <1>3, <2>2, Zenon
  <2>4. t.error
    BY <2>2
  <2> QED
    BY <2>2, <2>3, <2>4, Zenon DEF Taken, t
<1>5. ASSUME s.queue # << >> PROVE Taken(PopFrom(s, 1), s)
  <2> DEFINE a == s.pushed
             b == s.popped
             t == PopFrom(s, 1)
  <2>1. a \in Nat /\ b \in Nat /\ b <= a /\ a # b /\ Len(s.queue) = a - b
    BY <1>3, <1>5
  <2>3. IsPipeWith(t, KernelSize, a, b + 1, s.closed, s.error)
    BY <1>1, <1>5, PopOne
  <2> HIDE DEF t
  <2>4. /\ IsPipe(t, KernelSize) /\ t.pushed = a /\ t.popped = b + 1
        /\ t.closed = s.closed /\ t.error = s.error
    BY <2>3, Zenon DEF IsPipeWith
  <2>5. AvailableCapacity(s) > 0 => AvailableCapacity(t) > 0
    <3>1. AvailableCapacity(s) = KernelSize - (a - b)
      BY <1>3
    <3>2. AvailableCapacity(t) = KernelSize - (a - (b + 1))
      BY <1>3, <2>4, Zenon
    <3> HIDE DEF a, b
    <3> QED
      BY <1>1, <2>1, <3>1, <3>2
  <2> QED
    BY <2>4, <2>5, Zenon DEF Taken, t
<1> QED
  BY <1>2, <1>4, <1>5

(* v is w after a step of the far ends that changes g to t.                *)
MovedAt(v, w, g, t) ==
    /\ Moved(v, w)
    /\ v[g] = t
    /\ \A x \in Fields \ {g} : v[x] = w[x]

(* Something comes in at the far end of standard input, or of the socket.  *)
LEMMA FedMoves ==
    ASSUME SizeAssumption, NEW w, Standing(w), NEW source \in {"stdin", "received"},
           NEW t, Fed(t, w[source]), t.error = w[source].error
    PROVE  MovedAt([w EXCEPT ![source] = t], w, source, t)
<1> DEFINE v == [w EXCEPT ![source] = t]
<1>1. /\ DOMAIN w = Fields /\ InwardOK(w)
      /\ OneWay(w.stdin, w.outbound, w.sent) /\ OneWay(w.received, w.inbound, w.stdout)
  BY Zenon DEF Standing, Sound, IsWorld
<1>2. DOMAIN v = Fields /\ v[source] = t /\ \A g \in Fields \ {source} : v[g] = w[g]
  BY <1>1 DEF Fields
<1> HIDE DEF v
<1>3. /\ Fed(w.stdin, w.stdin) /\ Fed(w.received, w.received)
      /\ Taken(w.sent, w.sent) /\ Taken(w.stdout, w.stdout)
  <2>1. /\ IsPipe(w.stdin, KernelSize) /\ w.stdin.pushed <= Length
        /\ IsPipe(w.received, KernelSize) /\ w.received.pushed <= Length
        /\ IsPipe(w.sent, KernelSize) /\ IsPipe(w.stdout, KernelSize)
    BY <1>1, Zenon DEF OneWay
  <2>2. Fed(w.stdin, w.stdin) /\ Fed(w.received, w.received)
    BY <2>1, FeedPipe
  <2>3. Taken(w.sent, w.sent) /\ Taken(w.stdout, w.stdout)
    BY <2>1, TakePipe
  <2> QED
    BY <2>2, <2>3
<1>4. w.received.error => w.received.closed /\ w.sent.error
  BY <1>1, Zenon DEF InwardOK
<1>5. ASSUME source = "stdin" PROVE Moved(v, w)
  <2>1. /\ v.stdin = t /\ v.sent = w.sent /\ v.received = w.received /\ v.stdout = w.stdout
        /\ \A g \in Fields \ {"stdin", "sent", "received", "stdout"} : v[g] = w[g]
    BY <1>2, <1>5 DEF Fields
  <2>2. Fed(t, w.stdin) /\ t.error = w.stdin.error
    BY <1>5
  <2> QED
    BY <1>2, <1>3, <1>4, <2>1, <2>2, Zenon DEF Moved
<1>6. ASSUME source = "received" PROVE Moved(v, w)
  <2>1. /\ v.stdin = w.stdin /\ v.sent = w.sent /\ v.received = t /\ v.stdout = w.stdout
        /\ \A g \in Fields \ {"stdin", "sent", "received", "stdout"} : v[g] = w[g]
    BY <1>2, <1>6 DEF Fields
  <2>2. Fed(t, w.received) /\ t.error = w.received.error
    BY <1>6
  <2>3. t.error => t.closed
    BY <1>4, <2>2, Zenon DEF Fed
  <2> QED
    BY <1>2, <1>3, <1>4, <2>1, <2>2, <2>3, Zenon DEF Moved
<1> QED
  BY <1>2, <1>5, <1>6, Zenon DEF MovedAt, v

(* The far end of standard output, or of the socket, takes something, or   *)
(* goes away.                                                              *)
LEMMA TakenMoves ==
    ASSUME SizeAssumption, NEW w, Standing(w), NEW sink \in {"stdout", "sent"},
           NEW t, Taken(t, w[sink])
    PROVE  MovedAt([w EXCEPT ![sink] = t], w, sink, t)
<1> DEFINE v == [w EXCEPT ![sink] = t]
<1>1. /\ DOMAIN w = Fields /\ InwardOK(w)
      /\ OneWay(w.stdin, w.outbound, w.sent) /\ OneWay(w.received, w.inbound, w.stdout)
  BY Zenon DEF Standing, Sound, IsWorld
<1>2. DOMAIN v = Fields /\ v[sink] = t /\ \A g \in Fields \ {sink} : v[g] = w[g]
  BY <1>1 DEF Fields
<1> HIDE DEF v
<1>3. /\ Fed(w.stdin, w.stdin) /\ Fed(w.received, w.received)
      /\ Taken(w.sent, w.sent) /\ Taken(w.stdout, w.stdout)
  <2>1. /\ IsPipe(w.stdin, KernelSize) /\ w.stdin.pushed <= Length
        /\ IsPipe(w.received, KernelSize) /\ w.received.pushed <= Length
        /\ IsPipe(w.sent, KernelSize) /\ IsPipe(w.stdout, KernelSize)
    BY <1>1, Zenon DEF OneWay
  <2>2. Fed(w.stdin, w.stdin) /\ Fed(w.received, w.received)
    BY <2>1, FeedPipe
  <2>3. Taken(w.sent, w.sent) /\ Taken(w.stdout, w.stdout)
    BY <2>1, TakePipe
  <2> QED
    BY <2>2, <2>3
<1>4. w.received.error => w.received.closed /\ w.sent.error
  BY <1>1, Zenon DEF InwardOK
<1>5. ASSUME sink = "stdout" PROVE Moved(v, w)
  <2>1. /\ v.stdin = w.stdin /\ v.sent = w.sent /\ v.received = w.received /\ v.stdout = t
        /\ \A g \in Fields \ {"stdin", "sent", "received", "stdout"} : v[g] = w[g]
    BY <1>2, <1>5 DEF Fields
  <2>2. Taken(t, w.stdout)
    BY <1>5
  <2> QED
    BY <1>2, <1>3, <1>4, <2>1, <2>2, Zenon DEF Moved
<1>6. ASSUME sink = "sent" PROVE Moved(v, w)
  <2>1. /\ v.stdin = w.stdin /\ v.sent = t /\ v.received = w.received /\ v.stdout = w.stdout
        /\ \A g \in Fields \ {"stdin", "sent", "received", "stdout"} : v[g] = w[g]
    BY <1>2, <1>6 DEF Fields
  <2>2. Taken(t, w.sent)
    BY <1>6
  <2>3. w.sent.error => t.error
    BY <2>2, Zenon DEF Taken
  <2> QED
    BY <1>2, <1>3, <1>4, <2>1, <2>2, <2>3, Zenon DEF Moved
<1> QED
  BY <1>2, <1>5, <1>6, Zenon DEF MovedAt, v

(* v is w after the peer has gone, t what is left to be received.          *)
LeftAt(v, w, t) ==
    /\ Moved(v, w)
    /\ v.sent = SetErrorOf(w.sent)
    /\ v.received = t
    /\ \A g \in Fields \ {"sent", "received"} : v[g] = w[g]

(* The far end of the socket goes away, and resets it or not.              *)
LEMMA CloseMoves ==
    ASSUME SizeAssumption, NEW w, Standing(w),
           NEW t, t = CloseOf(w.received) \/ t = SetErrorOf(CloseOf(w.received))
    PROVE  LeftAt([w EXCEPT !.sent = SetErrorOf(w.sent), !.received = t], w, t)
<1> DEFINE s == SetErrorOf(w.sent)
           v == [w EXCEPT !.sent = s, !.received = t]
<1>1. /\ DOMAIN w = Fields /\ InwardOK(w)
      /\ OneWay(w.stdin, w.outbound, w.sent) /\ OneWay(w.received, w.inbound, w.stdout)
  BY Zenon DEF Standing, Sound, IsWorld
<1>2. /\ IsPipe(w.stdin, KernelSize) /\ w.stdin.pushed <= Length
      /\ IsPipe(w.received, KernelSize) /\ w.received.pushed <= Length
      /\ IsPipe(w.sent, KernelSize) /\ IsPipe(w.stdout, KernelSize)
  BY <1>1, Zenon DEF OneWay
<1>3. Fed(w.stdin, w.stdin) /\ Fed(t, w.received)
  BY <1>2, FeedPipe
<1>4. Taken(s, w.sent) /\ Taken(w.stdout, w.stdout)
  BY <1>2, TakePipe
<1>5. s.error
  <2>1. KernelSize \in Nat
    BY DEF SizeAssumption
  <2>2. IsPipeWith(s, KernelSize, w.sent.pushed, w.sent.popped, w.sent.closed, TRUE)
    BY <1>2, <2>1, PipeFlags
  <2> QED
    BY <2>2 DEF IsPipeWith
<1>6. t.closed
  <2>1. KernelSize \in Nat
    BY DEF SizeAssumption
  <2>2. \A x : IsPipe(x, KernelSize) =>
           /\ IsPipeWith(CloseOf(x), KernelSize, x.pushed, x.popped, TRUE, x.error)
           /\ IsPipeWith(SetErrorOf(x), KernelSize, x.pushed, x.popped, x.closed, TRUE)
    BY <2>1, PipeFlags
  <2> DEFINE c == CloseOf(w.received)
  <2>3. IsPipeWith(c, KernelSize, w.received.pushed, w.received.popped, TRUE, w.received.error)
    BY <1>2, <2>2, Zenon
  <2>4. t = c \/ t = SetErrorOf(c)
    OBVIOUS
  <2> HIDE DEF c
  <2>5. c.closed /\ IsPipe(c, KernelSize)
    BY <2>3 DEF IsPipeWith
  <2>6. IsPipeWith(SetErrorOf(c), KernelSize, c.pushed, c.popped, c.closed, TRUE)
    BY <2>2, <2>5, Zenon
  <2> QED
    BY <2>4, <2>5, <2>6, Zenon DEF IsPipeWith
<1> HIDE DEF s
<1>8. /\ DOMAIN v = Fields
      /\ \A g \in Fields \ {"sent", "received"} : v[g] = w[g]
      /\ v.stdin = w.stdin /\ v.sent = s /\ v.received = t /\ v.stdout = w.stdout
      /\ \A g \in Fields \ {"stdin", "sent", "received", "stdout"} : v[g] = w[g]
  BY <1>1 DEF Fields
<1> HIDE DEF v
<1>9. Moved(v, w)
  BY <1>3, <1>4, <1>5, <1>6, <1>8, Zenon DEF Moved
<1> QED
  BY <1>8, <1>9, Zenon DEF LeftAt, s, v

(* Two pipes with the same counters and flags are the same pipe.           *)
LEMMA SamePipe ==
    ASSUME NEW capacity \in Nat, NEW pushed, NEW popped, NEW closed, NEW error, NEW s, NEW t,
           IsPipeWith(s, capacity, pushed, popped, closed, error),
           IsPipeWith(t, capacity, pushed, popped, closed, error)
    PROVE  s = t
<1>1. IsPipe(s, capacity) /\ IsPipe(t, capacity)
  BY Zenon DEF IsPipeWith
<1>2. Len(s.queue) = s.pushed - s.popped /\ Len(t.queue) = t.pushed - t.popped
  BY <1>1, PipeCounts
<1>3. s.queue = t.queue
  <2>1. s.queue = Bytes(s.popped + 1, Len(s.queue)) /\ t.queue = Bytes(t.popped + 1, Len(t.queue))
    BY <1>1, Zenon DEF IsPipe
  <2> QED
    BY <1>2, <2>1, Zenon DEF IsPipeWith
<1>4. /\ IsStream(Nat, s, capacity, s.queue, pushed, popped, closed, error)
      /\ IsStream(Nat, t, capacity, s.queue, pushed, popped, closed, error)
  BY <1>1, <1>3, Zenon DEF IsStream, IsPipeWith, IsPipe
<1> QED
  BY <1>4, SameStream

(* The three streams of one direction as one.                              *)
Joined(source, stream, sink) ==
    [capacity |-> BufferSize + 2 * KernelSize,
     queue |-> sink.queue \o stream.queue \o source.queue,
     pushed |-> source.pushed, popped |-> sink.popped,
     closed |-> source.closed, error |-> sink.error]

(* They are one pipe.                                                      *)
LEMMA JoinedPipe ==
    ASSUME SizeAssumption, NEW source, NEW stream, NEW sink, OneWay(source, stream, sink)
    PROVE  IsPipeWith(Joined(source, stream, sink), BufferSize + 2 * KernelSize, source.pushed,
                      sink.popped, source.closed, sink.error)
<1> DEFINE j == Joined(source, stream, sink)
           size == BufferSize + 2 * KernelSize
           a == sink.popped
           b == sink.pushed
           c == stream.pushed
           d == source.pushed
           queue == sink.queue \o stream.queue \o source.queue
<1>1. BufferSize \in Nat /\ KernelSize \in Nat
  BY DEF SizeAssumption
<1>2. /\ IsPipe(source, KernelSize) /\ IsPipe(stream, BufferSize) /\ IsPipe(sink, KernelSize)
      /\ source.popped = c /\ stream.popped = b
  BY Zenon DEF OneWay
<1>3. /\ a \in Nat /\ b \in Nat /\ a <= b /\ Len(sink.queue) = b - a
      /\ sink.error \in BOOLEAN /\ AvailableCapacity(sink) \in Nat
      /\ AvailableCapacity(sink) = KernelSize - (b - a)
  BY <1>1, <1>2, PipeCounts
<1>4. /\ c \in Nat /\ b <= c /\ Len(stream.queue) = c - b
      /\ AvailableCapacity(stream) \in Nat
      /\ AvailableCapacity(stream) = BufferSize - (c - b)
  <2>1. /\ stream.popped \in Nat /\ stream.pushed \in Nat /\ stream.popped <= stream.pushed
        /\ Len(stream.queue) = stream.pushed - stream.popped
        /\ AvailableCapacity(stream) \in Nat
        /\ AvailableCapacity(stream) = BufferSize - (stream.pushed - stream.popped)
    BY <1>1, <1>2, PipeCounts
  <2> QED
    BY <1>2, <2>1
<1>5. /\ d \in Nat /\ c <= d /\ Len(source.queue) = d - c
      /\ source.closed \in BOOLEAN /\ AvailableCapacity(source) \in Nat
      /\ AvailableCapacity(source) = KernelSize - (d - c)
  <2>1. /\ source.popped \in Nat /\ source.pushed \in Nat /\ source.popped <= source.pushed
        /\ Len(source.queue) = source.pushed - source.popped
        /\ source.closed \in BOOLEAN
        /\ AvailableCapacity(source) \in Nat
        /\ AvailableCapacity(source) = KernelSize - (source.pushed - source.popped)
    BY <1>1, <1>2, PipeCounts
  <2> QED
    BY <1>2, <2>1
<1>6. /\ sink.queue = Bytes(a + 1, b - a)
      /\ stream.queue = Bytes(b + 1, c - b)
      /\ source.queue = Bytes(c + 1, d - c)
  BY <1>2, <1>3, <1>4, <1>5, Zenon DEF IsPipe
<1> HIDE DEF a, b, c, d
<1>7. queue = Bytes(a + 1, d - a)
  <2> DEFINE x == b - a
             y == c - b
             z == d - c
             first == a + 1
  <2>1. /\ x \in Nat /\ y \in Nat /\ z \in Nat /\ first \in Nat /\ x + y \in Nat
        /\ b + 1 = first + x /\ c + 1 = first + (x + y) /\ (x + y) + z = d - a
    BY <1>3, <1>4, <1>5
  <2> HIDE DEF x, y, z, first
  <2>2. Bytes(first, x) \o Bytes(first + x, y) = Bytes(first, x + y)
    BY <2>1, JoinBytes, ZenonT(40)
  <2>3. Bytes(first, x + y) \o Bytes(first + (x + y), z) = Bytes(first, (x + y) + z)
    <3> DEFINE m == x + y
    <3>1. m \in Nat /\ z \in Nat /\ first \in Nat
      BY <2>1
    <3> HIDE DEF m
    <3>2. Bytes(first, m) \o Bytes(first + m, z) = Bytes(first, m + z)
      BY <3>1, JoinBytes, ZenonT(40)
    <3> QED
      BY <3>2 DEF m
  <2>4. /\ sink.queue = Bytes(first, x) /\ stream.queue = Bytes(first + x, y)
        /\ source.queue = Bytes(first + (x + y), z)
    BY <1>6, <2>1, Zenon DEF x, y, z, first
  <2>5. queue = Bytes(first, (x + y) + z)
    BY <2>2, <2>3, <2>4, Zenon
  <2> QED
    BY <2>1, <2>5, Zenon DEF first
<1> DEFINE n == d - a
<1>8. n \in Nat /\ d = a + n /\ a + 1 \in Nat /\ size \in Nat /\ n <= size
  BY <1>1, <1>3, <1>4, <1>5
<1> HIDE DEF n, size
<1>9. queue = Bytes(a + 1, n) /\ queue \in Seq(Nat) /\ Len(queue) = n
  <2>1. Bytes(a + 1, n) \in Seq(Nat) /\ Len(Bytes(a + 1, n)) = n
    BY <1>8, BytesIsSeq
  <2> QED
    BY <1>7, <2>1, Zenon DEF n
<1> HIDE DEF queue
<1>10. j = [capacity |-> size, queue |-> queue, pushed |-> d, popped |-> a,
            closed |-> source.closed, error |-> sink.error]
  BY Zenon DEF Joined, size, queue, d, a
<1> DEFINE closed == source.closed
           error == sink.error
<1>11. closed \in BOOLEAN /\ error \in BOOLEAN
  BY <1>3, <1>5
<1> HIDE DEF j, closed, error
<1>12. /\ j \in StreamOf(Nat)
       /\ j.capacity = size /\ j.queue = queue /\ j.pushed = d /\ j.popped = a
       /\ j.closed = closed /\ j.error = error
  <2>1. j = [capacity |-> size, queue |-> queue, pushed |-> d, popped |-> a,
             closed |-> closed, error |-> error]
    BY <1>10, Zenon DEF closed, error
  <2> QED
    BY <1>3, <1>5, <1>8, <1>9, <1>11, <2>1 DEF StreamOf
<1>13. IsPipe(j, size)
  BY <1>8, <1>9, <1>12, Zenon DEF IsPipe
<1> QED
  BY <1>12, <1>13, Zenon DEF IsPipeWith, j, size, d, a, closed, error

(* What holds of the three streams of each direction, and of their ends.   *)
Ways(w) ==
    /\ OneWay(w.stdin, w.outbound, w.sent)
    /\ OneWay(w.received, w.inbound, w.stdout)

(* The two directions, each as one stream.                                 *)
Out(w) == Joined(w.stdin, w.outbound, w.sent)

In(w) == Joined(w.received, w.inbound, w.stdout)

(* Their room.                                                             *)
Size == BufferSize + 2 * KernelSize

(* A step of one direction, as the abstract stream has it.                 *)
StepOf(t, s) ==
    \/ \E i \in 1 .. Length : t = PushTo(s, << i >>)
    \/ t = PopFrom(s, 1)
    \/ t = CloseOf(s)
    \/ t = SetErrorOf(s)

(* From the ends a and c of a direction to the ends x and z: no change, a  *)
(* byte in, a byte out, the end, or nobody there any more.                 *)
EndsMove(x, z, a, c) ==
    \/ /\ x.pushed = a.pushed /\ z.popped = c.popped
       /\ x.closed = a.closed /\ z.error = c.error
    \/ /\ x.pushed = a.pushed + 1 /\ z.popped = c.popped
       /\ x.closed = a.closed /\ z.error = c.error
    \/ /\ x.pushed = a.pushed /\ z.popped = c.popped + 1
       /\ x.closed = a.closed /\ z.error = c.error
    \/ /\ x.pushed = a.pushed /\ z.popped = c.popped
       /\ x.closed /\ z.error = c.error
    \/ /\ x.pushed = a.pushed /\ z.popped = c.popped
       /\ x.closed = a.closed /\ z.error

(* Steps of a direction, by what becomes of its two ends.                  *)
LEMMA StepsOfJoined ==
    ASSUME SizeAssumption, NEW a, NEW b, NEW c, OneWay(a, b, c),
           NEW x, NEW y, NEW z, OneWay(x, y, z),
           EndsMove(x, z, a, c)
    PROVE  StepOf(Joined(x, y, z), Joined(a, b, c)) \/ Joined(x, y, z) = Joined(a, b, c)
<1> DEFINE s == Joined(a, b, c)
           t == Joined(x, y, z)
<1>1. Size \in Nat /\ KernelSize \in Nat /\ BufferSize \in Nat /\ Length \in Nat
  BY DEF SizeAssumption, Size
<1>2. IsPipeWith(s, Size, a.pushed, c.popped, a.closed, c.error)
  BY JoinedPipe, Zenon DEF Size
<1>3. IsPipeWith(t, Size, x.pushed, z.popped, x.closed, z.error)
  BY JoinedPipe, Zenon DEF Size
<1> HIDE DEF s, t
<1>4. /\ IsPipe(s, Size) /\ s.pushed = a.pushed /\ s.popped = c.popped
      /\ s.closed = a.closed /\ s.error = c.error
  BY <1>2, Zenon DEF IsPipeWith
<1>5. /\ a.pushed \in Nat /\ x.pushed \in Nat /\ x.pushed <= Length
      /\ c.popped \in Nat /\ z.popped \in Nat
      /\ c.closed \in BOOLEAN /\ x.closed \in BOOLEAN /\ z.error \in BOOLEAN
      /\ z.popped <= x.pushed /\ x.pushed - z.popped <= Size
  <2>1. /\ IsPipe(a, KernelSize) /\ IsPipe(x, KernelSize) /\ x.pushed <= Length
        /\ IsPipe(c, KernelSize) /\ IsPipe(z, KernelSize)
    BY Zenon DEF OneWay
  <2>2. a.pushed \in Nat
    BY <1>1, <2>1, PipeCounts
  <2>3. c.popped \in Nat /\ c.closed \in BOOLEAN
    BY <1>1, <2>1, PipeCounts
  <2>4. x.pushed \in Nat /\ x.closed \in BOOLEAN
    BY <1>1, <2>1, PipeCounts
  <2>5. z.popped \in Nat /\ z.error \in BOOLEAN
    BY <1>1, <2>1, PipeCounts
  <2>6. z.popped <= x.pushed /\ x.pushed - z.popped <= Size
    <3>1. IsPipe(t, Size) /\ t.pushed = x.pushed /\ t.popped = z.popped
      BY <1>3, Zenon DEF IsPipeWith
    <3>2. /\ t.popped <= t.pushed /\ AvailableCapacity(t) = Size - (t.pushed - t.popped)
          /\ AvailableCapacity(t) \in Nat
      BY <1>1, <3>1, PipeCounts
    <3> QED
      BY <1>1, <2>4, <2>5, <3>1, <3>2
  <2> QED
    BY <2>1, <2>2, <2>3, <2>4, <2>5, <2>6
<1>6. \A p, q, f, g : IsPipeWith(s, Size, p, q, f, g) /\ IsPipeWith(t, Size, p, q, f, g) => t = s
  BY <1>1, SamePipe
<1>7. CASE /\ x.pushed = a.pushed /\ z.popped = c.popped
           /\ x.closed = a.closed /\ z.error = c.error
  BY <1>2, <1>3, <1>6, <1>7, Zenon DEF s, t
<1>8. CASE /\ x.pushed = a.pushed + 1 /\ z.popped = c.popped
           /\ x.closed = a.closed /\ z.error = c.error
  <2> DEFINE n == a.pushed
             u == PushTo(s, << n + 1 >>)
  <2>1. n + 1 \in 1 .. Length
    BY <1>1, <1>5, <1>8
  <2>2. AvailableCapacity(s) > 0
    <3>1. AvailableCapacity(s) = Size - (s.pushed - s.popped)
      BY <1>1, <1>4, PipeCounts
    <3> QED
      BY <1>1, <1>4, <1>5, <1>8, <3>1
  <2>3. IsPipeWith(PushTo(s, << s.pushed + 1 >>), Size, s.pushed + 1, s.popped,
                   s.closed, s.error)
    BY <1>1, <1>4, <2>2, PushOne
  <2>4. IsPipeWith(u, Size, x.pushed, z.popped, x.closed, z.error)
    BY <1>4, <1>8, <2>3, Zenon
  <2>5. t = u
    <3> HIDE DEF u
    <3> QED
      BY <1>1, <1>3, <2>4, SamePipe
  <2> QED
    BY <2>1, <2>5, Zenon DEF StepOf, s, t
<1>9. CASE /\ x.pushed = a.pushed /\ z.popped = c.popped + 1
           /\ x.closed = a.closed /\ z.error = c.error
  <2> DEFINE u == PopFrom(s, 1)
  <2>1. s.queue # << >>
    <3>1. s.queue = << >> <=> s.pushed = s.popped
      BY <1>1, <1>4, PipeCounts
    <3> QED
      BY <1>4, <1>5, <1>9, <3>1
  <2>2. IsPipeWith(u, Size, s.pushed, s.popped + 1, s.closed, s.error)
    BY <1>1, <1>4, <2>1, PopOne
  <2>3. IsPipeWith(u, Size, x.pushed, z.popped, x.closed, z.error)
    BY <1>4, <1>9, <2>2, Zenon
  <2>4. t = u
    <3> HIDE DEF u
    <3> QED
      BY <1>1, <1>3, <2>3, SamePipe
  <2> QED
    BY <2>4, Zenon DEF StepOf, s, t
<1>10. CASE /\ x.pushed = a.pushed /\ z.popped = c.popped
            /\ x.closed /\ z.error = c.error
  <2> DEFINE u == CloseOf(s)
  <2>1. IsPipeWith(u, Size, s.pushed, s.popped, TRUE, s.error)
    BY <1>1, <1>4, PipeFlags
  <2>2. x.closed = TRUE
    BY <1>5, <1>10
  <2>3. IsPipeWith(u, Size, x.pushed, z.popped, x.closed, z.error)
    BY <1>4, <1>10, <2>1, <2>2, Zenon
  <2>4. t = u
    <3> HIDE DEF u
    <3> QED
      BY <1>1, <1>3, <2>3, SamePipe
  <2> QED
    BY <2>4, Zenon DEF StepOf, s, t
<1>11. CASE /\ x.pushed = a.pushed /\ z.popped = c.popped
            /\ x.closed = a.closed /\ z.error
  <2> DEFINE u == SetErrorOf(s)
  <2>1. IsPipeWith(u, Size, s.pushed, s.popped, s.closed, TRUE)
    BY <1>1, <1>4, PipeFlags
  <2>2. z.error = TRUE
    BY <1>5, <1>11
  <2>3. IsPipeWith(u, Size, x.pushed, z.popped, x.closed, z.error)
    BY <1>4, <1>11, <2>1, <2>2, Zenon
  <2>4. t = u
    <3> HIDE DEF u
    <3> QED
      BY <1>1, <1>3, <2>3, SamePipe
  <2> QED
    BY <2>4, Zenon DEF StepOf, s, t
<1> QED
  BY <1>7, <1>8, <1>9, <1>10, <1>11, Zenon DEF EndsMove

(* Both directions move, or not.                                           *)
BothMove(v, w) ==
    /\ EndsMove(v.stdin, v.sent, w.stdin, w.sent)
    /\ EndsMove(v.received, v.stdout, w.received, w.stdout)

(* When the ends are the same neither does.                                *)
LEMMA SameEndsMove ==
    ASSUME NEW v, NEW w, SameEnds(v, w)
    PROVE  BothMove(v, w)
BY Zenon DEF BothMove, EndsMove, SameEnds

(* Every step of the copy leaves what stands, and moves each direction as  *)
(* an abstract stream moves.                                               *)
LEMMA StepStands == SizeAssumption /\ IInv /\ Next => IInv' /\ BothMove(world', world)
<1> SUFFICES ASSUME SizeAssumption, IInv, Next PROVE IInv' /\ BothMove(world', world)
  OBVIOUS
<1> DEFINE w == world
           v == world'
<1> SUFFICES Standing(v) /\ BothMove(v, w)
  BY Zenon DEF IInv
<1>1. Standing(w) /\ Sound(w) /\ DOMAIN w = Fields
  BY Zenon DEF IInv, Standing, Sound, IsWorld
<1>2. /\ IsPipe(w.stdin, KernelSize) /\ w.stdin.pushed <= Length
      /\ IsPipe(w.received, KernelSize) /\ w.received.pushed <= Length
      /\ IsPipe(w.sent, KernelSize) /\ IsPipe(w.stdout, KernelSize)
      /\ KernelSize \in Nat
  BY <1>1, Zenon DEF Sound, OneWay, SizeAssumption
<1>3. CASE Poll
  <2>1. w.loop = "poll" /\ v = Loop!Poll(w)
    BY <1>3, Zenon DEF Poll, CanPoll
  <2> HIDE DEF v, w
  <2> QED
    BY <1>1, <2>1, PollStands, SameEndsMove
<1>4. CASE Serve
  <2>1. w.loop = "serve" /\ v = Loop!Serve(w)
    BY <1>4, Zenon DEF Serve, CanServe
  <2> HIDE DEF v, w
  <2> QED
    BY <1>1, <2>1, ServeStands, SameEndsMove
<1>5. ASSUME NEW source \in {"stdin", "received"}, Feed(source)
      PROVE  Standing(v) /\ BothMove(v, w)
  <2> DEFINE s == w[source]
             t == PushTo(s, << s.pushed + 1 >>)
  <2>1. /\ ~s.closed /\ s.pushed < Length /\ AvailableCapacity(s) > 0
        /\ v = [w EXCEPT ![source] = PushTo(@, << @.pushed + 1 >>)]
    BY <1>5, Zenon DEF Feed
  <2> HIDE DEF v, w
  <2>2. IsPipe(s, KernelSize) /\ s.pushed <= Length
    BY <1>2
  <2>3. Fed(t, s)
    BY <2>1, <2>2, FeedPipe
  <2>4. IsPipeWith(t, KernelSize, s.pushed + 1, s.popped, s.closed, s.error)
    BY <1>2, <2>1, <2>2, PushOne
  <2>5. v = [w EXCEPT ![source] = t]
    BY <1>1, <2>1 DEF Fields
  <2> HIDE DEF t
  <2>6. t.error = s.error /\ t.pushed = s.pushed + 1 /\ t.closed = s.closed
    BY <2>4, Zenon DEF IsPipeWith
  <2>7. /\ Moved(v, w) /\ v[source] = t
        /\ \A g \in Fields \ {source} : v[g] = w[g]
    <3>1. MovedAt([w EXCEPT ![source] = t], w, source, t)
      BY <1>1, <2>3, <2>6, FedMoves
    <3> QED
      BY <2>5, <3>1, Zenon DEF MovedAt
  <2>8. Standing(v)
    BY <1>1, <2>7, MovedStands
  <2>9. CASE source = "stdin"
    <3>1. /\ v.sent = w.sent /\ v.received = w.received /\ v.stdout = w.stdout
          /\ v.stdin.pushed = w.stdin.pushed + 1 /\ v.stdin.closed = w.stdin.closed
      BY <2>6, <2>7, <2>9 DEF Fields
    <3> QED
      BY <2>8, <3>1, Zenon DEF BothMove, EndsMove
  <2>10. CASE source = "received"
    <3>1. /\ v.sent = w.sent /\ v.stdin = w.stdin /\ v.stdout = w.stdout
          /\ v.received.pushed = w.received.pushed + 1 /\ v.received.closed = w.received.closed
      BY <2>6, <2>7, <2>10 DEF Fields
    <3> QED
      BY <2>8, <3>1, Zenon DEF BothMove, EndsMove
  <2> QED
    BY <2>9, <2>10
<1>6. ASSUME NEW source \in {"stdin", "received"}, End(source)
      PROVE  Standing(v) /\ BothMove(v, w)
  <2> DEFINE s == w[source]
             t == CloseOf(s)
  <2>1. v = [w EXCEPT ![source] = CloseOf(@)]
    BY <1>6, Zenon DEF End
  <2> HIDE DEF v, w
  <2>2. IsPipe(s, KernelSize) /\ s.pushed <= Length
    BY <1>2
  <2>3. Fed(t, s)
    BY <2>2, FeedPipe
  <2>4. IsPipeWith(t, KernelSize, s.pushed, s.popped, TRUE, s.error)
    BY <1>2, <2>2, PipeFlags
  <2>5. v = [w EXCEPT ![source] = t]
    BY <1>1, <2>1 DEF Fields
  <2> HIDE DEF t
  <2>6. t.error = s.error /\ t.pushed = s.pushed /\ t.closed
    BY <2>4 DEF IsPipeWith
  <2>7. /\ Moved(v, w) /\ v[source] = t
        /\ \A g \in Fields \ {source} : v[g] = w[g]
    <3>1. MovedAt([w EXCEPT ![source] = t], w, source, t)
      BY <1>1, <2>3, <2>6, FedMoves
    <3> QED
      BY <2>5, <3>1, Zenon DEF MovedAt
  <2>8. Standing(v)
    BY <1>1, <2>7, MovedStands
  <2>9. CASE source = "stdin"
    <3>1. /\ v.sent = w.sent /\ v.received = w.received /\ v.stdout = w.stdout
          /\ v.stdin.pushed = w.stdin.pushed /\ v.stdin.closed
      BY <2>6, <2>7, <2>9 DEF Fields
    <3> QED
      BY <2>8, <3>1, Zenon DEF BothMove, EndsMove
  <2>10. CASE source = "received"
    <3>1. /\ v.sent = w.sent /\ v.stdin = w.stdin /\ v.stdout = w.stdout
          /\ v.received.pushed = w.received.pushed /\ v.received.closed
      BY <2>6, <2>7, <2>10 DEF Fields
    <3> QED
      BY <2>8, <3>1, Zenon DEF BothMove, EndsMove
  <2> QED
    BY <2>9, <2>10
<1>7. ASSUME NEW sink \in {"stdout", "sent"}, Take(sink)
      PROVE  Standing(v) /\ BothMove(v, w)
  <2> DEFINE s == w[sink]
             t == PopFrom(s, 1)
  <2>1. s.queue # << >> /\ v = [w EXCEPT ![sink] = PopFrom(@, 1)]
    BY <1>7, Zenon DEF Take
  <2> HIDE DEF v, w
  <2>2. IsPipe(s, KernelSize)
    BY <1>2
  <2>3. Taken(t, s)
    BY <2>1, <2>2, TakePipe
  <2>4. IsPipeWith(t, KernelSize, s.pushed, s.popped + 1, s.closed, s.error)
    BY <1>2, <2>1, <2>2, PopOne
  <2>5. v = [w EXCEPT ![sink] = t]
    BY <1>1, <2>1 DEF Fields
  <2> HIDE DEF t
  <2>6. t.error = s.error /\ t.popped = s.popped + 1
    BY <2>4, Zenon DEF IsPipeWith
  <2>7. /\ Moved(v, w) /\ v[sink] = t
        /\ \A g \in Fields \ {sink} : v[g] = w[g]
    <3>1. MovedAt([w EXCEPT ![sink] = t], w, sink, t)
      BY <1>1, <2>3, TakenMoves
    <3> QED
      BY <2>5, <3>1, Zenon DEF MovedAt
  <2>8. Standing(v)
    BY <1>1, <2>7, MovedStands
  <2>9. CASE sink = "sent"
    <3>1. /\ v.stdin = w.stdin /\ v.received = w.received /\ v.stdout = w.stdout
          /\ v.sent.popped = w.sent.popped + 1 /\ v.sent.error = w.sent.error
      BY <2>6, <2>7, <2>9 DEF Fields
    <3> QED
      BY <2>8, <3>1, Zenon DEF BothMove, EndsMove
  <2>10. CASE sink = "stdout"
    <3>1. /\ v.stdin = w.stdin /\ v.received = w.received /\ v.sent = w.sent
          /\ v.stdout.popped = w.stdout.popped + 1 /\ v.stdout.error = w.stdout.error
      BY <2>6, <2>7, <2>10 DEF Fields
    <3> QED
      BY <2>8, <3>1, Zenon DEF BothMove, EndsMove
  <2> QED
    BY <2>9, <2>10
<1>8. CASE OutputBreaks
  <2> DEFINE s == w.stdout
             t == SetErrorOf(s)
  <2>1. v = [w EXCEPT !.stdout = SetErrorOf(@)]
    BY <1>8, Zenon DEF OutputBreaks
  <2> HIDE DEF v, w
  <2>2. Taken(t, w["stdout"]) /\ "stdout" \in {"stdout", "sent"}
    BY <1>2, TakePipe
  <2>3. IsPipeWith(t, KernelSize, s.pushed, s.popped, s.closed, TRUE)
    BY <1>2, PipeFlags
  <2>4. v = [w EXCEPT !["stdout"] = t]
    BY <1>1, <2>1 DEF Fields
  <2> HIDE DEF t
  <2>5. t.error /\ t.popped = s.popped
    BY <2>3 DEF IsPipeWith
  <2>6. /\ Moved(v, w) /\ v["stdout"] = t
        /\ \A g \in Fields \ {"stdout"} : v[g] = w[g]
    <3>1. MovedAt([w EXCEPT !["stdout"] = t], w, "stdout", t)
      BY <1>1, <2>2, TakenMoves
    <3> QED
      BY <2>4, <3>1, Zenon DEF MovedAt
  <2>7. Standing(v)
    BY <1>1, <2>6, MovedStands
  <2>8. /\ v.stdin = w.stdin /\ v.received = w.received /\ v.sent = w.sent
        /\ v.stdout.popped = w.stdout.popped /\ v.stdout.error
    BY <2>5, <2>6 DEF Fields
  <2> QED
    BY <2>7, <2>8, Zenon DEF BothMove, EndsMove
<1>9. CASE PeerCloses
  <2> DEFINE c == CloseOf(w.received)
             t == IF w.sent.queue = << >> THEN c ELSE SetErrorOf(c)
             s == SetErrorOf(w.sent)
  <2>1. v = [w EXCEPT !.sent = SetErrorOf(@),
                      !.received = IF w.sent.queue = << >> THEN CloseOf(@)
                                   ELSE SetErrorOf(CloseOf(@))]
    BY <1>9, Zenon DEF PeerCloses
  <2> HIDE DEF v, w
  <2>2. v = [w EXCEPT !.sent = SetErrorOf(w.sent), !.received = t]
    BY <1>1, <2>1 DEF Fields
  <2>3. IsPipeWith(s, KernelSize, w.sent.pushed, w.sent.popped, w.sent.closed, TRUE)
    BY <1>2, PipeFlags
  <2>4. IsPipeWith(c, KernelSize, w.received.pushed, w.received.popped, TRUE, w.received.error)
    BY <1>2, PipeFlags
  <2>5. t = c \/ t = SetErrorOf(c)
    BY Zenon
  <2> HIDE DEF t, c, s
  <2>6. IsPipe(c, KernelSize) /\ c.closed /\ c.pushed = w.received.pushed
    BY <2>4 DEF IsPipeWith
  <2>7. IsPipeWith(SetErrorOf(c), KernelSize, c.pushed, c.popped, c.closed, TRUE)
    BY <1>2, <2>6, PipeFlags
  <2>8. t.closed /\ t.pushed = w.received.pushed
    BY <2>5, <2>6, <2>7, Zenon DEF IsPipeWith
  <2>9. s.error /\ s.popped = w.sent.popped
    BY <2>3 DEF IsPipeWith
  <2>10. /\ Moved(v, w) /\ v.sent = s /\ v.received = t
         /\ \A g \in Fields \ {"sent", "received"} : v[g] = w[g]
    <3>1. LeftAt([w EXCEPT !.sent = SetErrorOf(w.sent), !.received = t], w, t)
      BY <1>1, <2>5, CloseMoves DEF c
    <3> QED
      BY <2>2, <3>1, Zenon DEF LeftAt, s
  <2>11. Standing(v)
    BY <1>1, <2>10, MovedStands
  <2>12. v.stdin = w.stdin /\ v.stdout = w.stdout
    BY <2>10 DEF Fields
  <2> QED
    BY <2>8, <2>9, <2>10, <2>11, <2>12, Zenon DEF BothMove, EndsMove
<1>10. CASE Stop
  <2>1. v = w
    BY <1>10, Zenon DEF Stop
  <2> QED
    BY <1>1, <2>1, Zenon DEF BothMove, EndsMove
<1> QED
  BY <1>3, <1>4, <1>5, <1>6, <1>7, <1>8, <1>9, <1>10 DEF Next

(* The places of the four rules.                                           *)
LEMMA FourNumbers == 1 .. 4 = {1, 2, 3, 4}
OBVIOUS

(* A new stream is an empty pipe.                                          *)
LEMMA NewPipe ==
    ASSUME NEW capacity \in Nat
    PROVE  /\ IsPipeWith(NewStream(capacity), capacity, 0, 0, FALSE, FALSE)
           /\ NewStream(capacity).queue = << >>
<1> DEFINE s == NewStream(capacity)
<1>1. /\ s \in StreamOf(Nat) /\ s.capacity = capacity /\ s.queue = << >>
      /\ s.pushed = 0 /\ s.popped = 0 /\ s.closed = FALSE /\ s.error = FALSE
  BY DEF NewStream, StreamOf
<1> HIDE DEF s
<1>2. Len(s.queue) = 0 /\ 0 <= capacity /\ s.pushed = s.popped + Len(s.queue)
  BY <1>1
<1>3. s.queue = Bytes(s.popped + 1, Len(s.queue))
  <2>1. Bytes(s.popped + 1, 0) = << >>
    BY DEF Bytes
  <2> QED
    BY <1>1, <1>2, <2>1, Zenon
<1>4. Len(s.queue) <= capacity
  BY <1>2
<1>5. IsPipe(s, capacity)
  BY <1>1, <1>2, <1>3, <1>4, Zenon DEF IsPipe
<1> QED
  BY <1>1, <1>5, Zenon DEF IsPipeWith, s

(* What the copy begins with stands, and both directions are empty.        *)
LEMMA InitStands ==
    ASSUME SizeAssumption, Init
    PROVE  /\ IInv
           /\ Out(world) = NewStream(Size)
           /\ In(world) = NewStream(Size)
<1> DEFINE w == world
           nobody == [name \in {"input", "output", "socket"} |-> NewDescriptor]
           neither == [name \in {"outbound", "inbound"} |-> FALSE]
           kernel == NewStream(KernelSize)
           buffer == NewStream(BufferSize)
<1>1. BufferSize \in Nat /\ KernelSize \in Nat /\ Length \in Nat /\ Size \in Nat
  BY DEF SizeAssumption, Size
<1>2. /\ IsPipeWith(kernel, KernelSize, 0, 0, FALSE, FALSE) /\ kernel.queue = << >>
      /\ IsPipeWith(buffer, BufferSize, 0, 0, FALSE, FALSE) /\ buffer.queue = << >>
  BY <1>1, NewPipe
<1>3. w = [rules |-> Rules, polled |-> << >>, loop |-> "poll", failed |-> FALSE,
           fd |-> nobody, outbound |-> buffer, inbound |-> buffer, shutdown |-> neither,
           stdin |-> kernel, stdout |-> kernel, sent |-> kernel, received |-> kernel]
  BY Zenon DEF Init
<1>4. /\ DOMAIN nobody = {"input", "output", "socket"}
      /\ \A name \in DOMAIN nobody : IsIdle(nobody[name])
      /\ \A name \in DOMAIN nobody : ~nobody[name].eof_ /\ ~nobody[name].closed_
      /\ DOMAIN neither = {"outbound", "inbound"}
      /\ ~neither["outbound"] /\ ~neither["inbound"]
  BY DEF NewDescriptor, IsIdle
<1> HIDE DEF nobody, neither, kernel, buffer, w
<1>5. /\ DOMAIN w = Fields
      /\ w.rules = Rules /\ w.polled = << >> /\ w.loop = "poll" /\ ~w.failed
      /\ w.fd = nobody /\ w.shutdown = neither
      /\ w.outbound = buffer /\ w.inbound = buffer
      /\ w.stdin = kernel /\ w.stdout = kernel /\ w.sent = kernel /\ w.received = kernel
  BY <1>3 DEF Fields
<1>6. /\ IsPipe(kernel, KernelSize) /\ kernel.pushed = 0 /\ kernel.popped = 0
      /\ ~kernel.closed /\ ~kernel.error
      /\ IsPipe(buffer, BufferSize) /\ buffer.pushed = 0 /\ buffer.popped = 0
      /\ ~buffer.closed /\ ~buffer.error
  BY <1>2 DEF IsPipeWith
<1>7. InOrder(w.rules) /\ \A x \in AllRules : Kept(w, x)
  <2>0. Len(Rules) = 4
    BY DEF Rules
  <2>1. /\ Rules \in Seq(AllRules) /\ Len(Rules) = 4
        /\ Rules[1] = "read stdin" /\ Rules[2] = "write socket"
        /\ Rules[3] = "read socket" /\ Rules[4] = "write stdout"
    BY DEF Rules, AllRules
  <2>2. /\ Rank("read stdin") = 1 /\ Rank("write socket") = 2
        /\ Rank("read socket") = 3 /\ Rank("write stdout") = 4
    BY DEF Rank
  <2>3. \A i \in 1 .. Len(Rules) : Rank(Rules[i]) = i
    <3>1. 1 .. Len(Rules) = {1, 2, 3, 4}
      BY <2>0, FourNumbers, Zenon
    <3> QED
      BY <2>1, <2>2, <3>1, Zenon
  <2>4. InOrder(Rules)
    BY <2>1, <2>3 DEF InOrder
  <2>5. \A x \in AllRules : Member(Rules, x)
    <3>1. 1 .. Len(Rules) = {1, 2, 3, 4}
      BY <2>0, FourNumbers, Zenon
    <3> QED
      BY <2>1, <3>1, Zenon DEF Member, AllRules
  <2> QED
    BY <1>5, <2>4, <2>5, Zenon DEF Kept
<1>8. /\ Kept(w, "read stdin") /\ Kept(w, "write socket")
      /\ Kept(w, "read socket") /\ Kept(w, "write stdout")
  BY <1>7, Zenon DEF AllRules
<1>9. IsWorld(w)
  BY <1>4, <1>5, Zenon DEF IsWorld
<1>10. OneWay(w.stdin, w.outbound, w.sent) /\ OneWay(w.received, w.inbound, w.stdout)
  <2>1. 0 <= Length
    BY <1>1
  <2> QED
    BY <1>5, <1>6, <2>1, Zenon DEF OneWay
<1>11. /\ ~w.fd["input"].eof_ /\ ~w.fd["input"].closed_ /\ ~w.fd["socket"].closed_
       /\ ~w.fd["socket"].eof_ /\ ~w.fd["output"].closed_
       /\ ~w.shutdown["outbound"] /\ ~w.shutdown["inbound"]
  BY <1>4, <1>5
<1>12. OutwardOK(w)
  BY <1>5, <1>6, <1>8, <1>11, Zenon DEF OutwardOK
<1>13. InwardOK(w)
  BY <1>5, <1>6, <1>8, <1>11, Zenon DEF InwardOK, HasError
<1>14. Sound(w)
  BY <1>7, <1>9, <1>10, <1>12, <1>13, Zenon DEF Sound
<1>15. Standing(w)
  <2>1. /\ w.loop \in {"poll", "serve", "exit", "failed"}
        /\ w.loop # "serve" /\ w.loop # "exit" /\ w.loop # "failed"
    BY <1>5
  <2> QED
    BY <1>5, <1>14, <2>1, Zenon DEF Standing
<1>16. Out(w) = NewStream(Size) /\ In(w) = NewStream(Size)
  <2>1. IsPipeWith(Joined(kernel, buffer, kernel), BufferSize + 2 * KernelSize, kernel.pushed,
                   kernel.popped, kernel.closed, kernel.error)
    BY <1>5, <1>10, JoinedPipe, Zenon
  <2>2. IsPipeWith(Joined(kernel, buffer, kernel), Size, 0, 0, FALSE, FALSE)
    BY <1>2, <2>1, Zenon DEF Size, IsPipeWith
  <2>3. IsPipeWith(NewStream(Size), Size, 0, 0, FALSE, FALSE)
    BY <1>1, NewPipe
  <2>4. Joined(kernel, buffer, kernel) = NewStream(Size)
    BY <1>1, <2>2, <2>3, SamePipe
  <2> QED
    BY <1>5, <2>4, Zenon DEF Out, In
<1> QED
  BY <1>15, <1>16, Zenon DEF IInv, w

(* The inductive invariant of the copy: what each closed stream, each      *)
(* erased rule and each flag means, and what is left of poll's word while  *)
(* the rules are served in order.                                          *)
THEOREM Invariance == Spec => []IInv
<1>1. Init => IInv
  BY InitStands, SizeAssumption
<1>2. IInv /\ [Next]_world => IInv'
  <2> SUFFICES ASSUME IInv, [Next]_world PROVE IInv'
    OBVIOUS
  <2>1. CASE Next
    BY <2>1, StepStands, SizeAssumption
  <2>2. CASE UNCHANGED world
    BY <2>2, Zenon DEF IInv
  <2> QED
    BY <2>1, <2>2
<1> QED
  BY <1>1, <1>2, PTL DEF Spec

(* The end is passed on behind the last byte, and the loop does not exit   *)
(* before it has passed it on (bidirectional_stream_copy.cc:63 and :98).   *)
THEOREM EndIsPassedOnLast == Spec => []EndMeansAll
<1>1. IInv => EndMeansAll
  <2> SUFFICES ASSUME IInv PROVE EndMeansAll
    OBVIOUS
  <2> DEFINE w == world
  <2>1. /\ OutwardOK(w) /\ InwardOK(w)
        /\ OneWay(w.stdin, w.outbound, w.sent) /\ OneWay(w.received, w.inbound, w.stdout)
        /\ w.loop = "exit" => PassedOn(w)
    BY Zenon DEF IInv, Standing, Sound
  <2>2. BufferSize \in Nat /\ KernelSize \in Nat
    BY SizeAssumption
  <2> HIDE DEF w
  <2>3. w.sent.closed => w.stdin.closed /\ w.sent.pushed = w.stdin.pushed
    <3> SUFFICES ASSUME w.sent.closed PROVE w.stdin.closed /\ w.sent.pushed = w.stdin.pushed
      OBVIOUS
    <3>1. w.stdin.closed /\ w.stdin.queue = << >> /\ w.outbound.queue = << >>
      BY <2>1, Zenon DEF OutwardOK, IsFinished
    <3>2. IsPipe(w.stdin, KernelSize) /\ IsPipe(w.outbound, BufferSize)
      BY <2>1, Zenon DEF OneWay
    <3>3. w.stdin.pushed = w.stdin.popped
      BY <2>2, <3>1, <3>2, PipeCounts
    <3>4. w.outbound.pushed = w.outbound.popped
      BY <2>2, <3>1, <3>2, PipeCounts
    <3> QED
      BY <2>1, <3>1, <3>3, <3>4, Zenon DEF OneWay
  <2>4. w.stdout.closed => /\ w.received.closed
                           /\ w.received.error \/ w.stdout.pushed = w.received.pushed
    <3> SUFFICES ASSUME w.stdout.closed, ~w.received.error
                 PROVE  w.stdout.pushed = w.received.pushed
      BY <2>1, Zenon DEF InwardOK, ReceivedEnded
    <3>1. w.received.queue = << >> /\ w.inbound.queue = << >>
      BY <2>1, Zenon DEF InwardOK, ReceivedEnded, IsFinished
    <3>2. IsPipe(w.received, KernelSize) /\ IsPipe(w.inbound, BufferSize)
      BY <2>1, Zenon DEF OneWay
    <3>3. w.received.pushed = w.received.popped
      BY <2>2, <3>1, <3>2, PipeCounts
    <3>4. w.inbound.pushed = w.inbound.popped
      BY <2>2, <3>1, <3>2, PipeCounts
    <3> QED
      BY <2>1, <3>3, <3>4, Zenon DEF OneWay
  <2> QED
    BY <2>1, <2>3, <2>4, Zenon DEF EndMeansAll, PassedOn, w
<1> QED
  BY <1>1, Invariance, PTL

(* No rule spins, whatever its descriptor does, and no call fails as long  *)
(* as both far ends are there (eventloop.cc:212, file_descriptor.cc:13).   *)
THEOREM NothingThrows == Spec => []NeverThrows
<1>1. IInv => NeverThrows
  <2> SUFFICES ASSUME IInv PROVE NeverThrows
    OBVIOUS
  <2>1. /\ world.loop \in {"poll", "serve", "exit", "failed"}
        /\ world.loop = "failed" => BrokenIn(world)
    BY Zenon DEF IInv, Standing
  <2>2. world.loop # "busy wait"
    BY <2>1
  <2> QED
    BY <2>1, <2>2, Zenon DEF NeverThrows, BrokenIn, Broken
<1> QED
  BY <1>1, Invariance, PTL

(* What moves the ends of both directions is a step of each pipe.          *)
LEMMA StepsOfWays ==
    ASSUME SizeAssumption, NEW v, NEW w, Ways(w), Ways(v), BothMove(v, w)
    PROVE  /\ StepOf(Out(v), Out(w)) \/ Out(v) = Out(w)
           /\ StepOf(In(v), In(w)) \/ In(v) = In(w)
<1>1. /\ OneWay(w.stdin, w.outbound, w.sent) /\ OneWay(v.stdin, v.outbound, v.sent)
      /\ OneWay(w.received, w.inbound, w.stdout) /\ OneWay(v.received, v.inbound, v.stdout)
  BY Zenon DEF Ways
<1>2. /\ EndsMove(v.stdin, v.sent, w.stdin, w.sent)
      /\ EndsMove(v.received, v.stdout, w.received, w.stdout)
  BY Zenon DEF BothMove
<1>3. \A a, b, c, x, y, z :
         OneWay(a, b, c) /\ OneWay(x, y, z) /\ EndsMove(x, z, a, c) =>
            StepOf(Joined(x, y, z), Joined(a, b, c)) \/ Joined(x, y, z) = Joined(a, b, c)
  BY StepsOfJoined, SizeAssumption
<1>4. /\ StepOf(Joined(v.stdin, v.outbound, v.sent), Joined(w.stdin, w.outbound, w.sent))
         \/ Joined(v.stdin, v.outbound, v.sent) = Joined(w.stdin, w.outbound, w.sent)
  BY <1>1, <1>2, <1>3
<1>5. /\ StepOf(Joined(v.received, v.inbound, v.stdout), Joined(w.received, w.inbound, w.stdout))
         \/ Joined(v.received, v.inbound, v.stdout) = Joined(w.received, w.inbound, w.stdout)
  BY <1>1, <1>2, <1>3
<1> QED
  BY <1>4, <1>5, Zenon DEF Out, In

(* The operations of the two pipes are those of Stream.                    *)
LEMMA PipesOps ==
    ASSUME NEW s
    PROVE  /\ \A data : Outward!PushTo(s, data) = PushTo(s, data)
           /\ \A len : Outward!PopFrom(s, len) = PopFrom(s, len)
           /\ Outward!CloseOf(s) = CloseOf(s) /\ Outward!SetErrorOf(s) = SetErrorOf(s)
           /\ \A data : Inward!PushTo(s, data) = PushTo(s, data)
           /\ \A len : Inward!PopFrom(s, len) = PopFrom(s, len)
           /\ Inward!CloseOf(s) = CloseOf(s) /\ Inward!SetErrorOf(s) = SetErrorOf(s)
BY Zenon DEF Outward!PushTo, Outward!PopFrom, Outward!CloseOf, Outward!SetErrorOf,
    Outward!AtMost, Outward!AvailableCapacity, PushTo, PopFrom, CloseOf, SetErrorOf,
    Inward!PushTo, Inward!PopFrom, Inward!CloseOf, Inward!SetErrorOf,
    Inward!AtMost, Inward!AvailableCapacity, AtMost, AvailableCapacity

(* The directions of the model, before and after a step.                   *)
LEMMA Directions ==
    /\ Direction("stdin", "outbound", "sent") = Out(world)
    /\ Direction("received", "inbound", "stdout") = In(world)
    /\ Direction("stdin", "outbound", "sent")' = Out(world')
    /\ Direction("received", "inbound", "stdout")' = In(world')
BY Zenon DEF Direction, Out, In, Joined

(* A step of one direction is a step of its pipe.                          *)
LEMMA StepsOfPipes ==
    /\ StepOf(Out(world'), Out(world)) => Outward!Next
    /\ StepOf(In(world'), In(world)) => Inward!Next
<1> DEFINE t == Direction("stdin", "outbound", "sent")'
           s == Direction("stdin", "outbound", "sent")
           u == Direction("received", "inbound", "stdout")'
           r == Direction("received", "inbound", "stdout")
<1>1. StepOf(t, s) => Outward!Next
  BY PipesOps, Zenon DEF StepOf, Outward!Next, Outward!Push, Outward!Pop, Outward!Close,
                         Outward!SetError
<1>2. StepOf(u, r) => Inward!Next
  BY PipesOps, Zenon DEF StepOf, Inward!Next, Inward!Push, Inward!Pop, Inward!Close,
                         Inward!SetError
<1> QED
  BY <1>1, <1>2, Directions, Zenon

(* The two directions begin as two empty pipes.                            *)
LEMMA PipesBegin == Init => Outward!Init /\ Inward!Init
<1> SUFFICES ASSUME Init PROVE Outward!Init /\ Inward!Init
  OBVIOUS
<1>1. Out(world) = NewStream(Size) /\ In(world) = NewStream(Size)
  BY InitStands, SizeAssumption
<1> QED
  BY <1>1, Directions, Zenon DEF Outward!Init, Inward!Init, Size, NewStream,
                                 Outward!NewStream, Inward!NewStream

(* Every step of the copy is, each way, one step of the pipe or none.      *)
LEMMA PipesGoOn ==
    IInv /\ IInv' /\ [Next]_world =>
       /\ [Outward!Next]_(Direction("stdin", "outbound", "sent"))
       /\ [Inward!Next]_(Direction("received", "inbound", "stdout"))
<1> SUFFICES ASSUME IInv, IInv', [Next]_world
             PROVE  /\ [Outward!Next]_(Direction("stdin", "outbound", "sent"))
                    /\ [Inward!Next]_(Direction("received", "inbound", "stdout"))
  OBVIOUS
<1>1. BothMove(world', world)
  <2>1. CASE Next
    BY <2>1, StepStands, SizeAssumption
  <2>2. CASE UNCHANGED world
    BY <2>2, Zenon DEF BothMove, EndsMove
  <2> QED
    BY <2>1, <2>2
<1> DEFINE v == world'
           w == world
<1>2. Ways(w)
  BY Zenon DEF IInv, Standing, Sound, Ways
<1>3. Ways(v)
  BY Zenon DEF IInv, Standing, Sound, Ways
<1>4. BothMove(v, w)
  BY <1>1, Zenon
<1>5. /\ v = world' /\ w = world
  OBVIOUS
<1> HIDE DEF v, w
<1>6. /\ StepOf(Out(v), Out(w)) \/ Out(v) = Out(w)
      /\ StepOf(In(v), In(w)) \/ In(v) = In(w)
  BY <1>2, <1>3, <1>4, StepsOfWays, SizeAssumption
<1>7. /\ StepOf(Out(world'), Out(world)) \/ Out(world') = Out(world)
      /\ StepOf(In(world'), In(world)) \/ In(world') = In(world)
  BY <1>5, <1>6, Zenon
<1> QED
  BY <1>7, Directions, StepsOfPipes, Zenon

(* Each direction is one bounded pipe, of the room of its stream and of    *)
(* both kernel buffers: no byte is lost, repeated or reordered on the way. *)
THEOREM EachWayIsOnePipe == Spec => ImplementsPipes
BY PipesBegin, PipesGoOn, Invariance, PTL DEF Spec, ImplementsPipes, Outward!Spec, Inward!Spec
=============================================================================
