-------------------------- MODULE TCPReceiver_proofs --------------------------
(***************************************************************************)
(* Proofs about the TCPReceiver for every modulus, initial sequence        *)
(* number, capacity, stream and cut of the stream into segments.           *)
(***************************************************************************)
EXTENDS TCPReceiver, OperatorLemmas

(* What the theorems suppose: the indices of the longest stream, and of a  *)
(* window beyond it, fit in the int they are passed through.  In the code  *)
(* the int is as wide as a sequence number, so that such a stream is       *)
(* shorter than half a turn: its numbers wrap, but do not come round.      *)
Domain == FitsInt(MaxLength, Capacity)

ReceiverFields ==
    {"reassembler", "initial_seqno_", "syn_set_", "fin_set_", "ackno_", "stream_seqno_", "RST_"}

(* v is a receiver object. *)
IsReceiver(v) ==
    /\ DOMAIN v = ReceiverFields
    /\ v.syn_set_ \in BOOLEAN
    /\ v.fin_set_ \in BOOLEAN
    /\ v.RST_ \in BOOLEAN

(* The object's notes agree with what its reassembler has written of the   *)
(* stream that starts at isn and has this length.                          *)
Agrees(v, start, len) ==
    LET out == v.reassembler.output
    IN  /\ IsReceiver(v)
        /\ IsSound(v.reassembler, len)
        /\ out.capacity = Capacity
        /\ v.stream_seqno_ = out.pushed
        /\ v.syn_set_ => /\ v.initial_seqno_ = start
                         /\ v.ackno_ = wrap(1 + out.pushed + One(out.closed), start)
        /\ v.reassembler.finish => v.fin_set_
        /\ out.closed => v.reassembler.finish /\ out.pushed = len
        /\ v.RST_ => out.error

(* The invariant that is inductive. *)
IInv ==
    /\ isn \in Raw
    /\ length \in 0 .. MaxLength
    /\ Agrees(receiver, isn, length)

(* The payloads of the model are those the lemmas about insert speak of.   *)
LEMMA SubstringIsBytes ==
    ASSUME NEW first, NEW size
    PROVE  Substring(first, size) = Bytes(first, size)
BY DEF Substring, Bytes

(* n is v with the flags of the message m noted. *)
Noted(n, v, m) ==
    /\ IsReceiver(n)
    /\ n.reassembler = v.reassembler
    /\ m.SYN => n.initial_seqno_ = m.seqno
    /\ ~ m.SYN => n.initial_seqno_ = v.initial_seqno_
    /\ n.syn_set_ <=> v.syn_set_ \/ m.SYN
    /\ n.fin_set_ <=> v.fin_set_ \/ (m.FIN /\ (v.syn_set_ \/ m.SYN))
    /\ n.stream_seqno_ = v.stream_seqno_
    /\ n.RST_ <=> v.RST_

(* What receive does with SYN and FIN: the zero point is set by the SYN    *)
(* alone, and a FIN is remembered once a SYN was seen.                     *)
LEMMA FlagsNoted ==
    ASSUME NEW v, IsReceiver(v), NEW m, m.SYN \in BOOLEAN, m.FIN \in BOOLEAN
    PROVE  Noted(NoteFlags(v, m), v, m)
<1> DEFINE a == IF m.SYN THEN m.seqno ELSE v.initial_seqno_
           b == v.syn_set_ \/ m.SYN
           c == v.fin_set_ \/ (m.FIN /\ (v.syn_set_ \/ m.SYN))
           n == [v EXCEPT !.initial_seqno_ = a, !.syn_set_ = b, !.fin_set_ = c]
<1>1. NoteFlags(v, m) = n
  BY Zenon DEF NoteFlags
<1>2. /\ DOMAIN v = ReceiverFields
      /\ v.syn_set_ \in BOOLEAN /\ v.fin_set_ \in BOOLEAN /\ v.RST_ \in BOOLEAN
  BY DEF IsReceiver
<1>3. b \in BOOLEAN /\ c \in BOOLEAN
  BY Zenon
<1> HIDE DEF a, b, c
<1>4. /\ DOMAIN n = ReceiverFields
      /\ n.reassembler = v.reassembler
      /\ n.initial_seqno_ = a
      /\ n.syn_set_ = b
      /\ n.fin_set_ = c
      /\ n.ackno_ = v.ackno_
      /\ n.stream_seqno_ = v.stream_seqno_
      /\ n.RST_ = v.RST_
  BY <1>2 DEF ReceiverFields
<1> HIDE DEF n
<1>5. IsReceiver(n)
  BY <1>2, <1>3, <1>4, Zenon DEF IsReceiver
<1>6. (b <=> v.syn_set_ \/ m.SYN) /\ (c <=> v.fin_set_ \/ (m.FIN /\ (v.syn_set_ \/ m.SYN)))
  BY Zenon DEF b, c
<1>7. (m.SYN => a = m.seqno) /\ (~ m.SYN => a = v.initial_seqno_)
  BY Zenon DEF a
<1>8. Noted(n, v, m)
  BY <1>4, <1>5, <1>6, <1>7, Zenon DEF Noted
<1> QED
  BY <1>1, <1>8, Zenon

(* n is v with its reassembler replaced by r and the progress of r noted. *)
Progressed(n, v, r) ==
    /\ IsReceiver(n)
    /\ n.reassembler = r
    /\ n.initial_seqno_ = v.initial_seqno_
    /\ n.syn_set_ <=> v.syn_set_
    /\ n.fin_set_ <=> v.fin_set_
    /\ n.RST_ <=> v.RST_
    /\ n.stream_seqno_ = r.output.pushed
    /\ n.ackno_ = wrap(r.output.pushed + One(v.syn_set_) + One(r.output.closed /\ v.fin_set_),
                       v.initial_seqno_)

(* What receive does after insert: the acknowledgement is computed anew,   *)
(* from the bytes written, the SYN and the FIN.                            *)
LEMMA ProgressNoted ==
    ASSUME NEW v, IsReceiver(v), NEW r
    PROVE  Progressed(NoteProgress([v EXCEPT !.reassembler = r]), v, r)
<1> DEFINE w == [v EXCEPT !.reassembler = r]
           a == r.output.pushed
           b == wrap(r.output.pushed + One(v.syn_set_) + One(r.output.closed /\ v.fin_set_),
                     v.initial_seqno_)
           n == [w EXCEPT !.stream_seqno_ = a, !.ackno_ = b]
<1>1. /\ DOMAIN v = ReceiverFields
      /\ v.syn_set_ \in BOOLEAN /\ v.fin_set_ \in BOOLEAN /\ v.RST_ \in BOOLEAN
  BY DEF IsReceiver
<1>2. /\ DOMAIN w = ReceiverFields
      /\ w.reassembler = r
      /\ w.initial_seqno_ = v.initial_seqno_
      /\ w.syn_set_ = v.syn_set_
      /\ w.fin_set_ = v.fin_set_
      /\ w.RST_ = v.RST_
  BY <1>1 DEF ReceiverFields
<1> HIDE DEF w
<1>3. NoteProgress(w) = n
  BY <1>2, Zenon DEF NoteProgress, Inbound
<1> HIDE DEF a, b
<1>4. /\ DOMAIN n = ReceiverFields
      /\ n.reassembler = w.reassembler
      /\ n.initial_seqno_ = w.initial_seqno_
      /\ n.syn_set_ = w.syn_set_
      /\ n.fin_set_ = w.fin_set_
      /\ n.ackno_ = b
      /\ n.stream_seqno_ = a
      /\ n.RST_ = w.RST_
  BY <1>2 DEF ReceiverFields
<1> HIDE DEF n
<1>5. IsReceiver(n)
  BY <1>1, <1>2, <1>4, Zenon DEF IsReceiver
<1>6. Progressed(n, v, r)
  BY <1>2, <1>4, <1>5, Zenon DEF Progressed, a, b
<1> QED
  BY <1>3, <1>6, Zenon DEF w

(* n is v with an error on the stream and the flag RST_ set to a. *)
Stopped(n, v) ==
    /\ IsReceiver(n)
    /\ n.reassembler = [v.reassembler EXCEPT !.output = SetErrorOf(@)]
    /\ n.initial_seqno_ = v.initial_seqno_
    /\ n.syn_set_ <=> v.syn_set_
    /\ n.fin_set_ <=> v.fin_set_
    /\ n.ackno_ = v.ackno_
    /\ n.stream_seqno_ = v.stream_seqno_

(* RST sets the error of the stream and changes nothing else.              *)
LEMMA ResetStops ==
    ASSUME NEW v, IsReceiver(v)
    PROVE  Stopped(Reset(v), v)
<1> DEFINE r == [v.reassembler EXCEPT !.output = SetErrorOf(@)]
           n == [v EXCEPT !.RST_ = TRUE, !.reassembler = r]
<1>1. Reset(v) = n
  <2>1. /\ DOMAIN v = ReceiverFields
    BY DEF IsReceiver
  <2> QED
    BY <2>1 DEF Reset, ReceiverFields
<1>2. /\ DOMAIN v = ReceiverFields
      /\ v.syn_set_ \in BOOLEAN /\ v.fin_set_ \in BOOLEAN /\ v.RST_ \in BOOLEAN
  BY DEF IsReceiver
<1> HIDE DEF r
<1>3. /\ DOMAIN n = ReceiverFields
      /\ n.reassembler = r
      /\ n.initial_seqno_ = v.initial_seqno_
      /\ n.syn_set_ = v.syn_set_
      /\ n.fin_set_ = v.fin_set_
      /\ n.ackno_ = v.ackno_
      /\ n.stream_seqno_ = v.stream_seqno_
      /\ n.RST_ = TRUE
  BY <1>2 DEF ReceiverFields
<1> HIDE DEF n
<1>4. IsReceiver(n)
  BY <1>2, <1>3, Zenon DEF IsReceiver
<1>5. Stopped(n, v)
  BY <1>3, <1>4, Zenon DEF Stopped, r
<1> QED
  BY <1>1, <1>5, Zenon

(* Sequence numbers go round, so the one before a number is found by       *)
(* counting back on the circle.                                            *)
LEMMA StepBack ==
    ASSUME NEW x \in Int
    PROVE  (((x + 1) % Range32) - 1) % Range32 = x % Range32
<1> DEFINE y == (x + 1) % Range32
<1>1. Range32 \in Nat /\ Range32 > 0
  BY WidthAssumption
<1>2. y \in 0 .. Range32 - 1 /\ \E k \in Int : x + 1 = k * Range32 + y
  BY <1>1
<1>3. PICK k \in Int : x + 1 = k * Range32 + y
  BY <1>2
<1> HIDE DEF y
<1>4. \A i \in Int, z \in 0 .. Range32 - 1 : (i * Range32 + z) % Range32 = z
  BY <1>1
<1>5. CASE y > 0
  <2>1. y - 1 \in 0 .. Range32 - 1 /\ x = k * Range32 + (y - 1) /\ y - 1 = 0 * Range32 + (y - 1)
    BY <1>1, <1>2, <1>3, <1>5
  <2>2. x % Range32 = y - 1 /\ (y - 1) % Range32 = y - 1
    BY <1>4, <2>1, 0 \in Int
  <2> QED
    BY <2>2 DEF y
<1>6. CASE y = 0
  <2> DEFINE top == Range32 - 1
  <2>1. /\ top \in 0 .. Range32 - 1
        /\ x = (k - 1) * Range32 + top
        /\ y - 1 = (0 - 1) * Range32 + top
        /\ k - 1 \in Int /\ 0 - 1 \in Int
    BY <1>1, <1>3, <1>6
  <2> HIDE DEF top
  <2>2. x % Range32 = top /\ (y - 1) % Range32 = top
    BY <1>4, <2>1
  <2> QED
    BY <2>2 DEF y
<1> QED
  BY <1>1, <1>2, <1>5, <1>6
(* The index of the first byte is found, whatever turn it is of. *)
LEMMA IndexFound ==
    ASSUME NEW n, NEW m, NEW start \in Raw, NEW first \in Absolute, NEW pushed \in Absolute,
           2 * Distance(first, pushed) < Range32,
           n.syn_set_, n.initial_seqno_ = start, n.stream_seqno_ = pushed,
           m.SYN \in BOOLEAN,
           m.SYN => first = 0 /\ m.seqno = wrap(0, start),
           ~ m.SYN => m.seqno = wrap(first + 1, start)
    PROVE  StreamIndex(n, m) = first
<1>1. Range32 \in Nat /\ Range32 > 0 /\ start \in Nat /\ first \in Nat
  BY WidthAssumption DEF Raw, Absolute
<1>2. One(n.syn_set_) = 1
  BY DEF One
<1>3. (m.seqno + One(m.SYN) - One(n.syn_set_)) % Range32 = wrap(first, start)
  <2>1. CASE m.SYN
    <3>1. One(m.SYN) = 1 /\ m.seqno = start % Range32 /\ first = 0
      BY <1>1, <2>1 DEF One, wrap
    <3>2. start % Range32 = start
      BY <1>1 DEF Raw
    <3>3. m.seqno + 1 - 1 = start
      BY <1>1, <3>1, <3>2
    <3>4. m.seqno + One(m.SYN) - One(n.syn_set_) = start
      BY <1>2, <3>1, <3>3, Zenon
    <3>5. wrap(first, start) = start
      BY <1>1, <3>1, <3>2 DEF wrap
    <3> QED
      BY <3>2, <3>4, <3>5, Zenon
  <2>2. CASE ~ m.SYN
    <3> DEFINE x == start + first
               y == (x + 1) % Range32
    <3>1. One(m.SYN) = 0 /\ m.seqno = y
      <4>1. start + (first + 1) = x + 1
        BY <1>1
      <4>2. m.seqno = (start + (first + 1)) % Range32
        BY <2>2, Zenon DEF wrap
      <4> QED
        BY <2>2, <4>1, <4>2 DEF One
    <3>2. x \in Int /\ y \in Int
      BY <1>1
    <3>3. (y - 1) % Range32 = x % Range32
      BY <3>2, StepBack
    <3> HIDE DEF y
    <3>4. m.seqno + One(m.SYN) - One(n.syn_set_) = y - 1
      <4>1. y + 0 - 1 = y - 1
        BY <3>2
      <4> QED
        BY <1>2, <3>1, <4>1, Zenon
    <3> QED
      BY <3>3, <3>4 DEF wrap
  <2> QED
    BY <2>1, <2>2
<1>4. unwrap(wrap(first, start), start, pushed) = first
  BY WrapRoundTrips, Zenon DEF RoundTrips
<1> QED
  BY <1>3, <1>4, Zenon DEF StreamIndex

(* A segment of the stream arrives: the notes keep agreeing with what the  *)
(* reassembler has written.                                                *)
LEMMA SegmentAgrees ==
    ASSUME Domain, NEW len \in 0 .. MaxLength, NEW start \in Raw, NEW v, Agrees(v, start, len),
           NEW first \in Nat, NEW size \in Nat, first + size <= len,
           NEW m, m.SYN \in BOOLEAN, m.FIN \in BOOLEAN,
           ~ (m.RST \/ Inbound(v).error),
           m.payload = Bytes(first, size),
           m.SYN => first = 0 /\ m.seqno = wrap(0, start),
           ~ m.SYN => m.seqno = wrap(first + 1, start),
           m.FIN => first + size = len,
           2 * Distance(first, v.reassembler.output.pushed) < Range32,
           v.syn_set_ \/ m.SYN,
           first = 0 /\ size = 0 /\ len > 0 /\ v.reassembler.output.pushed = 0 =>
              ~ v.reassembler.finish /\ DOMAIN v.reassembler.cache = {}
    PROVE  Agrees(receive(v, m), start, len)
<1> DEFINE r == v.reassembler
           n == NoteFlags(v, m)
           t == insert(r, first, Bytes(first, size), m.FIN)
           u == NoteProgress([n EXCEPT !.reassembler = t])
<1>1. /\ IsReceiver(v)
      /\ IsSound(r, len)
      /\ r.output.capacity = Capacity
      /\ v.stream_seqno_ = r.output.pushed
      /\ v.syn_set_ => v.initial_seqno_ = start
      /\ r.finish => v.fin_set_
      /\ r.output.closed => r.finish /\ r.output.pushed = len
      /\ v.RST_ => r.output.error
  BY Zenon DEF Agrees
<1>2. Noted(n, v, m)
  BY <1>1, FlagsNoted
<1> HIDE DEF n
<1>3. /\ n.syn_set_
      /\ n.initial_seqno_ = start
      /\ n.stream_seqno_ = r.output.pushed
      /\ n.reassembler = r
      /\ IsReceiver(n)
  <2>1. wrap(0, start) = start
    BY WidthAssumption DEF wrap, Raw
  <2> QED
    BY <1>1, <1>2, <2>1, Zenon DEF Noted
<1>4. /\ len \in Nat /\ first \in Absolute /\ r.output.pushed \in Absolute
      /\ FitsInt(len, Capacity) /\ Capacity \in Nat /\ Capacity >= 1
  <2>1. MaxLength \in Nat /\ Capacity \in Nat /\ Capacity >= 1 /\ len \in Nat
    BY ReceiverAssumption
  <2>2. FitsInt(len, Capacity)
    BY <2>1, ShorterFits DEF Domain
  <2>3. r.output.pushed \in Nat /\ r.output.pushed <= len
    BY <1>1, <2>1, SoundNumbers
  <2>4. len < Range64
    BY <2>1, <2>2, IndexThroughInt, IntAssumption, WidthAssumption DEF FitsInt
  <2> QED
    BY <2>1, <2>2, <2>3, <2>4, WidthAssumption DEF Absolute
<1>5. StreamIndex(n, m) = first
  BY <1>3, <1>4, IndexFound, Zenon
<1>6. receive(v, m) = u
  BY <1>3, <1>5, Zenon DEF receive, n
<1>7. Inserted(t, r, first, size, m.FIN, len)
  BY <1>1, <1>4, InsertEffect
<1> HIDE DEF t
<1>8. Progressed(u, n, t)
  BY <1>3, ProgressNoted
<1> HIDE DEF u
<1>9. /\ IsSound(t, len)
      /\ t.output.capacity = Capacity
      /\ t.finish => r.finish \/ m.FIN
      /\ r.finish => t.finish
      /\ t.output.error <=> r.output.error
      /\ t.output.closed => r.output.closed \/ (t.finish /\ t.output.pushed = len)
  BY <1>1, <1>7, Zenon DEF Inserted
<1>10. t.output.pushed \in Nat /\ t.output.pushed <= len /\ r.output.pushed <= t.output.pushed
  BY <1>1, <1>4, <1>7, <1>9, PushedGrows, SoundNumbers
<1>11. t.finish => u.fin_set_
  BY <1>1, <1>2, <1>3, <1>8, <1>9, Zenon DEF Noted, Progressed
<1>12. t.output.closed => t.finish /\ t.output.pushed = len
  <2>1. r.output.pushed = len => t.output.pushed = len
    BY <1>4, <1>10
  <2> QED
    BY <1>1, <1>9, <2>1, Zenon
<1>13. u.ackno_ = wrap(1 + t.output.pushed + One(t.output.closed), start)
  <2>1. One(n.syn_set_) = 1
    BY <1>3 DEF One
  <2>2. n.fin_set_ <=> u.fin_set_
    BY <1>8, Zenon DEF Progressed
  <2>3. One(t.output.closed /\ n.fin_set_) = One(t.output.closed)
    BY <1>11, <1>12, <2>2, Zenon DEF One
  <2>4. One(t.output.closed) \in Nat
    BY DEF One
  <2>5. t.output.pushed + 1 + One(t.output.closed) = 1 + t.output.pushed + One(t.output.closed)
    BY <1>10, <2>4
  <2>6. u.ackno_ = wrap(t.output.pushed + 1 + One(t.output.closed), start)
    BY <1>3, <1>8, <2>1, <2>3, Zenon DEF Progressed
  <2> QED
    BY <2>5, <2>6
<1>14. u.RST_ => t.output.error
  BY <1>1, <1>2, <1>8, <1>9, Zenon DEF Noted, Progressed
<1>15. /\ u.reassembler = t /\ u.initial_seqno_ = start /\ IsReceiver(u)
       /\ u.stream_seqno_ = t.output.pushed
  BY <1>3, <1>8, Zenon DEF Progressed
<1>16. Agrees(u, start, len)
  BY <1>9, <1>11, <1>12, <1>13, <1>14, <1>15, Zenon DEF Agrees
<1> QED
  BY <1>6, <1>16
(* n is v with its reassembler replaced by r; the flag RST_ may be raised.  *)
Rebuilt(n, v, r) ==
    /\ IsReceiver(n)
    /\ n.reassembler = r
    /\ n.initial_seqno_ = v.initial_seqno_
    /\ n.syn_set_ <=> v.syn_set_
    /\ n.fin_set_ <=> v.fin_set_
    /\ n.ackno_ = v.ackno_
    /\ n.stream_seqno_ = v.stream_seqno_
    /\ n.RST_ => v.RST_ \/ r.output.error

(* Exchanging the reassembler leaves the other fields alone.               *)
LEMMA ReassemblerRebuilt ==
    ASSUME NEW v, IsReceiver(v), NEW r
    PROVE  Rebuilt([v EXCEPT !.reassembler = r], v, r)
<1> DEFINE n == [v EXCEPT !.reassembler = r]
<1>1. /\ DOMAIN v = ReceiverFields
      /\ v.syn_set_ \in BOOLEAN /\ v.fin_set_ \in BOOLEAN /\ v.RST_ \in BOOLEAN
  BY DEF IsReceiver
<1>2. /\ DOMAIN n = ReceiverFields
      /\ n.reassembler = r
      /\ n.initial_seqno_ = v.initial_seqno_
      /\ n.syn_set_ = v.syn_set_
      /\ n.fin_set_ = v.fin_set_
      /\ n.ackno_ = v.ackno_
      /\ n.stream_seqno_ = v.stream_seqno_
      /\ n.RST_ = v.RST_
  BY <1>1 DEF ReceiverFields
<1> HIDE DEF n
<1>3. Rebuilt(n, v, r)
  BY <1>1, <1>2, Zenon DEF Rebuilt, IsReceiver
<1> QED
  BY <1>3 DEF n

(* The notes agree with a reassembler whose stream holds the same bytes,   *)
(* is open or closed as it was, and has failed at least if it had.         *)
LEMMA RebuiltAgrees ==
    ASSUME NEW len, NEW start, NEW v, Agrees(v, start, len), NEW n, NEW r, Rebuilt(n, v, r),
           IsSound(r, len),
           IsReassembler(r, r.output, v.reassembler.cache, v.reassembler.finish,
                         v.reassembler.finish_set, FALSE),
           r.output.capacity = v.reassembler.output.capacity,
           r.output.pushed = v.reassembler.output.pushed,
           r.output.closed = v.reassembler.output.closed,
           v.reassembler.output.error => r.output.error
    PROVE  Agrees(n, start, len)
<1>1. r.finish = v.reassembler.finish
  BY Zenon DEF IsReassembler
<1>2. n.reassembler = r /\ (n.RST_ => r.output.error)
  BY Zenon DEF Rebuilt, Agrees
<1>3. r.finish => n.fin_set_
  BY <1>1, Zenon DEF Rebuilt, Agrees
<1>4. r.output.closed => r.finish /\ r.output.pushed = len
  BY <1>1, Zenon DEF Agrees
<1>5. n.syn_set_ => /\ n.initial_seqno_ = start
                    /\ n.ackno_ = wrap(1 + r.output.pushed + One(r.output.closed), start)
  BY Zenon DEF Rebuilt, Agrees
<1>6. IsReceiver(n) /\ n.stream_seqno_ = r.output.pushed /\ r.output.capacity = Capacity
  BY Zenon DEF Rebuilt, Agrees
<1> QED
  BY <1>2, <1>3, <1>4, <1>5, <1>6, Zenon DEF Agrees
(* A reset, or a segment that arrives after an error. *)
LEMMA ResetAgrees ==
    ASSUME NEW len \in Nat, NEW start, NEW v, Agrees(v, start, len)
    PROVE  /\ Agrees(Reset(v), start, len)
           /\ Reset(v).reassembler.output.error = TRUE
           /\ Reset(v).reassembler.output.pushed = v.reassembler.output.pushed
<1> DEFINE r == [v.reassembler EXCEPT !.output = SetErrorOf(@)]
           n == Reset(v)
<1>1. IsReceiver(v) /\ IsSound(v.reassembler, len)
  BY Zenon DEF Agrees
<1>2. Stopped(n, v)
  BY <1>1, ResetStops
<1>3. Failed(r, v.reassembler, len)
  BY <1>1, ErrorEffect
<1>4. n.reassembler = r
  BY <1>2, Zenon DEF Stopped
<1> HIDE DEF n, r
<1>5. /\ IsSound(r, len)
      /\ IsReassembler(r, r.output, v.reassembler.cache, v.reassembler.finish,
                       v.reassembler.finish_set, FALSE)
      /\ r.output.capacity = v.reassembler.output.capacity
      /\ r.output.pushed = v.reassembler.output.pushed
      /\ r.output.closed = v.reassembler.output.closed
      /\ r.output.error = TRUE
  BY <1>3, Zenon DEF Failed
<1>6. Rebuilt(n, v, r)
  BY <1>2, <1>4, <1>5, Zenon DEF Stopped, Rebuilt
<1>7. Agrees(n, start, len)
  BY <1>5, <1>6, RebuiltAgrees, Zenon
<1> QED
  BY <1>4, <1>5, <1>7, Zenon DEF n

(* n is what becomes of v: its notes agree, and an error is final. *)
Kept(n, v, start, len) ==
    /\ Agrees(n, start, len)
    /\ v.reassembler.output.error =>
          /\ n.reassembler.output.error = TRUE
          /\ n.reassembler.output.pushed = v.reassembler.output.pushed

(* The owner of the connection aborts it. *)
LEMMA ErrorAgrees ==
    ASSUME NEW len \in Nat, NEW start, NEW v, Agrees(v, start, len)
    PROVE  Kept([v EXCEPT !.reassembler.output = SetErrorOf(@)], v, start, len)
<1> DEFINE r == [v.reassembler EXCEPT !.output = SetErrorOf(@)]
           n == [v EXCEPT !.reassembler = r]
<1>1. IsReceiver(v) /\ IsSound(v.reassembler, len)
  BY Zenon DEF Agrees
<1>2. Rebuilt(n, v, r)
  BY <1>1, ReassemblerRebuilt
<1>3. Failed(r, v.reassembler, len)
  BY <1>1, ErrorEffect
<1>4. [v EXCEPT !.reassembler.output = SetErrorOf(@)] = n
  OBVIOUS
<1> HIDE DEF n, r
<1>5. /\ IsSound(r, len)
      /\ IsReassembler(r, r.output, v.reassembler.cache, v.reassembler.finish,
                       v.reassembler.finish_set, FALSE)
      /\ r.output.capacity = v.reassembler.output.capacity
      /\ r.output.pushed = v.reassembler.output.pushed
      /\ r.output.closed = v.reassembler.output.closed
      /\ r.output.error = TRUE
  BY <1>3, Zenon DEF Failed
<1>6. Agrees(n, start, len)
  BY <1>2, <1>5, RebuiltAgrees, Zenon
<1>7. n.reassembler = r
  BY <1>2, Zenon DEF Rebuilt
<1>8. v.reassembler.output.error \in BOOLEAN
  BY <1>1 DEF IsSound, StreamOf
<1>9. Kept(n, v, start, len)
  BY <1>5, <1>6, <1>7, <1>8, Zenon DEF Kept
<1> QED
  BY <1>4, <1>9, Zenon

(* The application reads. *)
LEMMA PopAgrees ==
    ASSUME NEW len \in Nat, NEW start, NEW v, Agrees(v, start, len), NEW size \in Nat
    PROVE  Kept([v EXCEPT !.reassembler.output = PopFrom(@, size)], v, start, len)
<1> DEFINE r == [v.reassembler EXCEPT !.output = PopFrom(@, size)]
           n == [v EXCEPT !.reassembler = r]
<1>1. IsReceiver(v) /\ IsSound(v.reassembler, len)
  BY Zenon DEF Agrees
<1>2. Rebuilt(n, v, r)
  BY <1>1, ReassemblerRebuilt
<1>3. Popped(r, v.reassembler, size, len)
  BY <1>1, PopEffect
<1>4. [v EXCEPT !.reassembler.output = PopFrom(@, size)] = n
  OBVIOUS
<1> HIDE DEF n, r
<1>5. /\ IsSound(r, len)
      /\ IsReassembler(r, r.output, v.reassembler.cache, v.reassembler.finish,
                       v.reassembler.finish_set, FALSE)
      /\ r.output.capacity = v.reassembler.output.capacity
      /\ r.output.pushed = v.reassembler.output.pushed
      /\ r.output.closed = v.reassembler.output.closed
      /\ r.output.error = v.reassembler.output.error
  BY <1>3, Zenon DEF Popped
<1>6. Agrees(n, start, len)
  BY <1>2, <1>5, RebuiltAgrees, Zenon
<1>7. n.reassembler = r
  BY <1>2, Zenon DEF Rebuilt
<1>8. v.reassembler.output.error \in BOOLEAN
  BY <1>1 DEF IsSound, StreamOf
<1>9. Kept(n, v, start, len)
  BY <1>5, <1>6, <1>7, <1>8, Zenon DEF Kept
<1> QED
  BY <1>4, <1>9, Zenon
(* A constructed receiver satisfies the invariant.                         *)
LEMMA InitIInv == Init => IInv
<1> SUFFICES ASSUME Init PROVE IInv
  OBVIOUS
<1> DEFINE o == NewStream(Capacity)
           r == NewReassembler(o)
           v == receiver
<1>1. isn \in Raw /\ length \in 0 .. MaxLength /\ length \in Nat
  BY ReceiverAssumption DEF Init
<1>2. /\ DOMAIN v = ReceiverFields /\ v.reassembler = r
      /\ v.syn_set_ = FALSE /\ v.fin_set_ = FALSE /\ v.RST_ = FALSE /\ v.stream_seqno_ = 0
  BY DEF Init, NewReceiver, ReceiverFields
<1>3. /\ o.capacity = Capacity /\ o.queue = << >> /\ o.pushed = 0 /\ o.popped = 0
      /\ o.closed = FALSE /\ o \in StreamOf(Nat) /\ Capacity \in Nat
  BY ReceiverAssumption DEF NewStream, StreamOf
<1> HIDE DEF o
<1>4. /\ r.output = o /\ r.cache = << >> /\ r.finish = FALSE
      /\ IsReassembler(r, r.output, r.cache, r.finish, r.finish_set, FALSE)
  BY DEF NewReassembler, IsReassembler
<1> HIDE DEF r, v
<1>5. IsReceiver(v)
  BY <1>2, Zenon DEF IsReceiver
<1>6. IsSound(r, length)
  BY <1>1, <1>3, <1>4, EmptyIsSound
<1>7. Agrees(v, isn, length)
  BY <1>2, <1>3, <1>4, <1>5, <1>6, Zenon DEF Agrees
<1> QED
  BY <1>1, <1>7 DEF IInv, v
(* A segment arrives, before or after an error. *)
LEMMA ArriveAgrees ==
    ASSUME Domain, IInv, NEW first \in 0 .. length, NEW size \in 0 .. MaxSegment,
           NEW syn \in BOOLEAN, NEW fin \in BOOLEAN,
           CanBeSent(first, size, syn, fin), Lives(first), receiver.syn_set_ \/ syn,
           ~ Overtaken(first, size), Arrive(first, size, syn, fin)
    PROVE  /\ Agrees(receiver', isn, length)
           /\ output.error => /\ receiver'.reassembler.output.error = TRUE
                              /\ receiver'.reassembler.output.pushed = output.pushed
<1> DEFINE m == Segment(first, size, syn, fin)
<1>1. /\ isn \in Raw /\ length \in 0 .. MaxLength /\ length \in Nat /\ first \in Nat /\ size \in Nat
      /\ Agrees(receiver, isn, length)
  BY ReceiverAssumption DEF IInv
<1>2. receiver' = receive(receiver, m)
  BY DEF Arrive
<1>3. /\ m.SYN = syn /\ m.FIN = fin /\ m.RST = FALSE
      /\ m.payload = Bytes(first, size)
      /\ syn => m.seqno = wrap(0, isn)
      /\ ~ syn => m.seqno = wrap(first + 1, isn)
  BY SubstringIsBytes DEF Segment
<1> HIDE DEF m
<1>4. CASE Inbound(receiver).error
  <2>1. receive(receiver, m) = Reset(receiver)
    BY <1>4, Zenon DEF receive
  <2>2. output = receiver.reassembler.output
    BY Zenon DEF output, Inbound
  <2> QED
    BY <1>1, <1>2, <2>1, <2>2, ResetAgrees, Zenon
<1>5. CASE ~ Inbound(receiver).error
  <2>1. /\ first + size <= length
        /\ syn => first = 0
        /\ fin => first + size = length
        /\ 2 * Distance(first, receiver.reassembler.output.pushed) < Range32
        /\ first = 0 /\ size = 0 /\ length > 0 /\ receiver.reassembler.output.pushed = 0 =>
              ~ receiver.reassembler.finish /\ DOMAIN receiver.reassembler.cache = {}
    BY Zenon DEF CanBeSent, Lives, Overtaken, output, Inbound, IsEmpty
  <2>2. /\ m.SYN \in BOOLEAN /\ m.FIN \in BOOLEAN
        /\ ~ (m.RST \/ Inbound(receiver).error)
        /\ m.SYN => first = 0 /\ m.seqno = wrap(0, isn)
        /\ ~ m.SYN => m.seqno = wrap(first + 1, isn)
        /\ m.FIN => first + size = length
        /\ receiver.syn_set_ \/ m.SYN
    BY <1>3, <1>5, <2>1, Zenon
  <2>3. Agrees(receive(receiver, m), isn, length)
    BY <1>1, <1>3, <2>1, <2>2, SegmentAgrees
  <2> QED
    BY <1>2, <1>5, <2>3, Zenon DEF output
<1> QED
  BY <1>4, <1>5

(* Every step keeps the notes in agreement, and an error is final.         *)
LEMMA StepAgrees ==
    ASSUME Domain, IInv, Next
    PROVE  /\ Agrees(receiver', isn, length)
           /\ isn' = isn /\ length' = length
           /\ output.error => /\ receiver'.reassembler.output.error = TRUE
                              /\ receiver'.reassembler.output.pushed = output.pushed
<1> DEFINE w == receiver'
<1>1. Agrees(receiver, isn, length) /\ length \in Nat /\ output = receiver.reassembler.output
  BY ReceiverAssumption DEF IInv, output, Inbound
<1>2. ASSUME NEW first \in 0 .. length, NEW size \in 0 .. MaxSegment,
             NEW syn \in BOOLEAN, NEW fin \in BOOLEAN,
             CanBeSent(first, size, syn, fin), Lives(first), receiver.syn_set_ \/ syn,
             ~ Overtaken(first, size), Arrive(first, size, syn, fin)
      PROVE  /\ Agrees(w, isn, length)
             /\ isn' = isn /\ length' = length
             /\ output.error => /\ w.reassembler.output.error = TRUE
                                /\ w.reassembler.output.pushed = output.pushed
  BY <1>2, ArriveAgrees, Zenon DEF Arrive
<1>3. CASE ArriveRST
  <2> DEFINE m == [Segment(0, 0, FALSE, FALSE) EXCEPT !.RST = TRUE]
  <2>1. m.RST = TRUE
    BY DEF Segment
  <2>2. receiver' = receive(receiver, m) /\ isn' = isn /\ length' = length
    BY <1>3 DEF ArriveRST
  <2> HIDE DEF m
  <2>3. receiver' = Reset(receiver)
    BY <2>1, <2>2, Zenon DEF receive
  <2> QED
    BY <1>1, <2>2, <2>3, ResetAgrees, Zenon
<1>4. CASE SetError
  <2>1. isn' = isn /\ length' = length
    BY <1>4 DEF SetError
  <2>2. w = [receiver EXCEPT !.reassembler.output = SetErrorOf(@)]
    BY <1>4, Zenon DEF SetError
  <2>3. Kept(w, receiver, isn, length)
    BY <1>1, <2>2, ErrorAgrees, Zenon
  <2> QED
    BY <1>1, <2>1, <2>3, Zenon DEF Kept
<1>5. ASSUME NEW len \in 1 .. Capacity, Pop(len)
      PROVE  /\ Agrees(w, isn, length)
             /\ isn' = isn /\ length' = length
             /\ output.error => /\ w.reassembler.output.error = TRUE
                                /\ w.reassembler.output.pushed = output.pushed
  <2>1. isn' = isn /\ length' = length
    BY <1>5 DEF Pop
  <2>2. w = [receiver EXCEPT !.reassembler.output = PopFrom(@, len)]
    BY <1>5, Zenon DEF Pop
  <2>3. len \in Nat
    BY ReceiverAssumption
  <2>4. Kept(w, receiver, isn, length)
    BY <1>1, <2>2, <2>3, PopAgrees, Zenon
  <2> HIDE DEF w
  <2> QED
    BY <1>1, <2>1, <2>4, Zenon DEF Kept
<1> QED
  BY <1>2, <1>3, <1>4, <1>5, Zenon DEF Next

(* Every step keeps the invariant.                                         *)
LEMMA NextIInv ==
    ASSUME Domain, IInv, [Next]_vars
    PROVE  IInv'
<1>1. CASE Next
  <2>1. Agrees(receiver', isn', length') /\ isn' = isn /\ length' = length
    BY <1>1, StepAgrees, Zenon
  <2> QED
    BY <2>1 DEF IInv
<1>2. CASE UNCHANGED vars
  BY <1>2 DEF vars, IInv
<1> QED
  BY <1>1, <1>2

(* The receiver's notes always agree with what its reassembler has written *)
(* of the peer's stream: the invariant the other theorems rest on.         *)
THEOREM Invariance ==
    ASSUME Domain
    PROVE  Spec => []IInv
<1>1. IInv /\ [Next]_vars => IInv'
  BY NextIInv
<1> QED
  BY <1>1, InitIInv, PTL DEF Spec
-----------------------------------------------------------------------------
(* Sequence numbers wrap, segments repeat and overlap: the application     *)
(* reads the peer's bytes in order, each once, and the end of the stream   *)
(* only behind the last of them.                                           *)
THEOREM ReaderGetsOriginal ==
    ASSUME Domain
    PROVE  Spec => []OutputIsOriginal
<1>1. IInv => OutputIsOriginal
  <2> SUFFICES ASSUME IInv PROVE OutputIsOriginal
    OBVIOUS
  <2>1. /\ IsSound(receiver.reassembler, length)
        /\ output.closed => output.pushed = length
        /\ output = receiver.reassembler.output
    BY Zenon DEF IInv, Agrees, output, Inbound
  <2>2. ~ receiver.reassembler.thrown
    BY <2>1 DEF IsSound, IsReassembler
  <2>3. /\ output.queue = Bytes(output.popped, Len(output.queue))
        /\ output.popped + Len(output.queue) = output.pushed
    BY <2>1, Zenon DEF IsSound
  <2> QED
    BY <2>1, <2>2, <2>3, SubstringIsBytes, Zenon DEF OutputIsOriginal
<1> QED
  BY <1>1, Invariance, PTL

(* The acknowledgement sent covers the SYN, every byte written and the FIN *)
(* of a closed stream, and nothing else.                                   *)
THEOREM AckCoversProgress ==
    ASSUME Domain
    PROVE  Spec => []AckIsProgress
<1>1. IInv => AckIsProgress
  <2> SUFFICES ASSUME IInv PROVE AckIsProgress
    OBVIOUS
  <2> DEFINE message == send(receiver)
             ack == wrap(1 + output.pushed + One(output.closed), isn)
  <2>1. /\ receiver.syn_set_ => receiver.ackno_ = ack
        /\ output = receiver.reassembler.output
    BY Zenon DEF IInv, Agrees, output, Inbound
  <2>2. /\ receiver.syn_set_ => message.ackno = receiver.ackno_
        /\ ~ receiver.syn_set_ => message.ackno = NoAckno
    BY DEF send
  <2>3. ack # NoAckno
    <3>1. /\ isn \in Int /\ output.pushed \in Nat /\ One(output.closed) \in Nat
          /\ Range32 \in Nat /\ Range32 > 0
      BY <2>1, WidthAssumption DEF IInv, Agrees, IsSound, StreamOf, Raw, One
    <3>2. ack \in 0 .. Range32 - 1
      <4> DEFINE x == isn + (1 + output.pushed + One(output.closed))
      <4>1. x \in Int
        BY <3>1
      <4> HIDE DEF x
      <4>2. x % Range32 \in 0 .. Range32 - 1
        BY <3>1, <4>1
      <4> QED
        BY <4>2, Zenon DEF wrap, x
    <3> HIDE DEF ack
    <3> QED
      BY <3>1, <3>2 DEF NoAckno
  <2> HIDE DEF message, ack
  <2>4. /\ (message.ackno # NoAckno) <=> receiver.syn_set_
        /\ receiver.syn_set_ => message.ackno = ack
    BY <2>1, <2>2, <2>3, Zenon
  <2> QED
    BY <2>4, Zenon DEF AckIsProgress, message, ack
<1> QED
  BY <1>1, Invariance, PTL

(* Whatever lies in the window sent to the peer can be stored.             *)
THEOREM WindowCanBeStored ==
    ASSUME Domain
    PROVE  Spec => []WindowFits
<1>1. IInv => WindowFits
  <2> SUFFICES ASSUME IInv PROVE WindowFits
    OBVIOUS
  <2> DEFINE r == receiver.reassembler
             room == Minus(Range16 - 1, count_bytes_pending(r))
             free == AvailableCapacity(Inbound(receiver))
             size == send(receiver).window_size
  <2>1. /\ IsSound(r, length) /\ output.capacity = Capacity /\ length \in Nat
        /\ output = r.output
    <3>1. length \in Nat
      BY ReceiverAssumption DEF IInv
    <3> QED
      BY <3>1, Zenon DEF IInv, Agrees, output, Inbound
  <2>2. /\ output.pushed \in Nat /\ output.popped \in Nat /\ free \in Nat
        /\ output.pushed + free = output.popped + Capacity
    BY <2>1, SoundNumbers DEF WindowOf, output
  <2>3. count_bytes_pending(r) \in Nat
    <3> DEFINE lo == output.pushed + 1
               hi == AtMost(WindowOf(r), length)
               c == r.cache
    <3>1. IsCache(c, lo, hi)
      BY <2>1, Zenon DEF IsSound
    <3>2. WindowOf(r) \in Nat
      BY <2>1, SoundNumbers DEF WindowOf
    <3>3. lo \in Nat /\ hi \in Nat /\ r.cache = c
      BY <2>1, <2>2, <3>2 DEF AtMost
    <3> HIDE DEF lo, hi, c, r
    <3> QED
      BY <3>1, <3>3, PendingIsNat
  <2>4. room \in Nat
    BY <2>3, WindowAssumption, WidthAssumption DEF Minus
  <2>5. size = AtMost(room, free) % Range16
    BY Zenon DEF send, WindowSize
  <2> HIDE DEF room, free, size
  <2>6. AtMost(room, free) \in Nat /\ AtMost(room, free) <= free
    BY <2>2, <2>4 DEF AtMost
  <2>7. size \in Nat /\ size <= AtMost(room, free)
    <3> DEFINE x == AtMost(room, free)
    <3>1. x \in Nat /\ Range16 \in Nat /\ Range16 > 0
      BY <2>6, WindowAssumption
    <3> HIDE DEF x
    <3>2. x % Range16 \in Nat /\ x % Range16 <= x
      BY <3>1
    <3> QED
      BY <2>5, <3>2 DEF x
  <2>8. output.pushed + size <= output.popped + Capacity
    BY <2>2, <2>6, <2>7, ReceiverAssumption
  <2> QED
    BY <2>8, Zenon DEF WindowFits, size
<1> QED
  BY <1>1, Invariance, PTL

(* After an error or a reset, every message sent says so and nothing more  *)
(* is written.                                                             *)
THEOREM ErrorsAreFinal ==
    ASSUME Domain
    PROVE  Spec => ErrorIsFinal
<1>1. \A v : send(v).RST <=> v.RST_ \/ Inbound(v).error
  BY DEF send
<1>2. IInv => (send(receiver).RST => output.error)
  BY <1>1, Zenon DEF IInv, Agrees, output, Inbound
<1>3. IInv /\ [Next]_vars =>
          [send(receiver).RST => /\ send(receiver)'.RST
                                 /\ output'.pushed = output.pushed]_vars
  <2> SUFFICES ASSUME IInv, Next, send(receiver).RST
               PROVE  send(receiver)'.RST /\ output'.pushed = output.pushed
    BY Zenon
  <2>1. output.error
    BY <1>2
  <2>2. /\ receiver'.reassembler.output.error = TRUE
        /\ receiver'.reassembler.output.pushed = output.pushed
    BY <2>1, StepAgrees, Zenon
  <2>3. output' = receiver'.reassembler.output
    BY DEF output, Inbound
  <2>4. Inbound(receiver').error
    BY <2>2, Zenon DEF Inbound
  <2>5. send(receiver').RST
    BY <1>1, <2>4, Zenon
  <2>6. send(receiver)' = send(receiver')
    BY DEF send, Inbound, WindowSize
  <2> QED
    BY <2>2, <2>3, <2>5, <2>6, Zenon
<1> QED
  BY <1>3, Invariance, PTL DEF Spec, ErrorIsFinal
=============================================================================
