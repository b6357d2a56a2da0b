----------------------- MODULE NetworkInterface_proofs -----------------------
(***************************************************************************)
(* Proofs about the NetworkInterface, for any number of neighbours and     *)
(* datagrams and any times to live.                                        *)
(***************************************************************************)
EXTENDS NetworkInterface, SequenceTheorems, TLAPS

(* i is an interface of these addresses, mappings and requests. *)
IsInterface(i, mappings, requests) ==
    /\ DOMAIN i = {"ethernet_address_", "ip_address_", "arp_cache_",
                   "pending_arp_requests_", "datagrams_received_"}
    /\ i.ethernet_address_ = Me
    /\ i.ip_address_ = MyIP
    /\ i.arp_cache_ = mappings
    /\ i.pending_arp_requests_ = requests

TypeOK ==
    /\ IsInterface(interface, cache, pending)
    /\ handed \in Nat
    /\ hop \in Seq(Neighbours)
    /\ Len(hop) = handed
    /\ heard \in [Neighbours -> [ethernet : Hardware \cup {Broadcast}, age : 0 .. CacheTTL]]
    /\ asked \in [Neighbours -> 0 .. Never]

(* A mapping's time to live and the time since it was announced add up to  *)
(* CacheTTL, however the ticks cut that time.                              *)
CacheClock ==
    \A ip \in DOMAIN cache :
        cache[ip] = [ethernet |-> heard[ip].ethernet, ttl |-> CacheTTL - heard[ip].age]

(* The age of an entry is the time since its neighbour was asked for, and  *)
(* what waits in it has been handed over.                                  *)
PendingClock ==
    /\ DOMAIN pending \subseteq Neighbours
    /\ \A ip \in DOMAIN pending :
          /\ pending[ip] = [dgrams |-> pending[ip].dgrams, age |-> asked[ip]]
          /\ pending[ip].dgrams \in Seq(1 .. handed)
          /\ asked[ip] <= RequestTTL

(* A neighbour that was asked for lately and is waited for no more has     *)
(* answered since then, and its mapping outlives the request.              *)
RecentlyAnswered ==
    \A ip \in Neighbours :
        \/ ip \in DOMAIN pending
        \/ asked[ip] > RequestTTL
        \/ ip \in DOMAIN cache /\ heard[ip].age <= asked[ip]

IInv ==
    /\ TypeOK
    /\ CacheIsFresh
    /\ CacheClock
    /\ PendingClock
    /\ WaitsInOrder
    /\ RecentlyAnswered
-----------------------------------------------------------------------------
(* What waits has been handed over. *)
LEMMA WaitingHanded ==
    ASSUME PendingClock, NEW ip \in DOMAIN pending
    PROVE  LET d == pending[ip].dgrams
           IN  /\ Len(d) \in Nat
               /\ DOMAIN d = 1 .. Len(d)
               /\ \A i \in DOMAIN d : d[i] \in 1 .. handed
<1> DEFINE d == pending[ip].dgrams
<1>1. d \in Seq(1 .. handed)
  BY DEF PendingClock
<1> HIDE DEF d
<1>2. Len(d) \in Nat /\ DOMAIN d = 1 .. Len(d) /\ \A i \in DOMAIN d : d[i] \in 1 .. handed
  BY <1>1, ElementOfSeq, LenProperties
<1> QED
  BY <1>2 DEF d

(* A constructed interface satisfies the invariant.                        *)
LEMMA InitIInv == Init => IInv
  BY NeighbourAssumption, TTLAssumption
  DEF Init, IInv, TypeOK, NewInterface, IsInterface, cache, pending, CacheIsFresh, CacheClock,
      PendingClock, WaitsInOrder, RecentlyAnswered, Never

(* What the operations leave of an interface, and what they return. *)
LEMMA EnqueueFields ==
    ASSUME NEW i, NEW c, NEW p, IsInterface(i, c, p), NEW dgram, NEW ip
    PROVE  IsInterface(Enqueue(i, dgram, ip), c,
                       With(p, ip, [dgrams |-> Append(Waiting(i, ip), dgram),
                                    age |-> IF ip \in DOMAIN p THEN p[ip].age ELSE 0]))
  BY DEF IsInterface, Enqueue

(* recv_arp learns the sender's mapping, forgets the request for it and    *)
(* leaves the rest of the interface alone.                                 *)
LEMMA LearnFields ==
    ASSUME NEW i, NEW c, NEW p, IsInterface(i, c, p), NEW arp
    PROVE  IsInterface(recv_arp(i, arp).interface,
                       With(c, arp.sender_ip_address,
                            [ethernet |-> arp.sender_ethernet_address, ttl |-> CacheTTL]),
                       Without(p, arp.sender_ip_address))
  BY DEF IsInterface, recv_arp

(* tick drops what has run out from both maps and leaves the rest alone.   *)
LEMMA TickFields ==
    ASSUME NEW i, NEW c, NEW p, IsInterface(i, c, p), NEW ms
    PROVE  IsInterface(tick(i, ms), Unexpired(c, ms), StillWaiting(p, ms))
  BY DEF IsInterface, tick

(* The queue of received datagrams is no part of the two maps.             *)
LEMMA DatagramFields ==
    ASSUME NEW i, NEW c, NEW p, IsInterface(i, c, p), NEW x
    PROVE  IsInterface([i EXCEPT !.datagrams_received_ = x], c, p)
  BY DEF IsInterface

(* A datagram for a known address is sent at once and changes nothing; one *)
(* for another address waits behind those for it, and asks if it is alone. *)
LEMMA SendEffect ==
    ASSUME IInv, NEW ip \in Neighbours, SendDatagram(ip)
    PROVE  /\ handed' = handed + 1
           /\ hop' = Append(hop, ip)
           /\ heard' = heard
           /\ IsInterface(interface', cache, pending')
           /\ ip \in DOMAIN cache =>
                 /\ pending' = pending
                 /\ sent' = << IPv4Frame(interface, heard[ip].ethernet, handed + 1) >>
                 /\ asked' = asked
           /\ ip \in DOMAIN pending =>
                 /\ pending' = With(pending, ip,
                                    [dgrams |-> Append(pending[ip].dgrams, handed + 1),
                                     age |-> asked[ip]])
                 /\ sent' = << >>
                 /\ asked' = asked
           /\ ip \notin DOMAIN cache \cup DOMAIN pending =>
                 /\ pending' = With(pending, ip, [dgrams |-> << handed + 1 >>, age |-> 0])
                 /\ sent' = << ARPFrame(interface, "request", Broadcast, ip) >>
                 /\ asked' = [asked EXCEPT ![ip] = 0]
<1> DEFINE step == send_datagram(interface, handed + 1, ip)
<1>1. /\ handed' = handed + 1 /\ hop' = Append(hop, ip) /\ heard' = heard
      /\ interface' = step.interface
      /\ sent' = step.frames
      /\ asked' = [k \in Neighbours |-> IF Requests(sent', k) # {} THEN 0 ELSE asked[k]]
  BY DEF SendDatagram
<1>2. IsInterface(interface, cache, pending) /\ asked \in [Neighbours -> 0 .. Never]
  BY DEF IInv, TypeOK
<1>3. CASE ip \in DOMAIN cache
  <2>1. /\ step.interface = interface
        /\ step.frames = << IPv4Frame(interface, cache[ip].ethernet, handed + 1) >>
    BY <1>3 DEF send_datagram, cache
  <2>2. cache[ip].ethernet = heard[ip].ethernet /\ ip \notin DOMAIN pending
    BY <1>3 DEF IInv, CacheIsFresh, WaitsInOrder
  <2>3. \A k \in Neighbours : Requests(sent', k) = {}
    BY <1>1, <2>1 DEF Requests, IPv4Frame
  <2>4. asked' = asked
    BY <1>1, <1>2, <2>3
  <2>5. pending' = pending /\ interface' = interface
    BY <1>1, <2>1 DEF pending
  <2> QED
    BY <1>1, <1>2, <1>3, <2>1, <2>2, <2>4, <2>5
<1>4. CASE ip \notin DOMAIN cache
  <2>1. /\ step.interface = Enqueue(interface, handed + 1, ip)
        /\ step.frames = IF MustAsk(interface, ip)
                           THEN << ARPFrame(interface, "request", Broadcast, ip) >>
                           ELSE << >>
    BY <1>4 DEF send_datagram, cache
  <2> DEFINE requests == With(pending, ip,
                 [dgrams |-> Append(Waiting(interface, ip), handed + 1),
                  age |-> IF ip \in DOMAIN pending THEN pending[ip].age ELSE 0])
  <2>2. IsInterface(interface', cache, requests)
    BY <1>1, <1>2, <2>1, EnqueueFields
  <2>3. pending' = requests
    BY <2>2 DEF IsInterface, pending
  <2>4. CASE ip \in DOMAIN pending
    <3>1. pending[ip].age = asked[ip] /\ asked[ip] <= RequestTTL
      BY <2>4 DEF IInv, PendingClock
    <3>2. Waiting(interface, ip) = pending[ip].dgrams
      BY <2>4 DEF Waiting, pending
    <3>3. ~ MustAsk(interface, ip)
      BY <1>2, <2>4, <3>1, TTLAssumption DEF MustAsk, pending, PendingClock, IInv, Never
    <3>4. sent' = << >>
      BY <1>1, <2>1, <3>3
    <3>5. asked' = asked
      BY <1>1, <1>2, <3>4 DEF Requests
    <3> QED
      BY <1>1, <1>4, <2>2, <2>3, <2>4, <3>1, <3>2, <3>4, <3>5
  <2>5. CASE ip \notin DOMAIN pending
    <3>1. Append(Waiting(interface, ip), handed + 1) = << handed + 1 >>
      BY <2>5 DEF Waiting, pending, IInv, TypeOK
    <3>2. sent' = << ARPFrame(interface, "request", Broadcast, ip) >>
      BY <1>1, <2>1, <2>5 DEF MustAsk, pending
    <3>3. \A k \in Neighbours : Requests(sent', k) # {} <=> k = ip
      BY <3>2 DEF Requests, ARPFrame
    <3>4. asked' = [asked EXCEPT ![ip] = 0]
      BY <1>1, <1>2, <3>3
    <3> QED
      BY <1>1, <1>4, <2>2, <2>3, <2>5, <3>1, <3>2, <3>4
  <2> QED
    BY <2>4, <2>5
<1> QED
  BY <1>3, <1>4

(* An ARP message teaches its sender's address; what waited for it goes    *)
(* out, behind the answer if there is one.                                 *)
Released(ip, ethernet) ==
    [i \in DOMAIN Waiting(interface, ip) |->
        IPv4Frame(interface, ethernet, Waiting(interface, ip)[i])]

(* What an ARP message changes, and that what it has transmitted ends with *)
(* what was waiting for its sender.                                        *)
LEMMA ARPEffect ==
    ASSUME IInv, NEW opcode, NEW ip \in Neighbours, NEW ethernet, NEW target, NEW dst,
           RecvARP(opcode, ip, ethernet, target, dst)
    PROVE  /\ UNCHANGED <<handed, hop, asked>>
           /\ heard' = [heard EXCEPT ![ip] = [ethernet |-> ethernet, age |-> 0]]
           /\ IsInterface(interface', cache', pending')
           /\ cache' = With(cache, ip, [ethernet |-> ethernet, ttl |-> CacheTTL])
           /\ pending' = Without(pending, ip)
           /\ \/ sent' = Released(ip, ethernet)
              \/ sent' = << ARPFrame(interface, "reply", ethernet, ip) >> \o Released(ip, ethernet)
<1> DEFINE arp   == [opcode |-> opcode, sender_ethernet_address |-> ethernet,
                     sender_ip_address |-> ip, target_ip_address |-> target]
           frame == [type |-> "ARP", src |-> ethernet, dst |-> dst, payload |-> arp]
<1>1. RecvFrame(frame) /\ heard' = [heard EXCEPT ![ip] = [ethernet |-> ethernet, age |-> 0]]
  BY DEF RecvARP
<1>2. frame.type = "ARP" /\ frame.payload = arp
  OBVIOUS
<1> HIDE DEF frame
<1>3. recv_frame(interface, frame) = recv_arp(interface, arp)
  BY <1>2 DEF recv_frame, NotForUs
<1>4. /\ interface' = recv_arp(interface, arp).interface
      /\ sent' = recv_arp(interface, arp).frames
      /\ UNCHANGED <<handed, hop, asked>>
  BY <1>1, <1>3 DEF RecvFrame
<1>5. arp.sender_ip_address = ip /\ arp.sender_ethernet_address = ethernet
  OBVIOUS
<1> HIDE DEF arp
<1>6. IsInterface(interface, cache, pending)
  BY DEF IInv, TypeOK
<1>7. IsInterface(interface', With(cache, ip, [ethernet |-> ethernet, ttl |-> CacheTTL]),
                  Without(pending, ip))
  BY <1>4, <1>5, <1>6, LearnFields
<1>8. cache' = With(cache, ip, [ethernet |-> ethernet, ttl |-> CacheTTL])
      /\ pending' = Without(pending, ip)
  BY <1>7 DEF IsInterface, cache, pending
<1>9. sent' = Answer(interface, arp) \o Released(ip, ethernet)
  BY <1>4, <1>5 DEF recv_arp, Released
<1>10. Answer(interface, arp) \in {<< >>, << ARPFrame(interface, "reply", ethernet, ip) >>}
  BY <1>5 DEF Answer
<1>11. Released(ip, ethernet) \in Seq({Released(ip, ethernet)[i] :
                                          i \in DOMAIN Waiting(interface, ip)})
  <2>1. Waiting(interface, ip) = << >> \/ Waiting(interface, ip) \in Seq(1 .. handed)
    BY DEF Waiting, IInv, PendingClock, pending
  <2> QED
    BY <2>1 DEF Released
<1>12. << >> \o Released(ip, ethernet) = Released(ip, ethernet)
  BY <1>11
<1> QED
  BY <1>1, <1>4, <1>7, <1>8, <1>9, <1>10, <1>12

(* The frames of such a step: n answers, then the datagrams d that waited, *)
(* in order and each in one frame.                                         *)
AreFrames(frames, n, d, ethernet) ==
    /\ Len(d) \in Nat
    /\ DOMAIN d = 1 .. Len(d)
    /\ DOMAIN frames = 1 .. n + Len(d)
    /\ \A i \in 1 .. n : frames[i].type = "ARP" /\ frames[i].payload.opcode = "reply"
    /\ \A i \in 1 .. Len(d) : /\ frames[n + i].type = "IPv4"
                              /\ frames[n + i].dst = ethernet
                              /\ frames[n + i].payload = d[i]

(* What an ARP message has transmitted is what was waiting for its sender, *)
(* in order and to the address announced, after at most one reply.         *)
LEMMA FramesOfARP ==
    ASSUME IInv, NEW opcode, NEW ip \in Neighbours, NEW ethernet, NEW target, NEW dst,
           RecvARP(opcode, ip, ethernet, target, dst)
    PROVE  \E n \in {0, 1} : AreFrames(sent', n, Waiting(interface, ip), ethernet)
<1> DEFINE d == Waiting(interface, ip)
           out == Released(ip, ethernet)
           reply == ARPFrame(interface, "reply", ethernet, ip)
<1>1. Len(d) \in Nat /\ DOMAIN d = 1 .. Len(d)
  <2>1. d = << >> \/ (ip \in DOMAIN pending /\ d = pending[ip].dgrams)
    BY DEF Waiting, pending
  <2> QED
    BY <2>1, WaitingHanded DEF IInv
<1>2. /\ out = [i \in 1 .. Len(d) |-> IPv4Frame(interface, ethernet, d[i])]
      /\ \A i \in 1 .. Len(d) : /\ out[i].type = "IPv4"
                                /\ out[i].dst = ethernet
                                /\ out[i].payload = d[i]
  BY <1>1 DEF Released, IPv4Frame
<1>3. /\ reply.type = "ARP"
      /\ reply.payload.opcode = "reply"
  BY DEF ARPFrame
<1> DEFINE F == {reply} \cup {out[i] : i \in 1 .. Len(d)}
<1>4. out \in Seq(F) /\ << reply >> \in Seq(F) /\ Len(out) = Len(d)
  BY <1>1, <1>2
<1> HIDE DEF d, out, reply, F
<1>5. LET s == << reply >> \o out
      IN  /\ DOMAIN s = 1 .. 1 + Len(d)
          /\ s[1] = reply
          /\ \A i \in 1 .. Len(d) : s[1 + i] = out[i]
  BY <1>1, <1>4
<1>6. CASE sent' = out
  <2>1. AreFrames(sent', 0, d, ethernet)
    BY <1>1, <1>2, <1>6 DEF AreFrames
  <2> QED
    BY <2>1 DEF d
<1>7. CASE sent' = << reply >> \o out
  <2>1. AreFrames(sent', 1, d, ethernet)
    BY <1>1, <1>2, <1>3, <1>5, <1>7 DEF AreFrames
  <2> QED
    BY <2>1 DEF d
<1> QED
  BY <1>6, <1>7, ARPEffect DEF out, reply

(* Time passes for the mappings, the requests and their clocks alike. *)
LEMMA TickEffect ==
    ASSUME IInv, NEW ms, Tick(ms)
    PROVE  /\ UNCHANGED <<handed, hop>>
           /\ sent' = << >>
           /\ heard' = [ip \in Neighbours |->
                           [heard[ip] EXCEPT !.age = UpTo(@ + ms, CacheTTL)]]
           /\ asked' = [ip \in Neighbours |-> UpTo(asked[ip] + ms, Never)]
           /\ IsInterface(interface', cache', pending')
           /\ cache' = Unexpired(cache, ms)
           /\ pending' = StillWaiting(pending, ms)
<1>1. IsInterface(interface, cache, pending)
  BY DEF IInv, TypeOK
<1>2. IsInterface(interface', Unexpired(cache, ms), StillWaiting(pending, ms))
  BY <1>1, TickFields DEF Tick
<1> QED
  BY <1>2 DEF Tick, IsInterface, cache, pending
-----------------------------------------------------------------------------
(* send_datagram keeps the invariant, in each of its three cases.          *)
LEMMA SendIInv ==
    ASSUME IInv, NEW ip \in Neighbours, SendDatagram(ip)
    PROVE  IInv'
<1>1. /\ handed' = handed + 1 /\ hop' = Append(hop, ip) /\ heard' = heard
      /\ IsInterface(interface', cache, pending')
  BY SendEffect
<1>2. cache' = cache
  BY <1>1 DEF IsInterface, cache
<1>3. /\ handed \in Nat /\ hop \in Seq(Neighbours) /\ Len(hop) = handed
      /\ asked \in [Neighbours -> 0 .. Never]
      /\ RequestTTL \in Nat
  BY TTLAssumption DEF IInv, TypeOK
<1>4. asked' \in [Neighbours -> 0 .. Never]
  <2>1. 0 \in 0 .. Never
    BY <1>3 DEF Never
  <2> QED
    BY <1>3, <2>1, SendEffect
<1>5. TypeOK'
  BY <1>1, <1>2, <1>3, <1>4 DEF IInv, TypeOK
<1>6. CacheIsFresh' /\ CacheClock'
  BY <1>1, <1>2 DEF IInv, CacheIsFresh, CacheClock
<1>7. \A i \in 1 .. handed : hop'[i] = hop[i]
  BY <1>1, <1>3
<1>8. hop'[handed + 1] = ip
  BY <1>1, <1>3
<1>9. \A d \in Seq(1 .. handed) :
         /\ d \in Seq(1 .. handed')
         /\ Append(d, handed + 1) \in Seq(1 .. handed')
         /\ DOMAIN Append(d, handed + 1) = 1 .. Len(d) + 1
         /\ \A i \in 1 .. Len(d) : Append(d, handed + 1)[i] = d[i]
         /\ Append(d, handed + 1)[Len(d) + 1] = handed + 1
  BY <1>1, <1>3
<1>10. CASE ip \in DOMAIN cache
  <2>1. pending' = pending /\ asked' = asked
    BY <1>10, SendEffect
  <2>2. PendingClock' /\ RecentlyAnswered'
    BY <1>1, <1>2, <1>9, <2>1 DEF IInv, PendingClock, RecentlyAnswered
  <2>3. \A k \in DOMAIN pending : \A i \in DOMAIN pending[k].dgrams :
           pending[k].dgrams[i] \in 1 .. handed
    BY WaitingHanded DEF IInv
  <2>4. WaitsInOrder'
    BY <1>2, <1>7, <2>1, <2>3 DEF IInv, WaitsInOrder
  <2> QED
    BY <1>5, <1>6, <2>2, <2>4 DEF IInv
<1>11. CASE ip \in DOMAIN pending
  <2> DEFINE d == pending[ip].dgrams
  <2>1. /\ pending' = With(pending, ip, [dgrams |-> Append(d, handed + 1), age |-> asked[ip]])
        /\ asked' = asked
    BY <1>11, SendEffect
  <2>2. d \in Seq(1 .. handed) /\ asked[ip] <= RequestTTL
    BY <1>11 DEF IInv, PendingClock
  <2>3. PendingClock' /\ RecentlyAnswered'
    BY <1>1, <1>2, <1>9, <2>1, <2>2 DEF IInv, PendingClock, RecentlyAnswered, With
  <2>4. ASSUME NEW k \in DOMAIN pending, k # ip
        PROVE  /\ pending'[k] = pending[k]
               /\ pending[k].dgrams # << >>
               /\ k \notin DOMAIN cache
               /\ \A i \in DOMAIN pending[k].dgrams : hop'[pending[k].dgrams[i]] = k
               /\ \A i, j \in DOMAIN pending[k].dgrams :
                     i < j => pending[k].dgrams[i] < pending[k].dgrams[j]
    <3>1. \A i \in DOMAIN pending[k].dgrams : pending[k].dgrams[i] \in 1 .. handed
      BY WaitingHanded DEF IInv
    <3>2. pending'[k] = pending[k]
      BY <2>1, <2>4 DEF With
    <3> QED
      BY <1>7, <3>1, <3>2 DEF IInv, WaitsInOrder
  <2>5. /\ pending'[ip].dgrams = Append(d, handed + 1)
        /\ d # << >> /\ ip \notin DOMAIN cache
        /\ \A i \in DOMAIN d : hop[d[i]] = ip
        /\ \A i, j \in DOMAIN d : i < j => d[i] < d[j]
    BY <1>11, <2>1 DEF IInv, WaitsInOrder, With
  <2>6. /\ Append(d, handed + 1) # << >>
        /\ \A i \in DOMAIN Append(d, handed + 1) : hop'[Append(d, handed + 1)[i]] = ip
        /\ \A i, j \in DOMAIN Append(d, handed + 1) :
              i < j => Append(d, handed + 1)[i] < Append(d, handed + 1)[j]
    <3>1. /\ DOMAIN d = 1 .. Len(d) /\ Len(d) \in Nat
          /\ \A i \in 1 .. Len(d) : d[i] \in 1 .. handed
      BY <1>11, WaitingHanded DEF IInv
    <3>2. \A i \in DOMAIN Append(d, handed + 1) : i \in 1 .. Len(d) \/ i = Len(d) + 1
      BY <1>9, <2>2, <3>1
    <3> DEFINE t == Append(d, handed + 1)
    <3> HIDE DEF d
    <3>3. /\ \A i \in 1 .. Len(d) : t[i] = d[i]
          /\ t[Len(d) + 1] = handed + 1
          /\ DOMAIN t = 1 .. Len(d) + 1
      BY <1>9, <2>2
    <3> HIDE DEF t
    <3>4. \A i \in DOMAIN t : hop'[t[i]] = ip
      BY <1>7, <1>8, <2>5, <3>1, <3>2, <3>3 DEF t
    <3>5. \A i, j \in DOMAIN t : i < j => t[i] < t[j]
      <4> SUFFICES ASSUME NEW i \in 1 .. Len(d) + 1, NEW j \in 1 .. Len(d) + 1, i < j
                   PROVE  t[i] < t[j]
        BY <3>3
      <4>1. i \in 1 .. Len(d) /\ t[i] = d[i] /\ d[i] \in 1 .. handed
        BY <3>1, <3>3
      <4>2. CASE j \in 1 .. Len(d)
        BY <2>5, <3>1, <3>3, <4>1, <4>2
      <4>3. CASE j = Len(d) + 1
        BY <1>3, <3>3, <4>1, <4>3
      <4> QED
        BY <3>1, <4>2, <4>3
    <3>6. t # << >>
      BY <3>1, <3>3
    <3> QED
      BY <3>4, <3>5, <3>6 DEF t
  <2>7. WaitsInOrder'
    BY <1>2, <1>11, <2>1, <2>4, <2>5, <2>6 DEF WaitsInOrder, With
  <2> QED
    BY <1>5, <1>6, <2>3, <2>7 DEF IInv
<1>12. CASE ip \notin DOMAIN cache \cup DOMAIN pending
  <2>1. /\ pending' = With(pending, ip, [dgrams |-> << handed + 1 >>, age |-> 0])
        /\ asked' = [asked EXCEPT ![ip] = 0]
    BY <1>12, SendEffect
  <2>2. << handed + 1 >> \in Seq(1 .. handed')
    BY <1>1, <1>3
  <2>3. PendingClock'
    <3>1. \A k \in DOMAIN pending : pending[k].dgrams \in Seq(1 .. handed')
      BY <1>9 DEF IInv, PendingClock
    <3>2. ASSUME NEW k \in DOMAIN pending
          PROVE  pending'[k] = pending[k] /\ asked'[k] = asked[k]
      BY <1>3, <1>12, <2>1 DEF With
    <3>3. pending'[ip] = [dgrams |-> << handed + 1 >>, age |-> 0] /\ asked'[ip] = 0
      BY <1>3, <2>1 DEF With
    <3>4. DOMAIN pending' = DOMAIN pending \cup {ip}
      BY <2>1 DEF With
    <3>5. pending'[ip].dgrams = << handed + 1 >> /\ pending'[ip].age = 0
      BY <3>3
    <3>6. ASSUME NEW k \in DOMAIN pending
          PROVE  /\ pending'[k] = [dgrams |-> pending'[k].dgrams, age |-> asked'[k]]
                 /\ pending'[k].dgrams \in Seq(1 .. handed')
                 /\ asked'[k] <= RequestTTL
      BY <3>1, <3>2 DEF IInv, PendingClock
    <3>7. /\ pending'[ip] = [dgrams |-> pending'[ip].dgrams, age |-> asked'[ip]]
          /\ pending'[ip].dgrams \in Seq(1 .. handed')
          /\ asked'[ip] <= RequestTTL
      BY <1>3, <2>2, <3>3, <3>5
    <3>8. DOMAIN pending' \subseteq Neighbours
      BY <3>4 DEF IInv, PendingClock
    <3> QED
      BY <3>4, <3>6, <3>7, <3>8 DEF PendingClock
  <2>7. RecentlyAnswered'
    BY <1>1, <1>2, <1>3, <1>12, <2>1 DEF IInv, RecentlyAnswered, With
  <2>4. ASSUME NEW k \in DOMAIN pending
        PROVE  /\ pending'[k] = pending[k]
               /\ pending[k].dgrams # << >>
               /\ k \notin DOMAIN cache
               /\ \A i \in DOMAIN pending[k].dgrams : hop'[pending[k].dgrams[i]] = k
               /\ \A i, j \in DOMAIN pending[k].dgrams :
                     i < j => pending[k].dgrams[i] < pending[k].dgrams[j]
    <3>1. \A i \in DOMAIN pending[k].dgrams : pending[k].dgrams[i] \in 1 .. handed
      BY WaitingHanded DEF IInv
    <3>2. pending'[k] = pending[k]
      BY <1>12, <2>1 DEF With
    <3> QED
      BY <1>7, <3>1, <3>2 DEF IInv, WaitsInOrder
  <2>5. pending'[ip].dgrams = << handed + 1 >>
    BY <2>1 DEF With
  <2>6. WaitsInOrder'
    BY <1>2, <1>3, <1>8, <1>12, <2>1, <2>4, <2>5 DEF WaitsInOrder, With
  <2> QED
    BY <1>5, <1>6, <2>3, <2>6, <2>7 DEF IInv
<1> QED
  BY <1>10, <1>11, <1>12

(* An ARP message keeps it: the new mapping starts fresh.                  *)
LEMMA ARPIInv ==
    ASSUME IInv, NEW opcode, NEW ip \in Neighbours, NEW ethernet \in Hardware,
           NEW target, NEW dst, RecvARP(opcode, ip, ethernet, target, dst)
    PROVE  IInv'
<1>1. /\ UNCHANGED <<handed, hop, asked>>
      /\ heard' = [heard EXCEPT ![ip] = [ethernet |-> ethernet, age |-> 0]]
      /\ IsInterface(interface', cache', pending')
      /\ cache' = With(cache, ip, [ethernet |-> ethernet, ttl |-> CacheTTL])
      /\ pending' = Without(pending, ip)
  BY ARPEffect
<1>2. CacheTTL \in Nat /\ 0 < CacheTTL
  BY TTLAssumption, NeighbourAssumption
<1>3. TypeOK'
  BY <1>1, <1>2 DEF IInv, TypeOK
<1>4. CacheIsFresh' /\ CacheClock'
  BY <1>1, <1>2 DEF IInv, TypeOK, CacheIsFresh, CacheClock, With
<1>5. PendingClock'
  BY <1>1 DEF IInv, PendingClock, Without
<1>6. WaitsInOrder'
  BY <1>1 DEF IInv, WaitsInOrder, With, Without
<1>7. RecentlyAnswered'
  BY <1>1 DEF IInv, TypeOK, RecentlyAnswered, With, Without, Never
<1> QED
  BY <1>3, <1>4, <1>5, <1>6, <1>7 DEF IInv

(* tick keeps it, however long: times to live and ages move by the same    *)
(* amount, and what they pass is dropped.                                  *)
LEMMA TickIInv ==
    ASSUME IInv, NEW ms \in 1 .. MaxTick, Tick(ms)
    PROVE  IInv'
<1>1. /\ UNCHANGED <<handed, hop>>
      /\ heard' = [ip \in Neighbours |-> [heard[ip] EXCEPT !.age = UpTo(@ + ms, CacheTTL)]]
      /\ asked' = [ip \in Neighbours |-> UpTo(asked[ip] + ms, Never)]
      /\ IsInterface(interface', cache', pending')
      /\ cache' = Unexpired(cache, ms)
      /\ pending' = StillWaiting(pending, ms)
  BY TickEffect
<1>2. CacheTTL \in Nat /\ RequestTTL \in Nat /\ RequestTTL < CacheTTL /\ ms \in Nat \ {0}
  BY TTLAssumption, NeighbourAssumption
<1>3. \A ip \in Neighbours :
         /\ heard[ip].age \in 0 .. CacheTTL
         /\ heard'[ip] \in [ethernet : Hardware \cup {Broadcast}, age : 0 .. CacheTTL]
         /\ heard'[ip].ethernet = heard[ip].ethernet
         /\ heard'[ip].age = UpTo(heard[ip].age + ms, CacheTTL)
  <2> SUFFICES ASSUME NEW ip \in Neighbours,
                      NEW h \in [ethernet : Hardware \cup {Broadcast}, age : 0 .. CacheTTL],
                      h = heard[ip]
               PROVE  LET t == [h EXCEPT !.age = UpTo(@ + ms, CacheTTL)]
                      IN  /\ t \in [ethernet : Hardware \cup {Broadcast}, age : 0 .. CacheTTL]
                          /\ t.ethernet = h.ethernet
                          /\ t.age = UpTo(h.age + ms, CacheTTL)
    BY <1>1 DEF IInv, TypeOK
  <2> QED
    BY <1>2 DEF UpTo
<1>4. \A ip \in Neighbours : asked[ip] \in 0 .. Never /\ asked'[ip] = UpTo(asked[ip] + ms, Never)
  BY <1>1 DEF IInv, TypeOK
<1>5. TypeOK'
  <2>1. heard' \in [Neighbours -> [ethernet : Hardware \cup {Broadcast}, age : 0 .. CacheTTL]]
    BY <1>1, <1>3, Zenon
  <2>2. asked' \in [Neighbours -> 0 .. Never]
    BY <1>1, <1>2, <1>4 DEF UpTo, Never
  <2> QED
    BY <1>1, <2>1, <2>2 DEF IInv, TypeOK
<1>6. \A ip \in DOMAIN cache : ip \in Neighbours /\ cache[ip].ttl = CacheTTL - heard[ip].age
  <2>1. \A ip \in DOMAIN cache :
           cache[ip] = [ethernet |-> heard[ip].ethernet, ttl |-> CacheTTL - heard[ip].age]
    BY DEF IInv, CacheClock
  <2>2. DOMAIN cache \subseteq Neighbours
    BY DEF IInv, CacheIsFresh
  <2> QED
    BY <2>1, <2>2
<1>7. \A ip \in DOMAIN cache' :
         /\ ip \in DOMAIN cache
         /\ heard[ip].age + ms < CacheTTL
         /\ cache'[ip] = [ethernet |-> heard[ip].ethernet,
                          ttl |-> CacheTTL - heard[ip].age - ms]
  <2> SUFFICES ASSUME NEW ip \in DOMAIN cache, cache[ip].ttl > ms
               PROVE  /\ heard[ip].age + ms < CacheTTL
                      /\ [cache[ip] EXCEPT !.ttl = @ - ms]
                            = [ethernet |-> heard[ip].ethernet,
                               ttl |-> CacheTTL - heard[ip].age - ms]
    BY <1>1 DEF Unexpired
  <2>1. cache[ip] = [ethernet |-> heard[ip].ethernet, ttl |-> CacheTTL - heard[ip].age]
    BY DEF IInv, CacheClock
  <2> QED
    BY <1>2, <1>3, <1>6, <2>1
<1>8. CacheIsFresh'
  <2>1. \A ip \in Neighbours : ip \in DOMAIN cache' <=> heard'[ip].age < CacheTTL
    BY <1>1, <1>2, <1>3, <1>6 DEF Unexpired, UpTo, IInv, CacheIsFresh
  <2>2. \A ip \in DOMAIN cache' : ip \in Neighbours /\ cache'[ip].ethernet = heard'[ip].ethernet
    BY <1>3, <1>6, <1>7
  <2> QED
    BY <2>1, <2>2 DEF CacheIsFresh
<1>9. CacheClock'
  BY <1>2, <1>3, <1>6, <1>7 DEF CacheClock, UpTo
<1>10. PendingClock'
  BY <1>1, <1>2 DEF IInv, PendingClock, TypeOK, StillWaiting, UpTo, Never
<1>11. WaitsInOrder'
  BY <1>1 DEF IInv, WaitsInOrder, PendingClock, StillWaiting, Unexpired
<1>12. RecentlyAnswered'
  <2> SUFFICES ASSUME NEW ip \in Neighbours, asked'[ip] <= RequestTTL
               PROVE  \/ ip \in DOMAIN pending'
                      \/ ip \in DOMAIN cache' /\ heard'[ip].age <= asked'[ip]
    BY <1>2, <1>3, <1>4 DEF RecentlyAnswered, UpTo, Never
  <2>1. asked'[ip] = asked[ip] + ms
    BY <1>2, <1>4 DEF UpTo, Never
  <2>2. CASE ip \in DOMAIN pending
    BY <1>1, <2>1, <2>2 DEF IInv, PendingClock, StillWaiting
  <2>3. CASE ip \in DOMAIN cache /\ heard[ip].age <= asked[ip]
    <3>1. heard[ip].age + ms < CacheTTL
      BY <1>2, <1>3, <1>4, <2>1, <2>3
    <3>2. heard'[ip].age = heard[ip].age + ms
      BY <1>2, <1>3, <3>1 DEF UpTo
    <3>3. ip \in DOMAIN cache'
      BY <1>1, <1>2, <1>3, <1>6, <2>3, <3>1 DEF Unexpired
    <3> QED
      BY <1>2, <1>3, <1>4, <2>1, <2>3, <3>2, <3>3
  <2>4. asked[ip] <= RequestTTL
    BY <1>2, <1>4, <2>1
  <2> QED
    BY <1>2, <1>4, <2>2, <2>3, <2>4 DEF IInv, RecentlyAnswered
<1> QED
  BY <1>5, <1>8, <1>9, <1>10, <1>11, <1>12 DEF IInv

(* What changes only the datagrams received. *)
LEMMA IdleIInv ==
    ASSUME IInv, IsInterface(interface', cache, pending), UNCHANGED <<handed, hop, heard, asked>>
    PROVE  IInv' /\ UNCHANGED <<cache, pending>>
<1>1. UNCHANGED <<cache, pending>>
  BY DEF IsInterface, cache, pending
<1> QED
  BY <1>1 DEF IInv, TypeOK, CacheIsFresh, CacheClock, PendingClock, WaitsInOrder,
              RecentlyAnswered

(* Receiving a datagram and taking it touch neither map and transmit       *)
(* nothing.                                                                *)
LEMMA IdleSteps ==
    ASSUME IInv, (\E dst \in {Me, Broadcast} \cup Hardware : RecvIPv4(dst)) \/ Take
                    \/ UNCHANGED vars
    PROVE  /\ IsInterface(interface', cache, pending)
           /\ UNCHANGED <<handed, hop, heard, asked>>
           /\ sent' = << >> \/ UNCHANGED vars
<1>1. IsInterface(interface, cache, pending)
  BY DEF IInv, TypeOK
<1>2. ASSUME NEW dst \in {Me, Broadcast} \cup Hardware, RecvIPv4(dst)
      PROVE  /\ IsInterface(interface', cache, pending)
             /\ sent' = << >>
             /\ UNCHANGED <<handed, hop, heard, asked>>
  <2> DEFINE frame == [type |-> "IPv4", src |-> CHOOSE h \in Hardware : TRUE, dst |-> dst,
                       payload |-> 0]
             kept  == [interface EXCEPT !.datagrams_received_ = Append(@, 0)]
  <2>1. RecvFrame(frame) /\ UNCHANGED heard
    BY <1>2 DEF RecvIPv4
  <2>2. frame.type = "IPv4" /\ frame.payload = 0
    OBVIOUS
  <2> HIDE DEF frame
  <2>3. \/ recv_frame(interface, frame) = [interface |-> interface, frames |-> << >>]
        \/ recv_frame(interface, frame) = [interface |-> kept, frames |-> << >>]
    BY <2>2, Zenon DEF recv_frame
  <2>4. IsInterface(kept, cache, pending)
    BY <1>1, DatagramFields
  <2> HIDE DEF kept
  <2> QED
    BY <1>1, <2>1, <2>3, <2>4 DEF RecvFrame
<1>3. CASE Take
  <2> DEFINE kept == [interface EXCEPT !.datagrams_received_ = Tail(@)]
  <2>1. IsInterface(kept, cache, pending)
    BY <1>1, DatagramFields
  <2>2. interface' = kept /\ sent' = << >> /\ UNCHANGED <<handed, hop, heard, asked>>
    BY <1>3, Zenon DEF Take
  <2> QED
    BY <2>1, <2>2
<1>4. CASE UNCHANGED vars
  BY <1>1, <1>4 DEF vars
<1> QED
  BY <1>2, <1>3, <1>4

(* Every step keeps the invariant.                                         *)
LEMMA NextIInv == IInv /\ [Next]_vars => IInv'
<1> SUFFICES ASSUME IInv, [Next]_vars
             PROVE  IInv'
  OBVIOUS
<1>1. ASSUME NEW next_hop \in Neighbours, SendDatagram(next_hop)
      PROVE  IInv'
  BY <1>1, SendIInv
<1>2. CASE (\E dst \in {Me, Broadcast} \cup Hardware : RecvIPv4(dst)) \/ Take \/ UNCHANGED vars
  BY <1>2, IdleSteps, IdleIInv
<1>3. ASSUME NEW opcode \in {"request", "reply"}, NEW ip \in Neighbours,
             NEW ethernet \in Hardware, NEW target \in {MyIP} \cup Neighbours,
             NEW dst \in {Me, Broadcast} \cup Hardware,
             RecvARP(opcode, ip, ethernet, target, dst)
      PROVE  IInv'
  BY <1>3, ARPIInv
<1>4. ASSUME NEW ms \in 1 .. MaxTick, Tick(ms)
      PROVE  IInv'
  BY <1>4, TickIInv
<1> QED
  BY <1>1, <1>2, <1>3, <1>4 DEF Next

(* In every state the two maps of a NetworkInterface hold what its past    *)
(* says: every mapping its last announcement with the time it has left     *)
(* (arp_cache_), every entry of pending_arp_requests_ the datagrams for    *)
(* one neighbour, in order, with the time since that neighbour was asked   *)
(* for.                                                                    *)
THEOREM Invariance == Spec => []IInv
  BY InitIInv, NextIInv, PTL DEF Spec

(* At every moment a mapping is used exactly if its neighbour announced it *)
(* less than CacheTTL ago, and it is the last one it announced.            *)
THEOREM MappingsAreFresh == Spec => []CacheIsFresh
<1>1. IInv => CacheIsFresh
  BY DEF IInv
<1> QED
  BY <1>1, Invariance, PTL

(* Datagrams wait in order, in one place each, and for unknown addresses   *)
(* only.                                                                   *)
THEOREM QueuesAreOrdered == Spec => []WaitsInOrder
<1>1. IInv => WaitsInOrder
  BY DEF IInv
<1> QED
  BY <1>1, Invariance, PTL
-----------------------------------------------------------------------------
(* Who is asked for has not been asked for lately. *)
LEMMA NextNoFlood ==
    ASSUME IInv, [Next]_vars
    PROVE  [\A ip \in Neighbours : Requests(sent', ip) # {} => asked[ip] > RequestTTL]_vars
<1> DEFINE Calm == \A ip \in Neighbours : Requests(sent', ip) # {} => asked[ip] > RequestTTL
<1>1. ASSUME sent' = << >>
      PROVE  Calm
  BY <1>1 DEF Requests
<1>2. ASSUME NEW ip \in Neighbours, SendDatagram(ip)
      PROVE  Calm
  <2>1. CASE ip \in DOMAIN cache
    <3>1. sent' = << IPv4Frame(interface, heard[ip].ethernet, handed + 1) >>
      BY <1>2, <2>1, SendEffect
    <3> QED
      BY <3>1 DEF Requests, IPv4Frame
  <2>2. CASE ip \in DOMAIN pending
    <3>1. sent' = << >>
      BY <1>2, <2>2, SendEffect
    <3> QED
      BY <1>1, <3>1
  <2>3. CASE ip \notin DOMAIN cache \cup DOMAIN pending
    <3>1. sent' = << ARPFrame(interface, "request", Broadcast, ip) >>
      BY <1>2, <2>3, SendEffect
    <3>2. asked[ip] > RequestTTL
      BY <2>3 DEF IInv, RecentlyAnswered
    <3> QED
      BY <3>1, <3>2 DEF Requests, ARPFrame
  <2> QED
    BY <2>1, <2>2, <2>3
<1>3. ASSUME NEW opcode, NEW ip \in Neighbours, NEW ethernet, NEW target, NEW dst,
             RecvARP(opcode, ip, ethernet, target, dst)
      PROVE  Calm
  <2>1. PICK n \in {0, 1} : AreFrames(sent', n, Waiting(interface, ip), ethernet)
    BY <1>3, FramesOfARP
  <2>2. \A i \in DOMAIN sent' :
           sent'[i].type = "IPv4" \/ sent'[i].payload.opcode = "reply"
    <3> SUFFICES ASSUME NEW i \in DOMAIN sent'
                 PROVE  i \in 1 .. n \/ (i - n \in 1 .. Len(Waiting(interface, ip))
                                         /\ i = n + (i - n))
      BY <2>1 DEF AreFrames
    <3> QED
      BY <2>1 DEF AreFrames
  <2> QED
    BY <2>2 DEF Requests
<1>4. ASSUME NEW ms, Tick(ms)
      PROVE  Calm
  <2>1. sent' = << >>
    BY <1>4, TickEffect
  <2> QED
    BY <1>1, <2>1
<1>5. CASE (\E dst \in {Me, Broadcast} \cup Hardware : RecvIPv4(dst)) \/ Take \/ UNCHANGED vars
  BY <1>1, <1>5, IdleSteps
<1> QED
  BY <1>2, <1>3, <1>4, <1>5 DEF Next

(* Requests for one address are more than RequestTTL apart. *)
THEOREM RequestsAreSpaced == Spec => NoRequestFlood
<1>1. IInv /\ [Next]_vars =>
         [\A ip \in Neighbours : Requests(sent', ip) # {} => asked[ip] > RequestTTL]_vars
  BY NextNoFlood
<1> QED
  BY <1>1, Invariance, PTL DEF Spec, NoRequestFlood
-----------------------------------------------------------------------------
(* The datagrams of a set of requests. *)
PendingIn(requests) == UNION {ToSet(requests[ip].dgrams) : ip \in DOMAIN requests}

(* The datagrams that wait, without the quantifier over sequences.         *)
LEMMA PendingElements ==
    ASSUME NEW requests, NEW id
    PROVE  id \in PendingIn(requests) <=>
              \E ip \in DOMAIN requests : \E i \in DOMAIN requests[ip].dgrams :
                 id = requests[ip].dgrams[i]
  BY DEF PendingIn, ToSet

(* What waits was handed over, for the neighbour it waits for. *)
LEMMA PendingHanded ==
    ASSUME IInv, NEW ip \in DOMAIN pending, NEW i \in DOMAIN pending[ip].dgrams
    PROVE  /\ pending[ip].dgrams[i] \in 1 .. handed
           /\ hop[pending[ip].dgrams[i]] = ip
<1>1. pending[ip].dgrams[i] \in 1 .. handed
  BY WaitingHanded DEF IInv
<1> QED
  BY <1>1 DEF IInv, WaitsInOrder

(* What SentOnce says of one step. *)
SentStep ==
    /\ \A id \in 1 .. handed' :
          (id > handed \/ id \in Pending) /\ id \notin Pending' =>
             \/ /\ id \in SentIDs(sent')
                /\ \A i \in DOMAIN sent' :
                      sent'[i].type = "IPv4" /\ sent'[i].payload = id =>
                         sent'[i].dst = heard'[hop'[id]].ethernet
             \/ asked'[hop'[id]] > RequestTTL
    /\ SentIDs(sent') \subseteq Pending \cup {handed + 1}
    /\ SentIDs(sent') \cap Pending' = {}
    /\ \A i, j \in IPv4Frames(sent') : sent'[i].payload = sent'[j].payload => i = j

(* What send_datagram transmits is the datagram handed over, or nothing of *)
(* what waits.                                                             *)
LEMMA SendSentOnce ==
    ASSUME IInv, NEW ip \in Neighbours, SendDatagram(ip)
    PROVE  SentStep
<1>1. Pending = PendingIn(pending) /\ Pending' = PendingIn(pending')
  BY DEF Pending, PendingIn
<1>2. handed \in Nat /\ hop \in Seq(Neighbours) /\ Len(hop) = handed
  BY DEF IInv, TypeOK
<1>3. handed' = handed + 1 /\ hop' = Append(hop, ip) /\ heard' = heard
  BY SendEffect
<1>4. handed + 1 \notin Pending
  BY <1>1, <1>2, PendingElements, PendingHanded
<1>5. CASE ip \in DOMAIN cache
  <2> DEFINE frame == IPv4Frame(interface, heard[ip].ethernet, handed + 1)
  <2>1. pending' = pending /\ sent' = << frame >>
    BY <1>5, SendEffect
  <2>2. frame.type = "IPv4" /\ frame.dst = heard[ip].ethernet /\ frame.payload = handed + 1
    BY DEF IPv4Frame
  <2> HIDE DEF frame
  <2>3. IPv4Frames(sent') = {1} /\ SentIDs(sent') = {handed + 1} /\ DOMAIN sent' = {1}
    BY <2>1, <2>2 DEF IPv4Frames, SentIDs
  <2>4. hop'[handed + 1] = ip
    BY <1>2, <1>3
  <2>5. \A i \in DOMAIN sent' : sent'[i].dst = heard'[ip].ethernet
    BY <1>3, <2>1, <2>2, <2>3
  <2>6. \A id \in 1 .. handed' :
           (id > handed \/ id \in Pending) /\ id \notin Pending' => id = handed + 1
    BY <1>1, <1>2, <1>3, <2>1
  <2> QED
    BY <1>1, <1>4, <2>1, <2>3, <2>4, <2>5, <2>6, Zenon DEF SentStep
<1>6. CASE ip \notin DOMAIN cache
  <2>1. PICK d, age : /\ pending' = With(pending, ip, [dgrams |-> d, age |-> age])
                      /\ Len(d) \in Nat \ {0} /\ DOMAIN d = 1 .. Len(d)
                      /\ d[Len(d)] = handed + 1
                      /\ ip \in DOMAIN pending =>
                            \A i \in DOMAIN pending[ip].dgrams :
                               i \in DOMAIN d /\ d[i] = pending[ip].dgrams[i]
    <3>1. CASE ip \in DOMAIN pending
      <4> DEFINE p == pending[ip].dgrams
                 d == Append(p, handed + 1)
      <4>1. pending' = With(pending, ip, [dgrams |-> d, age |-> asked[ip]])
        BY <3>1, SendEffect
      <4>2. p \in Seq(1 .. handed)
        BY <3>1 DEF IInv, PendingClock
      <4> HIDE DEF p
      <4>3. /\ Len(d) \in Nat \ {0} /\ DOMAIN d = 1 .. Len(d)
            /\ d[Len(d)] = handed + 1
            /\ \A i \in DOMAIN p : i \in DOMAIN d /\ d[i] = p[i]
        BY <1>2, <4>2
      <4> HIDE DEF d
      <4> QED
        BY <4>1, <4>3 DEF p
    <3>2. CASE ip \notin DOMAIN pending
      <4> DEFINE d == << handed + 1 >>
      <4>1. pending' = With(pending, ip, [dgrams |-> d, age |-> 0])
        BY <1>6, <3>2, SendEffect
      <4>2. Len(d) \in Nat \ {0} /\ DOMAIN d = 1 .. Len(d) /\ d[Len(d)] = handed + 1
        OBVIOUS
      <4> HIDE DEF d
      <4> QED
        BY <3>2, <4>1, <4>2
    <3> QED
      BY <3>1, <3>2
  <2>2. DOMAIN pending' = DOMAIN pending \cup {ip} /\ pending'[ip].dgrams = d
        /\ \A k \in DOMAIN pending : k # ip => pending'[k] = pending[k]
    BY <2>1 DEF With
  <2>3. handed + 1 \in Pending'
    BY <1>1, <2>1, <2>2, PendingElements
  <2>4. Pending \subseteq Pending'
    <3> SUFFICES ASSUME NEW k \in DOMAIN pending, NEW i \in DOMAIN pending[k].dgrams
                 PROVE  \E m \in DOMAIN pending' : \E j \in DOMAIN pending'[m].dgrams :
                           pending[k].dgrams[i] = pending'[m].dgrams[j]
      BY <1>1, PendingElements
    <3> QED
      BY <2>1, <2>2
  <2>5. IPv4Frames(sent') = {}
    <3>1. sent' = << >> \/ sent' = << ARPFrame(interface, "request", Broadcast, ip) >>
      BY <1>6, SendEffect
    <3> QED
      BY <3>1 DEF IPv4Frames, ARPFrame
  <2> QED
    BY <1>2, <1>3, <2>3, <2>4, <2>5 DEF SentStep, SentIDs
<1> QED
  BY <1>5, <1>6

(* What an ARP message transmits was waiting and waits no more.            *)
LEMMA ARPSentOnce ==
    ASSUME IInv, NEW opcode, NEW ip \in Neighbours, NEW ethernet, NEW target, NEW dst,
           RecvARP(opcode, ip, ethernet, target, dst)
    PROVE  SentStep
<1> DEFINE d == Waiting(interface, ip)
<1>1. Pending = PendingIn(pending) /\ Pending' = PendingIn(pending')
  BY DEF Pending, PendingIn
<1>2. /\ handed' = handed /\ hop' = hop
      /\ heard'[ip].ethernet = ethernet
      /\ pending' = Without(pending, ip)
  <2>1. /\ handed' = handed /\ hop' = hop
        /\ heard' = [heard EXCEPT ![ip] = [ethernet |-> ethernet, age |-> 0]]
        /\ pending' = Without(pending, ip)
    BY ARPEffect
  <2>2. DOMAIN heard = Neighbours
    BY DEF IInv, TypeOK
  <2> QED
    BY <2>1, <2>2
<1>3. PICK n \in {0, 1} : AreFrames(sent', n, d, ethernet)
  BY FramesOfARP
<1>4. ip \in DOMAIN pending => d = pending[ip].dgrams
  BY DEF Waiting, pending
<1>5. ip \notin DOMAIN pending => d = << >>
  BY DEF Waiting, pending
<1> HIDE DEF d
<1>6. \A i \in DOMAIN d : d[i] \in Pending \cap 1 .. handed /\ hop[d[i]] = ip
  BY <1>1, <1>4, <1>5, PendingElements, PendingHanded
<1>7. \A i, j \in DOMAIN d : d[i] = d[j] => i = j
  <2>1. \A i, j \in DOMAIN d : i < j => d[i] < d[j]
    BY <1>4, <1>5 DEF IInv, WaitsInOrder
  <2>2. \A i \in DOMAIN d : i \in Nat /\ d[i] \in Nat
    BY <1>3, <1>6 DEF AreFrames
  <2> QED
    BY <2>1, <2>2
<1>8. \A i \in DOMAIN sent' :
         \/ i \in 1 .. n /\ sent'[i].type = "ARP"
         \/ /\ i - n \in DOMAIN d
            /\ sent'[i].type = "IPv4" /\ sent'[i].dst = ethernet
            /\ sent'[i].payload = d[i - n]
  <2> SUFFICES ASSUME NEW i \in DOMAIN sent'
               PROVE  i \in 1 .. n \/ (i - n \in 1 .. Len(d) /\ i = n + (i - n))
    BY <1>3 DEF AreFrames
  <2> QED
    BY <1>3 DEF AreFrames
<1>9. IPv4Frames(sent') = {i \in DOMAIN sent' : i - n \in DOMAIN d}
  <2>1. \A i \in 1 .. n : i - n \notin DOMAIN d
    BY <1>3 DEF AreFrames
  <2> QED
    BY <1>8, <2>1 DEF IPv4Frames
<1>10. /\ \A i \in IPv4Frames(sent') :
             /\ i - n \in DOMAIN d
             /\ sent'[i].dst = ethernet
             /\ sent'[i].payload = d[i - n]
       /\ \A i \in DOMAIN d : \E j \in IPv4Frames(sent') : sent'[j].payload = d[i]
  <2>1. \A i \in DOMAIN d : n + i \in DOMAIN sent' /\ (n + i) - n = i
    BY <1>3 DEF AreFrames
  <2>2. \A i \in IPv4Frames(sent') : sent'[i].type = "IPv4"
    BY DEF IPv4Frames
  <2>3. \A i \in IPv4Frames(sent') :
           /\ i - n \in DOMAIN d
           /\ sent'[i].dst = ethernet
           /\ sent'[i].payload = d[i - n]
    BY <1>8, <1>9, <2>2
  <2> QED
    BY <1>9, <2>1, <2>3
<1>11. SentIDs(sent') = {d[i] : i \in DOMAIN d}
  BY <1>10 DEF SentIDs
<1>12. \A id \in Pending : id \notin Pending' => id \in SentIDs(sent') /\ hop[id] = ip
  <2> SUFFICES ASSUME NEW k \in DOMAIN pending, NEW i \in DOMAIN pending[k].dgrams, k # ip
               PROVE  pending[k].dgrams[i] \in Pending'
    BY <1>1, <1>4, <1>6, <1>11, PendingElements
  <2>1. k \in DOMAIN pending' /\ pending'[k] = pending[k]
    BY <1>2 DEF Without
  <2> QED
    BY <1>1, <2>1, PendingElements
<1>13. \A id \in SentIDs(sent') : id \in Pending /\ id \notin Pending'
  <2>1. \A id \in Pending' : hop[id] # ip
    <3> SUFFICES ASSUME NEW k \in DOMAIN pending', NEW i \in DOMAIN pending'[k].dgrams
                 PROVE  hop[pending'[k].dgrams[i]] # ip
      BY <1>1, PendingElements
    <3>1. k \in DOMAIN pending /\ k # ip /\ pending'[k] = pending[k]
      BY <1>2 DEF Without
    <3> QED
      BY <3>1, PendingHanded
  <2> QED
    BY <1>6, <1>11, <2>1
<1>14. \A i, j \in IPv4Frames(sent') : sent'[i].payload = sent'[j].payload => i = j
  <2>1. \A i \in IPv4Frames(sent') : i \in Int
    BY <1>3 DEF IPv4Frames, AreFrames
  <2>2. \A i, j \in IPv4Frames(sent') : sent'[i].payload = sent'[j].payload => i - n = j - n
    BY <1>7, <1>10
  <2> QED
    BY <2>1, <2>2
<1>15. \A id \in 1 .. handed' :
          (id > handed \/ id \in Pending) /\ id \notin Pending' =>
             /\ id \in SentIDs(sent')
             /\ \A i \in DOMAIN sent' :
                   sent'[i].type = "IPv4" /\ sent'[i].payload = id =>
                      sent'[i].dst = heard'[hop'[id]].ethernet
  <2>1. \A id \in 1 .. handed' : ~(id > handed)
    BY <1>2 DEF IInv, TypeOK
  <2>2. \A i \in DOMAIN sent' : sent'[i].type = "IPv4" => sent'[i].dst = ethernet
    BY <1>10 DEF IPv4Frames
  <2> QED
    BY <1>2, <1>12, <2>1, <2>2
<1> QED
  BY <1>13, <1>14, <1>15 DEF SentStep

(* tick transmits nothing, and what waits after it waited before.          *)
LEMMA TickSentOnce ==
    ASSUME IInv, NEW ms \in 1 .. MaxTick, Tick(ms)
    PROVE  SentStep
<1>1. Pending = PendingIn(pending) /\ Pending' = PendingIn(pending')
  BY DEF Pending, PendingIn
<1>2. /\ handed' = handed /\ hop' = hop /\ sent' = << >>
      /\ asked' = [ip \in Neighbours |-> UpTo(asked[ip] + ms, Never)]
      /\ pending' = StillWaiting(pending, ms)
  BY TickEffect
<1>3. SentIDs(sent') = {} /\ IPv4Frames(sent') = {}
  BY <1>2 DEF SentIDs, IPv4Frames
<1>4. \A id \in Pending : id \notin Pending' => asked'[hop'[id]] > RequestTTL
  <2> SUFFICES ASSUME NEW k \in DOMAIN pending, NEW i \in DOMAIN pending[k].dgrams,
                      pending[k].dgrams[i] \notin Pending'
               PROVE  asked'[hop'[pending[k].dgrams[i]]] > RequestTTL
    BY <1>1, PendingElements
  <2>1. hop'[pending[k].dgrams[i]] = k
    BY <1>2, PendingHanded
  <2>2. pending[k].age + ms > RequestTTL
    <3> SUFFICES ASSUME ~(pending[k].age + ms > RequestTTL)
                 PROVE  FALSE
      OBVIOUS
    <3>1. pending[k].age \in Nat /\ ms \in Nat /\ RequestTTL \in Nat
      BY TTLAssumption, NeighbourAssumption DEF IInv, PendingClock, TypeOK, Never
    <3>2. k \in DOMAIN pending' /\ pending'[k] = [pending[k] EXCEPT !.age = @ + ms]
      BY <1>2, <3>1 DEF StillWaiting
    <3>3. pending[k] = [dgrams |-> pending[k].dgrams, age |-> asked[k]]
      BY DEF IInv, PendingClock
    <3>4. pending'[k].dgrams = pending[k].dgrams
      BY <3>2, <3>3
    <3> QED
      BY <1>1, <3>2, <3>4, PendingElements
  <2>3. k \in Neighbours /\ pending[k].age = asked[k] /\ asked[k] \in 0 .. Never
    BY DEF IInv, PendingClock, TypeOK
  <2>4. asked'[k] = UpTo(asked[k] + ms, Never)
    BY <1>2, <2>3
  <2> QED
    BY <2>1, <2>2, <2>3, <2>4, TTLAssumption DEF UpTo, Never
<1>5. \A id \in 1 .. handed' : ~(id > handed)
  BY <1>2 DEF IInv, TypeOK
<1> QED
  BY <1>3, <1>4, <1>5, Zenon DEF SentStep

(* The other steps neither transmit nor queue a datagram.                  *)
LEMMA IdleSentOnce ==
    ASSUME IInv, (\E dst \in {Me, Broadcast} \cup Hardware : RecvIPv4(dst)) \/ Take
                    \/ UNCHANGED vars
    PROVE  SentStep \/ UNCHANGED vars
<1> SUFFICES ASSUME sent' = << >>
             PROVE  SentStep
  BY IdleSteps
<1>1. UNCHANGED <<pending, handed>>
  BY IdleSteps, IdleIInv
<1>2. Pending' = Pending
  BY <1>1 DEF Pending
<1>3. \A id \in 1 .. handed' : ~(id > handed)
  BY <1>1 DEF IInv, TypeOK
<1>4. SentIDs(sent') = {} /\ IPv4Frames(sent') = {}
  BY DEF SentIDs, IPv4Frames
<1> QED
  BY <1>2, <1>3, <1>4, Zenon DEF SentStep

(* Every step transmits only what waited or was handed over, and forgets   *)
(* it.                                                                     *)
LEMMA NextSentOnce == IInv /\ [Next]_vars => [SentStep]_vars
<1> SUFFICES ASSUME IInv, [Next]_vars
             PROVE  SentStep \/ UNCHANGED vars
  OBVIOUS
<1>1. ASSUME NEW next_hop \in Neighbours, SendDatagram(next_hop)
      PROVE  SentStep
  BY <1>1, SendSentOnce
<1>2. CASE (\E dst \in {Me, Broadcast} \cup Hardware : RecvIPv4(dst)) \/ Take \/ UNCHANGED vars
  BY <1>2, IdleSentOnce
<1>3. ASSUME NEW opcode \in {"request", "reply"}, NEW ip \in Neighbours,
             NEW ethernet \in Hardware, NEW target \in {MyIP} \cup Neighbours,
             NEW dst \in {Me, Broadcast} \cup Hardware,
             RecvARP(opcode, ip, ethernet, target, dst)
      PROVE  SentStep
  BY <1>3, ARPSentOnce
<1>4. ASSUME NEW ms \in 1 .. MaxTick, Tick(ms)
      PROVE  SentStep
  BY <1>4, TickSentOnce
<1> QED
  BY <1>1, <1>2, <1>3, <1>4 DEF Next

(* Every datagram leaves once, with the right address, or is given up only *)
(* when its next hop has been silent for longer than RequestTTL.           *)
THEOREM DatagramsLeaveOnce == Spec => SentOnce
<1>1. Spec => [][SentStep]_vars
  BY Invariance, NextSentOnce, PTL DEF Spec
<1> QED
  BY <1>1 DEF SentStep, SentOnce
=============================================================================
