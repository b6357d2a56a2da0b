-------------------------- MODULE NetworkInterface --------------------------
(***************************************************************************)
(* One NetworkInterface, the owner that hands it datagrams, and neighbours *)
(* that send it frames: ARP requests and replies, solicited or not, early, *)
(* late or never, from Ethernet addresses that change over time.           *)
(***************************************************************************)
EXTENDS NetworkInterfaceOps

CONSTANTS
    Me, MyIP,           (* the interface's addresses                       *)
    Hardware,           (* the neighbours' Ethernet addresses              *)
    Neighbours,         (* the neighbours' IP addresses                    *)
    MaxDatagrams,       (* datagrams handed to the interface (bound)       *)
    MaxReceived,        (* datagrams received and not taken (bound)        *)
    MaxTick             (* longest time between two ticks (bound)          *)

ASSUME NeighbourAssumption ==
    /\ Me \notin Hardware \cup {Broadcast}
    /\ Broadcast \notin Hardware
    /\ MyIP \notin Neighbours
    /\ {MaxDatagrams, MaxReceived, MaxTick} \subseteq Nat
    /\ RequestTTL < CacheTTL

VARIABLES
    interface,
    sent,       (* the frames of the last operation                        *)
    handed,     (* number of datagrams handed over; they are numbered      *)
    hop,        (* the next hop of each of them                            *)
    heard,      (* for each neighbour, the last address it announced and   *)
                (* the time since then, up to CacheTTL                     *)
    asked       (* for each neighbour, the time since the last request for *)
                (* it, up to RequestTTL + 1                                *)

vars == <<interface, sent, handed, hop, heard, asked>>

Never == RequestTTL + 1

Init ==
    /\ interface = NewInterface(Me, MyIP)
    /\ sent = << >>
    /\ handed = 0
    /\ hop = << >>
    /\ heard = [ip \in Neighbours |-> [ethernet |-> Broadcast, age |-> CacheTTL]]
    /\ asked = [ip \in Neighbours |-> Never]

Requests(frames, ip) ==
    {i \in DOMAIN frames : /\ frames[i].type = "ARP"
                           /\ frames[i].payload.opcode = "request"
                           /\ frames[i].payload.target_ip_address = ip}

SendDatagram(next_hop) ==
    LET step == send_datagram(interface, handed + 1, next_hop) IN
    /\ handed < MaxDatagrams
    /\ interface' = step.interface
    /\ sent' = step.frames
    /\ handed' = handed + 1
    /\ hop' = Append(hop, next_hop)
    /\ asked' = [ip \in Neighbours |-> IF Requests(step.frames, ip) # {} THEN 0 ELSE asked[ip]]
    /\ UNCHANGED heard

RecvFrame(frame) ==
    LET step == recv_frame(interface, frame) IN
    /\ interface' = step.interface
    /\ sent' = step.frames
    /\ UNCHANGED <<handed, hop, asked>>

RecvIPv4(dst) ==
    /\ Len(interface.datagrams_received_) < MaxReceived
    /\ RecvFrame([type |-> "IPv4", src |-> CHOOSE h \in Hardware : TRUE, dst |-> dst,
                  payload |-> 0])
    /\ UNCHANGED heard

RecvARP(opcode, ip, ethernet, target, dst) ==
    /\ RecvFrame([type |-> "ARP", src |-> ethernet, dst |-> dst,
                  payload |-> [opcode |-> opcode, sender_ethernet_address |-> ethernet,
                               sender_ip_address |-> ip, target_ip_address |-> target]])
    /\ heard' = [heard EXCEPT ![ip] = [ethernet |-> ethernet, age |-> 0]]

(* The owner takes a datagram from datagrams_received(). *)
Take ==
    /\ interface.datagrams_received_ # << >>
    /\ interface' = [interface EXCEPT !.datagrams_received_ = Tail(@)]
    /\ sent' = << >>
    /\ UNCHANGED <<handed, hop, heard, asked>>

UpTo(a, b) == IF a <= b THEN a ELSE b

Tick(ms) ==
    /\ interface' = tick(interface, ms)
    /\ sent' = << >>
    /\ heard' = [ip \in Neighbours |-> [heard[ip] EXCEPT !.age = UpTo(@ + ms, CacheTTL)]]
    /\ asked' = [ip \in Neighbours |-> UpTo(asked[ip] + ms, Never)]
    /\ UNCHANGED <<handed, hop>>

Next ==
    \/ \E next_hop \in Neighbours : SendDatagram(next_hop)
    \/ \E dst \in {Me, Broadcast} \cup Hardware : RecvIPv4(dst)
    \/ \E opcode \in {"request", "reply"}, ip \in Neighbours, ethernet \in Hardware,
          target \in {MyIP} \cup Neighbours, dst \in {Me, Broadcast} \cup Hardware :
             RecvARP(opcode, ip, ethernet, target, dst)
    \/ Take
    \/ \E ms \in 1 .. MaxTick : Tick(ms)

(* The owner calls tick periodically. *)
Spec == Init /\ [][Next]_vars /\ WF_vars(\E ms \in 1 .. MaxTick : Tick(ms))
-----------------------------------------------------------------------------
cache   == interface.arp_cache_
pending == interface.pending_arp_requests_

(* The mappings used are exactly those announced less than CacheTTL ago,   *)
(* and for each neighbour the last one it announced.                       *)
CacheIsFresh ==
    /\ DOMAIN cache = {ip \in Neighbours : heard[ip].age < CacheTTL}
    /\ \A ip \in DOMAIN cache : cache[ip].ethernet = heard[ip].ethernet

(* A datagram waits in at most one place, for its own next hop, behind     *)
(* those handed over before it, and never for an address that is known.    *)
WaitsInOrder ==
    \A ip \in DOMAIN pending :
        LET waiting == pending[ip].dgrams IN
        /\ waiting # << >>
        /\ ip \notin DOMAIN cache
        /\ \A i \in DOMAIN waiting : hop[waiting[i]] = ip
        /\ \A i, j \in DOMAIN waiting : i < j => waiting[i] < waiting[j]

Pending == UNION {ToSet(pending[ip].dgrams) : ip \in DOMAIN pending}

IPv4Frames(frames) == {i \in DOMAIN frames : frames[i].type = "IPv4"}
SentIDs(frames)    == {frames[i].payload : i \in IPv4Frames(frames)}

(* A datagram that was handed over leaves the interface, with its next     *)
(* hop's last announced address, or is given up, and that only when its    *)
(* next hop has not answered for longer than RequestTTL; what is sent has  *)
(* waited or has just been handed over, is sent in one frame and waits no  *)
(* more, so that nothing leaves twice.                                     *)
SentOnce ==
    [][/\ \A id \in 1 .. handed' :
             (id > handed \/ id \in Pending) /\ id \notin Pending' =>
                \/ /\ id \in SentIDs(sent')
                   /\ \A i \in DOMAIN sent' :
                         sent'[i].type = "IPv4" /\ sent'[i].payload = id =>
                            sent'[i].dst = heard'[hop'[id]].ethernet
                \/ asked'[hop'[id]] > RequestTTL
       /\ SentIDs(sent') \subseteq Pending \cup {handed + 1}
       /\ SentIDs(sent') \cap Pending' = {}
       /\ \A i, j \in IPv4Frames(sent') : sent'[i].payload = sent'[j].payload => i = j]_vars

(* Two requests for the same address are more than RequestTTL apart, even  *)
(* when an answer came and its mapping has expired in between.             *)
NoRequestFlood ==
    [][\A ip \in Neighbours : Requests(sent', ip) # {} => asked[ip] > RequestTTL]_vars

(* No datagram waits for ever, whether its next hop answers or not. *)
WaitEnds == \A id \in 1 .. MaxDatagrams : id \in Pending ~> id \notin Pending
=============================================================================
