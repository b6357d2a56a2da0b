------------------------ MODULE NetworkInterfaceOps ------------------------
(***************************************************************************)
(* src/src/network_interface.cc: one record per NetworkInterface object.   *)
(* Every operation returns the interface and the frames it transmitted.    *)
(***************************************************************************)
EXTENDS Naturals, SequencesExt

CONSTANTS
    Broadcast,      (* ETHERNET_BROADCAST                                  *)
    CacheTTL,       (* ms a mapping is used: 30000                         *)
    RequestTTL      (* ms a request is waited for: 5000                    *)

ASSUME TTLAssumption == CacheTTL \in Nat /\ RequestTTL \in Nat

NewInterface(ethernet, ip) ==
    [ethernet_address_ |-> ethernet, ip_address_ |-> ip,
     arp_cache_ |-> << >>, pending_arp_requests_ |-> << >>,
     datagrams_received_ |-> << >>]

(* map[key] = value and map.erase(key). *)
With(map, key, value) ==
    [k \in DOMAIN map \cup {key} |-> IF k = key THEN value ELSE map[k]]

Without(map, key) == [k \in DOMAIN map \ {key} |-> map[k]]

IPv4Frame(interface, ethernet, dgram) ==
    [type |-> "IPv4", src |-> interface.ethernet_address_, dst |-> ethernet,
     payload |-> dgram]

(* The target's Ethernet address of a request is left at zero and is never *)
(* looked at.                                                              *)
ARPFrame(interface, opcode, ethernet, ip) ==
    [type |-> "ARP", src |-> interface.ethernet_address_, dst |-> ethernet,
     payload |-> [opcode |-> opcode,
                  sender_ethernet_address |-> interface.ethernet_address_,
                  sender_ip_address |-> interface.ip_address_,
                  target_ip_address |-> ip]]

(* The datagrams that wait for the Ethernet address of ip. *)
Waiting(interface, ip) ==
    IF ip \in DOMAIN interface.pending_arp_requests_
      THEN interface.pending_arp_requests_[ip].dgrams
      ELSE << >>

(* Mutant: every datagram that waits asks. *)
AlwaysAsk(interface, ip) == TRUE

MustAsk(interface, ip) ==
    \/ ip \notin DOMAIN interface.pending_arp_requests_
    \/ interface.pending_arp_requests_[ip].age > RequestTTL

(* Mutants: the newest datagram goes first; it replaces those that wait. *)
EnqueueFirst(interface, dgram, ip) ==
    LET entry == [dgrams |-> << dgram >> \o Waiting(interface, ip), age |-> 0]
    IN  [interface EXCEPT !.pending_arp_requests_ = With(@, ip, entry)]

EnqueueOnly(interface, dgram, ip) ==
    [interface EXCEPT !.pending_arp_requests_ = With(@, ip, [dgrams |-> << dgram >>, age |-> 0])]

(* A new entry has age zero; a datagram that joins others does not change  *)
(* theirs.                                                                 *)
Enqueue(interface, dgram, ip) ==
    LET pending == interface.pending_arp_requests_
        age     == IF ip \in DOMAIN pending THEN pending[ip].age ELSE 0
        entry   == [dgrams |-> Append(Waiting(interface, ip), dgram), age |-> age]
    IN  [interface EXCEPT !.pending_arp_requests_ = With(@, ip, entry)]

send_datagram(interface, dgram, next_hop) ==
    IF next_hop \in DOMAIN interface.arp_cache_
      THEN [interface |-> interface,
            frames |-> << IPv4Frame(interface, interface.arp_cache_[next_hop].ethernet, dgram) >>]
      ELSE [interface |-> Enqueue(interface, dgram, next_hop),
            frames |-> IF MustAsk(interface, next_hop)
                         THEN << ARPFrame(interface, "request", Broadcast, next_hop) >>
                         ELSE << >>]

(* ARP frames are let through whatever their destination. *)
NotForUs(interface, frame) ==
    /\ frame.dst \notin {interface.ethernet_address_, Broadcast}
    /\ frame.type # "ARP"

Answer(interface, arp) ==
    IF arp.opcode = "request" /\ arp.target_ip_address = interface.ip_address_
      THEN << ARPFrame(interface, "reply", arp.sender_ethernet_address, arp.sender_ip_address) >>
      ELSE << >>

(* Any ARP message teaches its sender's address and releases what waits    *)
(* for it.                                                                 *)
recv_arp(interface, arp) ==
    LET ip       == arp.sender_ip_address
        ethernet == arp.sender_ethernet_address
        mapping  == [ethernet |-> ethernet, ttl |-> CacheTTL]
        waiting  == Waiting(interface, ip)
    IN  [interface |-> [interface EXCEPT
            !.arp_cache_ = With(@, ip, mapping),
            !.pending_arp_requests_ = Without(@, ip)],
         frames |-> Answer(interface, arp) \o
            [i \in DOMAIN waiting |-> IPv4Frame(interface, ethernet, waiting[i])]]

recv_frame(interface, frame) ==
    IF NotForUs(interface, frame)
      THEN [interface |-> interface, frames |-> << >>]
    ELSE IF frame.type = "IPv4"
      THEN [interface |-> [interface EXCEPT
                !.datagrams_received_ = Append(@, frame.payload)],
            frames |-> << >>]
    ELSE recv_arp(interface, frame.payload)

(* Mutants: a mapping with no time left is kept; a request does not age. *)
UnexpiredAtZero(cache, ms) ==
    [ip \in {k \in DOMAIN cache : cache[k].ttl >= ms} |-> [cache[ip] EXCEPT !.ttl = @ - ms]]

WaitingAgeless(pending, ms) == pending

(* The mappings with time left, and the requests still waited for. *)
Unexpired(cache, ms) ==
    [ip \in {k \in DOMAIN cache : cache[k].ttl > ms} |->
        [cache[ip] EXCEPT !.ttl = @ - ms]]

StillWaiting(pending, ms) ==
    [ip \in {k \in DOMAIN pending : pending[k].age + ms <= RequestTTL} |->
        [pending[ip] EXCEPT !.age = @ + ms]]

tick(interface, ms) ==
    [interface EXCEPT !.arp_cache_ = Unexpired(@, ms),
                      !.pending_arp_requests_ = StillWaiting(@, ms)]
=============================================================================
