------------------------------- MODULE Router -------------------------------
(***************************************************************************)
(* A Router between the networks of its interfaces: routes are added while *)
(* datagrams arrive, wait in the interfaces' queues, and are routed in     *)
(* passes.  Addresses are numbers of Bits bits.  No time passes: the       *)
(* interfaces' timers are in NetworkInterface.                             *)
(***************************************************************************)
EXTENDS RouterOps, FiniteSets

CONSTANTS
    Interfaces,     (* number of interfaces                                *)
    Hardware,       (* Ethernet address of any neighbour                   *)
    NextHops,       (* the addresses of next hops                          *)
    TTLs,           (* times to live of arriving datagrams                 *)
    MaxRoutes,      (* routes in the table (bound)                         *)
    MaxDatagrams    (* datagrams that arrive (bound)                       *)

Addresses == 0 .. 2 ^ Bits - 1

ASSUME RouterAssumption ==
    /\ Interfaces \in Nat \ {0}
    /\ NextHops \subseteq Addresses
    /\ TTLs \subseteq Nat
    /\ {MaxRoutes, MaxDatagrams} \subseteq Nat

VARIABLES
    router,
    sent,       (* the frames of each interface in the last operation      *)
    arrived     (* number of datagrams that arrived; they are numbered     *)

vars == <<router, sent, arrived>>

table == router.routing_table_

Nothing == [n \in 1 .. Interfaces |-> << >>]

Init ==
    /\ router = NewRouter([n \in 1 .. Interfaces |-> NewInterface(n, Direct)])
    /\ sent = Nothing
    /\ arrived = 0

(* The caller clears the bits of the prefix beyond its length, as the      *)
(* programs do; a route with other bits would never match.                 *)
AddRoute(route_prefix, prefix_length, next_hop, n) ==
    /\ HighBits(route_prefix, prefix_length) = route_prefix
    /\ Cardinality(DOMAIN table) < MaxRoutes
    /\ router' = add_route(router, route_prefix, prefix_length, next_hop, n)
    /\ sent' = Nothing
    /\ UNCHANGED arrived

RecvFrame(n, frame) ==
    LET step == recv_frame(router.interfaces[n], frame) IN
    /\ router' = [router EXCEPT !.interfaces[n] = step.interface]
    /\ sent' = [Nothing EXCEPT ![n] = step.frames]

RecvDatagram(n, dst, ttl) ==
    /\ arrived < MaxDatagrams
    /\ RecvFrame(n, [type |-> "IPv4", src |-> Hardware, dst |-> n,
                     payload |-> [id |-> arrived + 1, dst |-> dst, ttl |-> ttl]])
    /\ arrived' = arrived + 1

(* A neighbour is heard of: only one that is waited for, here. *)
RecvReply(n, ip) ==
    /\ RecvFrame(n, [type |-> "ARP", src |-> Hardware, dst |-> n,
                     payload |-> [opcode |-> "reply", sender_ethernet_address |-> Hardware,
                                  sender_ip_address |-> ip, target_ip_address |-> Direct]])
    /\ UNCHANGED arrived

RoutePass ==
    /\ router' = route(router).router
    /\ sent' = route(router).frames
    /\ UNCHANGED arrived

Next ==
    \/ \E route_prefix \in Addresses, prefix_length \in 0 .. Bits,
          next_hop \in NextHops \cup {Direct}, n \in 1 .. Interfaces :
             AddRoute(route_prefix, prefix_length, next_hop, n)
    \/ \E n \in 1 .. Interfaces, dst \in Addresses, ttl \in TTLs : RecvDatagram(n, dst, ttl)
    \/ \E n \in 1 .. Interfaces :
          \E ip \in DOMAIN router.interfaces[n].pending_arp_requests_ : RecvReply(n, ip)
    \/ RoutePass

Spec == Init /\ [][Next]_vars
-----------------------------------------------------------------------------
Queued(r, n) == ToSet(r.interfaces[n].datagrams_received_)

(* The datagrams interface n has for hop: waiting, or just sent. *)
Out(r, frames, n, hop) ==
    LET interface == r.interfaces[n]
        gone == {i \in DOMAIN frames[n] : frames[n][i].type = "IPv4"}
    IN  ToSet(Waiting(interface, hop)) \cup
        (IF hop \in DOMAIN interface.arp_cache_ THEN {frames[n][i].payload : i \in gone} ELSE {})

(* A route applies when the high-order bits of its prefix, as many as its  *)
(* length says, are those of the destination.                              *)
Applies(key, dst) == HighBits(key[2], key[1]) = HighBits(dst, key[1])

(* For every destination the table is searched as router.cc:8-13 says: the *)
(* route used is one that applies, there is none that applies and is       *)
(* longer, and none is used only if none applies.                          *)
LongestPrefixMatch ==
    \A dst \in Addresses :
        LET applying == {key \in DOMAIN table : Applies(key, dst)} IN
        /\ HasRoute(table, dst) <=> applying # {}
        /\ HasRoute(table, dst) =>
              LET key == Key(table, Max(Matches(table, dst)), dst) IN
              /\ key \in applying
              /\ \A other \in applying : other[1] <= key[1]

(* A pass that takes a datagram from a queue hands it on with one hop less *)
(* to live, to the interface and next hop of its route and to no other; or *)
(* drops it, when its time is over or nothing applies to it.               *)
TakenIsHandedOn ==
    [][\A n \in 1 .. Interfaces : \A dgram \in Queued(router, n) \ Queued(router', n) :
          LET aged     == [dgram EXCEPT !.ttl = @ - 1]
              applying == {key \in DOMAIN table : Applies(key, dgram.dst)}
              best     == CHOOSE key \in applying : \A other \in applying : other[1] <= key[1]
              hops     == NextHops \cup Addresses
              places   == {place \in (1 .. Interfaces) \X hops :
                              aged \in Out(router', sent', place[1], place[2])}
          IN  IF dgram.ttl > 1 /\ applying # {}
                THEN LET hop == IF table[best].next_hop = Direct THEN dgram.dst
                                ELSE table[best].next_hop
                     IN  <<table[best].interface_num, hop>> \in places
                         /\ \A place \in places : place[1] = table[best].interface_num
                ELSE places = {}]_vars

=============================================================================
