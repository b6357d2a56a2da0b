----------------------------- MODULE RouterOps -----------------------------
(***************************************************************************)
(* src/src/router.cc: the routing table and the pass over the interfaces.  *)
(* A router is [interfaces, routing_table_]; the table is a function of    *)
(* <<prefix_length, route_prefix>>.                                        *)
(***************************************************************************)
EXTENDS NetworkInterfaceOps

CONSTANTS
    Bits,           (* of an address: 32                                   *)
    Direct          (* an optional<Address> that holds no value            *)

ASSUME BitsAssumption == Bits \in Nat \ {0}

NewRouter(interfaces) == [interfaces |-> interfaces, routing_table_ |-> << >>]

Route(next_hop, interface_num) == [next_hop |-> next_hop, interface_num |-> interface_num]

(* A route for the same prefix replaces the one before; the prefix is      *)
(* stored as it is given.                                                  *)
add_route(router, route_prefix, prefix_length, next_hop, interface_num) ==
    [router EXCEPT !.routing_table_ =
        With(@, <<prefix_length, route_prefix>>, Route(next_hop, interface_num))]

(* The high-order bits of an address, the others cleared. *)
HighBits(address, length) ==
    LET turn == 2 ^ (Bits - length) IN (address \div turn) * turn

(* What is looked up among the routes of one length: for length zero, the  *)
(* destination itself comes first. *)
Key(table, length, dst) ==
    IF length = 0
      THEN IF <<0, dst>> \in DOMAIN table THEN <<0, dst>> ELSE <<0, 0>>
      ELSE <<length, HighBits(dst, length)>>

(* Mutant: the default route is forgotten. *)
MatchesWithoutDefault(table, dst) ==
    {length \in 1 .. Bits : Key(table, length, dst) \in DOMAIN table}

(* The longest length that has a route. *)
Matches(table, dst) ==
    {length \in 0 .. Bits : Key(table, length, dst) \in DOMAIN table}

HasRoute(table, dst) == Matches(table, dst) # {}

Lookup(table, dst) == table[Key(table, Max(Matches(table, dst)), dst)]

(* Mutant: the next hop is always the destination. *)
NextHopDirect(route, dgram) == dgram.dst

(* On a directly attached network the next hop is the destination. *)
NextHop(route, dgram) == IF route.next_hop = Direct THEN dgram.dst ELSE route.next_hop

Expired(dgram) == dgram.ttl <= 1

(* pass is the state of route: the router, the frames each interface       *)
(* transmitted, and whether route has returned.                            *)
Forward(pass, dgram) ==
    LET route == Lookup(pass.router.routing_table_, dgram.dst)
        n     == route.interface_num
        step  == send_datagram(pass.router.interfaces[n], dgram, NextHop(route, dgram))
    IN  [pass EXCEPT !.router.interfaces[n] = step.interface,
                     !.frames[n] = @ \o step.frames]

(* Take one datagram from interface n; one whose time to live is over ends *)
(* the whole pass.                                                         *)
RouteOne(pass, n) ==
    LET queue  == pass.router.interfaces[n].datagrams_received_
        dgram  == Head(queue)
        popped == [pass EXCEPT !.router.interfaces[n].datagrams_received_ = Tail(@)]
        aged   == [dgram EXCEPT !.ttl = @ - 1]
    IN  IF pass.returned \/ queue = << >>
          THEN pass
        ELSE IF Expired(dgram)
          THEN [popped EXCEPT !.returned = TRUE]
        ELSE IF HasRoute(pass.router.routing_table_, dgram.dst)
          THEN Forward(popped, aged)
        ELSE popped

DrainInterface(pass, n) ==
    FoldLeft(LAMBDA p, dgram : RouteOne(p, n), pass,
             pass.router.interfaces[n].datagrams_received_)

route(router) ==
    FoldLeft(LAMBDA pass, n : DrainInterface(pass, n),
             [router |-> router, frames |-> [n \in DOMAIN router.interfaces |-> << >>],
              returned |-> FALSE],
             [n \in DOMAIN router.interfaces |-> n])
=============================================================================
