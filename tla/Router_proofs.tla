---------------------------- MODULE Router_proofs ----------------------------
(***************************************************************************)
(* Proofs about the Router, for addresses of any width and any number of   *)
(* interfaces, routes and datagrams.                                       *)
(***************************************************************************)
EXTENDS Router, OperatorLemmas

Datagrams == [id : Nat, dst : Addresses, ttl : Nat]

InterfaceFields ==
    {"ethernet_address_", "ip_address_", "arp_cache_", "pending_arp_requests_",
     "datagrams_received_"}

(* i is an interface with a queue of received datagrams. *)
IsInterface(i) ==
    /\ DOMAIN i = InterfaceFields
    /\ i.datagrams_received_ \in Seq(Datagrams)

(* r is a router with this routing table. *)
IsRouter(r, routes) ==
    /\ DOMAIN r = {"interfaces", "routing_table_"}
    /\ r.routing_table_ = routes
    /\ DOMAIN r.interfaces = 1 .. Interfaces
    /\ \A n \in 1 .. Interfaces : IsInterface(r.interfaces[n])

Keys == (0 .. Bits) \X Addresses

TypeOK ==
    /\ IsRouter(router, table)
    /\ table \in [DOMAIN table -> [next_hop : NextHops \cup {Direct},
                                   interface_num : 1 .. Interfaces]]
    /\ DOMAIN table \subseteq Keys
    /\ arrived \in Nat

(* No stored prefix has a bit beyond its length. *)
PrefixesAreClear == \A key \in DOMAIN table : HighBits(key[2], key[1]) = key[2]

IInv == TypeOK /\ PrefixesAreClear
-----------------------------------------------------------------------------
(* A router without routes satisfies the invariant.                        *)
LEMMA InitIInv == Init => IInv
<1> SUFFICES ASSUME Init PROVE IInv
  OBVIOUS
<1>1. /\ router = NewRouter([n \in 1 .. Interfaces |-> NewInterface(n, Direct)])
      /\ arrived = 0
  BY DEF Init
<1>2. table = << >>
  BY <1>1 DEF table, NewRouter
<1>3. \A n \in 1 .. Interfaces : IsInterface(NewInterface(n, Direct))
  BY DEF IsInterface, InterfaceFields, NewInterface
<1>4. IsRouter(router, table)
  BY <1>1, <1>2, <1>3 DEF IsRouter, NewRouter
<1> QED
  BY <1>1, <1>2, <1>4 DEF IInv, TypeOK, PrefixesAreClear

(* Sending does not touch the queue of received datagrams. *)
LEMMA SendKeepsQueue ==
    ASSUME NEW i, IsInterface(i), NEW dgram, NEW hop
    PROVE  IsInterface(send_datagram(i, dgram, hop).interface)
<1>1. IsInterface(Enqueue(i, dgram, hop))
  BY DEF IsInterface, Enqueue, InterfaceFields
<1> QED
  BY <1>1 DEF send_datagram

(* The state of a pass: a router with the table it started with. *)
IsPass(p, routes) ==
    /\ DOMAIN p = {"router", "frames", "returned"}
    /\ IsRouter(p.router, routes)

(* A pass changes interfaces only. *)
LEMMA InterfaceChange ==
    ASSUME NEW r, NEW routes, IsRouter(r, routes), NEW n \in 1 .. Interfaces,
           NEW i, IsInterface(i)
    PROVE  IsRouter([r EXCEPT !.interfaces[n] = i], routes)
  BY DEF IsRouter

(* Forwarding a datagram changes an interface, never the table.            *)
LEMMA ForwardKeepsRoutes ==
    ASSUME NEW p, NEW routes, IsPass(p, routes), NEW dgram
    PROVE  IsPass(Forward(p, dgram), routes)
<1> DEFINE rt == Lookup(p.router.routing_table_, dgram.dst)
           n == rt.interface_num
           step == send_datagram(p.router.interfaces[n], dgram, NextHop(rt, dgram))
           q == Forward(p, dgram)
<1> HIDE DEF rt
<1>1. q = [p EXCEPT !.router.interfaces[n] = step.interface,
                    !.frames[n] = @ \o step.frames]
  BY DEF Forward, rt
<1> HIDE DEF n, step
<1>2. /\ DOMAIN q = {"router", "frames", "returned"}
      /\ q.router = [p.router EXCEPT !.interfaces[n] = step.interface]
  BY <1>1 DEF IsPass
<1>3. IsRouter(p.router, routes)
  BY DEF IsPass
<1>4. CASE n \in 1 .. Interfaces
  <2>1. IsInterface(step.interface)
    BY <1>3, <1>4, SendKeepsQueue DEF IsRouter, step
  <2> QED
    BY <1>2, <1>3, <1>4, <2>1, InterfaceChange DEF IsPass
<1>5. CASE n \notin 1 .. Interfaces
  <2>1. IsRouter(q.router, routes)
    BY <1>2, <1>3, <1>5 DEF IsRouter
  <2> QED
    BY <1>2, <1>3, <2>1 DEF IsPass
<1> QED
  BY <1>4, <1>5

(* The same of taking a datagram from a queue and forwarding it.           *)
LEMMA RouteOneKeepsRoutes ==
    ASSUME NEW p, NEW routes, IsPass(p, routes), NEW n \in 1 .. Interfaces
    PROVE  IsPass(RouteOne(p, n), routes)
<1> DEFINE i      == p.router.interfaces[n]
           queue  == i.datagrams_received_
           dgram  == Head(queue)
           popped == [p EXCEPT !.router.interfaces[n].datagrams_received_ = Tail(@)]
           aged   == [dgram EXCEPT !.ttl = @ - 1]
<1>1. IsInterface(i) /\ IsRouter(p.router, routes)
  BY DEF IsPass, IsRouter
<1>2. CASE p.returned \/ queue = << >>
  BY <1>2 DEF RouteOne
<1>3. CASE ~ p.returned /\ queue # << >>
  <2> DEFINE j == [i EXCEPT !.datagrams_received_ = Tail(queue)]
  <2>1. Tail(queue) \in Seq(Datagrams)
    BY <1>1, <1>3 DEF IsInterface
  <2>2. IsInterface(j)
    BY <1>1, <2>1 DEF IsInterface, InterfaceFields
  <2>3. IsPass(popped, routes)
    <3>1. /\ DOMAIN popped = {"router", "frames", "returned"}
          /\ popped.router = [p.router EXCEPT !.interfaces[n] = j]
      BY DEF IsPass, IsRouter
    <3> HIDE DEF j, popped
    <3> QED
      BY <1>1, <2>2, <3>1, InterfaceChange DEF IsPass
  <2>4. \/ RouteOne(p, n) = [popped EXCEPT !.returned = TRUE]
        \/ RouteOne(p, n) = Forward(popped, aged)
        \/ RouteOne(p, n) = popped
    BY <1>3, Zenon DEF RouteOne
  <2> HIDE DEF popped, aged
  <2>5. IsPass([popped EXCEPT !.returned = TRUE], routes)
    BY <2>3 DEF IsPass
  <2> QED
    BY <2>3, <2>4, <2>5, ForwardKeepsRoutes
<1> QED
  BY <1>2, <1>3

(* The fold of DrainInterface, position by position: f[m] is the pass      *)
(* before the datagram at m, where h has it for every set of positions.    *)
LEMMA DrainRun ==
    ASSUME NEW p, NEW n, NEW N \in Nat,
           DOMAIN p.router.interfaces[n].datagrams_received_ = 1 .. N
    PROVE  \E f : /\ f[0] = p
                  /\ \A m \in 0 .. N : f[m + 1] = IF m \in 1 .. N THEN RouteOne(f[m], n) ELSE f[m]
                  /\ DrainInterface(p, n) = f[N + 1]
<1> DEFINE S == 1 .. N
           Iterates(h, D) ==
              h = [s \in SUBSET D |->
                     IF s = {} THEN p ELSE RouteOne(h[s \ {Max(s)}], n)]
           pass == CHOOSE h : Iterates(h, S)
           T == {m \in Nat : \E h : Iterates(h, Below(S, m))}
<1>1. DrainInterface(p, n) = pass[S]
  BY Zenon DEF DrainInterface, FoldLeft, MapThenFoldSet
<1>2. S \in SUBSET Nat /\ S = Below(S, N + 1)
  BY DEF Below
<1> HIDE DEF S
<1>3. 0 \in T
  <2>1. \A s \in SUBSET Below(S, 0) : s = {}
    BY <1>2, OneByOne
  <2>2. Iterates([s \in SUBSET Below(S, 0) |-> p], Below(S, 0))
    BY <2>1, Zenon
  <2> QED
    BY <2>2
<1>4. ASSUME NEW m \in T PROVE m + 1 \in T
  <2>1. PICK h : Iterates(h, Below(S, m))
    OBVIOUS
  <2> DEFINE D == Below(S, m + 1)
             k == [s \in SUBSET D |->
                     IF m \in s THEN RouteOne(h[s \ {Max(s)}], n) ELSE h[s]]
             v(s) == IF s = {} THEN p ELSE RouteOne(k[s \ {Max(s)}], n)
  <2>2. \A s \in SUBSET Below(S, m) : k[s] = h[s]
    BY <1>2, OneByOne
  <2>3. ASSUME NEW s \in SUBSET D
        PROVE  k[s] = v(s)
    <3>1. s \ {Max(s)} \in SUBSET Below(S, m) /\ (m \notin s => s \in SUBSET Below(S, m))
      BY <1>2, LargestBelow
    <3>2. k[s \ {Max(s)}] = h[s \ {Max(s)}]
      BY <2>2, <3>1
    <3> QED
      BY <2>1, <2>2, <3>1, <3>2
  <2>4. Iterates(k, D)
    <3>1. k = [s \in SUBSET D |-> k[s]]
      OBVIOUS
    <3>2. k = [s \in SUBSET D |-> v(s)]
      <4> HIDE DEF k, v
      <4> QED
        BY <2>3, <3>1
    <3> QED
      BY <3>2, Zenon
  <2>5. m + 1 \in Nat /\ \E f : Iterates(f, D)
    <3> HIDE DEF k, Iterates
    <3> QED
      BY <2>4
  <2> QED
    BY <2>5
<1>5. Iterates(pass, S)
  <2>1. T = Nat
    BY <1>3, <1>4, AllNumbers
  <2>2. N + 1 \in T
    <3> HIDE DEF T
    <3> QED
      BY <2>1
  <2>3. \E h : Iterates(h, S)
    <3>1. \E h : Iterates(h, Below(S, N + 1))
      BY <2>2
    <3> QED
      BY <1>2, <3>1
  <2> QED
    BY <2>3, Zenon
<1> HIDE DEF pass
<1> DEFINE f == [m \in Nat |-> pass[Below(S, m)]]
<1>6. f[0] = p /\ f[N + 1] = pass[S]
  <2>1. f[0] = pass[Below(S, 0)] /\ f[N + 1] = pass[Below(S, N + 1)]
    OBVIOUS
  <2>2. pass[{}] = p
    BY <1>5
  <2> QED
    BY <1>2, <2>1, <2>2, OneByOne
<1>7. ASSUME NEW m \in 0 .. N
      PROVE  f[m + 1] = IF m \in S THEN RouteOne(f[m], n) ELSE f[m]
  <2>1. /\ f[m] = pass[Below(S, m)] /\ f[m + 1] = pass[Below(S, m + 1)]
        /\ Below(S, m + 1) \in SUBSET S
    BY <1>2, OneByOne
  <2>2. CASE m \in S
    <3>1. /\ Below(S, m + 1) # {} /\ Max(Below(S, m + 1)) = m
          /\ Below(S, m + 1) \ {m} = Below(S, m)
      BY <1>2, <2>2, OneByOne
    <3>2. pass[Below(S, m + 1)] = RouteOne(pass[Below(S, m)], n)
      BY <1>5, <2>1, <3>1
    <3> QED
      BY <2>1, <2>2, <3>2
  <2>3. CASE m \notin S
    BY <1>2, <2>1, <2>3, OneByOne
  <2> QED
    BY <2>2, <2>3
<1> QED
  <2> HIDE DEF f
  <2> QED
    BY <1>1, <1>6, <1>7 DEF S

(* The same of emptying the queue of an interface.                         *)
LEMMA DrainKeepsRoutes ==
    ASSUME NEW p, NEW routes, IsPass(p, routes), NEW n \in 1 .. Interfaces
    PROVE  IsPass(DrainInterface(p, n), routes)
<1>1. PICK N \in Nat : DOMAIN p.router.interfaces[n].datagrams_received_ = 1 .. N
  <2>1. p.router.interfaces[n].datagrams_received_ \in Seq(Datagrams)
    BY DEF IsPass, IsRouter, IsInterface
  <2> QED
    BY <2>1, LenProperties
<1>2. PICK f : /\ f[0] = p
               /\ \A m \in 0 .. N : f[m + 1] = IF m \in 1 .. N THEN RouteOne(f[m], n) ELSE f[m]
               /\ DrainInterface(p, n) = f[N + 1]
  BY <1>1, DrainRun
<1> DEFINE T == {m \in Nat : m <= N + 1 => IsPass(f[m], routes)}
<1>3. 0 \in T
  BY <1>2
<1>4. ASSUME NEW m \in T PROVE m + 1 \in T
  BY <1>2, RouteOneKeepsRoutes
<1>5. T = Nat
  BY <1>3, <1>4, AllNumbers
<1> QED
  BY <1>2, <1>5

(* The pass that route starts with, and the interfaces it goes over. *)
StartPass(r) ==
    [router |-> r, frames |-> [n \in DOMAIN r.interfaces |-> << >>], returned |-> FALSE]

Numbers(r) == [n \in DOMAIN r.interfaces |-> n]

(* The fold of route, interface by interface. *)
LEMMA RouteRun ==
    ASSUME NEW r, NEW N \in Nat, DOMAIN r.interfaces = 1 .. N
    PROVE  \E f : /\ f[0] = StartPass(r)
                  /\ \A m \in 0 .. N : f[m + 1] = IF m \in 1 .. N THEN DrainInterface(f[m], Numbers(r)[m]) ELSE f[m]
                  /\ route(r) = f[N + 1]
<1> DEFINE S == 1 .. N
           Iterates(h, D) ==
              h = [s \in SUBSET D |->
                     IF s = {} THEN StartPass(r) ELSE DrainInterface(h[s \ {Max(s)}], Numbers(r)[Max(s)])]
           pass == CHOOSE h : Iterates(h, S)
           T == {m \in Nat : \E h : Iterates(h, Below(S, m))}
<1>1. route(r) = pass[S]
  <2>1. DOMAIN Numbers(r) = 1 .. N
    BY DEF Numbers
  <2>2. route(r) = FoldLeft(LAMBDA q, n : DrainInterface(q, n), StartPass(r), Numbers(r))
    BY Zenon DEF route, StartPass, Numbers
  <2> QED
    BY <2>1, <2>2, Zenon DEF FoldLeft, MapThenFoldSet
<1>2. S \in SUBSET Nat /\ S = Below(S, N + 1)
  BY DEF Below
<1> HIDE DEF S
<1>3. 0 \in T
  <2>1. \A s \in SUBSET Below(S, 0) : s = {}
    BY <1>2, OneByOne
  <2>2. Iterates([s \in SUBSET Below(S, 0) |-> StartPass(r)], Below(S, 0))
    BY <2>1, Zenon
  <2> QED
    BY <2>2
<1>4. ASSUME NEW m \in T PROVE m + 1 \in T
  <2>1. PICK h : Iterates(h, Below(S, m))
    OBVIOUS
  <2> DEFINE D == Below(S, m + 1)
             k == [s \in SUBSET D |->
                     IF m \in s THEN DrainInterface(h[s \ {Max(s)}], Numbers(r)[Max(s)]) ELSE h[s]]
             v(s) == IF s = {} THEN StartPass(r) ELSE DrainInterface(k[s \ {Max(s)}], Numbers(r)[Max(s)])
  <2>2. \A s \in SUBSET Below(S, m) : k[s] = h[s]
    BY <1>2, OneByOne
  <2>3. ASSUME NEW s \in SUBSET D
        PROVE  k[s] = v(s)
    <3>1. s \ {Max(s)} \in SUBSET Below(S, m) /\ (m \notin s => s \in SUBSET Below(S, m))
      BY <1>2, LargestBelow
    <3>2. k[s \ {Max(s)}] = h[s \ {Max(s)}]
      BY <2>2, <3>1
    <3> QED
      BY <2>1, <2>2, <3>1, <3>2
  <2>4. Iterates(k, D)
    <3>1. k = [s \in SUBSET D |-> k[s]]
      OBVIOUS
    <3>2. k = [s \in SUBSET D |-> v(s)]
      <4> HIDE DEF k, v
      <4> QED
        BY <2>3, <3>1
    <3> QED
      BY <3>2, Zenon
  <2>5. m + 1 \in Nat /\ \E f : Iterates(f, D)
    <3> HIDE DEF k, Iterates
    <3> QED
      BY <2>4
  <2> QED
    BY <2>5
<1>5. Iterates(pass, S)
  <2>1. T = Nat
    BY <1>3, <1>4, AllNumbers
  <2>2. N + 1 \in T
    <3> HIDE DEF T
    <3> QED
      BY <2>1
  <2>3. \E h : Iterates(h, S)
    <3>1. \E h : Iterates(h, Below(S, N + 1))
      BY <2>2
    <3> QED
      BY <1>2, <3>1
  <2> QED
    BY <2>3, Zenon
<1> HIDE DEF pass
<1> DEFINE f == [m \in Nat |-> pass[Below(S, m)]]
<1>6. f[0] = StartPass(r) /\ f[N + 1] = pass[S]
  <2>1. f[0] = pass[Below(S, 0)] /\ f[N + 1] = pass[Below(S, N + 1)]
    OBVIOUS
  <2>2. pass[{}] = StartPass(r)
    BY <1>5
  <2> QED
    BY <1>2, <2>1, <2>2, OneByOne
<1>7. ASSUME NEW m \in 0 .. N
      PROVE  f[m + 1] = IF m \in S THEN DrainInterface(f[m], Numbers(r)[m]) ELSE f[m]
  <2>1. /\ f[m] = pass[Below(S, m)] /\ f[m + 1] = pass[Below(S, m + 1)]
        /\ Below(S, m + 1) \in SUBSET S
    BY <1>2, OneByOne
  <2>2. CASE m \in S
    <3>1. /\ Below(S, m + 1) # {} /\ Max(Below(S, m + 1)) = m
          /\ Below(S, m + 1) \ {m} = Below(S, m)
      BY <1>2, <2>2, OneByOne
    <3>2. pass[Below(S, m + 1)] = DrainInterface(pass[Below(S, m)], Numbers(r)[m])
      BY <1>5, <2>1, <3>1
    <3> QED
      BY <2>1, <2>2, <3>2
  <2>3. CASE m \notin S
    BY <1>2, <2>1, <2>3, OneByOne
  <2> QED
    BY <2>2, <2>3
<1> QED
  <2> HIDE DEF f
  <2> QED
    BY <1>1, <1>6, <1>7 DEF S

(* A whole pass changes no route and queues only datagrams.                *)
LEMMA RouteKeepsRoutes ==
    ASSUME NEW r, NEW routes, IsRouter(r, routes)
    PROVE  IsRouter(route(r).router, routes)
<1>1. DOMAIN r.interfaces = 1 .. Interfaces /\ Interfaces \in Nat
  BY RouterAssumption DEF IsRouter
<1>2. PICK f : /\ f[0] = StartPass(r)
               /\ \A m \in 0 .. Interfaces :
                     f[m + 1] = IF m \in 1 .. Interfaces THEN DrainInterface(f[m], Numbers(r)[m]) ELSE f[m]
               /\ route(r) = f[Interfaces + 1]
  BY <1>1, RouteRun
<1> DEFINE T == {m \in Nat : m <= Interfaces + 1 => IsPass(f[m], routes)}
<1>3. 0 \in T
  BY <1>2 DEF IsPass, StartPass
<1>4. ASSUME NEW m \in T PROVE m + 1 \in T
  BY <1>1, <1>2, DrainKeepsRoutes DEF Numbers
<1>5. T = Nat
  BY <1>3, <1>4, AllNumbers
<1> QED
  BY <1>1, <1>2, <1>5 DEF IsPass
-----------------------------------------------------------------------------
(* A route is stored under its own prefix, which has no bit to clear. *)
LEMMA AddRouteIInv ==
    ASSUME IInv, NEW route_prefix \in Addresses, NEW prefix_length \in 0 .. Bits,
           NEW next_hop \in NextHops \cup {Direct}, NEW n \in 1 .. Interfaces,
           AddRoute(route_prefix, prefix_length, next_hop, n)
    PROVE  IInv'
<1> DEFINE key == <<prefix_length, route_prefix>>
           new == Route(next_hop, n)
<1>1. /\ router' = [router EXCEPT !.routing_table_ = With(@, key, new)]
      /\ HighBits(route_prefix, prefix_length) = route_prefix
      /\ arrived' = arrived
  BY DEF AddRoute, add_route
<1>2. IsRouter(router, table)
  BY DEF IInv, TypeOK
<1>3. table' = With(table, key, new) /\ IsRouter(router', table')
  <2> HIDE DEF key, new
  <2> QED
    BY <1>1, <1>2 DEF IsRouter, table
<1>4. key \in Keys /\ new \in [next_hop : NextHops \cup {Direct}, interface_num : 1 .. Interfaces]
  BY DEF Keys, Route
<1>5. key[1] = prefix_length /\ key[2] = route_prefix
  OBVIOUS
<1> HIDE DEF key, new
<1>6. /\ DOMAIN table' = DOMAIN table \cup {key}
      /\ \A k \in DOMAIN table' : table'[k] = IF k = key THEN new ELSE table[k]
      /\ table' = [k \in DOMAIN table' |-> table'[k]]
  BY <1>3 DEF With
<1>7. TypeOK'
  <2>1. table' \in [DOMAIN table' -> [next_hop : NextHops \cup {Direct},
                                      interface_num : 1 .. Interfaces]]
    BY <1>4, <1>6 DEF IInv, TypeOK
  <2>2. DOMAIN table' \subseteq Keys
    BY <1>4, <1>6 DEF IInv, TypeOK
  <2> QED
    BY <1>1, <1>3, <2>1, <2>2 DEF IInv, TypeOK
<1>8. PrefixesAreClear'
  BY <1>1, <1>5, <1>6 DEF IInv, PrefixesAreClear
<1> QED
  BY <1>7, <1>8 DEF IInv

(* Every other step leaves the table alone. *)
LEMMA SameRoutes ==
    ASSUME IInv, IsRouter(router', table), arrived' \in Nat
    PROVE  IInv'
<1>1. table' = table
  BY DEF IsRouter, table
<1> QED
  BY <1>1 DEF IInv, TypeOK, PrefixesAreClear

(* A frame received queues at most the datagram it carries.                *)
LEMMA RecvKeepsQueue ==
    ASSUME NEW i, IsInterface(i), NEW frame,
           frame.type = "IPv4" => frame.payload \in Datagrams
    PROVE  IsInterface(recv_frame(i, frame).interface)
<1>1. IsInterface(recv_arp(i, frame.payload).interface)
  BY DEF IsInterface, InterfaceFields, recv_arp
<1>2. frame.type = "IPv4" =>
         IsInterface([i EXCEPT !.datagrams_received_ = Append(@, frame.payload)])
  BY DEF IsInterface, InterfaceFields
<1> QED
  BY <1>1, <1>2 DEF recv_frame

(* Receiving a frame keeps the invariant.                                  *)
LEMMA RecvFrameIInv ==
    ASSUME IInv, NEW n \in 1 .. Interfaces, NEW frame,
           frame.type = "IPv4" => frame.payload \in Datagrams,
           RecvFrame(n, frame), arrived' \in Nat
    PROVE  IInv'
<1> DEFINE i == recv_frame(router.interfaces[n], frame).interface
<1>1. IsRouter(router, table)
  BY DEF IInv, TypeOK
<1>2. router' = [router EXCEPT !.interfaces[n] = i]
  BY DEF RecvFrame
<1>3. IsInterface(i)
  BY <1>1, RecvKeepsQueue DEF IsRouter
<1> HIDE DEF i
<1> QED
  BY <1>1, <1>2, <1>3, InterfaceChange, SameRoutes

(* Every step keeps the invariant.                                         *)
LEMMA NextIInv == IInv /\ [Next]_vars => IInv'
<1> SUFFICES ASSUME IInv, [Next]_vars
             PROVE  IInv'
  OBVIOUS
<1>0. IsRouter(router, table) /\ arrived \in Nat
  BY DEF IInv, TypeOK
<1>1. ASSUME NEW route_prefix \in Addresses, NEW prefix_length \in 0 .. Bits,
             NEW next_hop \in NextHops \cup {Direct}, NEW n \in 1 .. Interfaces,
             AddRoute(route_prefix, prefix_length, next_hop, n)
      PROVE  IInv'
  BY <1>1, AddRouteIInv
<1>2. ASSUME NEW n \in 1 .. Interfaces, NEW dst \in Addresses, NEW ttl \in TTLs,
             RecvDatagram(n, dst, ttl)
      PROVE  IInv'
  <2> DEFINE dgram == [id |-> arrived + 1, dst |-> dst, ttl |-> ttl]
             frame == [type |-> "IPv4", src |-> Hardware, dst |-> n, payload |-> dgram]
  <2>1. frame.payload \in Datagrams
    BY <1>0, RouterAssumption DEF Datagrams
  <2>2. RecvFrame(n, frame) /\ arrived' \in Nat
    BY <1>0, <1>2 DEF RecvDatagram
  <2> HIDE DEF frame
  <2> QED
    BY <2>1, <2>2, RecvFrameIInv
<1>3. ASSUME NEW n \in 1 .. Interfaces, NEW ip, RecvReply(n, ip)
      PROVE  IInv'
  <2> DEFINE arp   == [opcode |-> "reply", sender_ethernet_address |-> Hardware,
                       sender_ip_address |-> ip, target_ip_address |-> Direct]
             frame == [type |-> "ARP", src |-> Hardware, dst |-> n, payload |-> arp]
  <2>1. frame.type = "ARP"
    OBVIOUS
  <2>2. RecvFrame(n, frame) /\ arrived' \in Nat
    BY <1>0, <1>3 DEF RecvReply
  <2> HIDE DEF frame
  <2> QED
    BY <2>1, <2>2, RecvFrameIInv
<1>4. CASE RoutePass
  BY <1>0, <1>4, RouteKeepsRoutes, SameRoutes DEF RoutePass
<1>5. CASE UNCHANGED vars
  BY <1>5 DEF vars, IInv, TypeOK, PrefixesAreClear, table
<1> QED
  BY <1>1, <1>2, <1>3, <1>4, <1>5 DEF Next

(* The routing table is well formed in every state: passes, frames and     *)
(* datagrams never touch it, and every prefix in it is clear.              *)
THEOREM Invariance == Spec => []IInv
  BY InitIInv, NextIInv, PTL DEF Spec
-----------------------------------------------------------------------------
(* The keys of length zero all say the same, and an address has no bits    *)
(* before the first.                                                       *)
LEMMA NoBits ==
    ASSUME NEW address \in Addresses
    PROVE  HighBits(address, 0) = 0
<1>1. Bits - 0 = Bits
  BY BitsAssumption
<1> DEFINE turn == 2 ^ Bits
<1>2. turn \in Int
  BY BitsAssumption
<1>3. address \in 0 .. turn - 1
  BY DEF Addresses
<1>4. HighBits(address, 0) = (address \div turn) * turn
  BY <1>1 DEF HighBits
<1> HIDE DEF turn
<1>5. address \div turn = 0
  BY <1>2, <1>3
<1> QED
  BY <1>2, <1>4, <1>5

(* Where the routes of one length are looked up is where the one that      *)
(* applies is, if there is one.                                            *)
LEMMA LookupIsApplies ==
    ASSUME IInv, NEW dst \in Addresses, NEW length \in 0 .. Bits
    PROVE  /\ \A key \in DOMAIN table :
                 Applies(key, dst) /\ key[1] = length => key = Key(table, length, dst)
           /\ Key(table, length, dst) \in DOMAIN table =>
                 /\ Applies(Key(table, length, dst), dst)
                 /\ Key(table, length, dst)[1] = length
<1> DEFINE k == Key(table, length, dst)
<1>1. \A key \in DOMAIN table :
         /\ key \in Keys /\ key = <<key[1], key[2]>>
         /\ key[1] \in 0 .. Bits /\ key[2] \in Addresses
         /\ HighBits(key[2], key[1]) = key[2]
  BY DEF IInv, TypeOK, PrefixesAreClear, Keys
<1>2. CASE length = 0
  <2>1. \A key \in DOMAIN table : key[1] = 0 => key = <<0, 0>>
    BY <1>1, NoBits
  <2>2. <<0, dst>> \in DOMAIN table => <<0, dst>> = <<0, 0>>
    BY <2>1
  <2>3. k = <<0, 0>>
    BY <1>2, <2>2 DEF Key
  <2>4. k \in DOMAIN table => HighBits(0, 0) = 0 /\ HighBits(dst, 0) = 0
    BY <1>1, <2>3, NoBits
  <2> HIDE DEF k
  <2> QED
    BY <1>2, <2>1, <2>3, <2>4 DEF Applies, k
<1>3. CASE length # 0
  <2>1. k = <<length, HighBits(dst, length)>>
    BY <1>3 DEF Key
  <2> HIDE DEF k
  <2>2. \A key \in DOMAIN table : Applies(key, dst) /\ key[1] = length => key = k
    BY <1>1, <2>1 DEF Applies
  <2>3. k \in DOMAIN table => Applies(k, dst) /\ k[1] = length
    BY <1>1, <2>1 DEF Applies
  <2> QED
    BY <2>2, <2>3 DEF k
<1> QED
  BY <1>2, <1>3

(* The search of the table finds the longest route that applies.           *)
LEMMA LongestIsFound == IInv => LongestPrefixMatch
<1> SUFFICES ASSUME IInv, NEW dst \in Addresses
             PROVE  LET applying == {key \in DOMAIN table : Applies(key, dst)} IN
                    /\ HasRoute(table, dst) <=> applying # {}
                    /\ HasRoute(table, dst) =>
                          LET key == Key(table, Max(Matches(table, dst)), dst) IN
                          /\ key \in applying
                          /\ \A other \in applying : other[1] <= key[1]
  BY DEF LongestPrefixMatch
<1> DEFINE applying == {key \in DOMAIN table : Applies(key, dst)}
           lengths  == Matches(table, dst)
           longest  == Max(lengths)
<1>1. lengths = {length \in 0 .. Bits : Key(table, length, dst) \in DOMAIN table}
  BY DEF Matches
<1>2. \A key \in DOMAIN table : key[1] \in 0 .. Bits
  BY DEF IInv, TypeOK, Keys
<1>3. \A key \in applying : key[1] \in lengths
  BY <1>1, <1>2, LookupIsApplies
<1>4. \A length \in lengths : /\ Key(table, length, dst) \in applying
                              /\ Key(table, length, dst)[1] = length
  BY <1>1, LookupIsApplies
<1>5. HasRoute(table, dst) <=> lengths # {}
  BY DEF HasRoute
<1>6. lengths # {} => longest \in lengths /\ \A n \in lengths : n <= longest
  <2>1. lengths \in SUBSET Nat /\ Bits + 1 \in Nat /\ \A n \in lengths : n < Bits + 1
    BY <1>1, BitsAssumption
  <2> QED
    BY <2>1, LargestOf
<1> HIDE DEF applying, lengths, longest
<1>7. HasRoute(table, dst) <=> applying # {}
  BY <1>3, <1>4, <1>5
<1>8. HasRoute(table, dst) =>
         /\ Key(table, longest, dst) \in applying
         /\ \A other \in applying : other[1] <= Key(table, longest, dst)[1]
  BY <1>3, <1>4, <1>5, <1>6
<1> QED
  BY <1>7, <1>8 DEF applying, lengths, longest

(* For every destination the route used is the longest that applies, and   *)
(* none is used only if none applies (Router::route, router.cc:8-13).      *)
THEOREM LongestPrefixIsUsed == Spec => []LongestPrefixMatch
  BY LongestIsFound, Invariance, PTL
-----------------------------------------------------------------------------
(* A sequence of whatever.                                                 *)
IsSeq(s) == \E S : s \in Seq(S)

(* The datagrams in frames.                                                *)
Gone(s) == {s[i].payload : i \in {j \in DOMAIN s : s[j].type = "IPv4"}}

(* Datagrams wait for addresses in an interface.                           *)
IsHolding(i) ==
    \A ip \in DOMAIN i.pending_arp_requests_ :
        i.pending_arp_requests_[ip].dgrams \in Seq(Datagrams)

(* What an interface has for a next hop, when it has sent frames s.        *)
Has(i, s, hop) ==
    ToSet(Waiting(i, hop)) \cup (IF hop \in DOMAIN i.arp_cache_ THEN Gone(s) ELSE {})

(* One frame more.                                                         *)
LEMMA FrameOn ==
    ASSUME NEW s, IsSeq(s), NEW f
    PROVE  /\ IsSeq(s \o << f >>)
           /\ f.type = "IPv4" => Gone(s \o << f >>) = Gone(s) \cup {f.payload}
           /\ f.type # "IPv4" => Gone(s \o << f >>) = Gone(s)
<1> DEFINE t == s \o << f >>
<1>1. PICK S : s \in Seq(S)
  BY DEF IsSeq
<1>2. s \in Seq(S \cup {f}) /\ << f >> \in Seq(S \cup {f}) /\ Len(<< f >>) = 1
  BY <1>1
<1>3. /\ t \in Seq(S \cup {f}) /\ Len(s) \in Nat
      /\ DOMAIN s = 1 .. Len(s) /\ DOMAIN t = 1 .. Len(s) + 1
      /\ \A i \in 1 .. Len(s) : t[i] = s[i]
      /\ t[Len(s) + 1] = f
  BY <1>2
<1> DEFINE N == Len(s)
<1>4. DOMAIN t = DOMAIN s \cup {N + 1} /\ \A i \in DOMAIN s : t[i] = s[i]
  BY <1>3
<1> HIDE DEF t, N
<1>5. t[N + 1] = f
  BY <1>3 DEF N
<1>6. f.type = "IPv4" => Gone(t) = Gone(s) \cup {f.payload}
  <2> SUFFICES ASSUME f.type = "IPv4" PROVE Gone(t) = Gone(s) \cup {f.payload}
    OBVIOUS
  <2>1. Gone(s) \subseteq Gone(t)
    BY <1>4, Zenon DEF Gone
  <2>2. f.payload \in Gone(t)
    BY <1>4, <1>5, Zenon DEF Gone
  <2>3. ASSUME NEW x \in Gone(t) PROVE x \in Gone(s) \cup {f.payload}
    <3>1. PICK i \in DOMAIN t : t[i].type = "IPv4" /\ x = t[i].payload
      BY Zenon DEF Gone
    <3>2. CASE i = N + 1
      BY <1>5, <3>1, <3>2
    <3>3. CASE i \in DOMAIN s
      BY <1>4, <3>1, <3>3, Zenon DEF Gone
    <3> QED
      BY <1>4, <3>1, <3>2, <3>3
  <2> QED
    BY <2>1, <2>2, <2>3
<1>7. f.type # "IPv4" => Gone(t) = Gone(s)
  BY <1>4, <1>5, Zenon DEF Gone
<1>8. IsSeq(t)
  BY <1>3 DEF IsSeq
<1> QED
  BY <1>6, <1>7, <1>8 DEF t

(* One datagram more.                                                      *)
LEMMA DatagramOn ==
    ASSUME NEW S, NEW s \in Seq(S), NEW x
    PROVE  ToSet(Append(s, x)) = ToSet(s) \cup {x}
<1> DEFINE t == Append(s, x)
<1>1. /\ Len(s) \in Nat
      /\ DOMAIN s = 1 .. Len(s) /\ DOMAIN t = 1 .. Len(s) + 1
      /\ \A i \in 1 .. Len(s) : t[i] = s[i]
      /\ t[Len(s) + 1] = x
  OBVIOUS
<1> DEFINE N == Len(s)
<1>2. DOMAIN t = DOMAIN s \cup {N + 1} /\ \A i \in DOMAIN s : t[i] = s[i]
  BY <1>1
<1>3. t[N + 1] = x
  BY <1>1
<1> HIDE DEF t, N
<1>4. ToSet(t) = ToSet(s) \cup {x}
  BY <1>2, <1>3, Zenon DEF ToSet
<1> QED
  BY <1>4 DEF t

(* Interface i sends dgram to next_hop, becomes j, and its frames become t.*)
Sends(j, t, i, s, dgram, next_hop) ==
    /\ IsInterface(j) /\ IsHolding(j) /\ IsSeq(t)
    /\ j.datagrams_received_ = i.datagrams_received_
    /\ \A hop : /\ Has(i, s, hop) \subseteq Has(j, t, hop)
                /\ Has(j, t, hop) \subseteq Has(i, s, hop) \cup {dgram}
    /\ dgram \in Has(j, t, next_hop)

(* The next hop gets the datagram, now or when its address is known, and   *)
(* nobody else.                                                            *)
LEMMA SendSends ==
    ASSUME NEW i, IsInterface(i), IsHolding(i), NEW s, IsSeq(s),
           NEW dgram \in Datagrams, NEW next_hop
    PROVE  Sends(send_datagram(i, dgram, next_hop).interface,
                 s \o send_datagram(i, dgram, next_hop).frames, i, s, dgram, next_hop)
<1> DEFINE step == send_datagram(i, dgram, next_hop)
           j == step.interface
           t == s \o step.frames
<1>1. IsInterface(j)
  BY SendKeepsQueue
<1>2. CASE next_hop \in DOMAIN i.arp_cache_
  <2> DEFINE f == IPv4Frame(i, i.arp_cache_[next_hop].ethernet, dgram)
  <2>1. j = i /\ t = s \o << f >>
    BY <1>2 DEF send_datagram
  <2>2. f.type = "IPv4" /\ f.payload = dgram
    BY DEF IPv4Frame
  <2> HIDE DEF f, j, t, step
  <2>3. IsSeq(t) /\ Gone(t) = Gone(s) \cup {dgram}
    BY <2>1, <2>2, FrameOn
  <2>4. \A hop : /\ Has(i, s, hop) \subseteq Has(j, t, hop)
                 /\ Has(j, t, hop) \subseteq Has(i, s, hop) \cup {dgram}
    BY <2>1, <2>3, Zenon DEF Has
  <2>5. dgram \in Has(j, t, next_hop)
    BY <1>2, <2>1, <2>3, Zenon DEF Has
  <2> QED
    BY <1>1, <2>1, <2>3, <2>4, <2>5, Zenon DEF Sends, j, t, step
<1>3. CASE next_hop \notin DOMAIN i.arp_cache_
  <2> DEFINE f == ARPFrame(i, "request", Broadcast, next_hop)
             pending == i.pending_arp_requests_
             waiting == Waiting(i, next_hop)
             age == IF next_hop \in DOMAIN pending THEN pending[next_hop].age ELSE 0
             entry == [dgrams |-> Append(waiting, dgram), age |-> age]
             more == With(pending, next_hop, entry)
  <2>1. /\ j = [i EXCEPT !.pending_arp_requests_ = more]
        /\ step.frames = << f >> \/ step.frames = << >>
    BY <1>3 DEF send_datagram, Enqueue
  <2>2. f.type # "IPv4"
    BY DEF ARPFrame
  <2>3. waiting \in Seq(Datagrams)
    BY DEF Waiting, IsHolding
  <2>4. DOMAIN i = InterfaceFields
    BY DEF IsInterface
  <2>5. entry.dgrams = Append(waiting, dgram)
    OBVIOUS
  <2> HIDE DEF f, j, step, more, entry, age, waiting
  <2>6. IsSeq(t) /\ Gone(t) = Gone(s)
    <3>1. CASE step.frames = << f >>
      BY <2>2, <3>1, FrameOn
    <3>2. CASE step.frames = << >>
      <4>1. PICK S : s \in Seq(S)
        BY DEF IsSeq
      <4>2. s \o << >> = s
        BY <4>1
      <4> QED
        BY <3>2, <4>2
    <3> QED
      BY <2>1, <3>1, <3>2
  <2> HIDE DEF t
  <2>7. /\ j.arp_cache_ = i.arp_cache_ /\ j.datagrams_received_ = i.datagrams_received_
        /\ j.pending_arp_requests_ = more
    BY <2>1, <2>4 DEF InterfaceFields
  <2>8. /\ DOMAIN more = DOMAIN pending \cup {next_hop}
        /\ more[next_hop] = entry
        /\ \A ip \in DOMAIN pending : ip # next_hop => more[ip] = pending[ip]
    BY DEF With, more
  <2>9. Append(waiting, dgram) \in Seq(Datagrams)
    BY <2>3
  <2>10. IsHolding(j)
    BY <2>5, <2>7, <2>8, <2>9, Zenon DEF IsHolding
  <2>11. Waiting(j, next_hop) = Append(waiting, dgram)
    BY <2>5, <2>7, <2>8, Zenon DEF Waiting
  <2>12. \A hop : hop # next_hop => Waiting(j, hop) = Waiting(i, hop)
    BY <2>7, <2>8, Zenon DEF Waiting
  <2>13. ToSet(Waiting(j, next_hop)) = ToSet(Waiting(i, next_hop)) \cup {dgram}
    BY <2>3, <2>11, DatagramOn DEF waiting
  <2>14. \A hop : /\ Has(i, s, hop) \subseteq Has(j, t, hop)
                  /\ Has(j, t, hop) \subseteq Has(i, s, hop) \cup {dgram}
    <3> SUFFICES ASSUME NEW hop
                 PROVE  /\ Has(i, s, hop) \subseteq Has(j, t, hop)
                        /\ Has(j, t, hop) \subseteq Has(i, s, hop) \cup {dgram}
      OBVIOUS
    <3>1. CASE hop = next_hop
      BY <2>6, <2>7, <2>13, <3>1, Zenon DEF Has
    <3>2. CASE hop # next_hop
      BY <2>6, <2>7, <2>12, <3>2, Zenon DEF Has
    <3> QED
      BY <3>1, <3>2
  <2>15. dgram \in Has(j, t, next_hop)
    BY <2>13, Zenon DEF Has
  <2> QED
    BY <1>1, <2>6, <2>7, <2>10, <2>14, <2>15, Zenon DEF Sends, j, t, step
<1> QED
  BY <1>2, <1>3
-----------------------------------------------------------------------------
(* The datagram as it is handed on.                                        *)
Aged(dgram) == [dgram EXCEPT !.ttl = @ - 1]

(* Where a datagram is.                                                    *)
Places(r, frames, x) ==
    {place \in (1 .. Interfaces) \X (NextHops \cup Addresses) :
        x \in Out(r, frames, place[1], place[2])}

(* A datagram that has been taken is in the right places, as it is handed  *)
(* on.                                                                     *)
GoesTo(dgram, places) ==
    LET applying == {key \in DOMAIN table : Applies(key, dgram.dst)}
        best     == CHOOSE key \in applying : \A other \in applying : other[1] <= key[1]
    IN  IF dgram.ttl > 1 /\ applying # {}
          THEN LET hop == IF table[best].next_hop = Direct THEN dgram.dst
                          ELSE table[best].next_hop
               IN  <<table[best].interface_num, hop>> \in places
                   /\ \A place \in places : place[1] = table[best].interface_num
          ELSE places = {}

(* Each datagram received has its own number.                              *)
IsUnique(r) ==
    \A n, m \in 1 .. Interfaces :
       \A i \in DOMAIN r.interfaces[n].datagrams_received_,
          j \in DOMAIN r.interfaces[m].datagrams_received_ :
             r.interfaces[n].datagrams_received_[i].id
                = r.interfaces[m].datagrams_received_[j].id => n = m /\ i = j

(* Datagrams are numbered as they arrive, and each is in one place.        *)
Numbered ==
    /\ \A n \in 1 .. Interfaces : IsHolding(router.interfaces[n])
    /\ IsUnique(router)
    /\ \A n \in 1 .. Interfaces : \A x \in Queued(router, n) : x.id <= arrived
    /\ \A n \in 1 .. Interfaces :
          \A ip \in DOMAIN router.interfaces[n].pending_arp_requests_ :
             \A x \in ToSet(Waiting(router.interfaces[n], ip)) :
                /\ x.id <= arrived
                /\ \A m \in 1 .. Interfaces : \A y \in Queued(router, m) : y.id # x.id

(* Nothing with this number has been handed on.                            *)
IsNew(q, id) ==
    \A m \in 1 .. Interfaces : \A hop : \A x \in Out(q.router, q.frames, m, hop) : x.id # id

(* A pass that has not handed on what is still in the queues.              *)
IsTidy(q) ==
    /\ IsPass(q, table)
    /\ DOMAIN q.frames = 1 .. Interfaces
    /\ \A n \in 1 .. Interfaces : IsHolding(q.router.interfaces[n]) /\ IsSeq(q.frames[n])
    /\ IsUnique(q.router)
    /\ \A n \in 1 .. Interfaces : Queued(q.router, n) \subseteq Queued(router, n)
    /\ \A n \in 1 .. Interfaces : \A d \in Queued(q.router, n) : IsNew(q, d.id)
    /\ \A m \in 1 .. Interfaces : \A hop :
          \A x \in Out(q.router, q.frames, m, hop) : x.id <= arrived

(* What has been taken has been handed on as it should.                    *)
PassOK(q) ==
    /\ IsTidy(q)
    /\ \A n \in 1 .. Interfaces : \A d \in Queued(router, n) \ Queued(q.router, n) :
          GoesTo(d, Places(q.router, q.frames, Aged(d)))

(* ... but dgram, which has just been taken.                               *)
PassBut(q, dgram) ==
    /\ IsTidy(q)
    /\ \A n \in 1 .. Interfaces : \A d \in Queued(router, n) \ Queued(q.router, n) :
          d # dgram => GoesTo(d, Places(q.router, q.frames, Aged(d)))
    /\ dgram \in Datagrams
    /\ \E n \in 1 .. Interfaces : dgram \in Queued(router, n)
    /\ IsNew(q, dgram.id)
    /\ \A n \in 1 .. Interfaces : \A d \in Queued(q.router, n) : d.id # dgram.id

(* Out, of a router, is Has of one of its interfaces.                      *)
LEMMA OutHas ==
    ASSUME NEW r, NEW frames, NEW n, NEW hop
    PROVE  Out(r, frames, n, hop) = Has(r.interfaces[n], frames[n], hop)
BY Zenon DEF Out, Has, Gone

(* A queue and its first datagram.                                         *)
LEMMA HeadAndTail ==
    ASSUME NEW S, NEW s \in Seq(S), s # << >>
    PROVE  /\ Head(s) \in S /\ Tail(s) \in Seq(S)
           /\ ToSet(s) = {Head(s)} \cup ToSet(Tail(s))
           /\ 1 \in DOMAIN s /\ s[1] = Head(s)
           /\ \A i \in DOMAIN Tail(s) :
                 i + 1 \in DOMAIN s /\ i + 1 # 1 /\ Tail(s)[i] = s[i + 1]
<1> DEFINE t == Tail(s)
           N == Len(s)
<1>1. /\ Head(s) \in S /\ t \in Seq(S)
      /\ N \in Nat /\ N # 0
      /\ DOMAIN s = 1 .. N /\ DOMAIN t = 1 .. N - 1
      /\ s[1] = Head(s)
      /\ \A i \in 1 .. N - 1 : t[i] = s[i + 1]
  OBVIOUS
<1> HIDE DEF t, N
<1>2. /\ 1 \in DOMAIN s
      /\ \A i \in DOMAIN t : i + 1 \in DOMAIN s /\ i + 1 # 1 /\ t[i] = s[i + 1]
  BY <1>1
<1>3. \A k \in DOMAIN s : k = 1 \/ \E i \in DOMAIN t : s[k] = t[i]
  <2> SUFFICES ASSUME NEW k \in DOMAIN s, k # 1 PROVE \E i \in DOMAIN t : s[k] = t[i]
    OBVIOUS
  <2>1. k - 1 \in DOMAIN t /\ s[k] = t[k - 1]
    BY <1>1
  <2> QED
    BY <2>1
<1>4. \A i \in DOMAIN t : \E k \in DOMAIN s : t[i] = s[k]
  BY <1>2
<1>5. ASSUME NEW x \in ToSet(s) PROVE x \in {Head(s)} \cup ToSet(t)
  <2>1. PICK k \in DOMAIN s : x = s[k]
    BY Zenon DEF ToSet
  <2>2. CASE k = 1
    BY <1>1, <2>1, <2>2
  <2>3. CASE k # 1
    <3>1. PICK i \in DOMAIN t : s[k] = t[i]
      BY <1>3, <2>3
    <3> QED
      BY <2>1, <3>1, Zenon DEF ToSet
  <2> QED
    BY <2>2, <2>3
<1>6. \A x \in ToSet(t) : x \in ToSet(s)
  <2> SUFFICES ASSUME NEW x \in ToSet(t) PROVE x \in ToSet(s)
    OBVIOUS
  <2>1. PICK i \in DOMAIN t : x = t[i]
    BY Zenon DEF ToSet
  <2>2. PICK k \in DOMAIN s : t[i] = s[k]
    BY <1>4
  <2> QED
    BY <2>1, <2>2, Zenon DEF ToSet
<1>7. Head(s) \in ToSet(s)
  BY <1>1, <1>2, Zenon DEF ToSet
<1>8. ToSet(s) = {Head(s)} \cup ToSet(t)
  BY <1>5, <1>6, <1>7
<1> QED
  BY <1>1, <1>2, <1>8 DEF t

(* What a router's queues are.                                             *)
LEMMA QueueOf ==
    ASSUME NEW r, NEW routes, IsRouter(r, routes), NEW n \in 1 .. Interfaces
    PROVE  /\ r.interfaces[n].datagrams_received_ \in Seq(Datagrams)
           /\ Queued(r, n) = ToSet(r.interfaces[n].datagrams_received_)
           /\ Queued(r, n) \subseteq Datagrams
<1> DEFINE q == r.interfaces[n].datagrams_received_
<1>1. q \in Seq(Datagrams)
  BY DEF IsRouter, IsInterface
<1>2. ToSet(q) \subseteq Datagrams
  <2> HIDE DEF q
  <2> QED
    BY <1>1 DEF ToSet
<1> QED
  BY <1>1, <1>2, Zenon DEF Queued

(* A number names one datagram.                                            *)
LEMMA SameNumber ==
    ASSUME NEW r, IsUnique(r), NEW n \in 1 .. Interfaces, NEW m \in 1 .. Interfaces,
           NEW x \in Queued(r, n), NEW y \in Queued(r, m), x.id = y.id
    PROVE  n = m /\ x = y
<1>1. PICK i \in DOMAIN r.interfaces[n].datagrams_received_ :
         x = r.interfaces[n].datagrams_received_[i]
  BY Zenon DEF Queued, ToSet
<1>2. PICK j \in DOMAIN r.interfaces[m].datagrams_received_ :
         y = r.interfaces[m].datagrams_received_[j]
  BY Zenon DEF Queued, ToSet
<1>3. r.interfaces[n].datagrams_received_[i].id = r.interfaces[m].datagrams_received_[j].id
  BY <1>1, <1>2, Zenon
<1>4. n = m /\ i = j
  <2>1. \A k \in DOMAIN r.interfaces[n].datagrams_received_,
           l \in DOMAIN r.interfaces[m].datagrams_received_ :
              r.interfaces[n].datagrams_received_[k].id
                 = r.interfaces[m].datagrams_received_[l].id => n = m /\ k = l
    BY Zenon DEF IsUnique
  <2> QED
    BY <1>3, <2>1, Zenon
<1> QED
  BY <1>1, <1>2, <1>4, Zenon

(* The pass when the first datagram has been taken from interface n.       *)
WithoutFirst(p, n) == [p EXCEPT !.router.interfaces[n].datagrams_received_ = Tail(@)]

(* Nothing has been handed on.                                             *)
SameOut(q, p) ==
    \A m \in 1 .. Interfaces : \A hop :
       Out(q.router, q.frames, m, hop) = Out(p.router, p.frames, m, hop)

(* q is p without the first datagram of interface n.                       *)
IsPopped(q, p, n) ==
    /\ IsPass(q, table)
    /\ q.frames = p.frames /\ q.returned = p.returned
    /\ \A m \in 1 .. Interfaces : IsHolding(q.router.interfaces[m])
    /\ SameOut(q, p)
    /\ \A m \in 1 .. Interfaces : m # n => q.router.interfaces[m] = p.router.interfaces[m]
    /\ q.router.interfaces[n].datagrams_received_
          = Tail(p.router.interfaces[n].datagrams_received_)

(* What taking a datagram changes.                                         *)
LEMMA PopChanges ==
    ASSUME NEW p, IsTidy(p), NEW n \in 1 .. Interfaces,
           p.router.interfaces[n].datagrams_received_ # << >>
    PROVE  IsPopped(WithoutFirst(p, n), p, n)
<1> DEFINE i     == p.router.interfaces[n]
           queue == i.datagrams_received_
           j     == [i EXCEPT !.datagrams_received_ = Tail(queue)]
           q     == WithoutFirst(p, n)
<1>1. IsPass(p, table) /\ IsRouter(p.router, table) /\ IsInterface(i)
  BY DEF IsTidy, IsPass, IsRouter
<1>2. Tail(queue) \in Seq(Datagrams)
  BY <1>1 DEF IsInterface
<1>3. /\ IsInterface(j) /\ j.datagrams_received_ = Tail(queue)
      /\ j.arp_cache_ = i.arp_cache_ /\ j.pending_arp_requests_ = i.pending_arp_requests_
  BY <1>1, <1>2 DEF IsInterface, InterfaceFields
<1>4. /\ DOMAIN q = {"router", "frames", "returned"}
      /\ q.router = [p.router EXCEPT !.interfaces[n] = j]
      /\ q.frames = p.frames /\ q.returned = p.returned
  BY <1>1 DEF WithoutFirst, IsPass, IsRouter
<1> HIDE DEF j, q
<1>5. IsRouter(q.router, table)
  BY <1>1, <1>3, <1>4, InterfaceChange
<1>6. /\ \A m \in 1 .. Interfaces : m # n => q.router.interfaces[m] = p.router.interfaces[m]
      /\ q.router.interfaces[n] = j
  BY <1>1, <1>4 DEF IsRouter
<1>7. ASSUME NEW m \in 1 .. Interfaces
      PROVE  /\ IsHolding(q.router.interfaces[m])
             /\ \A hop : Out(q.router, q.frames, m, hop) = Out(p.router, p.frames, m, hop)
  <2>1. IsHolding(p.router.interfaces[m])
    BY Zenon DEF IsTidy
  <2>2. CASE m # n
    BY <1>4, <1>6, <2>1, <2>2, OutHas, Zenon
  <2>3. CASE m = n
    <3>1. IsHolding(j)
      BY <1>3, <2>1, <2>3, Zenon DEF IsHolding
    <3>2. \A hop : Waiting(j, hop) = Waiting(i, hop)
      BY <1>3, Zenon DEF Waiting
    <3>3. \A s, hop : Has(j, s, hop) = Has(i, s, hop)
      BY <1>3, <3>2, Zenon DEF Has
    <3>4. ASSUME NEW hop
          PROVE  Out(q.router, q.frames, n, hop) = Out(p.router, p.frames, n, hop)
      <4>1. /\ Out(q.router, q.frames, n, hop) = Has(q.router.interfaces[n], q.frames[n], hop)
            /\ Out(p.router, p.frames, n, hop) = Has(p.router.interfaces[n], p.frames[n], hop)
        BY OutHas
      <4> QED
        BY <1>4, <1>6, <3>3, <4>1
    <3> QED
      BY <1>6, <2>3, <3>1, <3>4, Zenon
  <2> QED
    BY <2>2, <2>3
<1>8. IsPass(q, table)
  BY <1>4, <1>5, Zenon DEF IsPass
<1>9. \A m \in 1 .. Interfaces : IsHolding(q.router.interfaces[m])
  BY <1>7
<1>10. SameOut(q, p)
  BY <1>7, Zenon DEF SameOut
<1>11. q.router.interfaces[n].datagrams_received_ = Tail(queue)
  BY <1>3, <1>6
<1> QED
  BY <1>4, <1>6, <1>8, <1>9, <1>10, <1>11, Zenon DEF IsPopped, q

(* Where nothing has been handed on, everything is where it was.           *)
LEMMA SamePlaces ==
    ASSUME NEW q, NEW p, SameOut(q, p)
    PROVE  /\ \A x : Places(q.router, q.frames, x) = Places(p.router, p.frames, x)
           /\ \A id : IsNew(q, id) <=> IsNew(p, id)
<1>1. ASSUME NEW x PROVE Places(q.router, q.frames, x) = Places(p.router, p.frames, x)
  <2>1. \A place \in (1 .. Interfaces) \X (NextHops \cup Addresses) :
           place[1] \in 1 .. Interfaces
    OBVIOUS
  <2>2. \A place \in (1 .. Interfaces) \X (NextHops \cup Addresses) :
           Out(q.router, q.frames, place[1], place[2])
              = Out(p.router, p.frames, place[1], place[2])
    BY <2>1, Zenon DEF SameOut
  <2> QED
    BY <2>2, Zenon DEF Places
<1>2. \A id : IsNew(q, id) <=> IsNew(p, id)
  BY Zenon DEF SameOut, IsNew
<1> QED
  BY <1>1, <1>2

(* What is in the queues when one datagram has been taken.                 *)
LEMMA PopQueues ==
    ASSUME NEW q, NEW p, NEW n \in 1 .. Interfaces, IsTidy(p), IsPopped(q, p, n),
           p.router.interfaces[n].datagrams_received_ # << >>
    PROVE  LET d == Head(p.router.interfaces[n].datagrams_received_) IN
           /\ d \in Datagrams
           /\ \A m \in 1 .. Interfaces : m # n => Queued(q.router, m) = Queued(p.router, m)
           /\ Queued(p.router, n) = {d} \cup Queued(q.router, n)
           /\ IsUnique(q.router)
           /\ \A m \in 1 .. Interfaces : \A x \in Queued(q.router, m) : x.id # d.id
<1> DEFINE queue == p.router.interfaces[n].datagrams_received_
           rest  == q.router.interfaces[n].datagrams_received_
           d     == Head(queue)
<1>1. IsRouter(p.router, table) /\ IsUnique(p.router)
  BY Zenon DEF IsTidy, IsPass
<1>2. queue \in Seq(Datagrams) /\ queue # << >>
  BY <1>1, QueueOf
<1>3. /\ d \in Datagrams /\ rest = Tail(queue)
      /\ ToSet(queue) = {d} \cup ToSet(rest)
      /\ 1 \in DOMAIN queue /\ queue[1] = d
      /\ \A i \in DOMAIN rest :
            i + 1 \in DOMAIN queue /\ i + 1 # 1 /\ rest[i] = queue[i + 1]
  <2>1. rest = Tail(queue)
    BY Zenon DEF IsPopped
  <2> HIDE DEF rest, queue
  <2>2. /\ d \in Datagrams
        /\ ToSet(queue) = {d} \cup ToSet(Tail(queue))
        /\ 1 \in DOMAIN queue /\ queue[1] = d
        /\ \A i \in DOMAIN Tail(queue) :
              i + 1 \in DOMAIN queue /\ i + 1 # 1 /\ Tail(queue)[i] = queue[i + 1]
    BY <1>2, HeadAndTail
  <2> QED
    BY <2>1, <2>2, Zenon
<1>4. \A m \in 1 .. Interfaces : m # n =>
         q.router.interfaces[m].datagrams_received_ = p.router.interfaces[m].datagrams_received_
  BY Zenon DEF IsPopped
<1>5. \A m \in 1 .. Interfaces : m # n => Queued(q.router, m) = Queued(p.router, m)
  BY <1>4, Zenon DEF Queued
<1>6. Queued(p.router, n) = {d} \cup Queued(q.router, n)
  BY <1>3, Zenon DEF Queued
<1> DEFINE Q(m) == q.router.interfaces[m].datagrams_received_
           P(m) == p.router.interfaces[m].datagrams_received_
           at(m, k) == IF m = n THEN k + 1 ELSE k
<1>7. \A m \in 1 .. Interfaces : \A k \in DOMAIN Q(m) :
         at(m, k) \in DOMAIN P(m) /\ Q(m)[k] = P(m)[at(m, k)]
  BY <1>3, <1>4
<1>8. \A m, l \in 1 .. Interfaces : \A k \in DOMAIN P(m), h \in DOMAIN P(l) :
         P(m)[k].id = P(l)[h].id => m = l /\ k = h
  BY <1>1, Zenon DEF IsUnique
<1> HIDE DEF Q, P
<1>9. ASSUME NEW m \in 1 .. Interfaces, NEW l \in 1 .. Interfaces,
             NEW k \in DOMAIN Q(m), NEW h \in DOMAIN Q(l), Q(m)[k].id = Q(l)[h].id
      PROVE  m = l /\ k = h
  <2>1. m = l /\ at(m, k) = at(l, h)
    BY <1>7, <1>8, <1>9
  <2>2. k \in Int /\ h \in Int
    <3>1. \A g \in 1 .. Interfaces : Q(g) \in Seq(Datagrams)
      <4>1. IsRouter(q.router, table)
        BY Zenon DEF IsPopped, IsPass
      <4> QED
        BY <4>1, QueueOf DEF Q
    <3> QED
      BY <3>1
  <2> QED
    BY <2>1, <2>2
<1>10. IsUnique(q.router)
  BY <1>9, Zenon DEF IsUnique, Q
<1>11. ASSUME NEW m \in 1 .. Interfaces, NEW x \in Queued(q.router, m), x.id = d.id
       PROVE  FALSE
  <2>1. PICK k \in DOMAIN Q(m) : x = Q(m)[k]
    BY Zenon DEF Queued, ToSet, Q
  <2>2. 1 \in DOMAIN P(n) /\ P(n)[1] = d
    BY <1>3 DEF P
  <2>3. at(m, k) \in DOMAIN P(m) /\ P(m)[at(m, k)].id = P(n)[1].id
    BY <1>7, <1>11, <2>1, <2>2
  <2>4. m = n /\ at(m, k) = 1
    <3> HIDE DEF at
    <3> QED
      BY <1>8, <2>2, <2>3
  <2>5. k + 1 # 1
    <3>1. k \in DOMAIN rest
      BY <2>4 DEF Q
    <3> QED
      BY <1>3, <3>1
  <2> QED
    BY <2>4, <2>5
<1> QED
  BY <1>3, <1>5, <1>6, <1>10, <1>11
-----------------------------------------------------------------------------
(* The number of a datagram does not change as it ages.                    *)
LEMMA AgedIs ==
    ASSUME NEW d \in Datagrams
    PROVE  /\ Aged(d).id = d.id /\ Aged(d).dst = d.dst
           /\ d.ttl > 1 => Aged(d) \in Datagrams
BY DEF Aged, Datagrams

(* The first datagram is taken from the queue of interface n.              *)
LEMMA FirstTaken ==
    ASSUME NEW p, PassOK(p), NEW n \in 1 .. Interfaces,
           p.router.interfaces[n].datagrams_received_ # << >>
    PROVE  PassBut(WithoutFirst(p, n), Head(p.router.interfaces[n].datagrams_received_))
<1> DEFINE d == Head(p.router.interfaces[n].datagrams_received_)
           q == WithoutFirst(p, n)
<1>1. IsTidy(p)
  BY Zenon DEF PassOK
<1>2. IsPopped(q, p, n)
  BY <1>1, PopChanges
<1> HIDE DEF q
<1>3. /\ d \in Datagrams
      /\ \A m \in 1 .. Interfaces : m # n => Queued(q.router, m) = Queued(p.router, m)
      /\ Queued(p.router, n) = {d} \cup Queued(q.router, n)
      /\ IsUnique(q.router)
      /\ \A m \in 1 .. Interfaces : \A x \in Queued(q.router, m) : x.id # d.id
  BY <1>1, <1>2, PopQueues
<1> HIDE DEF d
<1>4. /\ \A x : Places(q.router, q.frames, x) = Places(p.router, p.frames, x)
      /\ \A id : IsNew(q, id) <=> IsNew(p, id)
  <2>1. SameOut(q, p)
    BY <1>2, Zenon DEF IsPopped
  <2> QED
    BY <2>1, SamePlaces
<1>5. \A m \in 1 .. Interfaces : /\ Queued(q.router, m) \subseteq Queued(p.router, m)
                                 /\ Queued(p.router, m) \subseteq {d} \cup Queued(q.router, m)
  BY <1>3, Zenon
<1>6. /\ \A m \in 1 .. Interfaces : Queued(p.router, m) \subseteq Queued(router, m)
      /\ \A m \in 1 .. Interfaces : \A x \in Queued(p.router, m) : IsNew(p, x.id)
      /\ \A m \in 1 .. Interfaces : \A hop :
            \A x \in Out(p.router, p.frames, m, hop) : x.id <= arrived
  BY <1>1, Zenon DEF IsTidy
<1>7. IsTidy(q)
  <2>1. /\ IsPass(q, table)
        /\ q.frames = p.frames
        /\ \A m \in 1 .. Interfaces : IsHolding(q.router.interfaces[m])
        /\ \A m \in 1 .. Interfaces : \A hop :
              Out(q.router, q.frames, m, hop) = Out(p.router, p.frames, m, hop)
    BY <1>2, Zenon DEF IsPopped, SameOut
  <2>2. DOMAIN q.frames = 1 .. Interfaces /\ \A m \in 1 .. Interfaces : IsSeq(q.frames[m])
    BY <1>1, <2>1, Zenon DEF IsTidy
  <2>3. \A m \in 1 .. Interfaces : Queued(q.router, m) \subseteq Queued(router, m)
    BY <1>5, <1>6
  <2>4. \A m \in 1 .. Interfaces : \A x \in Queued(q.router, m) : IsNew(q, x.id)
    BY <1>4, <1>5, <1>6
  <2>5. \A m \in 1 .. Interfaces : \A hop :
            \A x \in Out(q.router, q.frames, m, hop) : x.id <= arrived
    BY <1>6, <2>1, Zenon
  <2> QED
    BY <1>3, <2>1, <2>2, <2>3, <2>4, <2>5, Zenon DEF IsTidy
<1>8. d \in Queued(p.router, n)
  BY <1>3
<1>9. d \in Queued(router, n) /\ IsNew(q, d.id)
  BY <1>4, <1>6, <1>8
<1>10. \A m \in 1 .. Interfaces : \A x \in Queued(router, m) \ Queued(p.router, m) :
          GoesTo(x, Places(p.router, p.frames, Aged(x)))
  BY Zenon DEF PassOK
<1>11. \A m \in 1 .. Interfaces : \A x \in Queued(router, m) \ Queued(q.router, m) :
          x # d => GoesTo(x, Places(q.router, q.frames, Aged(x)))
  <2> SUFFICES ASSUME NEW m \in 1 .. Interfaces,
                      NEW x \in Queued(router, m) \ Queued(q.router, m), x # d
               PROVE  GoesTo(x, Places(q.router, q.frames, Aged(x)))
    OBVIOUS
  <2>1. x \in Queued(router, m) \ Queued(p.router, m)
    BY <1>5
  <2>2. GoesTo(x, Places(p.router, p.frames, Aged(x)))
    BY <1>10, <2>1
  <2> QED
    BY <1>4, <2>2, Zenon
<1>12. PassBut(q, d)
  BY <1>3, <1>7, <1>9, <1>11, Zenon DEF PassBut
<1> QED
  BY <1>12 DEF d, q

(* What is in no place.                                                    *)
LEMMA Nowhere ==
    ASSUME NEW q, NEW d \in Datagrams, IsNew(q, d.id)
    PROVE  Places(q.router, q.frames, Aged(d)) = {}
<1>1. Aged(d).id = d.id
  BY AgedIs
<1> DEFINE x == Aged(d)
<1>2. ASSUME NEW place \in Places(q.router, q.frames, x)
      PROVE  FALSE
  <2>1. place[1] \in 1 .. Interfaces /\ x \in Out(q.router, q.frames, place[1], place[2])
    <3>1. /\ place \in (1 .. Interfaces) \X (NextHops \cup Addresses)
          /\ x \in Out(q.router, q.frames, place[1], place[2])
      BY Zenon DEF Places
    <3> QED
      BY <3>1
  <2>2. x.id # d.id
    BY <2>1, Zenon DEF IsNew
  <2> QED
    BY <1>1, <2>2
<1> QED
  BY <1>2

(* A datagram that is dropped is in the right places, which are none.      *)
LEMMA Settled ==
    ASSUME NEW q, NEW d, PassBut(q, d), GoesTo(d, Places(q.router, q.frames, Aged(d)))
    PROVE  PassOK(q) /\ PassOK([q EXCEPT !.returned = TRUE])
<1> DEFINE r == [q EXCEPT !.returned = TRUE]
<1>1. PassOK(q)
  <2>1. IsTidy(q) /\ \A n \in 1 .. Interfaces : \A x \in Queued(router, n) \ Queued(q.router, n) :
           x # d => GoesTo(x, Places(q.router, q.frames, Aged(x)))
    BY Zenon DEF PassBut
  <2> QED
    BY <2>1, Zenon DEF PassOK
<1>2. IsTidy(q) /\ IsPass(q, table)
  BY <1>1, Zenon DEF PassOK, IsTidy
<1>3. r.router = q.router /\ r.frames = q.frames /\ IsPass(r, table)
  BY <1>2 DEF IsPass
<1> HIDE DEF r
<1>4. \A id : IsNew(q, id) <=> IsNew(r, id)
  BY <1>3, Zenon DEF IsNew
<1>5. IsTidy(r)
  BY <1>2, <1>3, <1>4, Zenon DEF IsTidy
<1>6. PassOK(r)
  BY <1>1, <1>3, <1>5, Zenon DEF PassOK
<1> QED
  BY <1>1, <1>6 DEF r
-----------------------------------------------------------------------------
(* Of the routes that apply one is the longest, and it is the one found.   *)
LEMMA FoundIsBest ==
    ASSUME IInv, NEW dst \in Addresses
    PROVE  LET applying == {key \in DOMAIN table : Applies(key, dst)}
               best     == CHOOSE key \in applying : \A other \in applying : other[1] <= key[1]
           IN  /\ HasRoute(table, dst) <=> applying # {}
               /\ HasRoute(table, dst) =>
                     best \in DOMAIN table /\ Lookup(table, dst) = table[best]
<1> DEFINE applying == {key \in DOMAIN table : Applies(key, dst)}
           best     == CHOOSE key \in applying : \A other \in applying : other[1] <= key[1]
           longest  == Max(Matches(table, dst))
           found    == Key(table, longest, dst)
<1>1. /\ HasRoute(table, dst) <=> applying # {}
      /\ HasRoute(table, dst) => found \in applying /\ \A other \in applying : other[1] <= found[1]
  <2>1. LongestPrefixMatch
    BY LongestIsFound
  <2> QED
    BY <2>1, Zenon DEF LongestPrefixMatch
<1>2. ASSUME HasRoute(table, dst)
      PROVE  best \in DOMAIN table /\ Lookup(table, dst) = table[best]
  <2>1. best \in applying /\ \A other \in applying : other[1] <= best[1]
    BY <1>1, <1>2, Zenon
  <2>2. longest \in 0 .. Bits
    <3> DEFINE lengths == Matches(table, dst)
    <3>1. lengths \in SUBSET (0 .. Bits) /\ lengths # {}
      BY <1>2 DEF Matches, HasRoute
    <3>2. lengths \in SUBSET Nat /\ Bits + 1 \in Nat /\ \A n \in lengths : n < Bits + 1
      BY <3>1, BitsAssumption
    <3> HIDE DEF lengths
    <3>3. Max(lengths) \in lengths
      BY <3>1, <3>2, LargestOf
    <3> QED
      BY <3>1, <3>3 DEF lengths
  <2>3. \A key \in applying : key \in DOMAIN table /\ Applies(key, dst) /\ key[1] \in Int
    BY DEF IInv, TypeOK, Keys
  <2> HIDE DEF best, applying, longest
  <2>4. /\ \A key \in DOMAIN table : Applies(key, dst) /\ key[1] = longest => key = found
        /\ found \in DOMAIN table => found[1] = longest
    BY <2>2, LookupIsApplies
  <2>5. found \in applying /\ best[1] <= found[1]
    BY <1>1, <1>2, <2>1
  <2> HIDE DEF found
  <2>6. best[1] = longest
    BY <2>1, <2>3, <2>4, <2>5
  <2>7. best = found
    BY <2>1, <2>3, <2>4, <2>6
  <2>8. Lookup(table, dst) = table[found]
    BY Zenon DEF Lookup, found, longest
  <2> QED
    BY <2>1, <2>3, <2>7, <2>8
<1> QED
  BY <1>1, <1>2

(* Where a datagram goes is where route sends it.                          *)
LEMMA RouteIsTaken ==
    ASSUME IInv, NEW d \in Datagrams, NEW places
    PROVE  LET n   == Lookup(table, d.dst).interface_num
               hop == NextHop(Lookup(table, d.dst), d)
           IN  /\ places = {} /\ (d.ttl <= 1 \/ ~ HasRoute(table, d.dst)) => GoesTo(d, places)
               /\ HasRoute(table, d.dst) =>
                     n \in 1 .. Interfaces /\ hop \in NextHops \cup Addresses
               /\ HasRoute(table, d.dst) /\ d.ttl > 1 /\ <<n, hop>> \in places
                  /\ (\A place \in places : place[1] = n) => GoesTo(d, places)
<1> DEFINE applying == {key \in DOMAIN table : Applies(key, d.dst)}
           best     == CHOOSE key \in applying : \A other \in applying : other[1] <= key[1]
           rt       == Lookup(table, d.dst)
           n        == rt.interface_num
           hop      == NextHop(rt, d)
<1>1. d.dst \in Addresses /\ d.ttl \in Nat
  BY DEF Datagrams
<1>2. /\ HasRoute(table, d.dst) <=> applying # {}
      /\ HasRoute(table, d.dst) => best \in DOMAIN table /\ rt = table[best]
  BY <1>1, FoundIsBest
<1>3. table \in [DOMAIN table -> [next_hop : NextHops \cup {Direct},
                                   interface_num : 1 .. Interfaces]]
  BY DEF IInv, TypeOK
<1>4. hop = IF rt.next_hop = Direct THEN d.dst ELSE rt.next_hop
  BY DEF NextHop
<1>5. d.ttl <= 1 <=> ~ (d.ttl > 1)
  BY <1>1
<1>6. places = {} /\ (d.ttl <= 1 \/ ~ HasRoute(table, d.dst)) => GoesTo(d, places)
  BY <1>2, <1>5, Zenon DEF GoesTo
<1> HIDE DEF applying, best, rt, hop
<1>7. HasRoute(table, d.dst) => n \in 1 .. Interfaces /\ hop \in NextHops \cup Addresses
  BY <1>1, <1>2, <1>3, <1>4
<1>8. HasRoute(table, d.dst) /\ d.ttl > 1 /\ <<n, hop>> \in places
         /\ (\A place \in places : place[1] = n) => GoesTo(d, places)
  BY <1>2, <1>4, Zenon DEF GoesTo, applying, best
<1> QED
  BY <1>6, <1>7, <1>8 DEF rt, hop

(* p is q when interface n has sent x to the next hop.                     *)
IsHandedOn(p, q, n, hop, x) ==
    /\ IsPass(p, table)
    /\ DOMAIN p.frames = 1 .. Interfaces
    /\ \A m \in 1 .. Interfaces : IsHolding(p.router.interfaces[m]) /\ IsSeq(p.frames[m])
    /\ \A m \in 1 .. Interfaces :
          p.router.interfaces[m].datagrams_received_ = q.router.interfaces[m].datagrams_received_
    /\ \A m \in 1 .. Interfaces : \A h :
          /\ Out(q.router, q.frames, m, h) \subseteq Out(p.router, p.frames, m, h)
          /\ Out(p.router, p.frames, m, h) \subseteq Out(q.router, q.frames, m, h) \cup {x}
          /\ m # n => Out(p.router, p.frames, m, h) = Out(q.router, q.frames, m, h)
    /\ x \in Out(p.router, p.frames, n, hop)

(* Forwarding hands a datagram on to the next hop of its route.            *)
LEMMA ForwardHandsOn ==
    ASSUME NEW q, IsTidy(q), NEW x \in Datagrams,
           Lookup(table, x.dst).interface_num \in 1 .. Interfaces
    PROVE  IsHandedOn(Forward(q, x), q, Lookup(table, x.dst).interface_num,
                      NextHop(Lookup(table, x.dst), x), x)
<1> DEFINE rt   == Lookup(table, x.dst)
           n    == rt.interface_num
           hop  == NextHop(rt, x)
           i    == q.router.interfaces[n]
           step == send_datagram(i, x, hop)
           j    == step.interface
           s    == q.frames[n]
           t    == s \o step.frames
           p    == Forward(q, x)
<1>1. /\ IsPass(q, table) /\ IsRouter(q.router, table) /\ q.router.routing_table_ = table
      /\ DOMAIN q.frames = 1 .. Interfaces
      /\ \A m \in 1 .. Interfaces : IsHolding(q.router.interfaces[m]) /\ IsSeq(q.frames[m])
  BY Zenon DEF IsTidy, IsPass, IsRouter
<1>2. n \in 1 .. Interfaces
  OBVIOUS
<1>3. p = [q EXCEPT !.router.interfaces[n] = j, !.frames[n] = t]
  BY <1>1 DEF Forward
<1> HIDE DEF rt, p, n, hop
<1>4. IsInterface(i) /\ IsHolding(i) /\ IsSeq(s)
  BY <1>1, <1>2, Zenon DEF IsRouter
<1>5. Sends(j, t, i, s, x, hop)
  BY <1>4, SendSends
<1> HIDE DEF step
<1>6. /\ DOMAIN p = {"router", "frames", "returned"}
      /\ p.router = [q.router EXCEPT !.interfaces[n] = j]
      /\ p.frames = [q.frames EXCEPT ![n] = t]
  BY <1>1, <1>3 DEF IsPass
<1> HIDE DEF j, t
<1>7. /\ IsInterface(j) /\ IsHolding(j) /\ IsSeq(t)
      /\ j.datagrams_received_ = i.datagrams_received_
      /\ \A h : Has(i, s, h) \subseteq Has(j, t, h) /\ Has(j, t, h) \subseteq Has(i, s, h) \cup {x}
      /\ x \in Has(j, t, hop)
  BY <1>5, Zenon DEF Sends
<1>8. IsPass(p, table)
  <2>1. IsRouter(p.router, table)
    BY <1>1, <1>2, <1>6, <1>7, InterfaceChange
  <2> QED
    BY <1>6, <2>1, Zenon DEF IsPass
<1>9. /\ DOMAIN p.frames = 1 .. Interfaces
      /\ p.router.interfaces[n] = j /\ p.frames[n] = t
      /\ \A m \in 1 .. Interfaces : m # n =>
            p.router.interfaces[m] = q.router.interfaces[m] /\ p.frames[m] = q.frames[m]
  BY <1>1, <1>2, <1>6 DEF IsRouter
<1>10. ASSUME NEW m \in 1 .. Interfaces
       PROVE  /\ IsHolding(p.router.interfaces[m]) /\ IsSeq(p.frames[m])
              /\ p.router.interfaces[m].datagrams_received_
                    = q.router.interfaces[m].datagrams_received_
  BY <1>1, <1>7, <1>9, Zenon DEF i
<1>11. ASSUME NEW m \in 1 .. Interfaces, NEW h
       PROVE  /\ Out(q.router, q.frames, m, h) \subseteq Out(p.router, p.frames, m, h)
              /\ Out(p.router, p.frames, m, h) \subseteq Out(q.router, q.frames, m, h) \cup {x}
              /\ m # n => Out(p.router, p.frames, m, h) = Out(q.router, q.frames, m, h)
  <2>1. /\ Out(p.router, p.frames, m, h) = Has(p.router.interfaces[m], p.frames[m], h)
        /\ Out(q.router, q.frames, m, h) = Has(q.router.interfaces[m], q.frames[m], h)
    BY OutHas
  <2>2. CASE m = n
    <3>1. /\ Out(p.router, p.frames, m, h) = Has(j, t, h)
          /\ Out(q.router, q.frames, m, h) = Has(i, s, h)
      BY <1>9, <2>1, <2>2 DEF i, s
    <3>2. Has(i, s, h) \subseteq Has(j, t, h) /\ Has(j, t, h) \subseteq Has(i, s, h) \cup {x}
      BY <1>7, Zenon
    <3> QED
      BY <2>2, <3>1, <3>2
  <2>3. CASE m # n
    BY <1>9, <2>1, <2>3, Zenon
  <2> QED
    BY <2>2, <2>3
<1>12. x \in Out(p.router, p.frames, n, hop)
  <2>1. Out(p.router, p.frames, n, hop) = Has(p.router.interfaces[n], p.frames[n], hop)
    BY OutHas
  <2> QED
    BY <1>7, <1>9, <2>1, Zenon
<1>13. IsHandedOn(p, q, n, hop, x)
  BY <1>8, <1>9, <1>10, <1>11, <1>12, Zenon DEF IsHandedOn
<1> QED
  BY <1>13 DEF rt, p, n, hop

(* A datagram that has been handed on is where it should be, and nothing   *)
(* else has moved.                                                         *)
LEMMA HandedOnIsOK ==
    ASSUME IInv, Numbered, NEW q, NEW d, PassBut(q, d), NEW p, NEW n \in 1 .. Interfaces,
           NEW hop \in NextHops \cup Addresses, IsHandedOn(p, q, n, hop, Aged(d)),
           \A places : <<n, hop>> \in places /\ (\A place \in places : place[1] = n)
                          => GoesTo(d, places)
    PROVE  PassOK(p)
<1> DEFINE x == Aged(d)
<1>1. /\ IsTidy(q) /\ d \in Datagrams /\ IsNew(q, d.id)
      /\ \A m \in 1 .. Interfaces : \A y \in Queued(router, m) \ Queued(q.router, m) :
            y # d => GoesTo(y, Places(q.router, q.frames, Aged(y)))
      /\ \E m \in 1 .. Interfaces : d \in Queued(router, m)
      /\ \A m \in 1 .. Interfaces : \A y \in Queued(q.router, m) : y.id # d.id
  BY Zenon DEF PassBut
<1>2. /\ IsPass(p, table)
      /\ DOMAIN p.frames = 1 .. Interfaces
      /\ \A m \in 1 .. Interfaces : IsHolding(p.router.interfaces[m]) /\ IsSeq(p.frames[m])
      /\ \A m \in 1 .. Interfaces :
            p.router.interfaces[m].datagrams_received_ = q.router.interfaces[m].datagrams_received_
      /\ \A m \in 1 .. Interfaces : \A h :
            /\ Out(q.router, q.frames, m, h) \subseteq Out(p.router, p.frames, m, h)
            /\ Out(p.router, p.frames, m, h) \subseteq Out(q.router, q.frames, m, h) \cup {x}
            /\ m # n => Out(p.router, p.frames, m, h) = Out(q.router, q.frames, m, h)
      /\ x \in Out(p.router, p.frames, n, hop)
  BY Zenon DEF IsHandedOn
<1>3. x.id = d.id
  BY <1>1, AgedIs
<1> HIDE DEF x
<1>4. \A m \in 1 .. Interfaces : Queued(p.router, m) = Queued(q.router, m)
  BY <1>2, Zenon DEF Queued
<1>5. /\ IsUnique(router)
      /\ \A m \in 1 .. Interfaces : \A y \in Queued(router, m) : y.id <= arrived
  BY Zenon DEF Numbered
<1>6. PICK k \in 1 .. Interfaces : d \in Queued(router, k)
  BY <1>1
<1>7. /\ IsUnique(q.router)
      /\ \A m \in 1 .. Interfaces : Queued(q.router, m) \subseteq Queued(router, m)
      /\ \A m \in 1 .. Interfaces : \A y \in Queued(q.router, m) : IsNew(q, y.id)
      /\ \A m \in 1 .. Interfaces : \A h :
            \A y \in Out(q.router, q.frames, m, h) : y.id <= arrived
  BY <1>1, Zenon DEF IsTidy
<1>8. \A m \in 1 .. Interfaces : \A h : \A y \in Out(p.router, p.frames, m, h) :
         y = x \/ y \in Out(q.router, q.frames, m, h)
  BY <1>2, Zenon
<1>9. IsTidy(p)
  <2>1. IsUnique(p.router)
    <3> DEFINE P(m) == p.router.interfaces[m].datagrams_received_
               Q(m) == q.router.interfaces[m].datagrams_received_
    <3>1. \A m \in 1 .. Interfaces : P(m) = Q(m)
      BY <1>2, Zenon
    <3>2. \A m, l \in 1 .. Interfaces : \A a \in DOMAIN Q(m), b \in DOMAIN Q(l) :
             Q(m)[a].id = Q(l)[b].id => m = l /\ a = b
      BY <1>7, Zenon DEF IsUnique
    <3> HIDE DEF P, Q
    <3>3. \A m, l \in 1 .. Interfaces : \A a \in DOMAIN P(m), b \in DOMAIN P(l) :
             P(m)[a].id = P(l)[b].id => m = l /\ a = b
      BY <3>1, <3>2
    <3> QED
      BY <3>3, Zenon DEF IsUnique, P
  <2>2. \A m \in 1 .. Interfaces : Queued(p.router, m) \subseteq Queued(router, m)
    BY <1>4, <1>7, Zenon
  <2>3. ASSUME NEW m \in 1 .. Interfaces, NEW y \in Queued(p.router, m)
        PROVE  IsNew(p, y.id)
    <3>1. y.id # d.id /\ IsNew(q, y.id)
      BY <1>1, <1>4, <1>7, Zenon
    <3> QED
      BY <1>3, <1>8, <3>1, Zenon DEF IsNew
  <2>4. \A m \in 1 .. Interfaces : \A h : \A y \in Out(p.router, p.frames, m, h) : y.id <= arrived
    <3>1. x.id <= arrived
      BY <1>3, <1>5, <1>6, Zenon
    <3> QED
      BY <1>7, <1>8, <3>1, Zenon
  <2> QED
    BY <1>2, <2>1, <2>2, <2>3, <2>4, Zenon DEF IsTidy
<1>10. ASSUME NEW m \in 1 .. Interfaces, NEW y \in Queued(router, m) \ Queued(p.router, m)
       PROVE  GoesTo(y, Places(p.router, p.frames, Aged(y)))
  <2>1. \A place \in (1 .. Interfaces) \X (NextHops \cup Addresses) : place[1] \in 1 .. Interfaces
    OBVIOUS
  <2>2. CASE y = d
    <3> DEFINE places == Places(p.router, p.frames, x)
    <3>1. Places(q.router, q.frames, x) = {}
      BY <1>1, Nowhere DEF x
    <3>2. <<n, hop>> \in places
      <4> DEFINE here == <<n, hop>>
      <4>1. /\ here \in (1 .. Interfaces) \X (NextHops \cup Addresses)
            /\ here[1] = n /\ here[2] = hop
        OBVIOUS
      <4> HIDE DEF here
      <4>2. here \in places
        BY <1>2, <4>1, Zenon DEF Places
      <4> QED
        BY <4>2 DEF here
    <3>3. ASSUME NEW place \in places, place[1] # n PROVE FALSE
      <4>1. /\ place \in (1 .. Interfaces) \X (NextHops \cup Addresses)
            /\ x \in Out(p.router, p.frames, place[1], place[2])
        BY Zenon DEF Places
      <4>2. x \in Out(q.router, q.frames, place[1], place[2])
        BY <1>2, <2>1, <3>3, <4>1, Zenon
      <4>3. place \in Places(q.router, q.frames, x)
        BY <4>1, <4>2, Zenon DEF Places
      <4> QED
        BY <3>1, <4>3
    <3> HIDE DEF places
    <3>4. GoesTo(d, places)
      BY <3>2, <3>3
    <3> QED
      BY <2>2, <3>4 DEF places, x
  <2>3. CASE y # d
    <3>1. y \in Datagrams
      <4>1. IsRouter(router, table)
        BY DEF IInv, TypeOK
      <4> QED
        BY <4>1, QueueOf
    <3>2. y.id # d.id
      BY <1>5, <1>6, <2>3, SameNumber
    <3>3. Aged(y).id = y.id
      BY <3>1, AgedIs
    <3>4. Aged(y) # x
      BY <1>3, <3>2, <3>3
    <3>5. \A place \in (1 .. Interfaces) \X (NextHops \cup Addresses) :
             Aged(y) \in Out(p.router, p.frames, place[1], place[2])
                <=> Aged(y) \in Out(q.router, q.frames, place[1], place[2])
      BY <1>2, <1>8, <2>1, <3>4, Zenon
    <3>6. Places(p.router, p.frames, Aged(y)) = Places(q.router, q.frames, Aged(y))
      BY <3>5, Zenon DEF Places
    <3>7. GoesTo(y, Places(q.router, q.frames, Aged(y)))
      BY <1>1, <1>4, <2>3, Zenon
    <3> QED
      BY <3>6, <3>7, Zenon
  <2> QED
    BY <2>2, <2>3
<1> QED
  BY <1>9, <1>10, Zenon DEF PassOK

(* Taking a datagram from a queue and routing it, as it should be.         *)
LEMMA RouteOneIsOK ==
    ASSUME IInv, Numbered, NEW p, PassOK(p), NEW n \in 1 .. Interfaces
    PROVE  PassOK(RouteOne(p, n))
<1> DEFINE queue == p.router.interfaces[n].datagrams_received_
           d     == Head(queue)
           q     == WithoutFirst(p, n)
<1>1. p.router.routing_table_ = table
  BY Zenon DEF PassOK, IsTidy, IsPass, IsRouter
<1>2. CASE p.returned \/ queue = << >>
  BY <1>2 DEF RouteOne
<1>3. CASE ~ p.returned /\ queue # << >>
  <2>1. /\ RouteOne(p, n) = IF Expired(d) THEN [q EXCEPT !.returned = TRUE]
                            ELSE IF HasRoute(table, d.dst) THEN Forward(q, Aged(d))
                            ELSE q
        /\ PassBut(q, d)
    <3>1. PassBut(q, d)
      BY <1>3, FirstTaken
    <3>2. RouteOne(p, n) = IF Expired(d) THEN [q EXCEPT !.returned = TRUE]
                           ELSE IF HasRoute(table, d.dst) THEN Forward(q, Aged(d))
                           ELSE q
      BY <1>1, <1>3, Zenon DEF RouteOne, WithoutFirst, Aged
    <3> QED
      BY <3>1, <3>2
  <2> HIDE DEF d, q
  <2>2. d \in Datagrams /\ IsNew(q, d.id) /\ IsTidy(q)
    BY <2>1, Zenon DEF PassBut
  <2>3. Places(q.router, q.frames, Aged(d)) = {}
    BY <2>2, Nowhere
  <2>4. Expired(d) <=> d.ttl <= 1
    BY DEF Expired
  <2>5. CASE Expired(d) \/ ~ HasRoute(table, d.dst)
    <3>1. GoesTo(d, Places(q.router, q.frames, Aged(d)))
      BY <2>2, <2>3, <2>4, <2>5, RouteIsTaken
    <3>2. PassOK(q) /\ PassOK([q EXCEPT !.returned = TRUE])
      BY <2>1, <3>1, Settled
    <3> QED
      BY <2>1, <2>5, <3>2
  <2>6. CASE ~ Expired(d) /\ HasRoute(table, d.dst)
    <3> DEFINE rt  == Lookup(table, d.dst)
               m   == rt.interface_num
               hop == NextHop(rt, d)
    <3>1. d.ttl > 1
      BY <2>2, <2>4, <2>6 DEF Datagrams
    <3>2. Aged(d) \in Datagrams /\ Aged(d).dst = d.dst
      BY <2>2, <3>1, AgedIs
    <3>3. /\ m \in 1 .. Interfaces /\ hop \in NextHops \cup Addresses
          /\ \A places : <<m, hop>> \in places /\ (\A place \in places : place[1] = m)
                            => GoesTo(d, places)
      BY <2>2, <2>6, <3>1, RouteIsTaken
    <3>4. Lookup(table, Aged(d).dst) = rt /\ NextHop(rt, Aged(d)) = hop
      BY <3>2 DEF NextHop
    <3>5. IsHandedOn(Forward(q, Aged(d)), q, m, hop, Aged(d))
      <4> HIDE DEF rt, hop
      <4> QED
        BY <2>2, <3>2, <3>3, <3>4, ForwardHandsOn
    <3> HIDE DEF m, hop
    <3>6. PassOK(Forward(q, Aged(d)))
      BY <2>1, <3>3, <3>5, HandedOnIsOK
    <3> QED
      BY <2>1, <2>6, <3>6
  <2> QED
    BY <2>5, <2>6
<1> QED
  BY <1>2, <1>3

(* The same of emptying the queue of an interface, ...                     *)
LEMMA DrainIsOK ==
    ASSUME IInv, Numbered, NEW p, PassOK(p), NEW n \in 1 .. Interfaces
    PROVE  PassOK(DrainInterface(p, n))
<1>1. PICK N \in Nat : DOMAIN p.router.interfaces[n].datagrams_received_ = 1 .. N
  <2>1. IsRouter(p.router, table)
    BY Zenon DEF PassOK, IsTidy, IsPass
  <2>2. p.router.interfaces[n].datagrams_received_ \in Seq(Datagrams)
    BY <2>1, QueueOf
  <2> QED
    BY <2>2, LenProperties
<1>2. PICK f : /\ f[0] = p
               /\ \A m \in 0 .. N : f[m + 1] = IF m \in 1 .. N THEN RouteOne(f[m], n) ELSE f[m]
               /\ DrainInterface(p, n) = f[N + 1]
  BY <1>1, DrainRun
<1> DEFINE T == {m \in Nat : m <= N + 1 => PassOK(f[m])}
<1>3. 0 \in T
  BY <1>2
<1>4. ASSUME NEW m \in T PROVE m + 1 \in T
  BY <1>2, RouteOneIsOK
<1>5. T = Nat
  BY <1>3, <1>4, AllNumbers
<1> QED
  BY <1>2, <1>5

(* ... of the state a pass starts in, where nothing has been taken, ...    *)
LEMMA StartIsOK ==
    ASSUME IInv, Numbered
    PROVE  PassOK(StartPass(router))
<1> DEFINE q == StartPass(router)
<1>1. IsRouter(router, table) /\ DOMAIN router.interfaces = 1 .. Interfaces
  BY DEF IInv, TypeOK, IsRouter
<1>2. /\ DOMAIN q = {"router", "frames", "returned"} /\ q.router = router
      /\ DOMAIN q.frames = 1 .. Interfaces
      /\ \A n \in 1 .. Interfaces : q.frames[n] = << >>
  BY <1>1 DEF StartPass
<1> HIDE DEF q
<1>3. /\ \A n \in 1 .. Interfaces : IsHolding(router.interfaces[n])
      /\ IsUnique(router)
      /\ \A n \in 1 .. Interfaces : \A ip \in DOMAIN router.interfaces[n].pending_arp_requests_ :
            \A x \in ToSet(Waiting(router.interfaces[n], ip)) :
               /\ x.id <= arrived
               /\ \A m \in 1 .. Interfaces : \A y \in Queued(router, m) : y.id # x.id
  BY Zenon DEF Numbered
<1>4. ASSUME NEW n \in 1 .. Interfaces, NEW hop, NEW x \in Out(q.router, q.frames, n, hop)
      PROVE  /\ x.id <= arrived
             /\ \A m \in 1 .. Interfaces : \A y \in Queued(router, m) : y.id # x.id
  <2> DEFINE i == router.interfaces[n]
  <2>1. Out(q.router, q.frames, n, hop) = Has(i, << >>, hop)
    BY <1>2, OutHas
  <2>2. Gone(<< >>) = {}
    BY DEF Gone
  <2>3. x \in ToSet(Waiting(i, hop))
    BY <2>1, <2>2, Zenon DEF Has
  <2>4. hop \in DOMAIN i.pending_arp_requests_
    <3>1. ToSet(<< >>) = {}
      BY DEF ToSet
    <3> QED
      BY <2>3, <3>1, Zenon DEF Waiting
  <2> QED
    BY <1>3, <2>3, <2>4, Zenon
<1>5. IsPass(q, table)
  BY <1>1, <1>2, Zenon DEF IsPass
<1>6. IsSeq(<< >>)
  BY DEF IsSeq
<1>7. \A n \in 1 .. Interfaces : \A y \in Queued(q.router, n) : IsNew(q, y.id)
  BY <1>2, <1>4, Zenon DEF IsNew
<1>8. IsTidy(q)
  BY <1>2, <1>3, <1>4, <1>5, <1>6, <1>7, Zenon DEF IsTidy
<1> QED
  BY <1>2, <1>8, Zenon DEF PassOK, q

(* ... and so of a whole pass.                                             *)
LEMMA RouteIsOK ==
    ASSUME IInv, Numbered
    PROVE  PassOK(route(router))
<1>1. DOMAIN router.interfaces = 1 .. Interfaces /\ Interfaces \in Nat
  BY RouterAssumption DEF IInv, TypeOK, IsRouter
<1>2. PICK f : /\ f[0] = StartPass(router)
               /\ \A m \in 0 .. Interfaces :
                     f[m + 1] = IF m \in 1 .. Interfaces
                                  THEN DrainInterface(f[m], Numbers(router)[m]) ELSE f[m]
               /\ route(router) = f[Interfaces + 1]
  BY <1>1, RouteRun
<1> DEFINE T == {m \in Nat : m <= Interfaces + 1 => PassOK(f[m])}
<1>3. 0 \in T
  BY <1>2, StartIsOK
<1>4. ASSUME NEW m \in T PROVE m + 1 \in T
  BY <1>1, <1>2, DrainIsOK DEF Numbers
<1>5. T = Nat
  BY <1>3, <1>4, AllNumbers
<1> QED
  BY <1>1, <1>2, <1>5
-----------------------------------------------------------------------------
(* Numbers in the parts of a router: what waits in an interface is not in  *)
(* a queue.                                                                *)
LEMMA NumberedParts ==
    ASSUME Numbered
    PROVE  /\ IsUnique(router)
           /\ \A n \in 1 .. Interfaces : IsHolding(router.interfaces[n])
           /\ \A n \in 1 .. Interfaces : \A x \in Queued(router, n) : x.id <= arrived
           /\ \A n \in 1 .. Interfaces :
                 \A ip \in DOMAIN router.interfaces[n].pending_arp_requests_ :
                    \A x \in ToSet(Waiting(router.interfaces[n], ip)) :
                       /\ x.id <= arrived
                       /\ \A m \in 1 .. Interfaces : \A y \in Queued(router, m) : y.id # x.id
BY Zenon DEF Numbered

(* Numbers are numbers.                                                    *)
LEMMA NumbersAreNat ==
    ASSUME IInv, Numbered, NEW n \in 1 .. Interfaces
    PROVE  /\ \A x \in Queued(router, n) : x.id \in Nat
           /\ \A ip \in DOMAIN router.interfaces[n].pending_arp_requests_ :
                 \A x \in ToSet(Waiting(router.interfaces[n], ip)) : x.id \in Nat
<1>1. \A x \in Datagrams : x.id \in Nat
  BY DEF Datagrams
<1>2. Queued(router, n) \subseteq Datagrams
  <2>1. IsRouter(router, table)
    BY DEF IInv, TypeOK
  <2> QED
    BY <2>1, QueueOf
<1>3. ASSUME NEW ip \in DOMAIN router.interfaces[n].pending_arp_requests_
      PROVE  ToSet(Waiting(router.interfaces[n], ip)) \subseteq Datagrams
  <2> DEFINE waiting == Waiting(router.interfaces[n], ip)
  <2>1. waiting \in Seq(Datagrams)
    BY NumberedParts DEF IsHolding, Waiting
  <2> HIDE DEF waiting
  <2>2. ToSet(waiting) \subseteq Datagrams
    BY <2>1 DEF ToSet
  <2> QED
    BY <2>2 DEF waiting
<1> QED
  BY <1>1, <1>2, <1>3

(* A step that changes no queue and lets nothing more wait keeps numbers.  *)
LEMMA FewerNumbered ==
    ASSUME IInv, Numbered, arrived' \in {arrived, arrived + 1},
           \A n \in 1 .. Interfaces :
              /\ router'.interfaces[n].datagrams_received_
                    = router.interfaces[n].datagrams_received_
              /\ DOMAIN router'.interfaces[n].pending_arp_requests_
                    \subseteq DOMAIN router.interfaces[n].pending_arp_requests_
              /\ \A ip \in DOMAIN router'.interfaces[n].pending_arp_requests_ :
                    router'.interfaces[n].pending_arp_requests_[ip]
                       = router.interfaces[n].pending_arp_requests_[ip]
    PROVE  Numbered'
<1>1. /\ IsUnique(router)
      /\ \A n \in 1 .. Interfaces : IsHolding(router.interfaces[n])
      /\ \A n \in 1 .. Interfaces : \A x \in Queued(router, n) : x.id <= arrived
      /\ \A n \in 1 .. Interfaces :
            \A ip \in DOMAIN router.interfaces[n].pending_arp_requests_ :
               \A x \in ToSet(Waiting(router.interfaces[n], ip)) :
                  /\ x.id <= arrived
                  /\ \A m \in 1 .. Interfaces : \A y \in Queued(router, m) : y.id # x.id
  BY NumberedParts
<1>2. \A n \in 1 .. Interfaces : Queued(router', n) = Queued(router, n)
  BY Zenon DEF Queued
<1>3. IsUnique(router')
  <2> DEFINE P(m) == router.interfaces[m].datagrams_received_
             Q(m) == router'.interfaces[m].datagrams_received_
  <2>1. \A m \in 1 .. Interfaces : Q(m) = P(m)
    OBVIOUS
  <2>2. \A m, l \in 1 .. Interfaces : \A a \in DOMAIN P(m), b \in DOMAIN P(l) :
           P(m)[a].id = P(l)[b].id => m = l /\ a = b
    BY <1>1, Zenon DEF IsUnique
  <2> HIDE DEF P, Q
  <2>3. \A m, l \in 1 .. Interfaces : \A a \in DOMAIN Q(m), b \in DOMAIN Q(l) :
           Q(m)[a].id = Q(l)[b].id => m = l /\ a = b
    BY <2>1, <2>2
  <2> QED
    BY <2>3, Zenon DEF IsUnique, Q
<1>4. \A n \in 1 .. Interfaces : IsHolding(router'.interfaces[n])
  BY <1>1, Zenon DEF IsHolding
<1>5. \A n \in 1 .. Interfaces :
         \A ip \in DOMAIN router'.interfaces[n].pending_arp_requests_ :
            /\ ip \in DOMAIN router.interfaces[n].pending_arp_requests_
            /\ Waiting(router'.interfaces[n], ip) = Waiting(router.interfaces[n], ip)
  BY Zenon DEF Waiting
<1>6. ASSUME NEW id \in Nat, id <= arrived PROVE id <= arrived'
  <2>1. arrived \in Nat
    BY DEF IInv, TypeOK
  <2> QED
    BY <1>6, <2>1
<1>7. \A n \in 1 .. Interfaces :
         \A ip \in DOMAIN router'.interfaces[n].pending_arp_requests_ :
            \A x \in ToSet(Waiting(router'.interfaces[n], ip)) :
               /\ x.id <= arrived'
               /\ \A m \in 1 .. Interfaces : \A y \in Queued(router', m) : y.id # x.id
  <2>1. \A n \in 1 .. Interfaces :
           \A ip \in DOMAIN router.interfaces[n].pending_arp_requests_ :
              \A x \in ToSet(Waiting(router.interfaces[n], ip)) : x.id <= arrived'
    BY <1>1, <1>6, NumbersAreNat
  <2> QED
    BY <1>1, <1>2, <1>5, <2>1, Zenon
<1>8. \A n \in 1 .. Interfaces : \A x \in Queued(router', n) : x.id <= arrived'
  BY <1>1, <1>2, <1>6, NumbersAreNat
<1> QED
  BY <1>3, <1>4, <1>7, <1>8, Zenon DEF Numbered

(* A datagram that arrives has a number of its own.                        *)
LEMMA OneMoreNumbered ==
    ASSUME IInv, Numbered, NEW n \in 1 .. Interfaces, NEW d \in Datagrams,
           d.id = arrived + 1, arrived' = arrived + 1,
           \A m \in 1 .. Interfaces : m # n => router'.interfaces[m] = router.interfaces[m],
           router'.interfaces[n].datagrams_received_
              = Append(router.interfaces[n].datagrams_received_, d),
           router'.interfaces[n].pending_arp_requests_
              = router.interfaces[n].pending_arp_requests_
    PROVE  Numbered'
<1> DEFINE P(m) == router.interfaces[m].datagrams_received_
           Q(m) == router'.interfaces[m].datagrams_received_
           more == Len(P(n)) + 1
<1>1. /\ IsUnique(router)
      /\ \A m \in 1 .. Interfaces : IsHolding(router.interfaces[m])
      /\ \A m \in 1 .. Interfaces : \A x \in Queued(router, m) : x.id <= arrived
      /\ \A m \in 1 .. Interfaces :
            \A ip \in DOMAIN router.interfaces[m].pending_arp_requests_ :
               \A x \in ToSet(Waiting(router.interfaces[m], ip)) :
                  /\ x.id <= arrived
                  /\ \A l \in 1 .. Interfaces : \A y \in Queued(router, l) : y.id # x.id
  BY NumberedParts
<1>2. arrived \in Nat /\ IsRouter(router, table)
  BY DEF IInv, TypeOK
<1>3. \A m \in 1 .. Interfaces : P(m) \in Seq(Datagrams) /\ Queued(router, m) \subseteq Datagrams
  BY <1>2, QueueOf
<1>4. /\ \A m \in 1 .. Interfaces : m # n => Q(m) = P(m)
      /\ Q(n) = Append(P(n), d)
  OBVIOUS
<1>5. /\ \A m \in 1 .. Interfaces : m # n => Queued(router', m) = Queued(router, m)
      /\ Queued(router', n) = Queued(router, n) \cup {d}
  <2>1. ToSet(Append(P(n), d)) = ToSet(P(n)) \cup {d}
    <3> HIDE DEF P
    <3> QED
      BY <1>3, DatagramOn
  <2> QED
    BY <2>1, Zenon DEF Queued
<1>6. \A m \in 1 .. Interfaces : \A k \in DOMAIN P(m) : P(m)[k].id <= arrived
  BY <1>1, Zenon DEF Queued, ToSet
<1>7. \A m, l \in 1 .. Interfaces : \A a \in DOMAIN P(m), b \in DOMAIN P(l) :
         P(m)[a].id = P(l)[b].id => m = l /\ a = b
  BY <1>1, Zenon DEF IsUnique
<1> HIDE DEF P, Q
<1>8. \A m \in 1 .. Interfaces : \A k \in DOMAIN Q(m) :
         \/ k \in DOMAIN P(m) /\ Q(m)[k] = P(m)[k]
         \/ m = n /\ k = more /\ Q(m)[k] = d
  <2>1. /\ DOMAIN Q(n) = 1 .. Len(P(n)) + 1 /\ DOMAIN P(n) = 1 .. Len(P(n))
        /\ Len(P(n)) \in Nat
        /\ \A k \in 1 .. Len(P(n)) : Q(n)[k] = P(n)[k]
        /\ Q(n)[Len(P(n)) + 1] = d
    BY <1>3, <1>4
  <2> QED
    BY <1>4, <2>1
<1> HIDE DEF more
<1>9. \A m, l \in 1 .. Interfaces : \A a \in DOMAIN Q(m), b \in DOMAIN Q(l) :
         Q(m)[a].id = Q(l)[b].id => m = l /\ a = b
  BY <1>2, <1>6, <1>7, <1>8
<1>10. IsUnique(router')
  BY <1>9, Zenon DEF IsUnique, Q
<1>11. ASSUME NEW m \in 1 .. Interfaces
       PROVE  /\ router'.interfaces[m].pending_arp_requests_
                    = router.interfaces[m].pending_arp_requests_
              /\ IsHolding(router'.interfaces[m])
              /\ \A ip : Waiting(router'.interfaces[m], ip) = Waiting(router.interfaces[m], ip)
  <2>1. router'.interfaces[m].pending_arp_requests_ = router.interfaces[m].pending_arp_requests_
    BY Zenon
  <2> QED
    BY <1>1, <2>1, Zenon DEF IsHolding, Waiting
<1>12. \A m \in 1 .. Interfaces : \A x \in Queued(router', m) :
          x = d \/ x \in Queued(router, m)
  BY <1>5
<1>13. \A m \in 1 .. Interfaces : \A x \in Queued(router', m) : x.id <= arrived + 1
  <2>1. \A m \in 1 .. Interfaces : \A x \in Queued(router, m) : x.id \in Nat
    BY NumbersAreNat
  <2> QED
    BY <1>1, <1>2, <1>12, <2>1
<1>14. ASSUME NEW m \in 1 .. Interfaces,
              NEW ip \in DOMAIN router'.interfaces[m].pending_arp_requests_,
              NEW x \in ToSet(Waiting(router'.interfaces[m], ip))
       PROVE  /\ x.id <= arrived + 1
              /\ \A l \in 1 .. Interfaces : \A y \in Queued(router', l) : y.id # x.id
  <2>1. /\ ip \in DOMAIN router.interfaces[m].pending_arp_requests_
        /\ x \in ToSet(Waiting(router.interfaces[m], ip))
    BY <1>11, Zenon
  <2>2. /\ x.id <= arrived
        /\ \A l \in 1 .. Interfaces : \A y \in Queued(router, l) : y.id # x.id
    BY <1>1, <2>1, Zenon
  <2>3. x.id \in Nat
    BY <2>1, NumbersAreNat
  <2>4. x.id <= arrived + 1 /\ x.id # arrived + 1
    BY <1>2, <2>2, <2>3
  <2> QED
    BY <1>12, <2>2, <2>4
<1> QED
  BY <1>10, <1>11, <1>13, <1>14, Zenon DEF Numbered

(* A pass keeps the numbers: what was taken is in no queue any more.       *)
LEMMA PassNumbered ==
    ASSUME IInv, Numbered, RoutePass
    PROVE  Numbered'
<1> DEFINE q == route(router)
<1>1. router' = q.router /\ arrived' = arrived
  BY DEF RoutePass
<1>2. IsTidy(q)
  BY RouteIsOK, Zenon DEF PassOK
<1> HIDE DEF q
<1>3. /\ \A n \in 1 .. Interfaces : IsHolding(q.router.interfaces[n])
      /\ IsUnique(q.router)
      /\ \A n \in 1 .. Interfaces : Queued(q.router, n) \subseteq Queued(router, n)
      /\ \A n \in 1 .. Interfaces : \A d \in Queued(q.router, n) : IsNew(q, d.id)
      /\ \A m \in 1 .. Interfaces : \A hop :
            \A x \in Out(q.router, q.frames, m, hop) : x.id <= arrived
  BY <1>2, Zenon DEF IsTidy
<1>4. \A n \in 1 .. Interfaces : \A x \in Queued(q.router, n) : x.id <= arrived
  BY <1>3, NumberedParts, Zenon
<1>5. ASSUME NEW n \in 1 .. Interfaces, NEW ip,
             NEW x \in ToSet(Waiting(q.router.interfaces[n], ip))
      PROVE  /\ x.id <= arrived
             /\ \A m \in 1 .. Interfaces : \A y \in Queued(q.router, m) : y.id # x.id
  <2>1. x \in Out(q.router, q.frames, n, ip)
    BY Zenon DEF Out
  <2>2. \A m \in 1 .. Interfaces : \A y \in Queued(q.router, m) : y.id # x.id
    BY <1>3, <2>1, Zenon DEF IsNew
  <2> QED
    BY <1>3, <2>1, <2>2, Zenon
<1>6. /\ \A n \in 1 .. Interfaces : IsHolding(router'.interfaces[n])
      /\ IsUnique(router')
      /\ \A n \in 1 .. Interfaces : \A x \in Queued(router', n) : x.id <= arrived'
      /\ \A n \in 1 .. Interfaces :
            \A ip \in DOMAIN router'.interfaces[n].pending_arp_requests_ :
               \A x \in ToSet(Waiting(router'.interfaces[n], ip)) :
                  /\ x.id <= arrived'
                  /\ \A m \in 1 .. Interfaces : \A y \in Queued(router', m) : y.id # x.id
  BY <1>1, <1>3, <1>4, <1>5, Zenon
<1> QED
  BY <1>6, Zenon DEF Numbered
-----------------------------------------------------------------------------
(* No number has been given when nothing has arrived.                      *)
LEMMA InitNumbered == Init => Numbered
<1> SUFFICES ASSUME Init PROVE Numbered
  OBVIOUS
<1>1. ASSUME NEW n \in 1 .. Interfaces
      PROVE  /\ router.interfaces[n].datagrams_received_ = << >>
             /\ router.interfaces[n].pending_arp_requests_ = << >>
  BY DEF Init, NewRouter, NewInterface
<1>2. DOMAIN << >> = {} /\ ToSet(<< >>) = {}
  BY DEF ToSet
<1>3. \A n \in 1 .. Interfaces : /\ Queued(router, n) = {}
                                 /\ DOMAIN router.interfaces[n].pending_arp_requests_ = {}
                                 /\ DOMAIN router.interfaces[n].datagrams_received_ = {}
  BY <1>1, <1>2, Zenon DEF Queued
<1> QED
  BY <1>3, Zenon DEF Numbered, IsHolding, IsUnique

(* Everything stays in the queues.                                         *)
NoneTaken == \A n \in 1 .. Interfaces : Queued(router, n) \subseteq Queued(router', n)

(* A frame changes the interface that receives it.                         *)
LEMMA FrameChanges ==
    ASSUME IInv, NEW n \in 1 .. Interfaces, NEW frame, RecvFrame(n, frame)
    PROVE  /\ router'.interfaces[n] = recv_frame(router.interfaces[n], frame).interface
           /\ \A m \in 1 .. Interfaces : m # n => router'.interfaces[m] = router.interfaces[m]
<1> DEFINE i == recv_frame(router.interfaces[n], frame).interface
<1>1. IsRouter(router, table)
  BY DEF IInv, TypeOK
<1>2. router' = [router EXCEPT !.interfaces[n] = i]
  BY DEF RecvFrame
<1> HIDE DEF i
<1> QED
  BY <1>1, <1>2 DEF IsRouter, i

(* A datagram arrives and waits in a queue.                                *)
LEMMA DatagramNumbered ==
    ASSUME IInv, Numbered, NEW n \in 1 .. Interfaces, NEW dst \in Addresses, NEW ttl \in TTLs,
           RecvDatagram(n, dst, ttl)
    PROVE  Numbered' /\ NoneTaken
<1> DEFINE i     == router.interfaces[n]
           queue == i.datagrams_received_
           d     == [id |-> arrived + 1, dst |-> dst, ttl |-> ttl]
           frame == [type |-> "IPv4", src |-> Hardware, dst |-> n, payload |-> d]
           j     == recv_frame(i, frame).interface
<1>1. arrived \in Nat /\ IsRouter(router, table) /\ IsInterface(i)
  BY DEF IInv, TypeOK, IsRouter
<1>2. d \in Datagrams /\ d.id = arrived + 1
  BY <1>1, RouterAssumption DEF Datagrams
<1>3. frame.type = "IPv4" /\ frame.payload = d
  OBVIOUS
<1>4. RecvFrame(n, frame) /\ arrived' = arrived + 1
  BY DEF RecvDatagram
<1> HIDE DEF d, frame
<1>5. /\ router'.interfaces[n] = j
      /\ \A m \in 1 .. Interfaces : m # n => router'.interfaces[m] = router.interfaces[m]
  BY <1>4, FrameChanges
<1>6. j = i \/ j = [i EXCEPT !.datagrams_received_ = Append(queue, d)]
  BY <1>3 DEF recv_frame
<1>7. CASE j = i
  <2>1. \A m \in 1 .. Interfaces : router'.interfaces[m] = router.interfaces[m]
    BY <1>5, <1>7
  <2>2. NoneTaken
    BY <2>1, Zenon DEF NoneTaken, Queued
  <2>3. Numbered'
    BY <1>4, <2>1, FewerNumbered
  <2> QED
    BY <2>2, <2>3
<1>8. CASE j = [i EXCEPT !.datagrams_received_ = Append(queue, d)]
  <2>1. /\ j.datagrams_received_ = Append(queue, d)
        /\ j.pending_arp_requests_ = i.pending_arp_requests_
    BY <1>1, <1>8 DEF IsInterface, InterfaceFields
  <2> HIDE DEF j
  <2>2. Numbered'
    BY <1>2, <1>4, <1>5, <2>1, OneMoreNumbered
  <2>3. ASSUME NEW m \in 1 .. Interfaces PROVE Queued(router, m) \subseteq Queued(router', m)
    <3>1. CASE m # n
      BY <1>5, <3>1, Zenon DEF Queued
    <3>2. CASE m = n
      <4>1. queue \in Seq(Datagrams)
        BY <1>1 DEF IsInterface
      <4> HIDE DEF queue
      <4>2. ToSet(Append(queue, d)) = ToSet(queue) \cup {d}
        BY <4>1, DatagramOn
      <4>3. Queued(router', n) = Queued(router, n) \cup {d}
        BY <1>5, <2>1, <4>2, Zenon DEF Queued, queue
      <4> QED
        BY <3>2, <4>3
    <3> QED
      BY <3>1, <3>2
  <2> QED
    BY <2>2, <2>3 DEF NoneTaken
<1> QED
  BY <1>6, <1>7, <1>8

(* A neighbour answers, and nothing waits for it any more.                 *)
LEMMA ReplyNumbered ==
    ASSUME IInv, Numbered, NEW n \in 1 .. Interfaces, NEW ip, RecvReply(n, ip)
    PROVE  Numbered' /\ NoneTaken
<1> DEFINE i     == router.interfaces[n]
           arp   == [opcode |-> "reply", sender_ethernet_address |-> Hardware,
                     sender_ip_address |-> ip, target_ip_address |-> Direct]
           frame == [type |-> "ARP", src |-> Hardware, dst |-> n, payload |-> arp]
           j     == recv_frame(i, frame).interface
<1>1. IsRouter(router, table) /\ IsInterface(i)
  BY DEF IInv, TypeOK, IsRouter
<1>2. frame.type = "ARP" /\ frame.payload = arp /\ arp.sender_ip_address = ip
  OBVIOUS
<1>3. RecvFrame(n, frame) /\ arrived' = arrived
  BY DEF RecvReply
<1> HIDE DEF arp, frame
<1>4. /\ router'.interfaces[n] = j
      /\ \A m \in 1 .. Interfaces : m # n => router'.interfaces[m] = router.interfaces[m]
  BY <1>3, FrameChanges
<1>5. j = recv_arp(i, arp).interface
  BY <1>2 DEF recv_frame, NotForUs
<1>6. /\ j.datagrams_received_ = i.datagrams_received_
      /\ j.pending_arp_requests_ = Without(i.pending_arp_requests_, ip)
  BY <1>1, <1>2, <1>5 DEF recv_arp, IsInterface, InterfaceFields
<1> HIDE DEF j
<1>7. /\ DOMAIN j.pending_arp_requests_ \subseteq DOMAIN i.pending_arp_requests_
      /\ \A k \in DOMAIN j.pending_arp_requests_ :
            j.pending_arp_requests_[k] = i.pending_arp_requests_[k]
  BY <1>6 DEF Without
<1>8. ASSUME NEW m \in 1 .. Interfaces
      PROVE  /\ router'.interfaces[m].datagrams_received_
                   = router.interfaces[m].datagrams_received_
             /\ DOMAIN router'.interfaces[m].pending_arp_requests_
                   \subseteq DOMAIN router.interfaces[m].pending_arp_requests_
             /\ \A k \in DOMAIN router'.interfaces[m].pending_arp_requests_ :
                   router'.interfaces[m].pending_arp_requests_[k]
                      = router.interfaces[m].pending_arp_requests_[k]
  BY <1>4, <1>6, <1>7
<1>9. NoneTaken
  BY <1>8, Zenon DEF NoneTaken, Queued
<1>10. Numbered'
  BY <1>3, <1>8, FewerNumbered
<1> QED
  BY <1>9, <1>10

(* A route changes no interface.                                           *)
LEMMA RouteNumbered ==
    ASSUME IInv, Numbered, NEW route_prefix, NEW prefix_length, NEW next_hop, NEW n,
           AddRoute(route_prefix, prefix_length, next_hop, n)
    PROVE  Numbered' /\ NoneTaken
<1>1. router'.interfaces = router.interfaces /\ arrived' = arrived
  BY DEF AddRoute, add_route, IInv, TypeOK, IsRouter
<1>2. NoneTaken
  BY <1>1, Zenon DEF NoneTaken, Queued
<1>3. Numbered'
  BY <1>1, FewerNumbered
<1> QED
  BY <1>2, <1>3

(* Only a pass takes datagrams from the queues, and every step keeps the   *)
(* numbers.                                                                *)
LEMMA EachStep ==
    ASSUME IInv, Numbered, [Next]_vars
    PROVE  Numbered' /\ (NoneTaken \/ RoutePass)
<1>1. ASSUME NEW route_prefix \in Addresses, NEW prefix_length \in 0 .. Bits,
             NEW next_hop \in NextHops \cup {Direct}, NEW n \in 1 .. Interfaces,
             AddRoute(route_prefix, prefix_length, next_hop, n)
      PROVE  Numbered' /\ NoneTaken
  BY <1>1, RouteNumbered
<1>2. ASSUME NEW n \in 1 .. Interfaces, NEW dst \in Addresses, NEW ttl \in TTLs,
             RecvDatagram(n, dst, ttl)
      PROVE  Numbered' /\ NoneTaken
  BY <1>2, DatagramNumbered
<1>3. ASSUME NEW n \in 1 .. Interfaces, NEW ip, RecvReply(n, ip)
      PROVE  Numbered' /\ NoneTaken
  BY <1>3, ReplyNumbered
<1>4. CASE RoutePass
  BY <1>4, PassNumbered
<1>5. CASE UNCHANGED vars
  <2>1. router' = router /\ arrived' = arrived
    BY <1>5 DEF vars
  <2>2. NoneTaken
    BY <2>1, Zenon DEF NoneTaken
  <2>3. Numbered'
    BY <2>1, FewerNumbered
  <2> QED
    BY <2>2, <2>3
<1> QED
  BY <1>1, <1>2, <1>3, <1>4, <1>5 DEF Next

LEMMA NextNumbered == IInv /\ Numbered /\ [Next]_vars => Numbered'
BY EachStep

(* What a step takes from the queues goes where it should.                 *)
HandedStep ==
    \A n \in 1 .. Interfaces : \A dgram \in Queued(router, n) \ Queued(router', n) :
          LET aged     == [dgram EXCEPT !.ttl = @ - 1]
              applying == {key \in DOMAIN table : Applies(key, dgram.dst)}
              best     == CHOOSE key \in applying : \A other \in applying : other[1] <= key[1]
              hops     == NextHops \cup Addresses
              places   == {place \in (1 .. Interfaces) \X hops :
                              aged \in Out(router', sent', place[1], place[2])}
          IN  IF dgram.ttl > 1 /\ applying # {}
                THEN LET hop == IF table[best].next_hop = Direct THEN dgram.dst
                                ELSE table[best].next_hop
                     IN  <<table[best].interface_num, hop>> \in places
                         /\ \A place \in places : place[1] = table[best].interface_num
                ELSE places = {}

(* A pass hands on all that it takes.                                      *)
LEMMA NextHands == IInv /\ Numbered /\ [Next]_vars => [HandedStep]_vars
<1> SUFFICES ASSUME IInv, Numbered, [Next]_vars PROVE HandedStep
  OBVIOUS
<1>1. CASE NoneTaken
  BY <1>1 DEF NoneTaken, HandedStep
<1>2. CASE RoutePass
  <2>1. router' = route(router).router /\ sent' = route(router).frames
    BY <1>2 DEF RoutePass
  <2>2. PassOK(route(router))
    BY RouteIsOK
  <2>3. \A n \in 1 .. Interfaces : \A dgram \in Queued(router, n) \ Queued(router', n) :
           GoesTo(dgram, Places(router', sent', Aged(dgram)))
    BY <2>1, <2>2, Zenon DEF PassOK
  <2> QED
    BY <2>3, Zenon DEF HandedStep, GoesTo, Places, Aged
<1> QED
  BY <1>1, <1>2, EachStep

(* Every number is given once.                                             *)
LEMMA AlwaysNumbered == Spec => []Numbered
<1>1. Spec => []IInv
  BY Invariance
<1> QED
  BY <1>1, InitNumbered, NextNumbered, PTL DEF Spec

(* What a pass takes from a queue is handed on to the interface and next   *)
(* hop of the longest route that applies to it and to no other, or dropped *)
(* when its time is over or nothing applies (Router::route,                *)
(* router.cc:35-78).                                                       *)
THEOREM TakenArePassedOn == Spec => TakenIsHandedOn
<1>1. Spec => []IInv
  BY Invariance
<1>2. Spec => [][HandedStep]_vars
  BY <1>1, AlwaysNumbered, NextHands, PTL DEF Spec
<1> QED
  BY <1>2, PTL DEF TakenIsHandedOn, HandedStep
=============================================================================
