------------------------------- MODULE Adapter -------------------------------
(***************************************************************************)
(* src/util/tcp_over_ip.cc and the two adapters built on it, over a tun    *)
(* device (src/util/tuntap_adapter.cc) or over Ethernet (the adapter of    *)
(* src/apps/endtoend.cc): several hosts, each with its adapter, and the    *)
(* wire between them, which may lose, damage, cut or pad what it carries.  *)
(* One host listens; the others connect to it, or to something else there. *)
(***************************************************************************)
EXTENDS Packets

CONSTANTS
    Hosts, Listener,
    Own,            (* the Address of each, [ip, port]                     *)
    Target,         (* the Address each of the others connects to          *)
    Ethernet,       (* the Ethernet address of each                        *)
    TCPMessages,    (* what they send                                      *)
    Damages         (* what may be added to an octet (bound)               *)

ASSUME AdapterAssumption ==
    /\ Listener \in Hosts
    /\ \A h, g \in Hosts : Own[h] = Own[g] => h = g
    /\ Damages \subseteq 1 .. 255

VARIABLES
    medium,     (* "tun" or "ethernet"                                     *)
    adapters,   (* the adapter of each host: FdAdapterConfig and _listen   *)
    wire,       (* the packet under way, or NoPacket                       *)
    last,       (* what was last read, where and from which packet         *)
    first       (* who first reached the listener with a SYN               *)

vars == <<medium, adapters, wire, last, first>>

NoPacket  == [kind |-> "none"]
NoMessage == [kind |-> "none"]
Nobody    == [kind |-> "none"]

NewAdapter(h) ==
    [source |-> Own[h], _listen |-> h = Listener,
     destination |-> IF h = Listener THEN [ip |-> ZeroOctets, port |-> 0] ELSE Target[h]]

wrap_tcp_in_ip(adapter, message) ==
    LET header  == [NewHeader EXCEPT !.src = adapter.source.ip, !.dst = adapter.destination.ip,
                                     !.len = 4 * NewHeader.hlen + 20 + Len(message.payload)]
        segment == [src_port |-> adapter.source.port, dst_port |-> adapter.destination.port,
                    cksum |-> 0, message |-> message]
        pseudo  == pseudo_checksum(header)
    IN  [header |-> [header EXCEPT !.cksum = HeaderChecksum(header)],
         payload |-> serialize_segment([segment EXCEPT !.cksum = SegmentChecksum(segment, pseudo)])]

(* Of the connection, and a TCP segment: what the IP header says. *)
Related(adapter, dgram) ==
    /\ \/ adapter._listen
       \/ dgram.header.dst = adapter.source.ip /\ dgram.header.src = adapter.destination.ip
    /\ dgram.header.proto = PROTO_TCP

(* Mutant: the listener goes on listening. *)
AcceptAndListen(adapter, dgram, segment) ==
    [adapter EXCEPT !.source.ip = dgram.header.dst,
                    !.destination = [ip |-> dgram.header.src, port |-> segment.src_port]]

(* A SYN decides whom the listener talks to, and as whom. *)
Accept(adapter, dgram, segment) ==
    [adapter EXCEPT !._listen = FALSE, !.source.ip = dgram.header.dst,
                    !.destination = [ip |-> dgram.header.src, port |-> segment.src_port]]

(* The adapter after a segment of a datagram, and the message it brings.   *)
Unwrapped(adapter, dgram, segment) ==
    LET opens == segment.message.SYN /\ ~segment.message.RST
        next  == IF adapter._listen THEN Accept(adapter, dgram, segment) ELSE adapter
    IN  IF \/ segment.error \/ segment.dst_port # adapter.source.port
           \/ adapter._listen /\ ~opens
          THEN [adapter |-> adapter, message |-> NoMessage]
          ELSE [adapter |-> next,
                message |-> IF segment.src_port = next.destination.port THEN segment.message
                            ELSE NoMessage]

unwrap_tcp_in_ip(adapter, dgram) ==
    IF Related(adapter, dgram)
      THEN Unwrapped(adapter, dgram, parse_segment(dgram.payload, pseudo_checksum(dgram.header)))
      ELSE [adapter |-> adapter, message |-> NoMessage]

(* read of a vector of strings of the sizes given, and one for the rest.   *)
Scatter(octets, sizes) ==
    LET before == [k \in 1 .. Len(sizes) + 1 |->
                      FoldLeft(LAMBDA sum, n : sum + n, 0, SubSeq(sizes, 1, k - 1))]
    IN  [k \in 1 .. Len(sizes) + 1 |->
            SubSeq(octets, before[k] + 1,
                   IF k > Len(sizes) THEN Len(octets)
                   ELSE IF before[k + 1] < Len(octets) THEN before[k + 1] ELSE Len(octets))]

ReadDatagram(adapter, buffers) ==
    LET dgram == parse_datagram(buffers)
    IN  IF dgram.error THEN [adapter |-> adapter, message |-> NoMessage]
        ELSE unwrap_tcp_in_ip(adapter, dgram)

ReadTun(adapter, octets) == ReadDatagram(adapter, Scatter(octets, << 20, 20 >>))

ReceiveFrame(octets) == parse_frame(Scatter(octets, << 14, 20, 20 >>))

(* An ARP message goes to the interface, a datagram through it (see        *)
(* NetworkInterfaceOps); each frame brings one or nothing.                 *)
ReadFrame(adapter, frame) ==
    LET arp == parse_arp(frame.payload)
    IN  CASE ~frame.error /\ frame.type = TYPE_IPv4 -> ReadDatagram(adapter, frame.payload)
          [] ~frame.error /\ frame.type = TYPE_ARP /\ ~arp.error ->
                [adapter |-> adapter, message |-> arp.message]
          [] OTHER -> [adapter |-> adapter, message |-> NoMessage]

ReadEthernet(adapter, octets) == ReadFrame(adapter, ReceiveFrame(octets))

read(adapter, octets) ==
    IF medium = "tun" THEN ReadTun(adapter, octets) ELSE ReadEthernet(adapter, octets)

Frame(h, type, payload) ==
    [dst |-> << 255, 255, 255, 255, 255, 255 >>, src |-> Ethernet[h], type |-> type,
     payload |-> payload]

write(h, message) ==
    LET dgram == serialize_datagram(wrap_tcp_in_ip(adapters[h], message))
    IN  FlattenSeq(IF medium = "tun" THEN dgram ELSE serialize_frame(Frame(h, TYPE_IPv4, dgram)))

Init ==
    /\ medium \in {"tun", "ethernet"}
    /\ adapters = [h \in Hosts |-> NewAdapter(h)]
    /\ wire = NoPacket /\ last = NoPacket /\ first = Nobody

Send(h, message) ==
    /\ wire = NoPacket
    /\ ~adapters[h]._listen
    /\ wire' = [kind |-> "tcp", octets |-> write(h, message), intact |-> TRUE, message |-> message,
                from |-> adapters[h].source, to |-> adapters[h].destination]
    /\ last' = NoPacket
    /\ UNCHANGED <<medium, adapters, first>>

(* The interface of h asks for, or announces, an address. *)
Announce(h, opcode) ==
    LET arp == [opcode |-> opcode, sender_ethernet_address |-> Ethernet[h],
                sender_ip_address |-> Own[h].ip, target_ethernet_address |-> << 0, 0, 0, 0, 0, 0 >>,
                target_ip_address |-> Own[Listener].ip]
    IN  /\ medium = "ethernet"
        /\ wire = NoPacket
        /\ wire' = [kind |-> "arp", intact |-> TRUE, message |-> arp,
                    octets |-> FlattenSeq(serialize_frame(Frame(h, TYPE_ARP, serialize_arp(arp))))]
        /\ last' = NoPacket
        /\ UNCHANGED <<medium, adapters, first>>

(* One octet arrives changed.  ARP has no checksum: the frame's own, which *)
(* the program does not see, protects it.                                  *)
Damage ==
    /\ wire.kind = "tcp" /\ wire.intact
    /\ \E i \in DOMAIN wire.octets, d \in Damages :
          wire' = [wire EXCEPT !.octets[i] = (@ + d) % 256, !.intact = FALSE]
    /\ UNCHANGED <<medium, adapters, last, first>>

(* The end is missing. *)
Cut ==
    /\ wire # NoPacket /\ wire.intact
    /\ \E n \in 0 .. Len(wire.octets) - 1 :
          wire' = [wire EXCEPT !.octets = SubSeq(@, 1, n), !.intact = FALSE]
    /\ UNCHANGED <<medium, adapters, last, first>>

(* Ethernet frames have at least 60 octets. *)
Pad ==
    /\ medium = "ethernet"
    /\ wire # NoPacket /\ Len(wire.octets) < 60
    /\ wire.intact
    /\ wire' = [wire EXCEPT !.octets = @ \o [i \in 1 .. 60 - Len(@) |-> 0]]
    /\ UNCHANGED <<medium, adapters, last, first>>

Opens(packet) == packet.kind = "tcp" /\ packet.message.SYN /\ ~packet.message.RST

(* Of a LossyFdAdapter, when the message is dropped, nothing is left but   *)
(* what the adapter within it has learned.                                 *)
Becomes(h, dropped, step) ==
    /\ adapters' = [adapters EXCEPT ![h] = step.adapter]
    /\ last' = [kind |-> "read", at |-> h, dropped |-> dropped,
                packet |-> [wire EXCEPT !.octets = << >>],
                message |-> IF dropped THEN NoMessage ELSE step.message]
    /\ first' = IF /\ first = Nobody /\ h = Listener
                   /\ wire.intact \/ step.message # NoMessage
                   /\ Opens(wire) /\ wire.to.port = Own[Listener].port
                  THEN wire.from ELSE first

Read(h, dropped) ==
    /\ wire # NoPacket
    /\ dropped => medium = "tun"
    /\ Becomes(h, dropped, read(adapters[h], wire.octets))
    /\ wire' = NoPacket
    /\ UNCHANGED medium

Next ==
    \/ \E h \in Hosts, message \in TCPMessages : Send(h, message)
    \/ \E h \in Hosts, opcode \in {1, 2} : Announce(h, opcode)
    \/ Damage
    \/ Cut
    \/ Pad
    \/ \E h \in Hosts, dropped \in BOOLEAN : Read(h, dropped)

Spec == Init /\ [][Next]_vars
-----------------------------------------------------------------------------
Delivered == last # NoPacket /\ last.message # NoMessage

Reader == adapters[last.at]

(* Whatever happens to a packet on the wire, what is read is the message   *)
(* that was sent, by the peer of the reader's connection, to the reader.   *)
AsSent ==
    Delivered =>
        /\ last.message = last.packet.message
        /\ last.packet.kind = "tcp" =>
              last.packet.from = Reader.destination /\ last.packet.to = Reader.source

(* A packet that arrives as it was sent, or padded, is read by whom it is  *)
(* for: no layer refuses what another has written.                         *)
ReadAsWritten ==
    last # NoPacket /\ last.packet.intact /\ ~last.dropped =>
        \/ Delivered
        \/ /\ last.packet.kind = "tcp"
           /\ IF Reader._listen
                THEN ~Opens(last.packet) \/ last.packet.to.port # Reader.source.port
                ELSE last.packet.from # Reader.destination \/ last.packet.to # Reader.source

(* Whoever first reaches the listener with a SYN is whom the connection is *)
(* with, under the address it was reached at, for ever after, and also     *)
(* when the SYN is dropped afterwards (tcp_over_ip.cc:55).                 *)
FirstDecides ==
    LET adapter == adapters[Listener]
    IN  /\ adapter._listen <=> first = Nobody
        /\ first # Nobody =>
              \E h \in Hosts \ {Listener} : /\ first = Own[h]
                                            /\ adapter.destination = Own[h]
                                            /\ adapter.source = Target[h]
=============================================================================
