------------------------------- MODULE Packets -------------------------------
(***************************************************************************)
(* What goes over the wire, in octets: the Parser and Serializer of        *)
(* src/util/parser.cc, the Internet checksum, and the parse and serialize  *)
(* of TCP segments, IPv4 datagrams, Ethernet frames and ARP messages.      *)
(*                                                                         *)
(* An integer of one or two octets is a number; a longer one, which the    *)
(* code only copies and compares, is the sequence of its octets.           *)
(***************************************************************************)
EXTENDS Integers, SequencesExt

(* An optional acknowledgment number that holds no value. *)
NoAckno == << >>

Number(octets) ==
    IF Len(octets) <= 2 THEN FoldLeft(LAMBDA n, octet : 256 * n + octet, 0, octets) ELSE octets

Octets(val, width) ==
    CASE width = 1 -> << val % 256 >>
      [] width = 2 -> << (val \div 256) % 256, val % 256 >>
      [] OTHER     -> val

Bit(octet, i) == (octet \div 2^i) % 2 = 1

Mask(flag, i) == IF flag THEN 2^i ELSE 0
-----------------------------------------------------------------------------
(* Parser: a list of buffers, of whose first skip_ octets have been read.  *)

NewParser(buffers) ==
    [buffer_ |-> buffers, skip_ |-> 0, size_ |-> Len(FlattenSeq(buffers)), error_ |-> FALSE]

Unread(parser) ==
    LET octets == FlattenSeq(parser.buffer_)
    IN  SubSeq(octets, parser.skip_ + 1, Len(octets))

SizeOfFirst(buffers, k) == Len(FlattenSeq(SubSeq(buffers, 1, k)))

(* The buffer that octet number n is in. *)
BufferOf(buffers, n) ==
    CHOOSE k \in DOMAIN buffers : SizeOfFirst(buffers, k - 1) < n /\ n <= SizeOfFirst(buffers, k)

(* Everything before octet number end + 1, the last of it in buffer k. *)
Skip(parser, end, k) ==
    LET buffers == parser.buffer_
        popped  == IF SizeOfFirst(buffers, k) = end THEN k ELSE k - 1
    IN  [parser EXCEPT !.buffer_ = SubSeq(@, popped + 1, Len(@)),
                       !.skip_ = end - SizeOfFirst(buffers, popped),
                       !.size_ = @ - (end - parser.skip_)]

(* Removes at most what is there; a buffer is popped as soon as it is read. *)
remove_prefix(parser, len) ==
    LET end == parser.skip_ + (IF len <= parser.size_ THEN len ELSE parser.size_)
    IN  IF end = parser.skip_ THEN parser ELSE Skip(parser, end, BufferOf(parser.buffer_, end))

(* Mutant: nothing is cut off. *)
truncateNever(parser, len) == parser

(* Counts the octets of the first buffer that have been read, too. *)
truncate(parser, len) ==
    LET k == BufferOf(parser.buffer_, len)
        before == SizeOfFirst(parser.buffer_, k - 1)
    IN  CASE parser.size_ <= len -> parser
          [] parser.size_ > len /\ len = 0 -> [parser EXCEPT !.buffer_ = << >>, !.size_ = 0]
          [] OTHER -> [parser EXCEPT !.size_ = len,
                          !.buffer_ = Append(SubSeq(@, 1, k - 1), SubSeq(@[k], 1, len - before))]

(* all_remaining. *)
dump_all(parser) ==
    IF parser.size_ = 0 THEN << >>
    ELSE << SubSeq(Head(parser.buffer_), parser.skip_ + 1, Len(Head(parser.buffer_))) >>
           \o Tail(parser.buffer_)

(* Mutant: something must be left behind the integer. *)
integerOfMore(parser, width) ==
    IF parser.error_ \/ width >= parser.size_
      THEN [parser |-> [parser EXCEPT !.error_ = TRUE], out |-> Number([i \in 1 .. width |-> 0])]
      ELSE [parser |-> remove_prefix(parser, width),
            out |-> Number(SubSeq(Unread(parser), 1, width))]

integer(parser, width) ==
    IF parser.error_ \/ width > parser.size_
      THEN [parser |-> [parser EXCEPT !.error_ = TRUE], out |-> Number([i \in 1 .. width |-> 0])]
      ELSE [parser |-> remove_prefix(parser, width),
            out |-> Number(SubSeq(Unread(parser), 1, width))]

(* One after the other. *)
Gathered(out, next) == [parser |-> next.parser, out |-> Append(out, next.out)]

integers(parser, widths) ==
    FoldLeft(LAMBDA read, width : Gathered(read.out, integer(read.parser, width)),
             [parser |-> parser, out |-> << >>], widths)

(* Serializer: the integers of a header gather in one buffer, those that   *)
(* follow keep theirs.                                                     *)
Serialized(vals, widths, buffers) ==
    << FlattenSeq([i \in DOMAIN vals |-> Octets(vals[i], widths[i])]) >>
      \o SelectSeq(buffers, LAMBDA buffer : buffer # << >>)
-----------------------------------------------------------------------------
(* InternetChecksum: pairs of octets are added up across buffers. *)

add(sum, octets) ==
    FoldLeft(LAMBDA s, i : s + (IF i % 2 = 1 THEN 256 * octets[i] ELSE octets[i]),
             sum, [i \in DOMAIN octets |-> i])

(* Two turns fold any sum of a datagram into sixteen bits. *)
value(sum) ==
    LET Fold(s) == IF s > 65535 THEN (s \div 65536) + (s % 65536) ELSE s
    IN  65535 - Fold(Fold(sum))
-----------------------------------------------------------------------------
(* TCPSegment: the ports, the checksum and the message of TCPPeerOps. *)

SegmentWidths == << 2, 2, 4, 4, 1, 1, 2, 2, 2 >>

ZeroOctets == << 0, 0, 0, 0 >>

SegmentFlags(message) ==
    Mask(message.ackno # NoAckno, 4) + Mask(message.RST, 2) + Mask(message.SYN, 1)
      + Mask(message.FIN, 0)

serialize_segment(segment) ==
    LET message == segment.message
    IN  Serialized(<< segment.src_port, segment.dst_port, message.seqno,
                      IF message.ackno = NoAckno THEN ZeroOctets ELSE message.ackno,
                      5 * 16, SegmentFlags(message), message.window_size, segment.cksum, 0 >>,
                   SegmentWidths, << message.payload >>)

SegmentChecksum(segment, pseudo) ==
    value(add(pseudo, FlattenSeq(serialize_segment([segment EXCEPT !.cksum = 0]))))

Damaged(parser, pseudo) == value(add(pseudo, Unread(parser))) # 0

SegmentOf(out, parser, damaged) ==
    LET offset == out[5] \div 16
        flags  == out[6]
        body   == IF offset < 5 THEN parser ELSE remove_prefix(parser, 4 * offset - 20)
    IN  [error |-> damaged \/ parser.error_ \/ offset < 5,
         src_port |-> out[1], dst_port |-> out[2], cksum |-> out[8],
         message |->
            [seqno |-> out[3], ackno |-> IF Bit(flags, 4) THEN out[4] ELSE NoAckno,
             RST |-> Bit(flags, 2), SYN |-> Bit(flags, 1), FIN |-> Bit(flags, 0),
             window_size |-> out[7], payload |-> FlattenSeq(dump_all(body))]]

parse_segment(buffers, pseudo) ==
    LET parser == NewParser(buffers)
        header == integers(parser, SegmentWidths)
    IN  SegmentOf(header.out, header.parser, Damaged(parser, pseudo))
-----------------------------------------------------------------------------
(* IPv4Header and IPv4Datagram. *)

PROTO_TCP == 6

HeaderWidths == << 1, 1, 2, 2, 2, 1, 1, 2, 4, 4 >>

NewHeader ==
    [ver |-> 4, hlen |-> 5, tos |-> 0, len |-> 0, id |-> 0, df |-> TRUE, mf |-> FALSE,
     offset |-> 0, ttl |-> 128, proto |-> PROTO_TCP, cksum |-> 0,
     src |-> ZeroOctets, dst |-> ZeroOctets]

serialize_datagram(dgram) ==
    LET h == dgram.header
    IN  Serialized(<< 16 * h.ver + (h.hlen % 16), h.tos, h.len, h.id,
                      Mask(h.df, 14) + Mask(h.mf, 13) + (h.offset % 8192),
                      h.ttl, h.proto, h.cksum, h.src, h.dst >>,
                   HeaderWidths, dgram.payload)

HeaderChecksum(header) ==
    value(add(0, Head(serialize_datagram([header |-> [header EXCEPT !.cksum = 0],
                                          payload |-> << >>]))))

payload_length(header) == (header.len - 4 * header.hlen) % 65536

pseudo_checksum(header) ==
    add(0, header.src \o header.dst) + header.proto + payload_length(header)

HeaderOf(out) ==
    [ver |-> out[1] \div 16, hlen |-> out[1] % 16, tos |-> out[2], len |-> out[3],
     id |-> out[4], df |-> Bit(out[5], 14), mf |-> Bit(out[5], 13),
     offset |-> out[5] % 8192, ttl |-> out[6], proto |-> out[7],
     cksum |-> out[8], src |-> out[9], dst |-> out[10]]

(* Skips the options and compares the checksum. *)
CheckHeader(header, parser) ==
    [header |-> header,
     parser |-> IF parser.error_ \/ header.ver # 4 \/ header.hlen < 5
                  THEN [parser EXCEPT !.error_ = TRUE]
                  ELSE [remove_prefix(parser, 4 * header.hlen - 20)
                          EXCEPT !.error_ = HeaderChecksum(header) # header.cksum]]

ParseHeader(parser) ==
    LET read == integers(parser, HeaderWidths)
    IN  CheckHeader(HeaderOf(read.out), read.parser)

DatagramOf(header, parser) ==
    [error |-> parser.error_, header |-> header,
     payload |-> IF parser.error_ THEN << >>
                 ELSE dump_all(truncate(parser, payload_length(header)))]

parse_datagram(buffers) ==
    LET read == ParseHeader(NewParser(buffers))
    IN  DatagramOf(read.header, read.parser)
-----------------------------------------------------------------------------
(* EthernetFrame and ARPMessage. *)

TYPE_IPv4 == 2048
TYPE_ARP  == 2054

serialize_frame(frame) ==
    Serialized(<< frame.dst, frame.src, frame.type >>, << 6, 6, 2 >>, frame.payload)

FrameOf(out, parser) ==
    [error |-> parser.error_, dst |-> out[1], src |-> out[2], type |-> out[3],
     payload |-> dump_all(parser)]

parse_frame(buffers) ==
    LET read == integers(NewParser(buffers), << 6, 6, 2 >>)
    IN  FrameOf(read.out, read.parser)

ARPWidths == << 2, 2, 1, 1, 2, 6, 4, 6, 4 >>

serialize_arp(arp) ==
    Serialized(<< 1, TYPE_IPv4, 6, 4, arp.opcode, arp.sender_ethernet_address,
                  arp.sender_ip_address, arp.target_ethernet_address, arp.target_ip_address >>,
               ARPWidths, << >>)

supported(out) == SubSeq(out, 1, 4) = << 1, TYPE_IPv4, 6, 4 >> /\ out[5] \in {1, 2}

ARPOf(out, parser) ==
    [error |-> parser.error_ \/ ~supported(out),
     message |-> [opcode |-> out[5], sender_ethernet_address |-> out[6],
                  sender_ip_address |-> out[7], target_ethernet_address |-> out[8],
                  target_ip_address |-> out[9]]]

parse_arp(buffers) ==
    LET read == integers(NewParser(buffers), ARPWidths)
    IN  ARPOf(read.out, read.parser)
=============================================================================
