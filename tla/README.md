# A TLA+ model of the Minnow network stack

This directory holds TLA+ modules for the C++ program under `src/`: a TCP/IP
stack of a networking course ("Minnow"), from the in-memory byte stream over
TCP's sender and receiver to whole connections and the threaded socket that
serves them, from the octets of a packet to the adapters that read it, and from
the Ethernet/ARP interface up to an IP router. Every definition is translated from the C++ code; `PROJECT.json` says
for each one which lines it stands for.

## 1. The system

    application <-> TCPMinnowSocket <-> TCPPeer = TCPSender + TCPReceiver
                        |  (EventLoop)             |            |
                        |                      ByteStream   Reassembler -> ByteStream
                        v                          \____ Wrap32 ____/
                 TCPOverIPv4 adapter (TUN/TAP, lossy)
                        v
                 NetworkInterface (Ethernet, ARP) <-> Router <-> other interfaces

| part | state | operations | interacts with |
|---|---|---|---|
| `ByteStream` (`src/src/byte_stream.cc`) | vector, position in it, totals pushed and popped, closed, error | `push close set_error peek pop` and queries | owned by `Reassembler`, by `TCPSender`, by the applications |
| `Wrap32` (`src/src/wrapping_integers.cc`) | 32-bit number | `wrap unwrap + ==` | sequence numbers of both TCP halves |
| `Reassembler` (`src/src/reassembler.cc`) | map of stored substrings, index of the end, output stream | `insert count_bytes_pending` | called by `TCPReceiver`; its reader by the socket |
| `TCPReceiver` (`src/src/tcp_receiver.cc`) | reassembler, zero point, SYN/FIN/RST seen, ackno | `receive send` | messages from the remote `TCPSender` |
| `TCPSender` (`src/src/tcp_sender.cc`) | outbound stream, messages in flight, window credit, timer, timeout | `push receive tick make_empty_message` | messages from the remote `TCPReceiver`; a transmit callback |
| `TCPPeer` (`src/util/tcp_peer.hh`) | one sender, one receiver, need-to-send, linger, clocks | `push tick receive active` | the socket's loop |
| `EventLoop` (`src/util/eventloop.cc`) | rules (descriptor, direction, interest, callbacks), cancellations | `add_rule wait_next_event cancel` | every long-running program |
| `TCPMinnowSocket` (`src/util/tcp_minnow_socket_impl.hh`) | peer, thread, abort flag, socket pair, shutdown flags | `connect listen_and_accept wait_until_closed`, destructor, three rules | owner thread and TCP thread |
| adapters (`src/util/tcp_over_ip.cc`, `tuntap_adapter.*`, `lossy_fd_adapter.hh`) | listening, the addresses of the connection | `read write tick` | datagrams; takes its peer from the first SYN |
| `NetworkInterface` (`src/src/network_interface.cc`) | ARP cache with time left, datagrams waiting per next hop with age, received queue | `send_datagram recv_frame tick` | output port; owner |
| `Router` (`src/src/router.cc`) | interfaces, table of routes by length and prefix | `add_interface add_route route` | its interfaces' queues |
| `bidirectional_stream_copy` (`src/apps`) | two streams, two shutdown flags, four rules | loop | event loop, socket, standard descriptors |
| serialization (`parser`, `tcp_segment`, `ipv4_*`, `ethernet_*`, `arp_message`, `checksum`) | none kept | `parse serialize` | everything that crosses a wire |

Hard behaviours: messages lost, repeated, reordered and outdated at both TCP
halves; arithmetic in 16, 32 and 64 bits; substrings that overlap in any way; a
window credit kept across a whole connection; timers with ticks of any length;
answers that come late, unasked or never; passes of the router between
arrivals; two threads on one socket, an event loop that serves one rule at a
time, short reads and short writes, packets damaged or padded, and the end of a
connection. `PROJECT.json` lists them one by one under `hazards`,
each at its line, with the properties that would catch it going wrong.

What makes each part correct:

* ByteStream: the reader gets what was written, in order, once; the capacity is
  never exceeded; the indices name the same byte before and after compaction.
* Wrap32: of all numbers that wrap to the one received, the closest.
* Reassembler: the original stream comes out, at once, and is closed behind its
  last byte (in time but for one input, section 4); what is stored is exactly
  what was learned inside the window.
* TCPReceiver: the acknowledgement is the progress made, the window is what fits.
* TCPSender: what is kept is what may have to be resent; the credit never
  drifts; the oldest missing message is resent after a timeout that backs off;
  an outdated acknowledgement disturbs neither what is kept nor the timer, and
  takes back no credit (its window of zero is believed, section 4).
* NetworkInterface: fresh mappings only; every datagram leaves once, in order,
  or is given up after the timeout; no flood of requests.
* Router: the longest route that applies; what is taken is handed on.
* TCPPeer: both streams arrive in full whatever a network does to segments; who
  ends first stays long enough for the other; a connection ends.
* EventLoop with its rules: bytes pass between descriptors and streams without
  loss however little is taken at a time, the end is passed on behind the last
  byte, no rule spins, and the loop comes to an end.
* TCPMinnowSocket: the same from application to application and across two
  threads; the thread ends, and only when nothing is left behind.
* Adapters and serialization: what is read is what was written, or nothing; the
  first SYN decides whom a listener is connected with.

## 2. Modules

Every part has an `...Ops` module of pure operators (a record per object, one
operator per method, methods that transmit return what they transmitted), and a
module with the state machine that drives them, its environment and its
properties. Pieces are composed by applying operators to a field: the
reassembler's record holds a stream, the receiver's a reassembler, the router's
its interfaces.

| module | models | notes |
|---|---|---|
| `Stream` | a stream as seen from outside | the values `Reassembler`, `TCPReceiver` and `TCPSender` compute with |
| `ByteStreamSpec` | what a stream promises: a bounded pipe | abstract |
| `ByteStream` | the vector and its indices | implements `ByteStreamSpec` through `Abstract` |
| `Widths`, `Wrap32`, `WireSeqno` | `wrap`, `unwrap`; one direction of numbers | widths are constants |
| `ReassemblerSpec` | the promise in `reassembler.hh:19-31`: sets of learned indices; closes as soon as all is written and the end known | abstract; nothing of the code's early returns |
| `ReassemblerOps`, `Reassembler` | `insert` branch by branch | implements `ReassemblerSpec` |
| `Messages` | the two halves of a TCP segment | |
| `TCPReceiverOps`, `TCPReceiver` | `receive`, `send` | environment: one peer's stream, cut and reordered in any way |
| `TCPSenderOps`, `TCPSender` | `push`, `receive`, `tick` | environment: an application and a peer that acknowledges |
| `NetworkInterfaceOps`, `NetworkInterface` | ARP and queues | environment: owner, neighbours, time |
| `RouterOps`, `Router` | table and passes | uses the operators of `NetworkInterfaceOps` |
| `TCPPeerOps` | `TCPPeer`: `receive`, `push`, `tick`, `active`, the lingering | instantiates `TCPSenderOps` and `TCPReceiverOps` |
| `TCPConnection`, `MCTCPConnection` | two peers and a network | each direction implements `ByteStreamSpec` |
| `FileDescriptorOps` | `read`, `write`, `close`, counters and end of file of a descriptor | kernel buffers are streams |
| `EventLoopOps` | `EventLoop::wait_next_event` | parameterised by the rules: descriptor, direction, interest, callbacks |
| `StreamCopy` | `bidirectional_stream_copy` | instantiates `EventLoopOps`; each direction implements `ByteStreamSpec` |
| `MinnowSocket` | `TCPMinnowSocket`: owner, thread, socket pair, other host | instantiates `EventLoopOps` over `TCPPeerOps`; each direction implements `ByteStreamSpec` |
| `Packets` | `Parser`, `Serializer`, the checksum, segments, datagrams, frames, ARP messages | octet by octet |
| `Adapter`, `MCAdapter` | `TCPOverIPv4Adapter`, the tun and Ethernet adapters, the lossy one | several hosts on a wire |
| `OperatorLemmas` | what the operators compute, for every argument; an exchange of numbers | lemmas that several proofs use; instantiates `WireSeqno` |
| `ByteStream_proofs`, `Reassembler_proofs`, `TCPReceiver_proofs`, `TCPSender_proofs`, `NetworkInterface_proofs`, `Router_proofs`, `StreamCopy_proofs` | inductive invariants and theorems | each extends the module it is named after |

How they are composed:

    Stream <- ReassemblerOps <- TCPReceiverOps \
    Stream <- TCPSenderOps  <------------------- TCPPeerOps <- TCPConnection
    FileDescriptorOps, EventLoopOps <- StreamCopy         \
    FileDescriptorOps, EventLoopOps <---------------------- MinnowSocket
    NetworkInterfaceOps <- RouterOps <- Router
    Packets <- Adapter
    ByteStreamSpec: implemented by ByteStream, TCPConnection, StreamCopy, MinnowSocket

Where the model and the code differ in form:

* Byte number *i* of a stream is the value *i*, so that a byte out of place is
  visible. `ByteStream` alone uses arbitrary bytes.
* The model's `Stream` has been shown to be what the vector implements (section
  5), so the other modules use it in place of the vector.
* `string_view` is built without a bounds check in `insert`; the model reads
  `Garbage` outside the string. A `substr` beyond the end throws in C++; the
  model notes it in `thrown`, and `CacheSound` shows that it never happens.
* `push` of the sender loops until the window is used up; every turn sends, so a
  fold over `Range16` turns is the whole loop.
* `*msg.ackno` of an empty optional is undefined; `receive` takes the value
  found there as a parameter (`LeftOver` in the models of connections).
* The type of a frame stands for its parsed payload; a frame that does not
  parse changes nothing and is left out. `src/src/network_interface.cc:97-109`
  sends the waiting datagrams of a reply and the next loop does so for any ARP
  message; as the first erases the entry, both together are one release.
* `EventLoopOps` splits an iteration at `poll(2)`: `Poll` stands for everything
  up to its return, `Serve` for what is done with the results. Between the two
  anybody else may act, so that what `poll` said may be old when it is used. The
  state is one record, `world`, which callbacks map to a new one as the code's
  callbacks change what they have captured.
* What a descriptor leads to (a pipe, a direction of a socket) is a bounded
  stream: `read` takes what is there, `write` what fits, both at most as much as
  asked for.
* A peer's two clocks are one counter, the time since the last receipt, held at
  the lingering time, as the code only asks whether it has reached that.
* The timeout of `TCPMinnowSocket`'s poll is ten milliseconds; in `MinnowSocket`
  one `TimeOut` stands for as many as make up one retransmission timeout.
* In `Packets` addresses and sequence numbers are tuples of octets, smaller
  fields are integers, and a `Ref` to a string is the sequence of its octets.
* Operators marked "Mutant" are deliberate mistakes. No specification uses
  them; they serve to show that each property can fail.

## 3. Runs

All `pass` runs check for deadlock too: every model lets its environment go on,
or says by an explicit `Stop` when everything is over.

| run | states | what it shows | bounds |
|---|---|---|---|
| `bytestream` | 5152 | `TypeOK`, `CompactionBound`, `ImplementsPipe` | capacity 3, two byte values, chunks up to 4 (longer than fits), pushes begun below 8 bytes: prefixes shorter than, equal to and longer than half the vector, several compactions |
| `wireseqno` | 32768 | `Closest` | 8 raw values, 8 turns: all first numbers, numbers and checkpoints, ties and both ends of the 64-bit range |
| `reassembler` | 1898 | `OutputIsOriginal`, `CacheSound`, `ImplementsPromise` | window 5 over streams up to 8 bytes, substrings up to 4: two gaps open at once, the window slides past its own size |
| `reassembler_overtaken` | violation | see finding 1 | |
| `tcpreceiver` | 18648 | `OutputIsOriginal`, `AckIsProgress`, `WindowFits`, `ErrorIsFinal` | 8 raw numbers, every first one, streams up to 9, longer than a turn: a number stands for several bytes of the stream (possible only as `IntRange` is 64; in the code an `int` is no wider than a number, and streams beyond half a turn stop, section 4); windows of 2 bits |
| `tcpsender` | 176048 | `Outstanding`, `CreditConserved`, `Backoff`, `OutdatedHarmless` | three bytes in payloads of at most two, a peer with room for two: the window closes, is probed, reopens; two retransmissions in a row, so the timeout doubles twice; ticks of 1 and 2 that meet and jump over it |
| `networkinterface` | 28182 | `CacheIsFresh`, `WaitsInOrder`, `SentOnce`, `NoRequestFlood`, `WaitEnds` | three datagrams to two neighbours with changing addresses; a mapping lives 3, a request 1, a tick lasts 1 or 2, so that ticks reach, meet and jump over both limits |
| `router` | 488603 | `LongestPrefixMatch`, `TakenIsHandedOn` | 2-bit addresses and all lengths 0-2, two routes (default and host routes among them), two datagrams, two interfaces that resolve by ARP |
| `tcpconnection` | 97766 | `CleanEnd`, `NothingForgotten`, `NobodyLeftBehind`, `ImplementsPipes`, `Ends` | the client writes three bytes, both close; windows of two bits and a receiver with room for three, so that bytes which wait for an earlier one move the right edge of the window back behind what is in flight; 16 raw numbers that wrap within the text; one segment goes astray, as the only copy or a second one, at any moment, and arrives at any later moment or never; lingering for ten timeouts as in the code |
| `streamcopy` | 53301 | `EndMeansAll`, `NeverThrows`, `ImplementsPipes`, `HalfClose`, `Ends` | streams of two bytes between kernel buffers of one, three bytes each way: short reads, short writes, full and empty buffers, and every end before, between and after them |
| `minnowsocket` | 90286 | `NothingLeftBehind`, `EndMeansAll`, `NeverThrows`, `ImplementsPipes`, `Ends` | active and passive open; one byte out, two bytes in, through kernel buffers of one, send and receive windows of one and two, so that the receive window closes; destructor, reset and half-close at any moment; lingering for two timeouts |
| `adapter` | 15872 | `AsSent`, `ReadAsWritten`, `FirstDecides` | a listener and three others (another address of its host, another port, the same ports from another host), three messages (SYN, SYN with RST, data with FIN), every octet changed by 1 and by 128, every length cut, padding to 60 octets |

The bounds are guards of the environment's actions (`MaxPushed`, `MaxLength`,
`MaxSegment`, `MaxTick`, `MaxRetransmissions`, `MaxDatagrams`, `MaxReceived`,
`MaxRoutes`, `MaxFaults`, `MaxProbes`, `Text`, `Length`, `RemoteLength`, `Damages`)
and never of the code's own steps, with one exception: after
`MaxRetransmissions` timeouts in a row no more time passes. Small instances are enough because the
code looks at a substring, a candidate or a route in relation to a few others
at a time: one before, one behind, one that overlaps. The widths are constants
because the code's arithmetic does not depend on their size but on where it wraps.
A connection's buffers hold one or two bytes so that each is full, partly full
and empty within a stream of two or three; one segment astray is enough to lose,
delay or repeat each kind of segment (SYN, data, FIN, bare acknowledgment,
probe) at each stage of a connection. `TCPConnection` was also checked with two
bytes from the client and one from the server between receivers with room for two
(226442 states, the same properties), which is too slow to be a regular run.

`ImplementsPipes` of the three compositions is the refinement of two
`ByteStreamSpec`s, one each way, by a state function that joins the buffers a
byte can be in. `StreamCopy` joins real queues only, so a byte lost, doubled or
overtaken anywhere shows; in `TCPConnection` what has been written and has not
arrived is known only by its numbers, so the pipe shows what the reader gets.

### Environment assumptions

* The substrings inserted are substrings of one stream, and only one that ends
  it is marked last. `Reassembler`, `TCPReceiver` and `TCPConnection` leave out
  one input that the code mishandles, an empty substring at index 0 that comes
  after others (`Overtaken`, finding 1), so that the runs show what holds
  besides. A run of its own lets it in (`AllowOvertaken`).
* `Reassembler` leaves out one more, an end told by an empty substring while all
  bytes are written and the window is full (`EndWhenFull`, section 4), as the
  header's promise fails with it: with `AllowEndWhenFull = TRUE` TLC finds
  `ImplementsPromise` violated after three inserts, while `OutputIsOriginal` and
  `CacheSound` hold. `TCPReceiver`, `TCPConnection` and `MinnowSocket` let it in.
* In `TCPConnection` the left-over number read from a segment without ACK is not
  that of anything the server sends (`LeftOverAssumption`, section 4).
* A segment does not live so long that its number comes round again (`Lives`;
  in `TCPConnection` the streams are shorter than half a turn).
* In `TCPReceiver` the SYN is the first segment to arrive: the peer's own sender
  has a window of one until it is acknowledged. `TCPConnection` assumes nothing
  of the kind: both ends are the code.
* The sender's peer takes back neither an acknowledgement nor its right edge.
* Routes are added with the bits beyond their length cleared (section 4).
* The application may write, close, set an error, and read at any time. In
  `TCPConnection` and `MinnowSocket` it does not sleep on unread bytes for more
  than `MaxProbes` timeouts, so that the number of retransmissions is bounded.
* The owner of a `TCPMinnowSocket` calls `wait_until_closed` when it has read to
  the end (as `webget` does), and destructs at any moment once it is open.
* In `TCPConnection` a timeout passes only when the segments that have not gone
  astray have arrived: the round trip is shorter than the timeout. What arrives
  later than a timeout has gone astray.
* `poll(2)` reports what Linux reports of pipes, stream sockets and pairs of
  them; a write that a full buffer cannot take blocks no one, as the descriptor is
  not written before `poll` says it can take a byte.
* A wire changes one octet of a packet, cuts it or pads it, not two of these at
  once: an Internet checksum does not tell every pair of changes.

### Fairness

* `NetworkInterface`: weak fairness of time passing. The header says of `tick`
  "Called periodically when time elapses", and the programs call it from their
  loops. `WaitEnds` needs nothing else: neither an answer nor another datagram.
* `TCPConnection`: weak fairness of what each peer's loop does for ever, that
  is to connect, to take a segment that has come and to let time pass when it
  waits for time; and of applications that write, close and read in the end. The
  network need not deliver what has gone astray.
* `StreamCopy`: weak fairness of the loop's two steps, of the one who feeds
  standard input and ends it, and of whoever takes what is passed on. Nothing is
  assumed of the peer's end: `HalfClose` holds when it never closes, `Ends` says
  what follows if it does.
* `MinnowSocket`: weak fairness of the thread (its `while` loop has no other way
  out than those modelled), of an owner who writes, reads to the end and waits,
  and of the other host. Ending its stream early, destructing and breaking off
  are never forced.

Where a step is `WF_vars(A)` of a large action, its `ENABLED` condition is
written as a state predicate `CanA` and the formula as `[]<>~CanA \/ []<><<A>>_vars`,
which is what weak fairness means; each `CanA` is a conjunct of its action.
The other specifications state no liveness.

## 4. Findings

1. `reassembler_overtaken`. The last index of an empty substring at index 0 is
   computed as `int(-1)` raised to 0 (`src/src/reassembler.cc:14`), so the
   substring counts as one byte. If later bytes are already stored, they are
   written one position too early. It arises from a bare SYN that is delayed or
   repeated after data. The same count closes a one-byte stream without its byte
   if its end was known before (line 92).

Known divergences without a run of their own:

* The header says "The Reassembler should close the stream after writing the last
  byte" (`src/src/reassembler.hh:30`). If the reader has made no room since the
  last byte was written, and only then an empty substring tells that it was the
  last, the call notes the end (`src/src/reassembler.cc:16-19`) and returns
  (lines 23-25) before it closes the stream. With a capacity of two:
  `insert(0, "ab", false)`, then `insert(2, "", true)`. The stream then stays
  open, also when everything has been read, until another substring touches the
  window. A FIN sent as a probe of a closed window arrives like this. It is not
  acknowledged, as the stream is not closed, so that the peer sends it again after
  a timeout: in a connection the end is late, not lost (`Ends` of `tcpconnection`
  holds with it). `ReassemblerSpec` states the header's promise, and the run
  `reassembler` and the theorem `Refinement` leave this input out.
* Indices pass through `int` (`src/src/reassembler.cc:12,14`): a stream longer
  than half its range, 2 GiB, stops.
* The sender may send beyond every window its peer has announced. An
  acknowledged message gives its whole length back as credit, and a window
  smaller than the largest seen changes nothing (`src/src/tcp_sender.cc:94,104`),
  where the tests say that a full window of nonzero size "should be respected"
  (`src/tests/send_extra.cc:401`). `CreditConserved` is the other side: the
  credit is exactly the *largest* window announced less what is in flight.
  `TCPConnection` shows that what does not fit is resent and not lost.
* `*msg.ackno` is read before `has_value()` (`src/src/tcp_sender.cc:77,82`). What
  stands there of a segment without ACK is zero on the wire
  (`src/util/tcp_segment.cc` writes zero), and `LeftOver = 0` in the models of
  connections. A peer that opens passively takes it for its first
  acknowledgment, so that the real one may not restart the timer. Worse, if zero
  is the number behind the server's SYN (its first number is the largest there
  is), or behind a later message in flight, a late copy of the client's SYN
  acknowledges it: the server forgets what it has not delivered. TLC finds
  `NothingForgotten` violated in four steps with `Server :> 15`. The
  model of the connection assumes other first numbers (`LeftOverAssumption`).
* An outdated acknowledgement that announces a window of zero is believed
  (`receiver_full_`, `src/src/tcp_sender.cc:103`): until the next one the sender
  probes and does not double its timeout. `OutdatedHarmless` leaves this out.
* A datagram whose time to live is over ends the whole pass
  (`src/src/router.cc:38`), against "route every incoming datagram" (line 27): what is
  queued behind it waits for another pass.
* Data before any SYN is inserted as if the stream began at number zero
  (`src/src/tcp_receiver.cc:25-26`); the test "segment before SYN" passes since
  its number is far away.
* A window of zero is probed (`src/src/tcp_sender.cc:26-30`) by every call of
  `push` while credit is left, with one more byte each time.
* ARP frames are processed whatever their Ethernet destination
  (`src/src/network_interface.cc:66-69`), against
  `src/src/network_interface.hh:26-28`. The model receives such frames, and the
  properties hold with them.
* A prefix with bits set beyond its length never matches
  (`src/src/router.cc:24,52`). `src/tests/router.cc:234` adds one, but sends
  nothing there.
* `MAX_RETX_ATTEMPTS` is used nowhere (`src/util/tcp_config.hh:16`): a peer whose
  partner is gone retransmits for ever.
* The destructor of a `TCPMinnowSocket` "will send a RST"
  (`src/util/tcp_minnow_socket.hh:34,117-118`); it sends nothing, the thread only
  leaves its loop. `EndMeansAll` and `NothingLeftBehind` except a destructed
  socket for this reason.
* A reset that arrives while the owner has not taken what came before, and a
  partial write: rule 3 tells the end (`src/util/tcp_minnow_socket_impl.hh:152`)
  while bytes are left, stays interested in them, and its next write is to a
  socket shut down, which throws. The same follows if `wait_until_closed` is
  called between `poll` and the callback before everything was read. `NeverThrows`
  says that nothing else leads there.
* `wait_next_event` is said to execute the callback "for each ready fd"
  (`src/util/eventloop.hh:96`); it executes one (`src/util/eventloop.cc:218`). The
  model does too, and the properties hold with it.
* A descriptor that hangs up while its other direction cannot go on is reported
  by every `poll`, so that the loop turns without waiting until it can.
* `read` into a vector of strings never notes the end of file
  (`src/util/file_descriptor.cc:102`), which its callers, adapters, do not need.
* `BufferList::truncate` forgets what has been skipped of the first string
  (`src/util/parser.cc:42-59`); its one caller cuts where nothing is skipped.
  A datagram cut within zeros at the end of its payload is accepted,
  as its checksum is right; a data offset beyond the end of a segment is accepted.

## 5. Proofs

TLAPS checks the following for every value of the constants that satisfies the
named assumptions of the modules; no step is left out. `OperatorLemmas` holds
what several of them use: how a number wraps, what the operators of `Stream` do to
a stream, and what `insert` does to a store. It extends `ReassemblerOps`, so the
modules above it share the constant `IntRange` with its assumption; only the
proofs about `insert` use that one.

| module | theorems | properties of the runs they state |
|---|---|---|
| `ByteStream_proofs` | `Invariance`, `TypeCorrect`, `IndicesAlwaysAgree`, `NeverReallocates`, `Refinement` | `TypeOK`, `CompactionBound`, `ImplementsPipe` |
| `OperatorLemmas` | `UnwrapClosest`, `WrapRoundTrips`, `ExchangeIsExact` | `Closest`, as `Exchange(...)!Closest` |
| `Reassembler_proofs` | `Invariance`, `ReaderGetsOriginal`, `StoreIsSound`, `Refinement` | `OutputIsOriginal`, `CacheSound`, `ImplementsPromise` |
| `TCPReceiver_proofs` | `Invariance`, `ReaderGetsOriginal`, `AckCoversProgress`, `WindowCanBeStored`, `ErrorsAreFinal` | `OutputIsOriginal`, `AckIsProgress`, `WindowFits`, `ErrorIsFinal` |
| `TCPSender_proofs` | `Invariance`, `WhatIsMissingIsKept`, `CreditIsConserved`, `TimerBacksOff`, `OutdatedIsHarmless` | `Outstanding`, `CreditConserved`, `Backoff`, `OutdatedHarmless` |
| `NetworkInterface_proofs` | `Invariance`, `MappingsAreFresh`, `QueuesAreOrdered`, `RequestsAreSpaced`, `DatagramsLeaveOnce` | `CacheIsFresh`, `WaitsInOrder`, `NoRequestFlood`, `SentOnce` |
| `Router_proofs` | `Invariance`, `LongestPrefixIsUsed`, `TakenArePassedOn` | `LongestPrefixMatch`, `TakenIsHandedOn` |
| `StreamCopy_proofs` | `Invariance`, `EndIsPassedOnLast`, `NothingThrows`, `EachWayIsOnePipe` | `EndMeansAll`, `NeverThrows`, `ImplementsPipes` |

So every safety property of the runs `bytestream`, `wireseqno`, `reassembler`,
`tcpreceiver`, `tcpsender`, `networkinterface`, `router` and `streamcopy` is a theorem as
well. Each inductive invariant is called `IInv`. It is shown to hold initially
and to be kept by every step, and the other theorems of the module follow from it. Why the properties alone would not do:

* **ByteStream.** `IInv == TypeOK /\ IndicesAgree /\ CompactionBound`. The
  parts need each other: that a compaction keeps the vector within twice the
  capacity follows only if the position and the number of bytes buffered add up
  to its length, and that subtraction never goes below zero only if both are
  typed. `NeverReallocates`: the vector stays within the `8 * capacity_` the
  constructor reserves. For `Refinement`, `PeekView` shows that `peek` is the
  unread part of the vector, `PushPeek` and `PopPeek` how an operation changes it
  whatever is erased, and `PushRefines`, `PopRefines`, `FlagRefines` that each
  operation is the pipe's.
* **Wrap32.** `CandidateOK` shows that every candidate wraps to the number
  received, `CloserIsLeast` that a turn of the loop keeps the better of two; the
  proof bounds any other number that wraps to the same value by the three
  candidates around the checkpoint. `ExchangeIsExact` carries both over to the
  state machine of `WireSeqno`, for any three variables (`Exchange`).
* **Reassembler.** `IsSound` says of the object what `OutputIsOriginal` and
  `CacheSound` say, and besides that an end once noted is the end of the
  stream, and that what has been written, and the next byte, are not in the store.
  `InsertEffect` is the heart of it: what one call of `insert` does to a sound
  reassembler, as the set of indices it then knows (`VisitAll`, `StoreEffect` for
  the pieces that overlap, `FrontEffect` and `FlushEffect` for what can be written,
  `NoteLastEffect` for the end). `Refinement` follows by comparing these sets
  with those of `ReassemblerSpec`. That the stream is closed when the promise says
  so is no fact about the code's condition alone: it needs `ClosedInTime`, kept by
  every step, and that `insert` returns early with the last byte written only for
  the input left out (`InsertCloses`).
* **TCPReceiver.** `Agrees` ties the zero point, the acknowledgement and the flags
  to a sound reassembler. A number stands for many bytes of a long stream; that
  `receive` picks the right one follows from `UnwrapClosest` and from what the
  network may still hold (`Lives`).
* **TCPSender.** `IsSender` has a part for the stream and the numbers taken from
  it (`StreamOK`), for the segments kept (`IsBuffer`: each holds the bytes its
  numbers say, each begins where the one before ends, and the first holds the
  first number not acknowledged), for the credit (`WindowOK`) and the timer
  (`TimerOK`); `PeerOK` says that the peer acknowledges what was sent, and
  announces no more than its capacity. The credit cannot be followed without the
  buffer, as an acknowledged segment gives its length back, nor the buffer
  without the credit, as `push` takes lengths from a window of 16 bits that must
  not go below zero. Until the SYN is acknowledged the largest window is one
  (`WindowOK`): this is what makes a SYN travel alone. `AcknowledgeEffect`
  and `ReceiveKeeps` are about `receive`, `NextMessageIsNext`, `TurnKeeps` and
  `PushKeeps` about `push`, `TickKeeps` about `tick`.
* **NetworkInterface.** `CacheIsFresh` is inductive only with the clocks:
  a mapping's time left and the time since its announcement add up
  (`CacheClock`), as do an entry's age and the time since the request
  (`PendingClock`). `NoRequestFlood` needs that whoever was asked lately and is
  waited for no more has answered (`RecentlyAnswered`). `SentOnce` is a fact about
  every step from `IInv`, action by action.
* **Router.** `LongestPrefixMatch` needs that the prefixes in the table have no
  bits beyond their length (`PrefixesAreClear`), and of the interfaces only as
  much as keeps passes from touching the table. `TakenIsHandedOn` needs besides that a
  datagram's number names one datagram, in one place (`Numbered`, inductive
  with `IInv`): a copy left over from an earlier pass would stand in a wrong
  place. `PassOK` is what holds inside a pass whenever a turn of its inner loop ends:
  what has been taken so far is where its route says, and nothing with the
  number of a datagram still queued has been handed on. `FirstTaken`, `HandedOnIsOK` and
  `Settled` are the parts of one turn (`RouteOneIsOK`), `SendSends` what
  `send_datagram` makes of a datagram whether or not the address is known,
  `FoundIsBest` that the search of the table ends at the longest route that applies;
  `DrainIsOK` and `RouteIsOK` go over a queue and over the interfaces.
* **StreamCopy.** `IInv` is `Standing(world)`. `Sound` holds wherever the loop
  stands: each stream is a pipe whose bytes go on where those of the pipe behind
  it begin (`OneWay`), and, each way, a rule is gone, a stream closed or a flag
  set only when what that stands for has come to pass (`OutwardOK`, `InwardOK`):
  the outbound stream is closed while its writer is left only if nothing more
  comes from the input; the socket is shut down only behind the last byte; an
  error comes from a peer that is gone. `EndMeansAll` alone would not do, as the end is
  passed on several iterations after it has been read, and on the word of other
  rules' cancellations. Besides, the results of one `poll` are used after a
  cancellation or an error has changed streams that the rules behind look at, and after
  the far ends have moved on: `StillSaid` is what remains true of what `poll` said
  of a rule when its turn comes. That no rule spins (`NeverThrows`)
  rests on it: a rule that is served has bytes to move, or an end to pass on that
  it has not passed on before, or a broken pipe.
  `ServeReadStdin`, `ServeWriteSocket`, `ServeReadSocket` and `ServeWriteStdout`
  are the four callbacks, `CancelIsSound` and `ErrorIsSound` the two other
  results, `SaidRemains` that each leaves what was said of the rules behind;
  `ServeStands` and `PollStands` are the two steps of the loop, `MovedStands`
  what the far ends do. `QuietIsPassedOn`: when no rule asks for anything,
  everything has been passed on, which is what the exit of the loop means.
  For `EachWayIsOnePipe`, `JoinedPipe` shows that the three streams of a
  direction are one pipe, determined by the counters at its ends (`SamePipe`), and
  `StepsOfJoined` that a step which moves these by one byte or one
  flag is the pipe's; a step of the loop moves neither end. Its kernel buffers
  and streams hold at least one byte (`SizeAssumption`), and a step of the loop
  is one of four rules: nothing is assumed of sizes, of speeds or of when the far ends
  stop.

What some theorems suppose beyond the assumptions of the modules, and why:

* `Domain` of `Reassembler_proofs` and `TCPReceiver_proofs` says that the indices
  of the longest stream, and of a window beyond it, fit in the `int` that
  `src/src/reassembler.cc:12` passes them through. Beyond it the code does
  otherwise (section 4). In the code an `int` is as wide as a sequence number, so
  that this is less than half a turn: the numbers of such a stream wrap, wherever
  it begins, but none comes twice. That the theorems also cover `IntRange` far above
  `Range32`, and streams of several turns, is of no use to the code as it is. The
  reassembler's also leaves the stale empty substring out (`~ AllowOvertaken`,
  finding 1), and its `Refinement` besides the end told while the window is full
  (`~ AllowEndWhenFull`, section 4).
* `TCPSender` assumes that the longest timeout fits in 64 bits, as the code
  doubles it without a limit: with the one second of `TCPConfig`, that is more than fifty
  retransmissions in a row without an answer. Its stream and the two flags take less than half
  a turn of the sequence numbers (`2 * (MaxLength + 2) < Range32`): no old
  acknowledgement is then mistaken for a new one.

**Loops.** The folds over segments, over what is stored and over the turns of `push` are
unrolled by lemmas (`VisitRun`, `TakeRun`, `CountRun`, `LengthRun`, `CreditRun`,
`PushRun`, in `Router_proofs` `DrainRun` and `RouteRun`, and in `StreamCopy_proofs` `SetUpRun` and `ResultRun`, whose four
turns `FourTurns` goes through) that give the sequence of the loop's states; what every
turn keeps then holds at the end. They use no induction theorem of the library, whose
operator parameters the provers cannot instantiate, but `AllNumbers`: a set of
numbers that holds 0 and with every number the next one is `Nat`.

`IndicesAgree` and `RoundTrip` are proved only: the runs check what they are
needed for, `ImplementsPipe` and `CompactionBound`, and what implies it, `Closest`.

**Only model-checked.** Liveness under fairness (`WaitEnds`, `HalfClose`, `Ends`)
is out of the prover's reach. Of `TCPConnection` and
`MinnowSocket` nothing is proved: they need an invariant over two peers
and the segments between them, on top of those of `TCPSender_proofs` and
`TCPReceiver_proofs`, which are about one end and whatever the other may send.
The event loop of `MinnowSocket` is that of `StreamCopy`, with other callbacks.
Of `Adapter` nothing is proved: what it says rests on what the parsers and
the serializers of `Packets` make of a message octet by octet, and on what the checksum
makes of a single octet that is changed.

## 6. Not modelled

* Rules without a descriptor and `RuleHandle::cancel`: nothing in the repository
  adds such a rule or cancels one from outside.
* Of descriptors, sockets, addresses and tun devices: names, options, binding,
  connecting, accepting, address resolution. They hand over to system calls and
  keep no state of their own; what they are used for is in `FileDescriptorOps`.
* Reports, randomness, `Ref`, `read` of `byte_stream_helpers.cc`, `to_string`.
* The programs under `src/apps` other than the stream copy: they put components
  together. The thread of `endtoend` that drives two routers from one event loop
  is left to the plan; it is the composition of parts that have models
  (`EventLoopOps`, `Router`, `Adapter`), and it lets its interfaces' clocks run ten
  milliseconds for every iteration, however short (`src/apps/endtoend.cc:274-279`).
* Retransmissions of a `TCPMinnowSocket` because of losses: its network in
  `MinnowSocket` keeps order; losses are `TCPConnection`'s.

## 7. Plan

Done, in this order: `ByteStream` and its abstract pipe; `Wrap32`;
`Reassembler` and its promise; `TCPReceiver`; `TCPSender`; `NetworkInterface`;
`Router`; `TCPConnection`; `EventLoop` and `StreamCopy`;
`MinnowSocket`; `Packets` and `Adapter`.

Proofs of all of the components up to `Router`, and of `StreamCopy` (section 5).

Next:

1. Theorems about the compositions: `FirstDecides` of the adapter; that a peer
   which is no longer active has received its stream's end (`CleanEnd`, one side),
   from the invariants of its sender and its receiver; `EndMeansAll` of
   `MinnowSocket`.
2. `EndToEnd`: two hosts and two routers, composing `Router`,
   `NetworkInterface` and `TCPPeerOps`.
