--------------------------- MODULE TCPConnection ---------------------------
(***************************************************************************)
(* Two TCPPeers, the applications above them and the network between them. *)
(* The client connects, the server listens.  The network keeps the order   *)
(* of segments but for those that go astray, which may arrive at any later *)
(* time or never, and which may be copies of segments that were delivered. *)
(* Byte number i of either stream is the value i.                          *)
(***************************************************************************)
EXTENDS TCPPeerOps, SequencesExt

CONSTANTS
    Client, Server,     (* the peers                                       *)
    ISN,                (* of each                                         *)
    Text,               (* length of what each writes (bound)              *)
    SendCapacity, RecvCapacity,
    MaxFaults,          (* segments that go astray (bound)                 *)
    MaxProbes           (* timeouts an application lets pass before it     *)
                        (* reads (bound)                                   *)

Peers == {Client, Server}
Other(p) == IF p = Client THEN Server ELSE Client

ASSUME ConnectionAssumption ==
    /\ Client # Server
    /\ ISN \in [Peers -> Raw]
    /\ Text \in [Peers -> Nat]
    /\ \A p \in Peers : 2 * (Text[p] + 2) < Range32
    /\ {SendCapacity, RecvCapacity} \subseteq 1 .. Range16 - 1
    /\ {MaxFaults, MaxProbes} \subseteq Nat

(* What stands in the place of a missing acknowledgment is not the number  *)
(* of what the server sends: only the client's SYN comes without one, and  *)
(* a late copy of it would be taken to acknowledge what it does not.       *)
ASSUME LeftOverAssumption ==
    (LeftOver - ISN[Server]) % Range32 \notin 1 .. Text[Server] + 2

VARIABLES
    peer,
    network,    (* the segments on their way to each peer, in order        *)
    astray,     (* those that have left the order                          *)
    faults      (* how many more may                                       *)

vars == <<peer, network, astray, faults>>

Init ==
    /\ peer = [p \in Peers |-> NewPeer(SendCapacity, RecvCapacity, ISN[p])]
    /\ network = [p \in Peers |-> << >>]
    /\ astray = [p \in Peers |-> {}]
    /\ faults = MaxFaults

(* p has changed to step.peer and transmitted step.sent. *)
Becomes(p, step) ==
    /\ peer' = [peer EXCEPT ![p] = step.peer]
    /\ network' = [network EXCEPT ![Other(p)] = @ \o step.sent]
    /\ UNCHANGED <<astray, faults>>

(* connect or listen_and_accept has returned: the peer's SYN has been      *)
(* acknowledged.                                                           *)
Established(p) ==
    /\ peer[p].sender_.syn_set_
    /\ \A i \in DOMAIN peer[p].sender_.send_buffer_ :
          ~peer[p].sender_.send_buffer_[i].message.SYN

CanConnect == ~peer[Client].sender_.syn_set_

Connect ==
    /\ CanConnect
    /\ Becomes(Client, push(peer[Client]))

Open(p) == Established(p) /\ active(peer[p]) /\ ~Outbound(peer[p]).closed

CanWrite(p) ==
    /\ Open(p)
    /\ Outbound(peer[p]).pushed < Text[p]
    /\ AvailableCapacity(Outbound(peer[p])) > 0

(* The application writes its next byte. *)
Write(p) ==
    /\ CanWrite(p)
    /\ Becomes(p, push([peer[p] EXCEPT !.sender_.input = PushTo(@, << @.pushed + 1 >>)]))

CanClose(p) == Open(p) /\ Outbound(peer[p]).pushed = Text[p]

(* The application closes its side behind its last byte. *)
Close(p) ==
    /\ CanClose(p)
    /\ Becomes(p, push([peer[p] EXCEPT !.sender_.input = CloseOf(@)]))

CanRead(p) == Inbound(peer[p]).queue # << >>

(* The application reads one byte. *)
Read(p) ==
    /\ CanRead(p)
    /\ peer' = [peer EXCEPT ![p].receiver_.reassembler.output = PopFrom(@, 1)]
    /\ UNCHANGED <<network, astray, faults>>

(* The same, with rest still under way to p. *)
BecomesWith(p, rest, step) ==
    /\ peer' = [peer EXCEPT ![p] = step.peer]
    /\ network' = [network EXCEPT ![p] = rest, ![Other(p)] = @ \o step.sent]

Receive(p, segment, rest) == BecomesWith(p, rest, receive(peer[p], segment))

CanDeliver(p) == network[p] # << >>

Deliver(p) ==
    /\ CanDeliver(p)
    /\ Receive(p, Head(network[p]), Tail(network[p]))
    /\ UNCHANGED <<astray, faults>>

(* The next segment, or a copy of it, leaves the order. *)
GoAstray(p) ==
    /\ CanDeliver(p)
    /\ faults > 0
    /\ faults' = faults - 1
    /\ astray' = [astray EXCEPT ![p] = @ \cup {Head(network[p])}]
    /\ network' \in {network, [network EXCEPT ![p] = Tail(@)]}
    /\ UNCHANGED peer

(* A segment without payload at the start of its stream that would arrive  *)
(* after later bytes, or after the end.                                    *)
Overtaken(p, segment) ==
    LET receiver    == R!NoteFlags(peer[p].receiver_, segment)
        reassembler == receiver.reassembler
    IN  /\ segment.payload = << >> /\ ~segment.FIN
        /\ R!StreamIndex(receiver, segment) = 0
        /\ reassembler.output.pushed = 0
        /\ reassembler.finish \/ ~R!IsEmpty(reassembler.cache)

ArriveLate(p) ==
    /\ \E segment \in astray[p] :
          /\ ~Overtaken(p, segment)
          /\ Receive(p, segment, network[p])
          /\ astray' = [astray EXCEPT ![p] = @ \ {segment}]
    /\ UNCHANGED faults

(* Somebody waits for time to pass, and nobody has slept for too long. *)
Waiting ==
    /\ \E p \in Peers :
          /\ active(peer[p])
          /\ \/ InFlight(peer[p]) > 0
             \/ ~SenderActive(peer[p]) /\ ~ReceiverActive(peer[p])
    /\ \A p \in Peers : \/ Inbound(peer[p]).queue = << >>
                        \/ peer[Other(p)].sender_.num_consecutive_retran_ < MaxProbes

Tick1(p) == IF active(peer[p]) THEN tick(peer[p], InitialRTO)
            ELSE [peer |-> peer[p], sent |-> << >>]

CanTick == Waiting /\ \A p \in Peers : network[p] = << >>

(* One timeout's time passes on both sides; what has not gone astray has   *)
(* arrived before.                                                         *)
Tick ==
    /\ CanTick
    /\ peer' = [p \in Peers |-> Tick1(p).peer]
    /\ network' = [p \in Peers |-> Tick1(Other(p)).sent]
    /\ UNCHANGED <<astray, faults>>

Ended == \A p \in Peers : ~active(peer[p])

Stop == Ended /\ UNCHANGED vars

Next ==
    \/ Connect
    \/ \E p \in Peers : Write(p)
    \/ \E p \in Peers : Close(p)
    \/ \E p \in Peers : Read(p)
    \/ \E p \in Peers : Deliver(p)
    \/ \E p \in Peers : GoAstray(p)
    \/ \E p \in Peers : ArriveLate(p)
    \/ Tick
    \/ Stop

Spec == Init /\ [][Next]_vars

(* The loop of each thread serves the network, the application and the     *)
(* clock for ever; applications read what comes and close in the end:      *)
(* WF_vars of each of these actions, with its ENABLED condition named.     *)
FairSpec ==
    /\ Spec
    /\ []<>~CanConnect \/ []<><<Connect>>_vars
    /\ []<>~CanTick \/ []<><<Tick>>_vars
    /\ \A p \in Peers : /\ []<>~CanWrite(p) \/ []<><<Write(p)>>_vars
                        /\ []<>~CanClose(p) \/ []<><<Close(p)>>_vars
                        /\ []<>~CanRead(p) \/ []<><<Read(p)>>_vars
                        /\ []<>~CanDeliver(p) \/ []<><<Deliver(p)>>_vars
-----------------------------------------------------------------------------
(* All that was written for p has been received, and its end as well. *)
Complete(p) ==
    /\ Outbound(peer[Other(p)]).closed
    /\ Inbound(peer[p]).closed
    /\ Inbound(peer[p]).pushed = Outbound(peer[Other(p)]).pushed

(* Whatever goes astray, a reader sees the end of its stream only behind   *)
(* the last byte the other application wrote before it closed; and the     *)
(* connection ends cleanly on both sides (tcp_peer.hh:39): a peer is no    *)
(* longer active only when both streams have arrived in full.              *)
CleanEnd == \A p \in Peers :
    /\ Inbound(peer[p]).closed => Complete(p)
    /\ ~active(peer[p]) => Complete(Client) /\ Complete(Server)

(* How far p has come in the sequence numbers of the other's stream. *)
Progress(p) ==
    One(peer[p].receiver_.syn_set_) + Inbound(peer[p]).pushed + One(Inbound(peer[p]).closed)

(* What p has not received, the other can still send again: nothing leaves *)
(* send_buffer_ because an acknowledgment was late, repeated or misread.   *)
NothingForgotten == \A p \in Peers :
    LET sender == peer[Other(p)].sender_
        oldest == IF sender.send_buffer_ = << >> THEN sender.abs_seqno_
                  ELSE Head(sender.send_buffer_).first
    IN  oldest <= Progress(p)

(* Whoever goes first has lingered long enough: the other does not wait    *)
(* for an acknowledgment or a byte that nobody will send any more.         *)
NobodyLeftBehind == \A p \in Peers :
    ~active(peer[p]) /\ network[Other(p)] = << >> =>
        ~SenderActive(peer[Other(p)]) /\ ~ReceiverActive(peer[Other(p)])

(* The stream to p as one pipe: what the reader has, what the network and  *)
(* the buffers hold of the rest, and the flags of the far ends.            *)
PipeTo(p) ==
    LET written == Outbound(peer[Other(p)])
        arrived == Inbound(peer[p])
    IN  [capacity |-> SendCapacity + 2 * RecvCapacity,
         queue |-> arrived.queue \o [i \in 1 .. written.pushed - arrived.pushed
                                        |-> arrived.pushed + i],
         pushed |-> written.pushed, popped |-> arrived.popped,
         closed |-> written.closed, error |-> written.error \/ arrived.error]

Bytes(p) == {<< i >> : i \in 1 .. Text[p]}

PipeToServer == INSTANCE ByteStreamSpec WITH stream <- PipeTo(Server),
    Capacity <- SendCapacity + 2 * RecvCapacity, Chunks <- Bytes(Client), Lengths <- {1}
PipeToClient == INSTANCE ByteStreamSpec WITH stream <- PipeTo(Client),
    Capacity <- SendCapacity + 2 * RecvCapacity, Chunks <- Bytes(Server), Lengths <- {1}

(* Each direction of a connection is one bounded pipe: the reader gets the *)
(* written bytes, each once and in order, and no step of the network, the  *)
(* clock or the other direction is seen in it.                             *)
ImplementsPipes == PipeToServer!Spec /\ PipeToClient!Spec

(* Once both applications have closed, both peers become inactive,         *)
(* whatever went astray, and every byte written is read.                   *)
Ends == <>[](Ended /\ \A p \in Peers : IsFinished(Inbound(peer[p])))
=============================================================================
