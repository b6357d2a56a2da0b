---------------------------- MODULE MinnowSocket ----------------------------
(***************************************************************************)
(* src/util/tcp_minnow_socket_impl.hh: a TCPMinnowSocket with its two      *)
(* threads.  The owner opens the connection, writes, reads up to the end   *)
(* and waits, or destructs the socket at any moment; the thread runs a     *)
(* TCPPeer in an event loop with three rules; between them is a pair of    *)
(* connected sockets.  The other host is a TCPPeer too, over a network     *)
(* that keeps order and loses nothing (TCPConnection has the other kind).  *)
(* Byte number i of either stream is the value i.                          *)
(***************************************************************************)
EXTENDS TCPPeerOps, FileDescriptorOps, SequencesExt

CONSTANTS
    SendCapacity, RecvCapacity,     (* of the socket's TCPPeer             *)
    RemoteCapacity,                 (* of each stream of the other host    *)
    KernelSize,                     (* of each direction of the pair       *)
    OwnISN, RemoteISN,
    Length,                         (* of what the owner writes (bound)    *)
    RemoteLength,                   (* of what the other host writes       *)
                                    (* (bound)                             *)
    MaxProbes                       (* timeouts the owner lets pass before *)
                                    (* it reads (bound)                    *)

ASSUME SocketAssumption ==
    /\ {SendCapacity, RecvCapacity, RemoteCapacity} \subseteq 1 .. Range16 - 1
    /\ {OwnISN, RemoteISN} \subseteq Raw
    /\ KernelSize \in Nat \ {0} /\ {Length, RemoteLength, MaxProbes} \subseteq Nat

VARIABLES
    world,      (* what the callbacks touch, see EventLoopOps: peer is     *)
                (* _tcp; up and down are the two directions of the pair,   *)
                (* from and to the owner; arrived and departed are the     *)
                (* segments under way                                      *)
    thread,     (* "connecting" (in connect), "listening" (in              *)
                (* listen_and_accept), "running" or "done"                 *)
    owner,      (* "open", "waiting" (in wait_until_closed) or             *)
                (* "destructing", which sets _abort                        *)
    remote      (* the other host's TCPPeer                                *)

vars == <<world, thread, owner, remote>>

Rules == << "receive segment", "push bytes", "read bytes" >>

FdOf(rule) == IF rule = "receive segment" THEN "datagram_adapter" ELSE "thread_data"

IsIn(rule) == rule # "read bytes"

Writer(w) == Outbound(w.peer)
Reader(w) == Inbound(w.peer)

(* The inbound stream has come to its end, and the owner is not told yet. *)
EndToTell(w) == (IsFinished(Reader(w)) \/ Reader(w).error) /\ ~w.inbound_shutdown

InterestOf(w, rule) ==
    CASE rule = "receive segment" -> active(w.peer)
      [] rule = "push bytes" ->
            active(w.peer) /\ ~w.outbound_shutdown /\ AvailableCapacity(Writer(w)) > 0
      [] rule = "read bytes" -> Reader(w).queue # << >> \/ EndToTell(w)

(* The peer has become step.peer and step.sent goes out. *)
Transmitted(w, step) == [w EXCEPT !.peer = step.peer, !.departed = @ \o step.sent]

(* Rule 1. *)
ReceiveSegment(w) ==
    Transmitted([w EXCEPT !.arrived = Tail(@), !.fd["datagram_adapter"] = register_read(@)],
                receive(w.peer, Head(w.arrived)))

CloseOutbound(w) ==
    [w EXCEPT !.peer.sender_.input = CloseOf(@), !.outbound_shutdown = TRUE]

(* Rule 2. *)
PushBytes(w) ==
    LET step == read(w.fd["thread_data"], w.up, AvailableCapacity(Writer(w)))
        full == [w EXCEPT !.fd["thread_data"] = step.fd, !.up = step.kernel,
                          !.peer.sender_.input = PushTo(@, step.data)]
        next == IF step.fd.eof_ THEN CloseOutbound(full) ELSE full
    IN  Transmitted(next, push(next.peer))

(* Mutant: what the owner has not taken is popped with the rest. *)
HandOverAll(w) ==
    LET step == write(w.fd["thread_data"], w.down, Reader(w).queue)
    IN  [w EXCEPT !.fd["thread_data"] = step.fd, !.down = step.kernel, !.failed = step.failed,
                  !.peer.receiver_.reassembler.output = PopFrom(@, Len(@.queue))]

HandOver(w) ==
    LET step == write(w.fd["thread_data"], w.down, Reader(w).queue)
    IN  [w EXCEPT !.fd["thread_data"] = step.fd, !.down = step.kernel, !.failed = step.failed,
                  !.peer.receiver_.reassembler.output = PopFrom(@, step.written)]

(* Mutant: the end is told while bytes are left. *)
TellEndEarly(w) ==
    IF (Reader(w).closed \/ Reader(w).error) /\ ~w.failed
      THEN [w EXCEPT !.fd["thread_data"] = register_write(@), !.down = CloseOf(@),
                     !.inbound_shutdown = TRUE]
      ELSE w

TellEnd(w) ==
    IF (IsFinished(Reader(w)) \/ Reader(w).error) /\ ~w.failed
      THEN [w EXCEPT !.fd["thread_data"] = register_write(@), !.down = CloseOf(@),
                     !.inbound_shutdown = TRUE]
      ELSE w

CallbackOf(w, rule) ==
    CASE rule = "receive segment" -> ReceiveSegment(w)
      [] rule = "push bytes"      -> PushBytes(w)
      [] rule = "read bytes"      -> TellEnd(IF Reader(w).queue = << >> THEN w ELSE HandOver(w))

CancelOf(w, rule) == IF rule = "push bytes" THEN CloseOutbound(w) ELSE w

ErrorOf(w, rule) ==
    CASE rule = "receive segment" -> w
      [] rule = "push bytes" -> [w EXCEPT !.peer.sender_.input = SetErrorOf(@)]
      [] rule = "read bytes" -> [w EXCEPT !.peer.receiver_.reassembler.output = SetErrorOf(@)]

(* poll(2): a socket of the pair hangs up when both directions have ended, *)
(* and is in error only when the other one is gone, which the thread does  *)
(* not live to see.                                                        *)
KernelReports(w, rule) ==
    IF rule = "receive segment"
      THEN [ready |-> w.arrived # << >>, hup |-> FALSE, error |-> FALSE]
      ELSE [ready |-> IF IsIn(rule) THEN w.up.queue # << >> \/ w.up.closed
                      ELSE AvailableCapacity(w.down) > 0,
            hup |-> w.up.closed /\ w.down.closed, error |-> FALSE]

Loop == INSTANCE EventLoopOps WITH
    Fd <- FdOf, In <- IsIn, Interest <- InterestOf, Callback <- CallbackOf,
    Cancel <- CancelOf, Error <- ErrorOf, Revents <- KernelReports

NewWorld ==
    [rules |-> Rules, polled |-> << >>, loop |-> "poll", failed |-> FALSE,
     fd |-> [name \in {"datagram_adapter", "thread_data"} |-> NewDescriptor],
     peer |-> NewPeer(SendCapacity, RecvCapacity, OwnISN),
     inbound_shutdown |-> FALSE, outbound_shutdown |-> FALSE,
     arrived |-> << >>, departed |-> << >>,
     up |-> NewStream(KernelSize), down |-> NewStream(KernelSize)]

NewRemote == NewPeer(RemoteCapacity, RemoteCapacity, RemoteISN)

(* The owner calls connect, which sends a SYN, or listen_and_accept, and   *)
(* the other host does the other.                                          *)
Init ==
    /\ owner = "open"
    /\ \/ /\ thread = "connecting"
          /\ world = Transmitted(NewWorld, push(NewWorld.peer))
          /\ remote = NewRemote
       \/ LET step == push(NewRemote)
          IN  /\ thread = "listening"
              /\ world = [NewWorld EXCEPT !.arrived = step.sent]
              /\ remote = step.peer

Opening == thread \in {"connecting", "listening"}

(* The conditions under which the loops of connect and of                  *)
(* listen_and_accept go on.                                                *)
StillOpening ==
    \/ thread = "connecting" /\ InFlight(world.peer) = 1
    \/ thread = "listening" /\ (~has_ackno(world.peer) \/ InFlight(world.peer) > 0)

InLoop == world.loop = "poll" /\ (thread = "running" \/ StillOpening)

CanPoll == InLoop /\ ~Loop!WouldBlock(world)

(* Mutant: who waits aborts as well. *)
AfterIterationWaiting(w) ==
    IF owner # "open" /\ w.loop = "poll" THEN [w EXCEPT !.loop = "exit"] ELSE w

(* An iteration breaks off when _abort is set at its end. *)
AfterIteration(w) ==
    IF owner = "destructing" /\ w.loop = "poll" THEN [w EXCEPT !.loop = "exit"] ELSE w

Poll ==
    /\ CanPoll
    /\ world' = Loop!Poll(world)
    /\ UNCHANGED <<thread, owner, remote>>

CanServe == world.loop = "serve"

Serve ==
    /\ CanServe
    /\ world' = AfterIteration(Loop!Serve(world))
    /\ UNCHANGED <<thread, owner, remote>>

WaitsForTime(peer) ==
    /\ active(peer)
    /\ \/ InFlight(peer) > 0
       \/ ~SenderActive(peer) /\ ~ReceiverActive(peer)

(* Nothing is under way, and the owner has not slept for too long. *)
TimePasses ==
    /\ world.arrived = << >> /\ world.departed = << >>
    /\ WaitsForTime(world.peer) \/ WaitsForTime(remote)
    /\ \/ Reader(world).queue = << >> /\ world.down.queue = << >>
       \/ remote.sender_.num_consecutive_retran_ < MaxProbes

Elapsed(peer) == IF active(peer) THEN tick(peer, InitialRTO)
                 ELSE [peer |-> peer, sent |-> << >>]

Aborting == AfterIteration(world) # world

CanTimeOut == InLoop /\ Loop!WouldBlock(world) /\ (Aborting \/ TimePasses)

(* poll has timed out.  It does so every ten milliseconds: one timeout of  *)
(* the peers stands for as many as it takes.                               *)
TimeOut ==
    /\ CanTimeOut
    /\ \/ Aborting /\ world' = AfterIteration(world) /\ UNCHANGED remote
       \/ /\ ~Aborting
          /\ remote' = Elapsed(remote).peer
          /\ world' = [Transmitted(world, Elapsed(world.peer))
                         EXCEPT !.arrived = Elapsed(remote).sent]
    /\ UNCHANGED <<thread, owner>>

CanLeave ==
    \/ Opening /\ world.loop = "poll" /\ ~StillOpening
    \/ Opening /\ world.loop = "exit"
    \/ thread = "running" /\ world.loop = "exit"

(* connect or listen_and_accept returns, and the thread begins. *)
Opened ==
    /\ Opening /\ CanLeave
    /\ thread' = "running"
    /\ world' = [world EXCEPT !.loop = "poll"]
    /\ UNCHANGED <<owner, remote>>

(* The thread shuts the owner's socket down and ends. *)
ThreadEnds ==
    /\ thread = "running" /\ CanLeave
    /\ thread' = "done"
    /\ world' = [world EXCEPT !.up = CloseOf(@), !.down = CloseOf(@)]
    /\ UNCHANGED <<owner, remote>>

(* The owner is in no call of the socket that blocks. *)
Owning == owner = "open" /\ ~Opening

CanWrite ==
    /\ Owning /\ ~world.up.closed
    /\ world.up.pushed < Length /\ AvailableCapacity(world.up) > 0

Write ==
    /\ CanWrite
    /\ world' = [world EXCEPT !.up = PushTo(@, << @.pushed + 1 >>)]
    /\ UNCHANGED <<thread, owner, remote>>

(* The owner may end its own stream before it has read the other to its end. *)
ShutdownWrite ==
    /\ Owning /\ ~world.up.closed /\ world.up.pushed = Length
    /\ world' = [world EXCEPT !.up = CloseOf(@)]
    /\ UNCHANGED <<thread, owner, remote>>

CanRead == Owning /\ world.down.queue # << >>

Read ==
    /\ CanRead
    /\ world' = [world EXCEPT !.down = PopFrom(@, 1)]
    /\ UNCHANGED <<thread, owner, remote>>

CanWait == Owning /\ IsFinished(world.down) /\ (world.up.closed \/ world.up.pushed = Length)

(* wait_until_closed. *)
WaitUntilClosed ==
    /\ CanWait
    /\ owner' = "waiting"
    /\ world' = [world EXCEPT !.up = CloseOf(@), !.down = CloseOf(@)]
    /\ UNCHANGED <<thread, remote>>

(* The destructor, at any moment. *)
Destruct ==
    /\ Owning
    /\ owner' = "destructing"
    /\ UNCHANGED <<world, thread, remote>>

RemoteBecomes(step) ==
    /\ remote' = step.peer
    /\ world' = [world EXCEPT !.arrived = @ \o step.sent]
    /\ UNCHANGED <<thread, owner>>

(* The other host takes what has come before it does anything else. *)
RemoteOpen ==
    /\ has_ackno(remote) /\ active(remote) /\ ~Outbound(remote).closed
    /\ world.departed = << >>

CanRemoteWrite ==
    RemoteOpen /\ Outbound(remote).pushed < RemoteLength /\ AvailableCapacity(Outbound(remote)) > 0

RemoteWrite ==
    /\ CanRemoteWrite
    /\ RemoteBecomes(push([remote EXCEPT !.sender_.input = PushTo(@, << @.pushed + 1 >>)]))

CanRemoteClose == RemoteOpen /\ Outbound(remote).pushed = RemoteLength

RemoteClose ==
    /\ CanRemoteClose
    /\ RemoteBecomes(push([remote EXCEPT !.sender_.input = CloseOf(@)]))

CanRemoteReceive == world.departed # << >>

RemoteReceive ==
    LET step == receive(remote, Head(world.departed))
    IN  /\ CanRemoteReceive
        /\ remote' = step.peer
        /\ world' = [world EXCEPT !.departed = Tail(@), !.arrived = @ \o step.sent]
        /\ UNCHANGED <<thread, owner>>

(* The other host refuses the connection or breaks it off. *)
RemoteReset ==
    LET broken == [remote EXCEPT !.sender_.input = SetErrorOf(@)]
    IN  /\ \/ RemoteOpen
           \/ ~has_ackno(remote) /\ active(remote) /\ world.departed # << >>
        /\ RemoteBecomes(Transmit(broken, << S!make_empty_message(broken.sender_) >>))

Over == thread = "done" \/ world.loop \in {"busy wait", "failed"}

Stop == Over /\ UNCHANGED vars

ThreadStep == Poll \/ Serve \/ TimeOut \/ Opened \/ ThreadEnds
OwnerStep  == Write \/ Read \/ WaitUntilClosed
RemoteStep == RemoteWrite \/ RemoteClose \/ RemoteReceive

Next ==
    \/ ThreadStep
    \/ OwnerStep \/ ShutdownWrite \/ Destruct
    \/ RemoteStep \/ RemoteReset
    \/ Stop

Spec == Init /\ [][Next]_vars

(* Each goes on while it can: the thread, the owner, who reads to the end  *)
(* and waits, and the other host.  WF_vars, with ENABLED spelled out.      *)
(* Nobody has to end its stream early, to destruct or to break off.        *)
FairSpec ==
    /\ Spec
    /\ []<>~(CanPoll \/ CanServe \/ CanTimeOut \/ CanLeave) \/ []<><<ThreadStep>>_vars
    /\ []<>~(CanWrite \/ CanRead \/ CanWait) \/ []<><<OwnerStep>>_vars
    /\ []<>~(CanRemoteWrite \/ CanRemoteClose \/ CanRemoteReceive) \/ []<><<RemoteStep>>_vars
-----------------------------------------------------------------------------
Reset == Outbound(remote).error

(* The owner reads the end of the stream only behind the last byte the     *)
(* other host has written and before it has closed, unless that broke the  *)
(* connection off or the owner itself is destructing the socket.           *)
EndMeansAll ==
    world.down.closed =>
        \/ Reset \/ owner = "destructing"
        \/ Outbound(remote).closed /\ world.down.pushed = Outbound(remote).pushed

(* When the thread ends, and _tcp with it, the other host has received all *)
(* that the owner has written, and the end, with the same exceptions.      *)
NothingLeftBehind ==
    thread = "done" =>
        \/ Reset \/ owner = "destructing"
        \/ /\ Inbound(remote).closed /\ Inbound(remote).pushed = world.up.pushed
           /\ Reader(world).queue = << >>

(* No rule spins (eventloop.cc:212), and no write to a pair shut down      *)
(* throws, which would end the program.  After a reset one may: see the    *)
(* known divergences.                                                      *)
NeverThrows ==
    /\ world.loop # "busy wait"
    /\ world.loop = "failed" => Reset

(* The two directions seen as pipes; what the network holds is what has    *)
(* been taken from the writer and has not come to the reader.              *)
UnderWay(writer, reader) ==
    [i \in 1 .. writer.popped - reader.pushed |-> reader.pushed + i]

PipeCapacity(own) == KernelSize + own + 2 * RemoteCapacity

Outward ==
    [capacity |-> PipeCapacity(SendCapacity),
     queue |-> Inbound(remote).queue \o UnderWay(Writer(world), Inbound(remote))
                 \o Writer(world).queue \o world.up.queue,
     pushed |-> world.up.pushed, popped |-> Inbound(remote).popped,
     closed |-> world.up.closed, error |-> Reset]

Inward ==
    [capacity |-> PipeCapacity(RecvCapacity),
     queue |-> world.down.queue \o Reader(world).queue
                 \o UnderWay(Outbound(remote), Reader(world)) \o Outbound(remote).queue,
     pushed |-> Outbound(remote).pushed, popped |-> world.down.popped,
     closed |-> Outbound(remote).closed, error |-> Reset]

OutwardPipe == INSTANCE ByteStreamSpec WITH stream <- Outward, Capacity <- PipeCapacity(SendCapacity),
    Chunks <- {<< i >> : i \in 1 .. Length}, Lengths <- {1}
InwardPipe == INSTANCE ByteStreamSpec WITH stream <- Inward, Capacity <- PipeCapacity(RecvCapacity),
    Chunks <- {<< i >> : i \in 1 .. RemoteLength}, Lengths <- {1}

(* A socket is a stream each way, from application to application: through *)
(* the pair, the rules, the peers and the network no byte is lost,         *)
(* repeated or moved, and what one side closes or breaks off stays so.     *)
ImplementsPipes == OutwardPipe!Spec /\ InwardPipe!Spec

(* An owner that reads to the end gets there, and who waits for the        *)
(* thread, in wait_until_closed or in the destructor, does not wait for    *)
(* ever.                                                                   *)
Ends == <>Over
=============================================================================
