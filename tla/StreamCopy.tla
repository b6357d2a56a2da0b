----------------------------- MODULE StreamCopy -----------------------------
(***************************************************************************)
(* src/apps/bidirectional_stream_copy.cc: four rules of an event loop that *)
(* move bytes from standard input through a stream to a socket, and from   *)
(* the socket through another to standard output.  Around it, whoever      *)
(* feeds the input, takes the output and holds the far end of the socket.  *)
(* Byte number i of either direction is the value i.                       *)
(***************************************************************************)
EXTENDS FileDescriptorOps, SequencesExt

CONSTANTS
    BufferSize,     (* of the two streams: 1048576                         *)
    KernelSize,     (* of each pipe and direction of the socket            *)
    Length          (* of what is fed to either side (bound)               *)

ASSUME SizeAssumption ==
    {BufferSize, KernelSize} \subseteq Nat \ {0} /\ Length \in Nat

(* The state of the function and of the kernel: see EventLoopOps.          *)
VARIABLE world

Rules == << "read stdin", "write socket", "read socket", "write stdout" >>

FdOf(rule) == CASE rule = "read stdin"   -> "input"
                [] rule = "write stdout" -> "output"
                [] OTHER                 -> "socket"

IsIn(rule) == rule \in {"read stdin", "read socket"}

(* Rule 1 and rule 3 fill a stream from a descriptor, rule 2 and rule 4    *)
(* empty it into another: what each is about.                              *)
StreamOfRule(rule) == IF rule \in {"read stdin", "write socket"} THEN "outbound" ELSE "inbound"
KernelOf(rule) == CASE rule = "read stdin"   -> "stdin"
                    [] rule = "write socket" -> "sent"
                    [] rule = "read socket"  -> "received"
                    [] rule = "write stdout" -> "stdout"

HasError(w) == w.outbound.error \/ w.inbound.error

InterestOf(w, rule) ==
    LET stream == w[StreamOfRule(rule)]
    IN  IF IsIn(rule)
          THEN ~HasError(w) /\ AvailableCapacity(stream) > 0 /\ ~stream.closed
          ELSE \/ stream.queue # << >>
               \/ IsFinished(stream) /\ ~w.shutdown[StreamOfRule(rule)]

(* Mutant: the end of the input ends the loop's other direction as well. *)
FillClosingBoth(w, rule) ==
    LET name == StreamOfRule(rule)
        step == read(w.fd[FdOf(rule)], w[KernelOf(rule)], AvailableCapacity(w[name]))
        full == PushTo(w[name], step.data)
        next == [w EXCEPT !.fd[FdOf(rule)] = step.fd, ![KernelOf(rule)] = step.kernel,
                          ![name] = full, !.failed = step.failed]
    IN  IF step.fd.eof_ THEN [next EXCEPT !.outbound = CloseOf(@), !.inbound = CloseOf(@)] ELSE next

(* Read as much as fits, and close the stream at the end of file. *)
Fill(w, rule) ==
    LET name == StreamOfRule(rule)
        step == read(w.fd[FdOf(rule)], w[KernelOf(rule)], AvailableCapacity(w[name]))
        full == PushTo(w[name], step.data)
    IN  [w EXCEPT !.fd[FdOf(rule)] = step.fd, ![KernelOf(rule)] = step.kernel,
                  ![name] = IF step.fd.eof_ THEN CloseOf(full) ELSE full,
                  !.failed = step.failed]

(* Mutant: a short write is taken for a full one. *)
DrainAll(w, rule) ==
    LET name == StreamOfRule(rule)
        step == write(w.fd[FdOf(rule)], w[KernelOf(rule)], w[name].queue)
    IN  IF w[name].queue = << >> THEN w
        ELSE [w EXCEPT !.fd[FdOf(rule)] = step.fd, ![KernelOf(rule)] = step.kernel,
                       ![name] = PopFrom(@, Len(@.queue)), !.failed = step.failed]

(* Write what there is, and pop what has been written. *)
Drain(w, rule) ==
    LET name == StreamOfRule(rule)
        step == write(w.fd[FdOf(rule)], w[KernelOf(rule)], w[name].queue)
    IN  IF w[name].queue = << >> THEN w
        ELSE [w EXCEPT !.fd[FdOf(rule)] = step.fd, ![KernelOf(rule)] = step.kernel,
                       ![name] = PopFrom(@, step.written), !.failed = step.failed]

(* Mutant: that the end has been passed on is not noted. *)
PassEndOnAgain(w, rule) ==
    LET name == StreamOfRule(rule)
    IN  IF w.failed \/ ~IsFinished(w[name]) THEN w
        ELSE [w EXCEPT !.fd[FdOf(rule)] = register_write(@), ![KernelOf(rule)] = CloseOf(@)]

(* Pass the end on: shut the socket down for writing, or close the output. *)
PassEndOn(w, rule) ==
    LET name == StreamOfRule(rule)
    IN  IF w.failed \/ ~IsFinished(w[name]) THEN w
        ELSE [w EXCEPT !.fd[FdOf(rule)] = IF name = "outbound" THEN register_write(@) ELSE close(@),
                       ![KernelOf(rule)] = CloseOf(@),
                       !.shutdown[name] = TRUE]

CallbackOf(w, rule) == IF IsIn(rule) THEN Fill(w, rule) ELSE PassEndOn(Drain(w, rule), rule)

CancelOf(w, rule) == [w EXCEPT ![StreamOfRule(rule)] = CloseOf(@)]

ErrorOf(w, rule) == [w EXCEPT !.outbound = SetErrorOf(@), !.inbound = SetErrorOf(@)]

(* poll(2) of a pipe and of a stream socket: the far end's close makes a   *)
(* socket readable and a pipe not; a socket hangs up when both directions  *)
(* have ended.                                                             *)
KernelReports(w, rule) ==
    LET kernel == w[KernelOf(rule)]
    IN  CASE rule = "read stdin" ->
               [ready |-> kernel.queue # << >>, hup |-> kernel.closed, error |-> FALSE]
          [] rule = "write stdout" ->
               [ready |-> AvailableCapacity(kernel) > 0, hup |-> FALSE, error |-> kernel.error]
          [] OTHER ->
               [ready |-> IF IsIn(rule) THEN kernel.queue # << >> \/ kernel.closed
                          ELSE AvailableCapacity(kernel) > 0,
                hup |-> w.received.closed /\ (w.sent.closed \/ w.sent.error),
                error |-> w.received.error]

Loop == INSTANCE EventLoopOps WITH
    Fd <- FdOf, In <- IsIn, Interest <- InterestOf, Callback <- CallbackOf,
    Cancel <- CancelOf, Error <- ErrorOf, Revents <- KernelReports

Init == world =
    [rules |-> Rules, polled |-> << >>, loop |-> "poll", failed |-> FALSE,
     fd |-> [name \in {"input", "output", "socket"} |-> NewDescriptor],
     outbound |-> NewStream(BufferSize), inbound |-> NewStream(BufferSize),
     shutdown |-> [name \in {"outbound", "inbound"} |-> FALSE],
     stdin |-> NewStream(KernelSize), stdout |-> NewStream(KernelSize),
     sent |-> NewStream(KernelSize), received |-> NewStream(KernelSize)]

CanPoll == world.loop = "poll" /\ ~Loop!WouldBlock(world)

Poll == CanPoll /\ world' = Loop!Poll(world)

CanServe == world.loop = "serve"

Serve == CanServe /\ world' = Loop!Serve(world)

(* The far side of source, "stdin" or "received", writes or closes. *)
Feed(source) ==
    /\ ~world[source].closed
    /\ world[source].pushed < Length
    /\ AvailableCapacity(world[source]) > 0
    /\ world' = [world EXCEPT ![source] = PushTo(@, << @.pushed + 1 >>)]

End(source) ==
    /\ ~world[source].closed
    /\ world[source].pushed = Length
    /\ world' = [world EXCEPT ![source] = CloseOf(@)]

(* The far side of sink, "stdout" or "sent", takes a byte. *)
Take(sink) ==
    /\ world[sink].queue # << >>
    /\ ~world[sink].error
    /\ world' = [world EXCEPT ![sink] = PopFrom(@, 1)]

(* Whoever reads standard output goes away. *)
OutputBreaks ==
    /\ ~world.stdout.error
    /\ world' = [world EXCEPT !.stdout = SetErrorOf(@)]

(* The peer closes the socket; bytes it has not read reset it. *)
PeerCloses ==
    /\ ~world.sent.error
    /\ world' = [world EXCEPT !.sent = SetErrorOf(@),
                    !.received = IF world.sent.queue = << >> THEN CloseOf(@)
                                 ELSE SetErrorOf(CloseOf(@))]

Over == world.loop \in {"exit", "busy wait", "failed"}

Stop == Over /\ UNCHANGED world

Next ==
    \/ Poll
    \/ Serve
    \/ \E source \in {"stdin", "received"} : Feed(source)
    \/ \E source \in {"stdin", "received"} : End(source)
    \/ \E sink \in {"stdout", "sent"} : Take(sink)
    \/ OutputBreaks
    \/ PeerCloses
    \/ Stop

Spec == Init /\ [][Next]_world

(* The loop runs on (WF of Poll and Serve, their ENABLED named); what is   *)
(* fed ends, what is passed on is taken.  The peer need not ever close.    *)
FairSpec ==
    /\ Spec
    /\ []<>~CanPoll \/ []<><<Poll>>_world
    /\ []<>~CanServe \/ []<><<Serve>>_world
    /\ \A source \in {"stdin", "received"} : WF_world(Feed(source))
    /\ WF_world(End("stdin"))
    /\ \A sink \in {"stdout", "sent"} : WF_world(Take(sink))
-----------------------------------------------------------------------------
(* One direction, from source through stream to sink, seen as one pipe. *)
Direction(source, stream, sink) ==
    [capacity |-> BufferSize + 2 * KernelSize,
     queue |-> world[sink].queue \o world[stream].queue \o world[source].queue,
     pushed |-> world[source].pushed, popped |-> world[sink].popped,
     closed |-> world[source].closed, error |-> world[sink].error]

Outward == INSTANCE ByteStreamSpec WITH
    stream <- Direction("stdin", "outbound", "sent"), Lengths <- {1},
    Chunks <- {<< i >> : i \in 1 .. Length}, Capacity <- BufferSize + 2 * KernelSize

Inward == INSTANCE ByteStreamSpec WITH
    stream <- Direction("received", "inbound", "stdout"), Lengths <- {1},
    Chunks <- {<< i >> : i \in 1 .. Length}, Capacity <- BufferSize + 2 * KernelSize

(* Short reads, short writes, and whoever breaks off at whatever moment:   *)
(* no byte is lost, repeated or moved between the descriptors and the two  *)
(* streams; each direction is one bounded pipe.                            *)
ImplementsPipes == Outward!Spec /\ Inward!Spec

(* The end is passed on behind the last byte only: whoever reads it has    *)
(* all that was fed, unless the peer reset the socket; and the loop exits  *)
(* only when the end has been passed on each way, as far as there is       *)
(* somebody left to pass it on to.                                         *)
EndMeansAll ==
    /\ world.sent.closed => world.stdin.closed /\ world.sent.pushed = world.stdin.pushed
    /\ world.stdout.closed =>
          /\ world.received.closed
          /\ world.received.error \/ world.stdout.pushed = world.received.pushed
    /\ world.loop = "exit" /\ ~world.stdout.error =>
          /\ world.sent.error \/ world.sent.closed
          /\ world.received.error \/ world.stdout.closed

Broken == world.sent.error \/ world.stdout.error

(* No rule spins (eventloop.cc:212), and no call throws as long as both    *)
(* far ends are there.                                                     *)
NeverThrows ==
    /\ world.loop # "busy wait"
    /\ world.loop = "failed" => Broken

(* The end of the input reaches a peer that goes on sending and never      *)
(* closes its side: the directions end independently.                      *)
HalfClose == <>(world.sent.closed \/ Broken)

(* Once the peer has closed its side, the loop comes to an end. *)
Ends == world.received.closed ~> Over
=============================================================================
