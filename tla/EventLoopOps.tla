---------------------------- MODULE EventLoopOps ----------------------------
(***************************************************************************)
(* EventLoop::wait_next_event of src/util/eventloop.cc, for rules about    *)
(* descriptors.  The callbacks are operators on a world, a record of       *)
(* everything they touch, in which                                         *)
(*   rules   is _fd_rules, the rules left in the order they were added,    *)
(*   fd      is the descriptors, by name, in the form of FileDescriptorOps *)
(*   polled  is what poll said of each rule,                               *)
(*   loop    is where the loop stands: at "poll" or "serve", or over, by   *)
(*           "exit" or by an exception, "busy wait" or "failed".           *)
(***************************************************************************)
EXTENDS SequencesExt

CONSTANTS
    Fd(_), In(_),       (* the descriptor of a rule; direction is In       *)
    Interest(_, _), Callback(_, _), Cancel(_, _), Error(_, _),
    Revents(_, _)       (* what the kernel reports of a rule's descriptor: *)
                        (* [ready, hup, error]                             *)

Erase(world, rule) == [world EXCEPT !.rules = RemoveFirst(@, rule)]

CancelRule(world, rule) == Erase(Cancel(world, rule), rule)

(* Nothing more can come of the rule. *)
Defunct(world, rule) ==
    \/ In(rule) /\ world.fd[Fd(rule)].eof_
    \/ world.fd[Fd(rule)].closed_

(* The pollfd of a rule, and what poll will make of it. *)
Pollfd(world, rule) ==
    LET revents == Revents(world, rule)
        events  == Interest(world, rule)
    IN  [events |-> events, ready |-> events /\ revents.ready,
         hup |-> revents.hup, error |-> revents.error]

SetUpRule(world, rule) ==
    IF Defunct(world, rule) THEN CancelRule(world, rule)
    ELSE [world EXCEPT !.polled =
             [r \in DOMAIN @ \cup {rule} |-> IF r = rule THEN Pollfd(world, rule) ELSE @[r]]]

SetUp(world) == FoldLeft(SetUpRule, world, world.rules)

SomethingToPoll(polled) == \E rule \in DOMAIN polled : polled[rule].events

SomethingHappened(polled) == \E rule \in DOMAIN polled :
    polled[rule].ready \/ polled[rule].hup \/ polled[rule].error

(* From the set up to the return of poll: the loop exits, or waits. *)
Poll(world) ==
    LET set_up == SetUp(world)
    IN  [set_up EXCEPT !.loop = IF SomethingToPoll(set_up.polled) THEN "serve" ELSE "exit"]

WouldBlock(world) ==
    LET set_up == SetUp(world)
    IN  SomethingToPoll(set_up.polled) /\ ~SomethingHappened(set_up.polled)

(* Mutant: a hang-up is for those who write. *)
HungUpOut(rule, pollfd) == pollfd.hup /\ ~In(rule)

(* Only a hang-up, where something was asked for; or nobody reads any more. *)
HungUp(rule, pollfd) ==
    pollfd.hup /\ ((pollfd.events /\ ~pollfd.ready) \/ ~In(rule))

service_count(world, rule) ==
    IF In(rule) THEN world.fd[Fd(rule)].read_count_ ELSE world.fd[Fd(rule)].write_count_

(* The callback neither read nor wrote, and would be called again. *)
BusyWait(world, rule) ==
    /\ service_count(world, rule) = 0
    /\ ~world.fd[Fd(rule)].closed_
    /\ Interest(world, rule)

Serve1(world, rule) ==
    LET served == Callback(world, rule)
    IN  [served EXCEPT !.fd[Fd(rule)].read_count_ = 0,
                       !.fd[Fd(rule)].write_count_ = 0,
                       !.loop = IF served.failed THEN "failed"
                                ELSE IF BusyWait(served, rule) THEN "busy wait"
                                ELSE "poll"]

(* One result of poll; once a rule has been served the others wait. *)
Result(world, rule) ==
    LET pollfd == world.polled[rule]
    IN  IF world.loop # "serve" THEN world
        ELSE IF pollfd.error THEN CancelRule(Error(world, rule), rule)
        ELSE IF HungUp(rule, pollfd) THEN CancelRule(world, rule)
        ELSE IF pollfd.ready THEN Serve1(world, rule)
        ELSE world

Serve(world) ==
    LET result == FoldLeft(Result, world, world.rules)
    IN  [result EXCEPT !.polled = << >>, !.loop = IF @ = "serve" THEN "poll" ELSE @]
=============================================================================
