------------------------------ MODULE MCAdapter ------------------------------
EXTENDS Adapter, TLC

(* "second" connects to another address of the listener's host, "stray" to *)
(* another port there, from the host of "first".                           *)
MCOwn ==
    "listener" :> [ip |-> << 10, 0, 0, 1 >>, port |-> 80] @@
    "first"    :> [ip |-> << 10, 0, 0, 2 >>, port |-> 4000] @@
    "second"   :> [ip |-> << 10, 0, 0, 3 >>, port |-> 4000] @@
    "stray"    :> [ip |-> << 10, 0, 0, 2 >>, port |-> 4001]

MCTarget ==
    "first"  :> [ip |-> << 10, 0, 0, 1 >>, port |-> 80] @@
    "second" :> [ip |-> << 10, 9, 0, 1 >>, port |-> 80] @@
    "stray"  :> [ip |-> << 10, 0, 0, 1 >>, port |-> 81]

MCEthernet ==
    [h \in {"listener", "first", "second", "stray"} |->
        << 2, 0, 0, 0, 0, Len(h) >>]

Message(syn, fin, rst, ackno, payload) ==
    [seqno |-> << 255, 255, 255, 254 >>, ackno |-> ackno, RST |-> rst, SYN |-> syn, FIN |-> fin,
     window_size |-> 64000, payload |-> payload]

MCMessages ==
    {Message(TRUE, FALSE, FALSE, NoAckno, << >>),
     Message(TRUE, FALSE, TRUE, << 0, 0, 0, 0 >>, << >>),
     Message(FALSE, TRUE, FALSE, << 0, 0, 0, 7 >>, << 104, 105, 33 >>)}
=============================================================================
