------------------------------ MODULE WireSeqno ------------------------------
(***************************************************************************)
(* One direction of sequence numbers: one end numbers bytes from a random  *)
(* zero point and sends them wrapped, the other unwraps with its own       *)
(* progress as the checkpoint.  Either end may be ahead: a receiver        *)
(* unwraps sequence numbers ahead of and behind its bytes_pushed, a sender *)
(* unwraps ackno with its abs_seqno_ as the checkpoint.                   *)
(***************************************************************************)
EXTENDS Wrap32

VARIABLES
    zero_point,     (* the initial sequence number, raw                    *)
    n,              (* the absolute number on the wire                     *)
    checkpoint      (* the absolute number the other end has reached       *)

vars == <<zero_point, n, checkpoint>>

Init ==
    /\ zero_point \in Raw
    /\ n = 0
    /\ checkpoint = 0

Number ==
    /\ n + 1 \in Absolute
    /\ n' = n + 1
    /\ UNCHANGED <<zero_point, checkpoint>>

(* An old number is sent again: a retransmission or a delayed duplicate. *)
Again ==
    /\ n > 0
    /\ n' \in 0 .. n - 1
    /\ UNCHANGED <<zero_point, checkpoint>>

Progress ==
    /\ checkpoint + 1 \in Absolute
    /\ checkpoint' = checkpoint + 1
    /\ UNCHANGED <<zero_point, n>>

Next == Number \/ Again \/ Progress

Spec == Init /\ [][Next]_vars

TypeOK == zero_point \in Raw /\ n \in Absolute /\ checkpoint \in Absolute

(* Whatever arrives is read as the closest number it can stand for. *)
Closest == UnwrapIsClosest(wrap(n, zero_point), zero_point, checkpoint)

(* Inside half a turn of the checkpoint, what arrives is what was sent. *)
RoundTrip == RoundTrips(n, zero_point, checkpoint)
=============================================================================
