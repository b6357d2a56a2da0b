--------------------------- MODULE ReassemblerSpec ---------------------------
(***************************************************************************)
(* What a Reassembler promises (reassembler.hh:19-31), over sets of byte   *)
(* indices: it remembers every byte it is shown inside the window, has     *)
(* written the ones up to the first gap, and closes its stream as soon as  *)
(* the last byte is written and known to be the last.                      *)
(***************************************************************************)
EXTENDS Integers, FiniteSetsExt

CONSTANTS
    Capacity,       (* of the output stream                                *)
    MaxLength,      (* longest stream                                      *)
    MaxSegment      (* longest substring                                   *)

VARIABLES
    length,         (* of the stream being reassembled                     *)
    learned,        (* indices of the bytes known                          *)
    end_known,      (* the last byte's index is known                      *)
    popped,         (* bytes the reader has taken                          *)
    closed

vars == <<length, learned, end_known, popped, closed>>

Init ==
    /\ length \in 0 .. MaxLength
    /\ learned = {}
    /\ end_known = FALSE
    /\ popped = 0
    /\ closed = FALSE

(* The first gap: everything before it has been written. *)
Written == Min((0 .. length) \ learned)

WindowEnd == popped + Capacity

Insert(first, size, is_last) ==
    /\ learned' = learned \cup {i \in first .. first + size - 1 : i < WindowEnd}
    /\ end_known' = (end_known \/ (is_last /\ first + size <= WindowEnd))
    /\ closed' = (closed \/ (end_known' /\ learned' = 0 .. length - 1))
    /\ UNCHANGED <<length, popped>>

Pop(len) ==
    /\ popped' = Min({popped + len, Written})
    /\ UNCHANGED <<length, learned, end_known, closed>>

Next ==
    \/ \E first \in 0 .. length, size \in 0 .. MaxSegment, is_last \in BOOLEAN :
          /\ first + size <= length
          /\ is_last => first + size = length
          /\ Insert(first, size, is_last)
    \/ \E len \in 0 .. Capacity : Pop(len)

Spec == Init /\ [][Next]_vars
=============================================================================
