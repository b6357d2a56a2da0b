------------------------------- MODULE Widths -------------------------------
(***************************************************************************)
(* The integer types of the code, by their number of values.  The checked  *)
(* instances use small ones, so that numbers wrap within a few steps.      *)
(***************************************************************************)
EXTENDS Integers

CONSTANTS
    Range32,        (* 2^32, uint32_t: raw sequence numbers                *)
    Range64         (* 2^64, uint64_t: absolute numbers and indices        *)

ASSUME WidthAssumption ==
    /\ Range32 \in Nat \ {0}
    /\ Range64 \in Nat \ {0}
    /\ Range64 % Range32 = 0
=============================================================================
