------------------------------- MODULE Wrap32 -------------------------------
(***************************************************************************)
(* Wrapping sequence numbers, src/src/wrapping_integers.cc: a 64-bit       *)
(* absolute number travels as its low bits offset by a zero point, and     *)
(* unwrap recovers it with the help of a checkpoint.                       *)
(***************************************************************************)
EXTENDS Widths

Raw      == 0 .. Range32 - 1
Absolute == 0 .. Range64 - 1

Distance(a, b) == IF a >= b THEN a - b ELSE b - a

wrap(n, zero_point) == (zero_point + n) % Range32

(* 32-bit difference of the raw value and the zero point. *)
DiffOf(raw, zero_point) == (raw - zero_point) % Range32

(* The absolute number x turns of the modulus above diff, in 64 bits. *)
Candidate(x, diff) == (x * Range32 + diff) % Range64

(* A candidate replaces the current one only when it is strictly closer. *)
Closer(current, candidate, checkpoint) ==
    IF Distance(checkpoint, candidate) < Distance(checkpoint, current)
      THEN candidate ELSE current

(* Mutant: the turn below the checkpoint is not looked at. *)
FirstAtLevel(mult, diff) == Candidate(mult, diff)

(* The first candidate is one turn below the checkpoint's, if there is one. *)
FirstCandidate(mult, diff) == IF mult = 0 THEN diff ELSE Candidate(mult - 1, diff)

unwrap(raw, zero_point, checkpoint) ==
    LET diff  == DiffOf(raw, zero_point)
        mult  == checkpoint \div Range32
        below == FirstCandidate(mult, diff)
        level == Closer(below, Candidate(mult, diff), checkpoint)
    IN  Closer(level, Candidate(mult + 1, diff), checkpoint)
-----------------------------------------------------------------------------
(* unwrap returns an absolute number that wraps to the raw value and, of   *)
(* all those (wrapping_integers.hh:22-24), one closest to the checkpoint,  *)
(* although it looks at three candidates only.                             *)
UnwrapIsClosest(raw, zero_point, checkpoint) ==
    LET u == unwrap(raw, zero_point, checkpoint)
    IN  /\ u \in Absolute
        /\ wrap(u, zero_point) = raw
        /\ \A v \in Absolute :
              wrap(v, zero_point) = raw => Distance(checkpoint, u) <= Distance(checkpoint, v)

(* A number less than half a turn away from the checkpoint survives the    *)
(* trip over the wire.                                                     *)
RoundTrips(n, zero_point, checkpoint) ==
    2 * Distance(n, checkpoint) < Range32 =>
        unwrap(wrap(n, zero_point), zero_point, checkpoint) = n
=============================================================================
