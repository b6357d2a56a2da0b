\* Eight raw values, eight turns of them: every rest modulo eight, ties
\* included, at the first, a middle and the last turn.
SPECIFICATION Spec
CONSTANTS
    Range32 = 8
    Range64 = 64
INVARIANTS
    Closest
