\* Eight raw sequence numbers and every initial one; streams longer than a
\* turn, which an IntRange above Range32 makes room for (in the code both are
\* 32 bits wide and such a stream stops).  The window of three slides past
\* itself, and two bits of window size hold less than the capacity would need
\* with bytes pending.
SPECIFICATION Spec
CONSTANTS
    Range16 = 4
    Range32 = 8
    Range64 = 64
    IntRange = 64
    Capacity = 3
    MaxLength = 9
    MaxSegment = 3
INVARIANTS
    OutputIsOriginal
    AckIsProgress
    WindowFits
PROPERTY
    ErrorIsFinal
