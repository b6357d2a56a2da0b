\* A window of five over streams of up to eight bytes: the window slides
\* past its own size, and two gaps can be open at once.
SPECIFICATION Spec
CONSTANTS
    Range32 = 64
    Range64 = 4096
    IntRange = 64
    Capacity = 5
    MaxLength = 8
    MaxSegment = 4
    AllowOvertaken = FALSE
    AllowEndWhenFull = FALSE
INVARIANTS
    OutputIsOriginal
    CacheSound
PROPERTIES
    ImplementsPromise
