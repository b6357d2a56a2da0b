\* The empty substring at index 0 may arrive after later bytes.
SPECIFICATION Spec
CONSTANTS
    Range32 = 64
    Range64 = 4096
    IntRange = 64
    Capacity = 3
    MaxLength = 6
    MaxSegment = 3
    AllowOvertaken = TRUE
    AllowEndWhenFull = FALSE
INVARIANT OutputIsOriginal
