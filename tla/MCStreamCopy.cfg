\* Buffers of two between descriptors of one: short reads and short writes
\* both happen, and either stream can be full.
SPECIFICATION FairSpec
CONSTANTS
    BufferSize = 2
    KernelSize = 1
    Length = 3
INVARIANTS
    EndMeansAll
    NeverThrows
PROPERTIES
    ImplementsPipes
    HalfClose
    Ends
