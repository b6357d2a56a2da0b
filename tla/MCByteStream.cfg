SPECIFICATION Spec
CONSTANTS
    Capacity = 3
    Byte = {a, b}
    MaxChunk = 4
    MaxPushed = 8
INVARIANTS
    TypeOK
    CompactionBound
PROPERTY
    ImplementsPipe
