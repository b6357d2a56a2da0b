SPECIFICATION FairSpec
CONSTANTS
    Range16 = 4
    Range32 = 16
    Range64 = 256
    IntRange = 64
    InitialRTO = 1
    MaxPayload = 1
    LingerTimeouts = 2
    LeftOver = 0
    SendCapacity = 1
    RecvCapacity = 2
    RemoteCapacity = 3
    KernelSize = 1
    OwnISN = 13
    RemoteISN = 5
    Length = 1
    RemoteLength = 2
    MaxProbes = 1
INVARIANTS
    NothingLeftBehind
    EndMeansAll
    NeverThrows
PROPERTIES
    ImplementsPipes
    Ends
