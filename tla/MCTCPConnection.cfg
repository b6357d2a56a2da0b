SPECIFICATION FairSpec
CONSTANTS
    Range16 = 4
    Range32 = 16
    Range64 = 256
    IntRange = 64
    InitialRTO = 1
    MaxPayload = 1
    LingerTimeouts = 10
    LeftOver = 0
    Client = "client"
    Server = "server"
    ISN <- MCISN
    Text <- MCText
    SendCapacity = 1
    RecvCapacity = 3
    MaxFaults = 1
    MaxProbes = 1
INVARIANTS
    CleanEnd
    NothingForgotten
    NobodyLeftBehind
PROPERTIES
    ImplementsPipes
    Ends
