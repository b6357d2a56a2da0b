\* Three bytes in payloads of at most two, to a peer that holds two: the
\* window closes, reopens and slides.  Numbers wrap within the stream.  The
\* outbound stream holds two bytes, and a tick can jump over a timeout.
SPECIFICATION Spec
CONSTANTS
    Range16 = 8
    Range32 = 16
    Range64 = 256
    InitialRTO = 1
    MaxPayload = 2
    ISN = 13
    Capacity = 2
    PeerCapacity = 2
    MaxLength = 3
    MaxTick = 2
    MaxRetransmissions = 2
INVARIANTS
    Outstanding
    CreditConserved
    Backoff
PROPERTIES
    OutdatedHarmless
