\* Addresses of two bits, so prefixes of length zero, one and two; two routes
\* of any two lengths, two datagrams on two interfaces.
SPECIFICATION Spec
CONSTANTS
    Broadcast = broadcast
    CacheTTL = 1
    RequestTTL = 0
    Bits = 2
    Direct = direct
    Interfaces = 2
    Hardware = hardware
    NextHops = {3}
    TTLs = {1, 3}
    MaxRoutes = 2
    MaxDatagrams = 2
INVARIANTS
    LongestPrefixMatch
PROPERTY
    TakenIsHandedOn
