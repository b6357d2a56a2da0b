\* Three datagrams to two neighbours, each with one of two hardware addresses.
\* A mapping lives three ticks, a request one; a tick can skip over either.
SPECIFICATION Spec
CONSTANTS
    Broadcast = broadcast
    Me = me
    Hardware = {e1, e2}
    MyIP = my_ip
    Neighbours = {ip1, ip2}
    CacheTTL = 3
    RequestTTL = 1
    MaxDatagrams = 3
    MaxReceived = 1
    MaxTick = 2
INVARIANTS
    CacheIsFresh
    WaitsInOrder
PROPERTIES
    SentOnce
    NoRequestFlood
    WaitEnds
