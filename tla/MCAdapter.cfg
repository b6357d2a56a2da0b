SPECIFICATION Spec
CONSTANTS
    Hosts = {"listener", "first", "second", "stray"}
    Listener = "listener"
    Own <- MCOwn
    Target <- MCTarget
    Ethernet <- MCEthernet
    TCPMessages <- MCMessages
    Damages = {1, 128}
INVARIANTS
    AsSent
    ReadAsWritten
    FirstDecides
