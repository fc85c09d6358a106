CONSTANTS
    Peers = {p1, p2, p3}
    NoPeer = NoPeer
    MAX_CONNECTION = 2
    max_wrlen = 2
    Room = 1
    MaxEvents = 2
    MaxSent = 1
SPECIFICATION Spec
CHECK_DEADLOCK FALSE
INVARIANTS
    EveryoneGetsIt
    ReadNeverWaits
PROPERTIES
    PeersAreServed
