SPECIFICATION Spec
CONSTANTS
    Clients = {c1, c2, c3}
    Values = {v0, v1}
    Default = v0
    Throwing = {c3}
    MaxKey = 3
SYMMETRY Symmetry
INVARIANTS ConfigInv ListenerAlive ListenersKnow WriteAnnounced
