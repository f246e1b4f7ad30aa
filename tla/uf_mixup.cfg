SPECIFICATION Spec
CONSTANTS
    a1 = a1
    a2 = a2
    Addrs = {a1, a2}
    Unresolved = Unresolved
    Conns = {c1, c2, c3}
    Main = Main
    Mirrors = {m1}
    Plans <- MCSameBackend
    MaxIdle = 1
    MaxRequests = 2
    MaxFaults = 1
INVARIANT OwnAnswer
