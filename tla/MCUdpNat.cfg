SPECIFICATION NatSpec
CONSTANTS
    Sources = {s1, s2, s3}
    Ports = {p1, p2, p3}
    Unmapped = Unmapped
    MAX_UDP_PORT = 2
INVARIANT NatConsistent
PROPERTY EvictsLongestSilent

