CONSTANTS
    Datagrams = 2
    Units = 5
    FragmentLen = 2
    MinUnits = 3
    EXPIRE_TIME = 2
    MaxRepeats = 1
    MaxForeign = 1
    Hosts = {s1, s2, local, other}
    Network = {s1, s2, local}
    Local = local
    Sender = s1
    Unspecified = Unspecified
    MaxRejoins = 1
SPECIFICATION IngressSpec
INVARIANTS ReturnsWhole NeverMixed CompletesInTime FirstSourceAddressed
