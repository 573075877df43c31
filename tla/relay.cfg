SPECIFICATION Spec
CONSTANTS
    c1 = c1
    c2 = c2
    c3 = c3
    Conns <- MCConns
    Rooms = {r1}
    Tokens = {t1, t2}
    MaxSent <- MCMaxSent
    None = None
INVARIANTS RegistryConsistent DeliveredToPartner
PROPERTIES ReplacedLeaves
CHECK_DEADLOCK FALSE
