CONSTANTS
    p1 = p1
    p2 = p2
    ts = ts
    c1 = c1
    c2 = c2
    s1 = s1
    s2 = s2
    Nobody = Nobody
    Projects = {p1, p2}
    Langs = {ts}
    Clients = {c1, c2}
    Servers = {s1, s2}
    MaxSessions = 1
    MaxReloads = 1
SPECIFICATION Spec
SYMMETRY Symmetry
INVARIANTS
    NoStrayServer
    StartsSerial
    GoneStaysGone
    CapHeld
PROPERTIES
    LateReaderHarmless
CHECK_DEADLOCK FALSE
