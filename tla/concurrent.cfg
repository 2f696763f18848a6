SPECIFICATION Spec
CONSTANTS
    a = a
    b = b
    m1 = m1
    m2 = m2
    n1 = n1
    n2 = n2
    k1 = k1
    Ips = {1, 2}
    Ifaces = {a, b}
    Macs = {m1, m2}
    Nas = {n1, n2}
    Templates = {k1}
    NoRow = NoRow
    Procs = {p1, p2}
    Datagrams <- Apart
    ConfChoices <- Overlapping
    NoConf = NoConf
    TemplateRows <- ZeroTime
    OfferTime = 0
    DefaultLease = 0
    Word = 8
    MaxTime = 1
    Faults = {"db", "broken", "reboot"}
    Nil = Nil
SYMMETRY Children
INVARIANTS TypeOK PoolRespected
PROPERTIES NoLiveLeaseCleared
CHECK_DEADLOCK FALSE
