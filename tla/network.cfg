SPECIFICATION NetSpec
CONSTANTS
    a = a
    b = b
    z = z
    m1 = m1
    m2 = m2
    n1 = n1
    Ips = {1, 2}
    Ifaces = {a, b, z}
    Macs = {m1, m2}
    Nas = {n1}
    Templates = {k1}
    NoRow = NoRow
    Procs = {p1}
    Datagrams <- AllDatagrams
    ConfChoices <- OnePool
    NoConf = NoConf
    TemplateRows <- Timed1
    OfferTime = 0
    DefaultLease = 1
    Word = 8
    MaxTime = 2
    Faults = {}
    Nil = Nil
    NasOf <- OneServer
    Home <- TwoHomes
    MovesTo <- OneMoves
    MoveUntil = 0
    MaxLosses = 1
INVARIANTS NetTypeOK UseIsLeased
PROPERTIES EventuallyBound
CHECK_DEADLOCK FALSE
