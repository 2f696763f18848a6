SPECIFICATION RepeatingSpec
CONSTANTS
    a = a
    b = b
    z = z
    m1 = m1
    m2 = m2
    n1 = n1
    Ips = {1, 2}
    Ifaces = {a, b}
    Macs = {m1, m2}
    Nas = {n1}
    Templates = {k1}
    NoRow = NoRow
    Procs = {p1}
    Datagrams <- AllDatagrams
    ConfChoices <- OnePool
    NoConf = NoConf
    TemplateRows <- Timed3
    OfferTime = 0
    DefaultLease = 3
    Word = 8
    MaxTime = 1
    Faults = {}
    Nil = Nil
    NasOf <- OneServer
    Home <- TwoHomes
    MovesTo <- NobodyMoves
    MoveUntil = 0
    MaxLosses = 0
INVARIANTS NoDoubleUse
CHECK_DEADLOCK FALSE
