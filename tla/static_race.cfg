SPECIFICATION Spec
CONSTANTS
    a = a
    b = b
    m1 = m1
    m2 = m2
    n1 = n1
    n2 = n2
    k1 = k1
    Ips = {1, 2}
    Ifaces = {a, b}
    Macs = {m1, m2}
    Nas = {n1, n2}
    Templates = {k1}
    NoRow = NoRow
    Procs = {p1, p2}
    Datagrams <- Apart
    ConfChoices <- SharedStatic
    NoConf = NoConf
    TemplateRows <- OtherThenTime
    OfferTime = 1
    DefaultLease = 1
    Word = 8
    MaxTime = 1
    Faults = {}
    Nil = Nil
SYMMETRY Children
INVARIANTS StaticKeepsInterface
CHECK_DEADLOCK FALSE
