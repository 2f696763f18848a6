SPECIFICATION Spec
CONSTANTS
    a = a
    b = b
    m1 = m1
    m2 = m2
    n1 = n1
    n2 = n2
    k1 = k1
    Ips = {1, 2}
    Ifaces = {a, b}
    Macs = {m1, m2}
    Nas = {n1}
    Templates = {k1}
    NoRow = NoRow
    Procs = {p1}
    Datagrams <- Fixed
    ConfChoices <- SometimesStatic
    NoConf = NoConf
    TemplateRows <- LargestTime
    OfferTime = 1
    DefaultLease = 1
    Word = 8
    MaxTime = 2
    Faults = {"stop"}
    Nil = Nil
INVARIANTS StaticRouted
CHECK_DEADLOCK FALSE
