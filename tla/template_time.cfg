SPECIFICATION Spec
CONSTANTS
    a = a
    b = b
    m1 = m1
    m2 = m2
    n1 = n1
    n2 = n2
    k1 = k1
    Ips = {1, 2}
    Ifaces = {a, b}
    Macs = {m1, m2}
    Nas = {n1}
    Templates = {k1}
    NoRow = NoRow
    Procs = {p1}
    Datagrams <- Fixed
    ConfChoices <- SharedDynamic
    NoConf = NoConf
    TemplateRows <- TimeThenOther
    OfferTime = 1
    DefaultLease = 0
    Word = 8
    MaxTime = 1
    Faults = {}
    Nil = Nil
PROPERTIES TemplateTimeStored
CHECK_DEADLOCK FALSE
