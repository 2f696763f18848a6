SPECIFICATION HSpec
CONSTANTS
    a = a
    b = b
    m1 = m1
    m2 = m2
    n1 = n1
    n2 = n2
    k1 = k1
    Ips = {1, 2}
    Ifaces = {a, b}
    Macs = {m1, m2}
    Nas = {n1, n2}
    Templates = {k1}
    NoRow = NoRow
    Procs = {p1}
    Datagrams <- Roaming
    ConfChoices <- SharedUnrouted
    NoConf = NoConf
    TemplateRows <- TypedTimeFirst
    OfferTime = 1
    DefaultLease = 1
    Word = 8
    MaxTime = 3
    Faults = {"db", "broken", "reboot"}
    Nil = Nil
INVARIANTS OneLeasePerIface AnswerStands
PROPERTIES OwnerKeepsAddress ServesLeases
CHECK_DEADLOCK FALSE
