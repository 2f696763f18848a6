SPECIFICATION Spec
CONSTANTS
    p1 = p1
    p2 = p2
    Ips = {1, 2, 3, 4}
    Ifaces = {a}
    Macs = {m1}
    Nas = {n1}
    Templates = {k1}
    NoRow = NoRow
    Procs = {p1}
    Inherited = Inherited
    Closed = Closed
    Lists <- SomeLists
    MaxRows = 2
    MaxLosses = 2
    Faults = {"db"}
INVARIANTS TypeOK InSync OwnReply ScanRight LossRepaired
PROPERTIES ChildEnds
