SPECIFICATION Spec
CONSTANTS
    p1 = p1
    p2 = p2
    Ips = {1}
    Ifaces = {a}
    Macs = {m1}
    Nas = {n1}
    Templates = {k1}
    NoRow = NoRow
    Procs = {p1, p2}
    Inherited = Inherited
    Closed = Closed
    Lists <- OneList
    MaxRows = 1
    MaxLosses = 0
    Faults = {}
SYMMETRY Children
INVARIANTS OptionsOfOwnLease
