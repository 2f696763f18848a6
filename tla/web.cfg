SPECIFICATION WebSpec
CONSTANTS
    Admins = {w1, w2}
    Codes = {c1, c2}
    LastId <- Small
    None = None
    Faults = {"data"}
SYMMETRY Colleagues
INVARIANTS WebTypeOK
PROPERTIES OnlyRacesBreak TemplatesStartEmpty
CHECK_DEADLOCK FALSE
