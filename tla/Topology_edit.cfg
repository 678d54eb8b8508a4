CONSTANTS
    s1 = s1  s2 = s2  g1 = g1  g2 = g2  g3 = g3
    a1 = a1  a2 = a2  b1 = b1  c1 = c1  p1 = p1  p2 = p2
    Slots = {s1}
    Groups = {g1, g2}
    Servers = {a1, b1}
    Proxies = {p1}
    NoGroup = NoGroup
    NoAddr = NoAddr
    Parallel = 1
    Reassign = TRUE
    MaxLate = 1
SPECIFICATION SpecEdit
INVARIANTS GroupsInUse DriftIsFlagged
