CONSTANTS
    s1 = s1  g1 = g1  g2 = g2  a1 = a1  a2 = a2  b1 = b1  p1 = p1
    Slots = {s1}
    Groups = {g1, g2}
    Servers = {a1, a2, b1}
    Proxies = {p1}
    NoGroup = NoGroup
    NoAddr = NoAddr
    Parallel = 1
    Reassign = FALSE
    MaxLate = 1
    MaxFaults = 2
SPECIFICATION SpecLive
PROPERTIES MigrationEnds PromotionEnds LocksAreReleased
