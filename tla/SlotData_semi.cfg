CONSTANTS
    s1 = s1  k1 = k1  k2 = k2  n1 = n1  n2 = n2  p1 = p1  p2 = p2
    None = None
    Slots = {s1}
    Servers = {n1, n2}
    Proxies = {p1, p2}
    Keys = {k1, k2}
    SlotOf <- OneSlot
    Tag <- OwnTag
    Method = "semi-async"
    Commands = {"get", "set"}
    MultiKey = FALSE
    MaxWrites = 2
    MaxFails = 2
    MaxLate = 0
SPECIFICATION LiveSpec
INVARIANTS NewestKept SentFindsNewest NothingLeft
PROPERTIES MovingKeysAreStill RequestsEnd MovesEnd
