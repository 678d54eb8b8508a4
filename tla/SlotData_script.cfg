CONSTANTS
    s1 = s1  k1 = k1  k2 = k2  n1 = n1  n2 = n2  p1 = p1  p2 = p2
    None = None
    Slots = {s1}
    Servers = {n1, n2}
    Proxies = {p1, p2}
    Keys = {k1}
    SlotOf <- OneSlot
    Tag <- OneTag
    Method = "semi-async"
    Commands = {"get", "set", "script"}
    MultiKey = FALSE
    MaxWrites = 2
    MaxFails = 0
    MaxLate = 0
SPECIFICATION Spec
PROPERTY MovingKeysAreStill
