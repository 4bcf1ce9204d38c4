CONSTANTS
    a1 = a1
    a2 = a2
    t1 = t1
    p1 = p1
    p2 = p2
    l1 = l1
    l2 = l2
    NoTab = NoTab
    Garbage = Garbage
    Apps <- MCApps
    Tabs <- MCTabs
    Puts <- MCPuts
    Loads <- MCLoads
SPECIFICATION Spec
SYMMETRY Symmetry
INVARIANTS MirroredWhenQuiet PageAgrees
PROPERTIES FileIsASnapshot
