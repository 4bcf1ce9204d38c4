CONSTANTS
    t1 = t1
    c1 = c1
    c2 = c2
    NoTab = NoTab
    Bad = Bad
    Ids <- MCIds
    Tabs <- MCTabs
    Calls <- MCCalls
    Bodies <- MCBodies
SPECIFICATION Spec
SYMMETRY Symmetry
INVARIANTS MirroredWhenQuiet
PROPERTIES SaveTouchesOneEntry FileIsASnapshot
