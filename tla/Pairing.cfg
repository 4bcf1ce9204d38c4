CONSTANTS
    p1 = p1
    p2 = p2
    s1 = s1
    s2 = s2
    Phones <- MCPhones
    Slots <- MCSlots
    Pins = {"p", "q"}
    PinTtl = 1
    MaxGen = 4
    MaxTime = 2
    Blank = Blank
    Nobody = Nobody
    Garbage = Garbage
SPECIFICATION ESpec
SYMMETRY Symmetry
INVARIANTS OneTokenPerConsume ConsumedIsAccounted PairedIsServed
