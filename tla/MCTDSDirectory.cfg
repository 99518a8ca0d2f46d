CONSTANTS
    t1 = t1
    t2 = t2
    x = x
    y = y
    None = None
    Threads = {t1, t2}
    Bases = {x, y}
    MaxChain = 3
    MaxData = 4
    Uses <- MCUses
SPECIFICATION Spec
SYMMETRY Symmetry
INVARIANTS
    ReadsAreCurrent
    

    
