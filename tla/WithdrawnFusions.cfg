SPECIFICATION FusionsSpec
CONSTANTS
    w1 = w1
    u1 = u1
    c1 = c1
    c2 = c2
    j1 = j1
    a1 = a1
    r1 = r1
    r2 = r2
    volume = volume
    scan = scan
    a = a
    b = b
    p1 = p1
    p2 = p2
    None = None
PROPERTIES
    WorkWithoutRightsEnds
CHECK_DEADLOCK FALSE
