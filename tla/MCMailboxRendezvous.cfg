CONSTANTS
    c1 = c1
    c2 = c2
    c3 = c3
    s1 = s1
    s2 = s2
    s3 = s3
    None = None
    Conns = {c1, c2, c3}
    Sides = {s1, s2, s3}
    SidesOf <- MCPrivate
    Boxes = {b1, b2, b3}
    MaxNameplate = 2
    MaxOpens = 0
    MaxMsgs = 0
    ClaimUnallocated = FALSE
SPECIFICATION Spec
SYMMETRY MCSymmetry
INVARIANT AgreeOnMailbox
CHECK_DEADLOCK FALSE
