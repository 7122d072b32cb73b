CONSTANTS
    c1 = c1
    c2 = c2
    c3 = c3
    s1 = s1
    s2 = s2
    s3 = s3
    None = None
    Conns = {c1, c2}
    Sides = {s1, s2, s3}
    SidesOf <- MCPrivate
    Boxes = {b1, b2}
    MaxNameplate = 1
    MaxOpens = 1
    MaxMsgs = 0
    ClaimUnallocated = TRUE
SPECIFICATION Spec
PROPERTY AllocatedIsNew
CHECK_DEADLOCK FALSE
