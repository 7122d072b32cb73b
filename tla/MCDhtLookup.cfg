CONSTANTS
    a = a
    s = s
    k1 = k1
    k2 = k2
    p1 = p1
    l1 = l1
    None = None
    Nodes = {a, s}
    Public = {s}
    Prior = {k2}
    Keys = {k1, k2}
    Publishes = {p1}
    Lookups = {l1}
    Owner <- MCOwner
    KeysOf <- MCKeysOf
    Static <- MCStatic
    Found <- MCFound
    K = 1
    Rounds = 2
    TidSpace = 3
    MaxLives <- MCLives
SPECIFICATION Spec
INVARIANTS ServedIsFetched
CHECK_DEADLOCK FALSE
