CONSTANTS
    c1 = c1
    c2 = c2
    c3 = c3
    t1 = t1
    None = None
    Cleaner = Cleaner
    Conns = {c1, c2}
    Tokens = {t1}
    TokenOf <- MCOneToken
SPECIFICATION Spec
INVARIANT RelayStaysUp
CHECK_DEADLOCK FALSE
