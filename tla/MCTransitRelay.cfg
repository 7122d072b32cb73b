CONSTANTS
    c1 = c1
    c2 = c2
    c3 = c3
    t1 = t1
    None = None
    Cleaner = Cleaner
    Conns = {c1, c2, c3}
    Tokens = {t1}
    TokenOf <- MCOneToken
SPECIFICATION FairSpec
INVARIANTS TypeOK LockHeldInside PendingWaits MatchedOnce
PROPERTIES NoPhantomMatch Settles
CHECK_DEADLOCK FALSE
