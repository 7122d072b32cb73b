CONSTANTS
    k1 = k1
    None = None
    Conns = {k1}
    Accepts = {a1}
    Recvs = {q1}
    Deletes = {d1}
    MaxBytes <- MCMaxBytes
SPECIFICATION Spec
INVARIANT ReadInOrder
CHECK_DEADLOCK FALSE
