CONSTANTS
    c1 = c1  c2 = c2  r1 = r1  r2 = r2  k1 = k1  k2 = k2
    None = None
    Clients = {c1, c2}
    Fallback = {c1}
    RelayLists <- MCRelayLists
    Home = r2
    MaxTurns = 2
    Server = Server
    Offered = {"ping", "dns", "traceroute", "nmap", "mount", "ftp", "telnet", "tunnel", "rdp", "vnc"}
    MaxOps = 2
    Files = {f1, f2}
    Contents = {v0, v1}
    Channels = {1, 2}
    MaxDown <- MCMaxDown
    MaxUp <- MCMaxUp
    Conns = {k1, k2}
    Accepts = {a1}
    Recvs = {q1, q2}
    Deletes = {d1, d2}
    MaxBytes <- MCMaxBytes
    Procs = {p1, p2}
    Names = {n1, n2}
    Addrs = {i1, i2}
    Spaces = {s1}
    Persons = {m1, m2, m3}
    MaxMembers = 2
    MaxIn = 3
    MaxOut = 2
    Public = Public  Old = Old  Empty = Empty  Garbled = Garbled
SPECIFICATION FairSpec
INVARIANTS
    TypeOK VersionsAreCurrent FreshCode SyncedWhenDone StreamsKept NoOrphans
    BytesKept NothingLeft FilesConsistent
PROPERTIES
    FallbackEnds SyncEnds ToolEnds
CHECK_DEADLOCK FALSE
