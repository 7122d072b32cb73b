CONSTANTS
    Offered = {"ping", "dns", "traceroute", "nmap", "mount", "ftp", "telnet", "tunnel", "rdp", "vnc"}
    MaxOps = 2
SPECIFICATION Spec
INVARIANTS RequestsAnswered
CHECK_DEADLOCK FALSE
