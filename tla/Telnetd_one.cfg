SPECIFICATION FairSpec
CONSTANTS
    Pids = {p1, p2}
    MaxClients = 1
    master_fd = 3
    netlink_fd = 4
    MaxQueue = 2
    Events = {"held", "stuck", "error", "nopty"}
INVARIANTS SelectsRight RecvHasMessage
PROPERTIES SessionsEnd
CHECK_DEADLOCK FALSE
