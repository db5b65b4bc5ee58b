SPECIFICATION ConnectSpec
CONSTANTS
    p1 = p1
    p2 = p2
    n1 = n1
    n2 = n2
    u1 = u1
    None = None
    Programs = {p1, p2}
    Me = p1
    Names = {n1, n2}
    Dotted = {n2}
    Urls = {u1}
    Direct = {}
    Served = {"v1", "grpc", "v03"}
    MaxCommands = 2
    MaxAttempts = 2
    MaxFaults = 1
INVARIANTS FileSound SavesKept SpeaksItsCard ModeTrue
CHECK_DEADLOCK FALSE
