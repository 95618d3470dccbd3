\* Two Services of one class, from a warm start.
\* The operator may come to rest: no deadlock check.
SPECIFICATION WarmSpec
CONSTANTS
    Services = {s1, s2}
    LBs = {l1}
    PortIDs = {p1, p2}
    FipIDs = {f1, f2}
    IPs = {a1, a2}
    Subnets = {n1}
    Projects = {t1}
    None = None
    SubnetOf <- OneSubnet
    Matches <- OneClass
    Mentions <- DistinctNames
    ProjectOf <- OneProject
    HandlerNames = {}
    FipChoices = {"on"}
    FaultKinds = {"crash"}
    MaxFaults = 1
    MaxUID = 1
SYMMETRY Symmetry
INVARIANT NoSilentLeak
INVARIANT PortsAnsweredFor
PROPERTY DeletesJustified
CHECK_DEADLOCK FALSE
