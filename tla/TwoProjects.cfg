\* A terminating Service of one project while an LB of another class and project is
\* deleted.
SPECIFICATION WarmSpec
CONSTANTS
    Services = {s1}
    LBs = {l1, l2}
    PortIDs = {p1, p2}
    FipIDs = {f1}
    IPs = {a1}
    Subnets = {n1}
    Projects = {t1, t2}
    None = None
    SubnetOf <- OneSubnet
    Matches <- FirstClass
    Mentions <- DistinctNames
    ProjectOf <- TwoTenants
    HandlerNames = {}
    FipChoices = {"off"}
    FaultKinds = {}
    MaxFaults = 0
    MaxUID = 1
SYMMETRY IDSymmetry
INVARIANT NoSilentLeak
CHECK_DEADLOCK FALSE
