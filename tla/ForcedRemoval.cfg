\* A Service with another controller's finalizer.
SPECIFICATION Spec
CONSTANTS
    Services = {s1}
    LBs = {l1}
    PortIDs = {p1, p2}
    FipIDs = {f1}
    IPs = {a1}
    Subnets = {n1}
    Projects = {t1}
    None = None
    SubnetOf <- OneSubnet
    Matches <- OneClass
    Mentions <- DistinctNames
    ProjectOf <- OneProject
    HandlerNames = {}
    FipChoices = {"off"}
    FaultKinds = {"otherFin"}
    MaxFaults = 1
    MaxUID = 1
SYMMETRY IDSymmetry
PROPERTY OthersFinalizersKept
CHECK_DEADLOCK FALSE
