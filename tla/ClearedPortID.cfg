\* A port deleted in OpenStack and replaced while the cache lags.
SPECIFICATION Spec
CONSTANTS
    Services = {s1}
    LBs = {l1}
    PortIDs = {p1, p2}
    FipIDs = {f1}
    IPs = {a1}
    Subnets = {n1}
    Projects = {t1}
    None = None
    SubnetOf <- OneSubnet
    Matches <- OneClass
    Mentions <- DistinctNames
    ProjectOf <- OneProject
    HandlerNames = {}
    FipChoices = {"off"}
    FaultKinds = {"external"}
    MaxFaults = 1
    MaxUID = 1
SYMMETRY IDSymmetry
PROPERTY OnlyOldPortIDsCleared
CHECK_DEADLOCK FALSE
