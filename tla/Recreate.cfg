\* Objects deleted and created again under the same name, from a warm start.
\* The operator may come to rest: no deadlock check.
SPECIFICATION WarmSpec
CONSTANTS
    Services = {s1}
    LBs = {l1}
    PortIDs = {p1, p2}
    FipIDs = {f1}
    IPs = {a1}
    Subnets = {n1}
    Projects = {t1}
    None = None
    SubnetOf <- OneSubnet
    Matches <- OneClass
    Mentions <- DistinctNames
    ProjectOf <- OneProject
    HandlerNames = {}
    FipChoices = {"off"}
    FaultKinds = {"client"}
    MaxFaults = 1
    MaxUID = 2
SYMMETRY IDSymmetry
INVARIANT LeakInv
PROPERTY DeletesJustified
PROPERTY ImplementsCustody
CHECK_DEADLOCK FALSE
