\* Two Services, the name of one contained in the name of the other.
SPECIFICATION WarmSpec
CONSTANTS
    Services = {s1, s2}
    LBs = {l1}
    PortIDs = {p1, p2}
    FipIDs = {f1}
    IPs = {a1, a2}
    Subnets = {n1}
    Projects = {t1}
    None = None
    SubnetOf <- OneSubnet
    Matches <- OneClass
    Mentions <- NestedNames
    ProjectOf <- OneProject
    HandlerNames = {}
    FipChoices = {"off"}
    FaultKinds = {}
    MaxFaults = 0
    MaxUID = 1
SYMMETRY IDSymmetry
PROPERTY DeletesJustified
CHECK_DEADLOCK FALSE
