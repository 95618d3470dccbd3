\* A user changes the type of a Service while the operator adds its finalizer.
SPECIFICATION Spec
CONSTANTS
    Services = {s1}
    LBs = {l1}
    PortIDs = {p1, p2}
    FipIDs = {f1}
    IPs = {a1}
    Subnets = {n1}
    Projects = {t1}
    None = None
    SubnetOf <- OneSubnet
    Matches <- OneClass
    Mentions <- DistinctNames
    ProjectOf <- OneProject
    HandlerNames = {}
    FipChoices = {"off"}
    FaultKinds = {"edit"}
    MaxFaults = 1
    MaxUID = 1
SYMMETRY IDSymmetry
PROPERTY UserChangesKept
CHECK_DEADLOCK FALSE
