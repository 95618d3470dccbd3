\* An LB deletion after an annotation could not be cleared.
SPECIFICATION FairSpec
CONSTANTS
    Services = {s1}
    LBs = {l1}
    PortIDs = {p1}
    FipIDs = {f1}
    IPs = {a1}
    Subnets = {n1}
    Projects = {t1}
    None = None
    SubnetOf <- OneSubnet
    Matches <- OneClass
    Mentions <- DistinctNames
    ProjectOf <- OneProject
    HandlerNames = {}
    FipChoices = {"off"}
    FaultKinds = {"api"}
    MaxFaults = 1
    MaxUID = 1
PROPERTY LBDeletionCompletes
CHECK_DEADLOCK FALSE
