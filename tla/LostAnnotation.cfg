\* A port whose annotation could not be written.
SPECIFICATION ResyncSpec
CONSTANTS
    Services = {s1}
    LBs = {l1}
    PortIDs = {p1}
    FipIDs = {f1}
    IPs = {a1}
    Subnets = {n1}
    Projects = {t1}
    None = None
    SubnetOf <- OneSubnet
    Matches <- OneClass
    Mentions <- DistinctNames
    ProjectOf <- OneProject
    HandlerNames = {}
    FipChoices = {"off"}
    FaultKinds = {"api", "resync"}
    MaxFaults = 1
    MaxUID = 1
PROPERTY ServiceProvisioned
CHECK_DEADLOCK FALSE
