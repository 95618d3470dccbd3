\* Liveness of provisioning and of LB deletion.
\* The operator may come to rest: no deadlock check.
SPECIFICATION ResyncSpec
CONSTANTS
    Services = {s1}
    LBs = {l1}
    PortIDs = {p1}
    FipIDs = {f1}
    IPs = {a1}
    Subnets = {n1}
    Projects = {t1}
    None = None
    SubnetOf <- OneSubnet
    Matches <- OneClass
    Mentions <- DistinctNames
    ProjectOf <- OneProject
    HandlerNames = {}
    FipChoices = {"on"}
    FaultKinds = {"client", "neutron", "resync"}
    MaxFaults = 1
    MaxUID = 1
PROPERTY ServiceProvisioned
PROPERTY StatusConverges
PROPERTY LBDeletionCompletes
CHECK_DEADLOCK FALSE
