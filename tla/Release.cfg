\* Liveness of Service deletion. The operator may come to rest: no deadlock check.
SPECIFICATION FairSpec
CONSTANTS
    Services = {s1}
    LBs = {l1}
    PortIDs = {p1}
    FipIDs = {f1}
    IPs = {a1, a2}
    Subnets = {n1}
    Projects = {t1}
    None = None
    SubnetOf <- OneOutside
    Matches <- OneClass
    Mentions <- DistinctNames
    ProjectOf <- OneProject
    HandlerNames = {}
    FipChoices = {"noNetwork"}
    FaultKinds = {"api", "client", "neutron", "tag", "lostReply", "crash", "external"}
    MaxFaults = 1
    MaxUID = 1
PROPERTY TerminatingServiceReleased
CHECK_DEADLOCK FALSE
