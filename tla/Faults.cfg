\* One Service, one LB, one fault of any kind.
\* The operator may come to rest: no deadlock check.
SPECIFICATION Spec
CONSTANTS
    Services = {s1}
    LBs = {l1}
    PortIDs = {p1, p2}
    FipIDs = {f1, f2}
    IPs = {a1, a2}
    Subnets = {n1}
    Projects = {t1}
    None = None
    SubnetOf <- OneSubnet
    Matches <- OneClass
    Mentions <- DistinctNames
    ProjectOf <- OneProject
    HandlerNames = {}
    FipChoices = {"on"}
    FaultKinds = {"api", "client", "neutron", "lostReply", "tag", "tagRead", "crash",
                  "external", "edit", "otherFin", "userFip", "readdress", "editLB",
                  "resync"}
    MaxFaults = 1
    MaxUID = 1
SYMMETRY Symmetry
INVARIANT TypeOK
INVARIANT NoSilentLeak
INVARIANT AnnotatedIsProtected
PROPERTY UserFipsKept
PROPERTY ImplementsCustody
CHECK_DEADLOCK FALSE
