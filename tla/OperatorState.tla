----------------------------- MODULE OperatorState -----------------------------
(***************************************************************************)
(* The state shared by every part of the OpenStack load balancer operator: *)
(* the Kubernetes objects, the operator's informer cache of them, the work *)
(* queue, the OpenStack (Neutron) resources and the one reconcile worker.  *)
(***************************************************************************)
EXTENDS Naturals, FiniteSets

CONSTANTS
    Services,    \* names of Kubernetes Services
    LBs,         \* names of OpenStackLoadBalancer objects
    PortIDs,     \* Neutron port UUIDs
    FipIDs,      \* Neutron floating IP UUIDs
    IPs,         \* addresses MetalLB (or the like) assigns to Services
    Subnets,     \* Neutron subnets
    Projects,    \* OpenStack projects that application credentials belong to
    None,        \* "no value": the empty string or a nil pointer in the code
    SubnetOf,    \* [IPs -> Subnets \cup {None}]: first listed subnet holding the IP
    Matches,     \* <<s, l>>: Service s carries the class of l
    Mentions,    \* <<t, s>>: the name or description written for t matches s's search
    ProjectOf,   \* [LBs -> Projects]: the project of l's credentials
    HandlerNames,\* Services whose own name contains "service-handler-"
    FipChoices,  \* the floating IP settings users give an OpenStackLoadBalancer
    FaultKinds,  \* the kinds of fault or outside interference that may happen
    MaxFaults,   \* bound: how many faults and interferences
    MaxUID       \* bound: how many incarnations of an object of one name

ASSUME NamesAssumption ==
    /\ None \notin Services \cup LBs \cup PortIDs \cup FipIDs \cup IPs
    /\ None \notin Subnets \cup Projects
    /\ Services \cap LBs = {} /\ PortIDs \cap FipIDs = {}
    /\ LBs \cap (PortIDs \cup FipIDs) = {}

ASSUME TablesAssumption ==
    /\ SubnetOf \in [IPs -> Subnets \cup {None}]
    /\ ProjectOf \in [LBs -> Projects]
    /\ Matches \subseteq Services \X LBs
    /\ HandlerNames \subseteq Services

(* A resource's text always matches the search of the Service it was       *)
(* created for; what else it matches depends on the names.                 *)
ASSUME MentionsAssumption ==
    /\ Mentions \subseteq Services \X Services
    /\ \A s \in Services : <<s, s>> \in Mentions


VARIABLES
    svc,       \* Services in the API server
    lb,        \* OpenStackLoadBalancers in the API server
    csvc,      \* Services in the informer cache
    clb,       \* OpenStackLoadBalancers in the informer cache
    fresh,     \* objects whose cached resourceVersion is the current one
    queue,     \* reconcile requests waiting in the work queue
    ports,     \* Neutron ports
    fips,      \* Neutron floating IPs
    w,         \* the reconcile worker: its program counter and local variables
    faults,    \* faults injected so far
    abandoned  \* history: what the operator gave up on when it dropped a finalizer:
               \* resources whose cleanup failed, LBs never cleaned up

kube == <<svc, lb>>
cache == <<csvc, clb>>
neutron == <<ports, fips>>
vars == <<svc, lb, csvc, clb, fresh, queue, ports, fips, w, faults, abandoned>>

-----------------------------------------------------------------------------
(* Kubernetes objects *)

Requests == LBs \cup Services   \* a Service stands for "service-handler-<name>"
Abandonable == PortIDs \cup FipIDs \cup LBs

Service == [uid : Nat, exists : BOOLEAN, deleting : BOOLEAN,
            fin : BOOLEAN,       \* ServiceFinalizer
            otherFin : BOOLEAN,  \* a finalizer of another controller
            lbType : BOOLEAN,    \* spec.type = LoadBalancer
            ip : IPs \cup {None},            \* status.loadBalancer.ingress[0].ip
            cred : LBs \cup {None},          \* credentials-secret annotations
            portAnn : PortIDs \cup {None},   \* port-id annotation
            fipAnn : FipIDs \cup {None},     \* floating-ip-id annotation
            ext : SUBSET FipIDs]             \* spec.externalIPs, by floating IP

NoService(u) ==
    [uid |-> u, exists |-> FALSE, deleting |-> FALSE, fin |-> FALSE,
     otherFin |-> FALSE, lbType |-> FALSE, ip |-> None, cred |-> None,
     portAnn |-> None, fipAnn |-> None, ext |-> {}]

(* createFloatingIP false; true without floatingIPNetworkID; true with it. *)
FipSpecs == {"off", "noNetwork", "on"}

ASSUME BoundsAssumption ==
    MaxFaults \in Nat /\ MaxUID \in Nat /\ FipChoices \subseteq FipSpecs

(* The two status conditions about the LB as a whole, by their reasons. The *)
(* other two, PortCreated and FloatingIPCreated, report on whichever        *)
(* Service came last and are left out.                                      *)
ConditionTypes == {"Ready", "NetworkDetected"}
Reasons == {"Unset", "ResourcesReady", "OpenStackClientError", "NoMatchingService",
            "ProcessingError", "NetworkDetected", "NetworkDetectionFailed"}

LoadBalancer == [uid : Nat, exists : BOOLEAN, deleting : BOOLEAN,
                 fin : BOOLEAN,                  \* OpenstackLBFinalizer
                 fip : FipSpecs,
                 net : Subnets \cup {None},      \* status.LBNetworkID/LBSubnetID
                 ready : BOOLEAN,                \* status.Ready
                 cond : [ConditionTypes -> Reasons]]  \* status.conditions

NoLB(u) ==
    [uid |-> u, exists |-> FALSE, deleting |-> FALSE, fin |-> FALSE,
     fip |-> "off", net |-> None, ready |-> FALSE,
     cond |-> [t \in ConditionTypes |-> "Unset"]]

(* hasAnnotation for the two resource annotations: non-empty values only. *)
HasResourceAnnotations(c) == c.portAnn # None \/ c.fipAnn # None

-----------------------------------------------------------------------------
(* OpenStack resources. svc is the Service named in the description and the *)
(* tags (None: made by a user); tagged says that the managed-by tag is set. *)

Port == [live : BOOLEAN, svc : Services \cup {None},
         ip : IPs \cup {None}, proj : Projects \cup {None}, tagged : BOOLEAN]

Fip == [live : BOOLEAN, svc : Services \cup {None},
        port : PortIDs \cup {None}, proj : Projects \cup {None}, tagged : BOOLEAN]

NoPort == [live |-> FALSE, svc |-> None, ip |-> None, proj |-> None,
           tagged |-> FALSE]
NoFip == [live |-> FALSE, svc |-> None, port |-> None, proj |-> None,
          tagged |-> FALSE]

LivePort(p) == ports[p].live
LiveFip(f) == fips[f].live

-----------------------------------------------------------------------------
(* The worker. controller-runtime runs this controller with its default of *)
(* one concurrent reconcile, so there is a single w.                       *)

PCs == {"idle", "return",
        "lbFinalizer", "lbClient", "loop", "status",
        "svcFinalizer", "credentials", "network", "port", "clearPort",
        "tagPort", "annotatePort", "fip", "clearFip", "createFip",
        "tagFip", "annotateFip", "externalIPs",
        "delClient", "delLoop", "lbUnfinalize",
        "handlerFinalizer", "handlerCredentials", "svcClient",
        "list", "delFips", "delPorts", "clearAnnotations", "unfinalize", "force"}

Worker == [pc : PCs,
           req : Requests \cup {None},       \* the request being reconciled
           mem : LoadBalancer,               \* the reconciler's copy of the LB
           snap : [Services -> Service],     \* the Services as read (r.List, r.Get)
           todo : SUBSET Services,           \* loop items left
           cur : Services \cup {None},       \* the loop item
           match : LBs \cup {None},          \* matchingLB of the service handler
           client : Projects \cup {None},    \* the project osClient acts in
           pid : PortIDs \cup {None},        \* portID
           fid : FipIDs \cup {None},         \* floatingIPID
           delF : SUBSET FipIDs, delP : SUBSET PortIDs,  \* left to delete
           clr : SUBSET {"port", "fip"},     \* annotationsToUpdate
           fail : BOOLEAN,                   \* cleanup: needsRequeue / an error
           err : BOOLEAN,                    \* lastError # nil
           requeue : BOOLEAN]

NoSnap == [s \in Services |-> NoService(0)]

IdleWorker ==
    [pc |-> "idle", req |-> None, mem |-> NoLB(0), snap |-> NoSnap,
     todo |-> {}, cur |-> None, match |-> None, client |-> None, pid |-> None,
     fid |-> None, delF |-> {}, delP |-> {}, clr |-> {}, fail |-> FALSE,
     err |-> FALSE, requeue |-> FALSE]

(* Reconcile returns; requeue covers RequeueAfter and a returned error. *)
ReturnWith(rq) == [w EXCEPT !.pc = "return", !.requeue = rq]

-----------------------------------------------------------------------------
(* A fault of kind k: the environment injects at most MaxFaults of them. *)
Fault(k) == k \in FaultKinds /\ faults < MaxFaults /\ faults' = faults + 1

TypeOK ==
    /\ svc \in [Services -> Service]
    /\ lb \in [LBs -> LoadBalancer]
    /\ csvc \in [Services -> Service]
    /\ clb \in [LBs -> LoadBalancer]
    /\ fresh \subseteq Requests
    /\ queue \subseteq Requests
    /\ ports \in [PortIDs -> Port]
    /\ fips \in [FipIDs -> Fip]
    /\ w \in Worker
    /\ faults \in 0 .. MaxFaults
    /\ abandoned \subseteq Abandonable

Init ==
    /\ svc = [s \in Services |-> NoService(0)]
    /\ lb = [l \in LBs |-> NoLB(0)]
    /\ csvc = svc
    /\ clb = lb
    /\ fresh = Requests
    /\ queue = {}
    /\ ports = [p \in PortIDs |-> NoPort]
    /\ fips = [f \in FipIDs |-> NoFip]
    /\ w = IdleWorker
    /\ faults = 0
    /\ abandoned = {}

=============================================================================
