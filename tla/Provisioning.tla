----------------------------- MODULE Provisioning -----------------------------
(***************************************************************************)
(* Reconcile of an OpenStackLoadBalancer that is not being deleted:        *)
(* internal/controller/openstackloadbalancer_controller.go, Reconcile and  *)
(* processService with the ensure functions it calls. An action is what    *)
(* happens between two calls to the API server or to Neutron. The Services *)
(* are those listed when the loop began (w.snap); the loop never rereads   *)
(* them.                                                                   *)
(***************************************************************************)
EXTENDS OpenStackClient

(* Faulty variant of Branch: the finalizer is looked at before the          *)
(* deletionTimestamp.                                                       *)
BranchFinalizerFirst(b) ==
    CASE ~b.exists                         -> "return"
      [] b.exists /\ b.fin                 -> "lbClient"
      [] b.exists /\ ~b.fin /\ b.deleting  -> "delClient"
      [] OTHER                             -> "lbFinalizer"

(* Reconcile, with its cached Get: where the pass over the object goes. *)
Branch(b) ==
    CASE ~b.exists                        -> "return"
      [] b.exists /\ b.deleting           -> "delClient"
      [] b.exists /\ ~b.deleting /\ b.fin -> "lbClient"
      [] OTHER                            -> "lbFinalizer"

Reconcile(l) ==
    /\ w.pc = "idle" /\ l \in queue
    /\ queue' = queue \ {l}
    /\ w' = [IdleWorker EXCEPT !.pc = Branch(clb[l]), !.req = l, !.mem = clb[l]]
    /\ UNCHANGED <<kube, cache, fresh, neutron, faults, abandoned>>

AddLBFinalizer ==
    /\ w.pc = "lbFinalizer"
    /\ UpdateLB(w.req, TRUE, ReturnWith(FALSE), ReturnWith(TRUE))
    /\ UNCHANGED <<svc, cache, queue, neutron, abandoned>>

(* Faulty variant of Eligible: terminating Services are provisioned too. *)
EligibleTerminating(l, s, c) ==
    c.exists /\ <<s, l>> \in Matches /\ c.lbType /\ c.ip # None

(* The Services the loop processes. *)
Eligible(l, s, c) ==
    /\ c.exists /\ <<s, l>> \in Matches /\ c.lbType
    /\ ~c.deleting /\ c.ip # None

(* setCondition on the copy in memory; the status is written at the end. *)
SetCondition(b, type, reason) == [b EXCEPT !.cond = [b.cond EXCEPT ![type] = reason]]

(* getOpenStackClient, then the cached List of Services. *)
ListServices ==
    /\ w.pc = "lbClient"
    /\ \/ /\ w' = [w EXCEPT !.pc = "loop", !.client = NewClient(w.req), !.snap = csvc,
                            !.todo = {s \in Services : Eligible(w.req, s, csvc[s])}]
          /\ UNCHANGED faults
       \/ /\ Fault("client")
          /\ w' = [w EXCEPT !.pc = "status", 
                            !.mem = SetCondition(w.mem, "Ready", "OpenStackClientError")]
    /\ UNCHANGED <<kube, cache, fresh, queue, neutron, abandoned>>

-----------------------------------------------------------------------------
(* processService *)

AfterCredentials == IF w.mem.net = None THEN "network" ELSE "port"
AfterFinalizer(c) == IF c.cred = None THEN "credentials" ELSE AfterCredentials

(* Faulty variant of FirstStep: resources before the finalizer. *)
FirstStepUnprotected(c) == AfterFinalizer(c)

FirstStep(c) == IF c.fin THEN AfterFinalizer(c) ELSE "svcFinalizer"

ProcessService ==
    /\ w.pc = "loop"
    /\ \E s \in w.todo :
          w' = [w EXCEPT !.todo = w.todo \ {s}, !.cur = s, !.pc = FirstStep(w.snap[s])]
    /\ UNCHANGED <<kube, cache, fresh, queue, neutron, faults, abandoned>>

(* processService returns (rq, err). *)
Processed(rq, err) ==
    [w EXCEPT !.pc = "loop", !.cur = None, !.pid = None, !.fid = None,
              !.requeue = w.requeue \/ rq, !.err = w.err \/ err]

EnsureServiceHasFinalizer ==
    /\ w.pc = "svcFinalizer"
    /\ UpdateResource(w.cur, [w.snap[w.cur] EXCEPT !.fin = TRUE],
                      Processed(TRUE, FALSE), Processed(TRUE, TRUE))
    /\ UNCHANGED <<lb, cache, queue, neutron, abandoned>>

EnsureServiceHasCredentials ==
    /\ w.pc = "credentials"
    /\ UpdateService(w.cur, [csvc[w.cur] EXCEPT !.cred = w.req],
                     [w EXCEPT !.pc = AfterCredentials], Processed(TRUE, TRUE))
    /\ UNCHANGED <<lb, cache, queue, neutron, abandoned>>

DetectNetworkForLB ==
    LET subnet == DetectNetworkForIP(w.snap[w.cur].ip) IN
    /\ w.pc = "network"
    /\ \/ /\ subnet # None
          /\ w' = [w EXCEPT !.pc = "port",
                            !.mem = SetCondition([w.mem EXCEPT !.net = subnet],
                                                 "NetworkDetected", "NetworkDetected")]
          /\ UNCHANGED faults
       \/ /\ w' = [Processed(TRUE, TRUE) EXCEPT
                        !.mem = SetCondition(w.mem, "NetworkDetected", "NetworkDetectionFailed")]
          /\ (subnet = None /\ UNCHANGED faults) \/ Fault("neutron")
    /\ UNCHANGED <<kube, cache, fresh, queue, neutron, abandoned>>

(* Faulty variant of WithPort: the floating IP is forgotten. *)
WithPortOnly(p) == Processed(FALSE, FALSE)

(* With a port in hand: the floating IP, if the LB asks for one. *)
WithPort(p) ==
    IF w.mem.fip = "off" THEN Processed(FALSE, FALSE)
                         ELSE [w EXCEPT !.pc = "fip", !.pid = p]

(* ensurePortExists with the annotation set: GetPort. *)
VerifyPort ==
    LET p == w.snap[w.cur].portAnn IN
    /\ w.pc = "port" /\ p # None
    /\ \/ VisiblePort(p) /\ w' = WithPort(p) /\ UNCHANGED faults
       \/ ~VisiblePort(p) /\ w' = [w EXCEPT !.pc = "clearPort"] /\ UNCHANGED faults
       \/ Fault("neutron") /\ w' = Processed(TRUE, TRUE)
    /\ UNCHANGED <<kube, cache, fresh, queue, neutron, abandoned>>

ClearPortAnnotation ==
    /\ w.pc = "clearPort"
    /\ UpdateService(w.cur, [csvc[w.cur] EXCEPT !.portAnn = None],
                     Processed(TRUE, FALSE), Processed(TRUE, TRUE))
    /\ UNCHANGED <<lb, cache, queue, neutron, abandoned>>

(* ensurePortExists without the annotation: CreatePort, its tags, and then *)
(* the annotation.                                                         *)
EnsurePortExists ==
    /\ w.pc = "port" /\ w.snap[w.cur].portAnn = None
    /\ CreatePort(w.cur, Processed(TRUE, TRUE))
    /\ UNCHANGED <<kube, cache, fresh, queue, fips, abandoned>>

TagPort ==
    /\ w.pc = "tagPort"
    /\ SetPortTags(w.pid, [w EXCEPT !.pc = "annotatePort"])
    /\ UNCHANGED <<kube, cache, fresh, queue, fips, abandoned>>

AnnotatePort ==
    /\ w.pc = "annotatePort"
    /\ UpdateService(w.cur, [csvc[w.cur] EXCEPT !.portAnn = w.pid],
                     WithPort(w.pid), Processed(TRUE, TRUE))
    /\ UNCHANGED <<lb, cache, queue, neutron, abandoned>>

-----------------------------------------------------------------------------
(* handleFloatingIP *)

(* With the annotation set: GetFloatingIP and GetFloatingIPDetails. *)
VerifyFloatingIP ==
    LET f == w.snap[w.cur].fipAnn IN
    /\ w.pc = "fip" /\ f # None
    /\ \/ /\ VisibleFip(f)
          /\ w' = [w EXCEPT !.pc = "externalIPs", !.fid = f]
          /\ UNCHANGED faults
       \/ ~VisibleFip(f) /\ w' = [w EXCEPT !.pc = "clearFip"] /\ UNCHANGED faults
       \/ Fault("neutron") /\ w' = Processed(TRUE, TRUE)
    /\ UNCHANGED <<kube, cache, fresh, queue, neutron, abandoned>>

ClearFipAnnotation ==
    /\ w.pc = "clearFip"
    /\ UpdateService(w.cur, [csvc[w.cur] EXCEPT !.fipAnn = None],
                     Processed(TRUE, FALSE), Processed(TRUE, TRUE))
    /\ UNCHANGED <<lb, cache, queue, neutron, abandoned>>

(* createOrFindFloatingIP up to GetFloatingIPByPortID. *)
FindFloatingIP ==
    LET found == GetFloatingIPByPortID(w.pid) IN
    /\ w.pc = "fip" /\ w.snap[w.cur].fipAnn = None
    /\ \/ w.mem.fip = "noNetwork" /\ w' = Processed(TRUE, TRUE) /\ UNCHANGED faults
       \/ /\ w.mem.fip = "on"
          /\ \E f \in found : w' = [w EXCEPT !.pc = "annotateFip", !.fid = f]
          /\ UNCHANGED faults
       \/ /\ w.mem.fip = "on" /\ found = {}
          /\ w' = [w EXCEPT !.pc = "createFip"]
          /\ UNCHANGED faults
       \/ w.mem.fip = "on" /\ Fault("neutron") /\ w' = Processed(TRUE, TRUE)
    /\ UNCHANGED <<kube, cache, fresh, queue, neutron, abandoned>>

CreateNewFloatingIP ==
    /\ w.pc = "createFip"
    /\ CreateFloatingIP(w.cur, w.pid, Processed(TRUE, TRUE))
    /\ UNCHANGED <<kube, cache, fresh, queue, ports, abandoned>>

TagFip ==
    /\ w.pc = "tagFip"
    /\ SetFipTags(w.fid, [w EXCEPT !.pc = "annotateFip"])
    /\ UNCHANGED <<kube, cache, fresh, queue, ports, abandoned>>

(* Faulty variant of AnnotateFip: the port's ID in the wrong annotation. *)
AnnotateFipWithPort ==
    /\ w.pc = "annotateFip"
    /\ UpdateService(w.cur, [csvc[w.cur] EXCEPT !.fipAnn = w.pid],
                     [w EXCEPT !.pc = "externalIPs"], Processed(TRUE, TRUE))
    /\ UNCHANGED <<lb, cache, queue, neutron, abandoned>>

AnnotateFip ==
    /\ w.pc = "annotateFip"
    /\ UpdateService(w.cur, [csvc[w.cur] EXCEPT !.fipAnn = w.fid],
                     [w EXCEPT !.pc = "externalIPs"], Processed(TRUE, TRUE))
    /\ UNCHANGED <<lb, cache, queue, neutron, abandoned>>

(* Nothing is written when the cached Service already lists the address. *)
UpdateServiceExternalIPs ==
    /\ w.pc = "externalIPs"
    /\ \/ /\ w.fid \in csvc[w.cur].ext
          /\ w' = Processed(FALSE, FALSE)
          /\ UNCHANGED <<svc, fresh, faults>>
       \/ /\ w.fid \notin csvc[w.cur].ext
          /\ UpdateService(w.cur, [csvc[w.cur] EXCEPT !.ext = csvc[w.cur].ext \cup {w.fid}],
                           Processed(FALSE, FALSE), Processed(TRUE, TRUE))
    /\ UNCHANGED <<lb, cache, queue, neutron, abandoned>>

-----------------------------------------------------------------------------
(* Faulty variant of Verdict: a loop that processed nothing counts as done. *)
VerdictUnlessFailed ==
    IF w.err THEN SetCondition(w.mem, "Ready", "ProcessingError")
    ELSE SetCondition([w.mem EXCEPT !.ready = TRUE], "Ready", "ResourcesReady")

(* The end of the loop: the Ready condition, then updateStatusWithRetry. *)
Verdict ==
    IF ~\E s \in Services : Eligible(w.req, s, w.snap[s])
    THEN SetCondition(w.mem, "Ready", "NoMatchingService")
    ELSE IF w.err THEN SetCondition(w.mem, "Ready", "ProcessingError")
    ELSE SetCondition([w.mem EXCEPT !.ready = TRUE], "Ready", "ResourcesReady")

EndLoop ==
    /\ w.pc = "loop" /\ w.todo = {}
    /\ w' = [w EXCEPT !.pc = "status", !.mem = Verdict]
    /\ UNCHANGED <<kube, cache, fresh, queue, neutron, faults, abandoned>>

WriteStatus ==
    /\ w.pc = "status"
    /\ UpdateStatus(w.req, ReturnWith(w.requeue), ReturnWith(TRUE))
    /\ UNCHANGED <<svc, cache, queue, neutron, abandoned>>

=============================================================================
