---------------------------- MODULE ResourceCleanup ----------------------------
(***************************************************************************)
(* Cleanup of one Service's OpenStack resources (w.cur, as read into       *)
(* w.snap) and the removal of its finalizer: resource_cleanup.go and, in   *)
(* utils.go, HandleServiceFinalizationWithForce and forceFinalizerRemoval. *)
(* Both the service handler and the deletion of an OpenStackLoadBalancer   *)
(* come here.                                                              *)
(***************************************************************************)
EXTENDS Provisioning

(* Faulty variants of the two searches: any floating IP the operator made; *)
(* only the port named by the annotation.                                  *)
AnyFloatingIP(s, c) == {f \in GetAllFloatingIPs : fips[f].svc # None}
AnnotatedPort(s, c) == {p \in GetAllPorts : p = c.portAnn}

(* identifyFloatingIPsToDelete and identifyPortsToDelete: the annotations, *)
(* the port association, and a search of the resource's text.              *)
FloatingIPsToDelete(s, c) ==
    {f \in GetAllFloatingIPs :
        \/ f = c.fipAnn
        \/ c.portAnn # None /\ fips[f].port = c.portAnn
        \/ <<fips[f].svc, s>> \in Mentions}

PortsToDelete(s, c) ==
    {p \in GetAllPorts : p = c.portAnn \/ <<ports[p].svc, s>> \in Mentions}

(* What follows the handling of one Service: the next one of a deletion   *)
(* loop, or the end of the service handler.                               *)
ServiceHandled(rq) ==
    IF w.req \in LBs
    THEN [w EXCEPT !.pc = "delLoop", !.cur = None, !.delF = {}, !.delP = {}, !.clr = {},
                   !.fail = FALSE, !.requeue = w.requeue \/ rq]
    ELSE ReturnWith(rq)

(* Faulty variants of CleanupReturns: a cleanup never forced; a Service     *)
(* forced whether it is terminating or not.                                 *)
NeverForced(failed) ==
    LET c == w.snap[w.cur] IN
    IF failed \/ HasResourceAnnotations(c) THEN ServiceHandled(TRUE)
    ELSE IF ~c.deleting THEN ServiceHandled(FALSE)
    ELSE [w EXCEPT !.pc = "unfinalize"]

AlwaysForced(failed) ==
    LET c == w.snap[w.cur] IN
    IF HasResourceAnnotations(c) THEN [w EXCEPT !.pc = "force", !.fail = failed]
    ELSE IF failed THEN ServiceHandled(TRUE)
    ELSE [w EXCEPT !.pc = "unfinalize"]

(* CleanupResourcesForService returns, failed or not. It looks for left-   *)
(* over annotations on the Service as read, so a Service that came with    *)
(* annotations always counts as incomplete; a terminating one is then      *)
(* forced by shouldForceCleanup.                                           *)
CleanupReturns(failed) ==
    LET c == w.snap[w.cur] IN
    IF ~c.deleting THEN ServiceHandled(failed \/ HasResourceAnnotations(c))
    ELSE IF HasResourceAnnotations(c) THEN [w EXCEPT !.pc = "force", !.fail = failed]
    ELSE IF failed THEN ServiceHandled(TRUE)
    ELSE [w EXCEPT !.pc = "unfinalize"]

(* Both lists are taken before the first deletion. *)
ListResources ==
    /\ w.pc = "list"
    /\ \/ /\ w' = [w EXCEPT !.pc = "delFips",
                            !.delF = FloatingIPsToDelete(w.cur, w.snap[w.cur]),
                            !.delP = PortsToDelete(w.cur, w.snap[w.cur])]
          /\ UNCHANGED faults
       \/ Fault("neutron") /\ w' = CleanupReturns(TRUE)
    /\ UNCHANGED <<kube, cache, fresh, queue, neutron, abandoned>>

(* An annotation is to be cleared when the resource it names was deleted. *)
FipDeleted(f) ==
    [w EXCEPT !.delF = w.delF \ {f},
              !.clr = IF f = w.snap[w.cur].fipAnn THEN w.clr \cup {"fip"} ELSE w.clr]

PortDeleted(p) ==
    [w EXCEPT !.delP = w.delP \ {p},
              !.clr = IF p = w.snap[w.cur].portAnn THEN w.clr \cup {"port"} ELSE w.clr]

DeleteFips ==
    /\ w.pc = "delFips"
    /\ \E f \in w.delF :
          DeleteFloatingIP(f, FipDeleted(f), [w EXCEPT !.delF = w.delF \ {f}, !.fail = TRUE])
    /\ UNCHANGED <<kube, cache, fresh, queue, abandoned>>

FipsDone ==
    /\ w.pc = "delFips" /\ w.delF = {}
    /\ w' = [w EXCEPT !.pc = "delPorts"]
    /\ UNCHANGED <<kube, cache, fresh, queue, neutron, faults, abandoned>>

DeletePorts ==
    /\ w.pc = "delPorts"
    /\ \E p \in w.delP :
          DeletePort(p, PortDeleted(p), [w EXCEPT !.delP = w.delP \ {p}, !.fail = TRUE])
    /\ UNCHANGED <<kube, cache, fresh, queue, abandoned>>

PortsDone ==
    /\ w.pc = "delPorts" /\ w.delP = {}
    /\ w' = IF w.clr = {} THEN CleanupReturns(w.fail)
                          ELSE [w EXCEPT !.pc = "clearAnnotations"]
    /\ UNCHANGED <<kube, cache, fresh, queue, neutron, faults, abandoned>>

ClearAnnotations ==
    /\ w.pc = "clearAnnotations"
    /\ UpdateService(w.cur,
           [csvc[w.cur] EXCEPT
               !.portAnn = IF "port" \in w.clr THEN None ELSE csvc[w.cur].portAnn,
               !.fipAnn = IF "fip" \in w.clr THEN None ELSE csvc[w.cur].fipAnn],
           CleanupReturns(w.fail), CleanupReturns(TRUE))
    /\ UNCHANGED <<lb, cache, queue, neutron, abandoned>>

-----------------------------------------------------------------------------
(* History: when w.fail says the cleanup failed, dropping the finalizer    *)
(* gives up on what is left of the Service's resources.                    *)
LeftBehind(s) ==
    IF w.fail /\ svc[s].fin
    THEN abandoned \cup {p \in PortIDs : LivePort(p) /\ ports[p].svc = s}
                   \cup {f \in FipIDs : LiveFip(f) /\ fips[f].svc = s}
    ELSE abandoned

(* The normal removal: updateResourceWithRetry on the copy read before the *)
(* cleanup. A terminating Service whose update fails is forced.            *)
RemoveServiceFinalizer ==
    /\ w.pc = "unfinalize"
    /\ UpdateResource(w.cur, [w.snap[w.cur] EXCEPT !.fin = FALSE],
                      ServiceHandled(FALSE), [w EXCEPT !.pc = "force"])
    /\ abandoned' = IF svc'[w.cur].fin THEN abandoned ELSE LeftBehind(w.cur)
    /\ UNCHANGED <<lb, cache, queue, neutron>>

(* The patch {"metadata":{"finalizers":null}} on the Service of that name: *)
(* it carries no resourceVersion and drops every finalizer.                *)
ForceFinalizerRemoval ==
    /\ w.pc = "force"
    /\ \/ /\ svc[w.cur].exists
          /\ WriteService(w.cur, [svc[w.cur] EXCEPT !.fin = FALSE, !.otherFin = FALSE])
          /\ Written(ServiceHandled(FALSE), ServiceHandled(TRUE))
          /\ abandoned' = LeftBehind(w.cur)
       \/ /\ ~svc[w.cur].exists
          /\ w' = ServiceHandled(TRUE)
          /\ UNCHANGED <<svc, fresh, faults, abandoned>>
       \/ /\ Fault("api")
          /\ w' = ServiceHandled(TRUE)
          /\ UNCHANGED <<svc, fresh, abandoned>>
    /\ UNCHANGED <<lb, cache, queue, neutron>>

=============================================================================
