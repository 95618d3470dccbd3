------------------------------ MODULE LBOperator ------------------------------
(***************************************************************************)
(* The whole operator in its environment: users and other controllers that *)
(* create, change and delete Services, OpenStackLoadBalancers, ports and   *)
(* floating IPs, the informers, and the one reconcile worker.              *)
(***************************************************************************)
EXTENDS WatchQueue

-----------------------------------------------------------------------------
(* Users and other controllers, through the API server *)

Outside == UNCHANGED <<cache, queue, w, abandoned>>

CreateService(s) ==
    /\ ~svc[s].exists /\ svc[s].uid < MaxUID
    /\ WriteService(s, [NoService(svc[s].uid + 1) EXCEPT !.exists = TRUE, !.lbType = TRUE])
    /\ UNCHANGED <<lb, neutron, faults>> /\ Outside

(* The IP provider (MetalLB) gives a Service an address no other one has. *)
AssignIP(s) ==
    /\ svc[s].exists /\ svc[s].lbType /\ ~svc[s].deleting /\ svc[s].ip = None
    /\ \E ip \in IPs :
          /\ \A t \in Services : svc[t].ip # ip
          /\ WriteService(s, [svc[s] EXCEPT !.ip = ip])
    /\ UNCHANGED <<lb, neutron, faults>> /\ Outside

(* The IP provider moves a Service to another address. *)
ReassignIP(s) ==
    /\ svc[s].exists /\ svc[s].lbType /\ ~svc[s].deleting /\ svc[s].ip # None
    /\ Fault("readdress")
    /\ \E ip \in IPs :
          /\ \A t \in Services : svc[t].ip # ip
          /\ WriteService(s, [svc[s] EXCEPT !.ip = ip])
    /\ UNCHANGED <<lb, neutron>> /\ Outside

DeleteService(s) ==
    /\ svc[s].exists /\ ~svc[s].deleting
    /\ WriteService(s, [svc[s] EXCEPT !.deleting = TRUE])
    /\ UNCHANGED <<lb, neutron, faults>> /\ Outside

(* A user turns the Service into another type; its address is released. *)
EditService(s) ==
    /\ svc[s].exists /\ ~svc[s].deleting /\ svc[s].lbType /\ Fault("edit")
    /\ WriteService(s, [svc[s] EXCEPT !.lbType = FALSE, !.ip = None])
    /\ UNCHANGED <<lb, neutron>> /\ Outside

AddOtherFinalizer(s) ==
    /\ svc[s].exists /\ ~svc[s].deleting /\ ~svc[s].otherFin /\ Fault("otherFin")
    /\ WriteService(s, [svc[s] EXCEPT !.otherFin = TRUE])
    /\ UNCHANGED <<lb, neutron>> /\ Outside

(* The other controller has done its own cleanup. *)
RemoveOtherFinalizer(s) ==
    /\ svc[s].exists /\ svc[s].deleting /\ svc[s].otherFin
    /\ WriteService(s, [svc[s] EXCEPT !.otherFin = FALSE])
    /\ UNCHANGED <<lb, neutron, faults>> /\ Outside

CreateLB(l) ==
    /\ ~lb[l].exists /\ lb[l].uid < MaxUID
    /\ \E f \in FipChoices :
          WriteLB(l, [NoLB(lb[l].uid + 1) EXCEPT !.exists = TRUE, !.fip = f])
    /\ UNCHANGED <<svc, neutron, faults>> /\ Outside

(* A user changes what the LB asks for. *)
EditLB(l) ==
    /\ lb[l].exists /\ Fault("editLB")
    /\ \E f \in FipSpecs \ {lb[l].fip} : WriteLB(l, [lb[l] EXCEPT !.fip = f])
    /\ UNCHANGED <<svc, neutron>> /\ Outside

DeleteLB(l) ==
    /\ lb[l].exists /\ ~lb[l].deleting
    /\ WriteLB(l, [lb[l] EXCEPT !.deleting = TRUE])
    /\ UNCHANGED <<svc, neutron, faults>> /\ Outside

-----------------------------------------------------------------------------
(* Users of OpenStack *)

DeletePortOutside(p) ==
    /\ LivePort(p) /\ Fault("external")
    /\ RemovePort(p)
    /\ UNCHANGED <<kube, fresh>> /\ Outside

DeleteFipOutside(f) ==
    /\ LiveFip(f) /\ Fault("external")
    /\ RemoveFip(f)
    /\ UNCHANGED <<kube, fresh>> /\ Outside

(* A user's own floating IP, without the operator's tags or description. *)
AttachUserFip(p) ==
    /\ LivePort(p) /\ (\A f \in FipIDs : LiveFip(f) => fips[f].port # p)
    /\ Fault("userFip")
    /\ \E f \in FipIDs :
          /\ FreeFipID(f)
          /\ fips' = [fips EXCEPT ![f] = [live |-> TRUE, svc |-> None, port |-> p,
                                          proj |-> ports[p].proj, tagged |-> FALSE]]
    /\ UNCHANGED <<kube, fresh, ports>> /\ Outside

-----------------------------------------------------------------------------
Environment ==
    \/ \E s \in Services : CreateService(s) \/ AssignIP(s) \/ DeleteService(s)
    \/ \E s \in Services : ReassignIP(s) \/ EditService(s)
    \/ \E s \in Services : AddOtherFinalizer(s) \/ RemoveOtherFinalizer(s)
    \/ \E l \in LBs : CreateLB(l) \/ EditLB(l) \/ DeleteLB(l)
    \/ \E p \in PortIDs : DeletePortOutside(p) \/ AttachUserFip(p)
    \/ \E f \in FipIDs : DeleteFipOutside(f)

Provision ==
    \/ AddLBFinalizer \/ ListServices \/ ProcessService
    \/ EnsureServiceHasFinalizer \/ EnsureServiceHasCredentials \/ DetectNetworkForLB
    \/ VerifyPort \/ ClearPortAnnotation \/ EnsurePortExists \/ TagPort \/ AnnotatePort
    \/ VerifyFloatingIP \/ ClearFipAnnotation \/ FindFloatingIP \/ CreateNewFloatingIP
    \/ TagFip \/ AnnotateFip \/ UpdateServiceExternalIPs
    \/ EndLoop \/ WriteStatus

Cleanup ==
    \/ ListResources \/ DeleteFips \/ FipsDone \/ DeletePorts \/ PortsDone
    \/ ClearAnnotations \/ RemoveServiceFinalizer \/ ForceFinalizerRemoval

Delete == StartDeletion \/ CleanupService \/ EndDeletion \/ RemoveLBFinalizer

Handle ==
    EnsureServiceFinalizer \/ UpdateServiceWithCredentials \/ GetOpenStackClientFromService

(* The steps of a reconcile that has begun. *)
Work == Provision \/ Cleanup \/ Delete \/ Handle \/ Return

Dequeue(r) == (r \in LBs /\ Reconcile(r)) \/ (r \in Services /\ ReconcileService(r))

Sync(r) == (r \in LBs /\ SyncLB(r)) \/ (r \in Services /\ SyncService(r))

Next ==
    \/ Environment
    \/ Work
    \/ \E r \in Requests : Dequeue(r) \/ Sync(r)
    \/ Resync
    \/ Restart

Spec == Init /\ [][Next]_vars

(* The worker keeps running and the informers keep up. The queue is FIFO,  *)
(* so no request waits for ever while others are taken: strong fairness of *)
(* each Dequeue. Nothing is assumed of users or faults.                    *)
Fairness ==
    /\ WF_vars(Work)
    /\ \A r \in Requests : WF_vars(Sync(r)) /\ SF_vars(Dequeue(r))

FairSpec == Spec /\ Fairness

(* With the periodic resync, which the informers do not skip for ever. *)
ResyncSpec == FairSpec /\ WF_vars(Resync)

-----------------------------------------------------------------------------
(* Safety *)

Protected(s) == svc[s].exists /\ svc[s].fin

(* A port or floating IP the operator created is never left behind in       *)
(* silence: as long as it lives, its Service still exists and carries the   *)
(* operator's finalizer, so that a cleanup is still to come, unless the     *)
(* operator dropped the finalizer knowing that the cleanup had failed       *)
(* (utils.go, HandleServiceFinalizationWithForce).                          *)
NoSilentLeak ==
    /\ \A p \in PortIDs : LivePort(p) => Protected(ports[p].svc) \/ p \in abandoned
    /\ \A f \in FipIDs : LiveFip(f) /\ fips[f].svc # None
                             => Protected(fips[f].svc) \/ f \in abandoned

(* The finalizer of an OpenStackLoadBalancer goes only after the ports of   *)
(* its class (controller, handleDeletion): a live port always has an LB     *)
(* with a finalizer to answer for it, except where an LB was let go because *)
(* no client could be made, or the port was knowingly abandoned.            *)
PortsAnsweredFor ==
    \A p \in PortIDs : LivePort(p) =>
        \/ p \in abandoned
        \/ \E l \in LBs : /\ <<ports[p].svc, l>> \in Matches
                         /\ (l \in abandoned \/ (lb[l].exists /\ lb[l].fin))

(* The operator (a step of w) deletes a port or floating IP of its own only *)
(* for a reason that holds in the API server, not just in a stale cache     *)
(* (resource_cleanup.go): the Service is being deleted or gone, an          *)
(* OpenStackLoadBalancer of its class is and its deletion is handled, or    *)
(* the resource was abandoned by an earlier Service of the name.            *)
Doomed(b) == ~b.exists \/ b.deleting
LBDoomed == w.req \in LBs /\ (Doomed(lb[w.req]) \/ lb[w.req].uid # w.mem.uid)

MayDelete(s, id) ==
    Doomed(svc[s]) \/ id \in abandoned \/ (LBDoomed /\ <<s, w.req>> \in Matches)

DeletesJustified ==
    [][w' # w =>
         /\ \A p \in PortIDs : LivePort(p) /\ ~LivePort(p)' => MayDelete(ports[p].svc, p)
         /\ \A f \in FipIDs : LiveFip(f) /\ fips[f].svc # None /\ ~LiveFip(f)'
                                  => MayDelete(fips[f].svc, f)]_vars

(* A Service that records a port or a floating IP and is not being deleted  *)
(* always carries the finalizer, whatever write, stale or forced, came last *)
(* (ensureServiceHasFinalizer precedes every annotation of a resource).     *)
AnnotatedIsProtected ==
    \A s \in Services : svc[s].exists /\ ~svc[s].deleting /\ HasResourceAnnotations(svc[s])
                        => svc[s].fin

(* The step that removes "the old port ID" from a Service (controller,      *)
(* ensurePortExists) never removes the ID of a port that exists.            *)
OnlyOldPortIDsCleared ==
    [][w.pc = "clearPort" /\ w' # w /\ svc'[w.cur].exists /\ svc'[w.cur].portAnn = None
         => \A p \in PortIDs : svc[w.cur].portAnn = p => ~LivePort(p)]_vars

(* The forced removal of the operator's finalizer leaves the finalizers of  *)
(* other controllers alone (utils.go, forceFinalizerRemoval: "avoiding      *)
(* conflicts with other controllers").                                      *)
OthersFinalizersKept ==
    [][\A s \in Services : w.pc = "force" /\ w' # w /\ svc[s].otherFin
                               => svc'[s].otherFin]_vars

(* A step of the operator never undoes a user's change to the Service or to *)
(* the LB (utils.go, updateResourceWithRetry: "ensure we're updating the    *)
(* latest version").                                                        *)
UserChangesKept ==
    [][w' # w =>
         /\ \A s \in Services : svc[s].exists /\ svc'[s].exists
                                    => svc'[s].lbType = svc[s].lbType
         /\ \A l \in LBs : lb[l].exists /\ lb'[l].exists => lb'[l].fip = lb[l].fip]_vars

(* The operator never deletes a floating IP that a user made, although it   *)
(* adopts, annotates and publishes one it finds on its port                 *)
(* (createOrFindFloatingIP): common.go, deleteResource refuses it, as long  *)
(* as the tags can be read.                                                 *)
UserFipsKept ==
    [][w' # w /\ faults' = faults =>
         \A f \in FipIDs : LiveFip(f) /\ fips[f].svc = None => LiveFip(f)']_vars

-----------------------------------------------------------------------------
(* Liveness *)

(* What even a forced cleanup does not get past: a resource that could not  *)
(* be tagged, so that it is not deleted, and that no annotation names, so   *)
(* that nothing is forced.                                                  *)
Stranded(s) ==
    /\ ~HasResourceAnnotations(svc[s])
    /\ \/ \E p \in PortIDs : LivePort(p) /\ ports[p].svc = s /\ ~ports[p].tagged
       \/ \E f \in FipIDs : LiveFip(f) /\ fips[f].svc = s /\ ~fips[f].tagged

(* A Service being deleted is let go (service_handler.go: "to avoid         *)
(* blocking service deletion"): through crashes, lost replies and failed    *)
(* calls, only a stranded resource can block it for ever.                   *)
TerminatingServiceReleased ==
    \A s \in Services : <>[](svc[s].deleting /\ svc[s].fin) => <>[]Stranded(s)

(* The deletion of an OpenStackLoadBalancer completes (handleDeletion).     *)
LBDeletionCompletes ==
    \A l \in LBs : lb[l].deleting ~> ~lb[l].deleting

Demand(s) ==
    /\ svc[s].exists /\ ~svc[s].deleting /\ svc[s].lbType /\ svc[s].ip # None
    /\ \E l \in LBs : /\ <<s, l>> \in Matches /\ lb[l].exists /\ ~lb[l].deleting
                      /\ lb[l].fip # "noNetwork"

Provisioned(s) ==
    /\ svc[s].portAnn # None /\ LivePort(svc[s].portAnn)
    /\ ports[svc[s].portAnn].svc = s /\ ports[svc[s].portAnn].ip = svc[s].ip
    /\ (\A l \in LBs : <<s, l>> \in Matches => lb[l].fip = "on")
          => \E f \in FipIDs : LiveFip(f) /\ fips[f].port = svc[s].portAnn /\ f \in svc[s].ext

Usable(l) == lb[l].exists /\ ~lb[l].deleting /\ lb[l].fip # "noNetwork"
Serving(l) == \E s \in Services : Eligible(l, s, svc[s])

Served(b) ==
    /\ b.cond["Ready"] = "ResourcesReady" /\ b.ready
    /\ b.cond["NetworkDetected"] = "NetworkDetected" /\ b.net # None

(* The status of an LB follows the cluster (controller, end of Reconcile):  *)
(* after failed calls, and although each pass overwrites the whole status   *)
(* with one computed from a copy that may be stale, it settles at ready     *)
(* with a network when there is a Service to serve, and at "no matching     *)
(* service" when there is none.                                             *)
StatusConverges ==
    \A l \in LBs :
        /\ <>[](Usable(l) /\ Serving(l)) => <>[]Served(lb[l])
        /\ <>[](Usable(l) /\ ~Serving(l)) => <>[](lb[l].cond["Ready"] = "NoMatchingService")

(* A LoadBalancer Service with an address and an OpenStackLoadBalancer of   *)
(* its class ends up with its port, and its floating IP if asked for,       *)
(* recorded on it (README: "Automatic OpenStack port creation").            *)
ServiceProvisioned ==
    \A s \in Services : <>[]Demand(s) => <>[]Provisioned(s)

=============================================================================
