----------------------------- MODULE CustodyProofs -----------------------------
(***************************************************************************)
(* The operator implements ResourceCustody, for every value of the         *)
(* constants. Every step is seen through the refinement mapping: what it   *)
(* does to the finalizers (Guarded), to the resources (Held) and to what   *)
(* was given up (Lost).                                                    *)
(***************************************************************************)
EXTENDS LeakProofs, CustodyRefinement

(* A step of the custody, or none. *)
Step == Custody!Next \/ (Guarded' = Guarded /\ Held' = Held /\ Lost' = Lost)

-----------------------------------------------------------------------------
(* The finalizers *)

(* The guards change only with the finalizers. *)
LEMMA GuardsKept ==
    ASSUME \A s \in Services : svc'[s].exists /\ svc'[s].fin <=> Protected(s)
    PROVE  Guarded' = Guarded
  BY DEF Guarded, Protected

(* A write keeps the guards when it keeps the finalizer. *)
LEMMA WriteGuards ==
    ASSUME TypeOK, NEW s \in Services, NEW c, WriteService(s, c),
           c.exists /\ c.fin <=> Protected(s)
    PROVE  Guarded' = Guarded
  <1>1. svc' = [svc EXCEPT ![s] = Settle(c)] /\ svc \in [Services -> Service]
    BY DEF WriteService, TypeOK
  <1>2. Settle(c).exists /\ Settle(c).fin <=> c.exists /\ c.fin
    BY DEF Settle, NoService
  <1> QED
    BY <1>1, <1>2, GuardsKept DEF Protected

(* The annotation updates keep the guards: a stale copy is refused. *)
LEMMA UpdateGuards ==
    ASSUME TypeOK, FreshInv, NEW s \in Services, NEW c, NEW done, NEW failed,
           c.exists = csvc[s].exists, c.fin = csvc[s].fin,
           UpdateService(s, c, done, failed)
    PROVE  Guarded' = Guarded
  <1>1. CASE svc' = svc
    BY <1>1, GuardsKept DEF Protected
  <1>2. CASE s \in fresh /\ WriteService(s, c)
    <2>1. csvc[s] = svc[s]
      BY <1>2 DEF FreshInv
    <2> QED
      BY <1>2, <2>1, WriteGuards DEF Protected
  <1> QED
    BY <1>1, <1>2 DEF UpdateService

-----------------------------------------------------------------------------
(* The resources *)

(* What is held depends on which resources live and whose they are. *)
LEMMA HeldKept ==
    ASSUME \A p \in PortIDs : ports'[p].live = ports[p].live /\ ports'[p].svc = ports[p].svc,
           \A f \in FipIDs : fips'[f].live = fips[f].live /\ fips'[f].svc = fips[f].svc
    PROVE  Held' = Held
  BY DEF Held, HeldPorts, HeldFips, LivePort, LiveFip

(* A new floating IP of a user is nobody's. *)
LEMMA UserFipHeld ==
    ASSUME TypeOK, ports' = ports, NEW f \in FipIDs, ~LiveFip(f), NEW v, v.svc = None,
           fips' = [fips EXCEPT ![f] = v]
    PROVE  Held' = Held
  <1>1. fips'[f].svc = None /\ \A g \in FipIDs : g # f => fips'[g] = fips[g]
    BY DEF TypeOK
  <1>2. ~fips[f].live
    BY DEF LiveFip
  <1>3. \A s \in Services : HeldFips(s)' = HeldFips(s)
    BY <1>1, <1>2, NamesAssumption DEF HeldFips, LiveFip
  <1>4. \A s \in Services : HeldPorts(s)' = HeldPorts(s)
    BY DEF HeldPorts, LivePort
  <1> QED
    BY <1>3, <1>4 DEF Held

(* The type of the mapped state, as far as the steps below need it. *)
LEMMA HeldType ==
    Held \in [Services -> SUBSET Resources]
  BY DEF Held, HeldPorts, HeldFips, Resources

(* Deleting a port or a floating IP disposes of it, if it was someone's. *)
LEMMA RemovedHeld ==
    ASSUME TypeOK, Guarded' = Guarded, Lost' = Lost
    PROVE  /\ \A p \in PortIDs : RemovePort(p) => Step
           /\ \A f \in FipIDs : RemoveFip(f) => Step
  <1>1. ASSUME NEW s \in Services, NEW r \in Resources,
               Held'[s] = Held[s] \ {r}, \A t \in Services : t # s => Held'[t] = Held[t]
        PROVE  Step
    <2>1. Held' = [Held EXCEPT ![s] = Held[s] \ {r}]
      BY <1>1, HeldType, HeldType' DEF Held
    <2>2. Custody!Dispose(s, r)
      BY <2>1 DEF Custody!Dispose
    <2> QED
      BY <2>2 DEF Step, Custody!Next
  <1>2. ASSUME NEW p \in PortIDs, RemovePort(p)
        PROVE  Step
    <2>1. ports' = [ports EXCEPT ![p] = NoPort] /\ ports[p] \in Port
      BY <1>2 DEF RemovePort, TypeOK
    <2>2. ~ports'[p].live /\ \A q \in PortIDs : q # p => ports'[q] = ports[q]
      BY <2>1 DEF TypeOK, NoPort
    <2>3. \A f \in FipIDs : fips'[f].live = fips[f].live /\ fips'[f].svc = fips[f].svc
      <3>1. ASSUME NEW f \in FipIDs
            PROVE  fips'[f].live = fips[f].live /\ fips'[f].svc = fips[f].svc
        <4>1. fips[f] \in Fip
          BY DEF TypeOK
        <4> QED
          BY <1>2, <4>1 DEF RemovePort, Fip
      <3> QED
        BY <3>1
    <2>4. \A t \in Services : /\ HeldPorts(t)' = HeldPorts(t) \ {p}
                              /\ HeldFips(t)' = HeldFips(t) /\ p \notin HeldFips(t)
      BY <2>2, <2>3, NamesAssumption DEF HeldPorts, HeldFips, LivePort, LiveFip
    <2>5. \A t \in Services : Held'[t] = Held[t] \ {p}
      BY <2>4 DEF Held
    <2>6. \A t \in Services : t # ports[p].svc => p \notin Held[t]
      BY <2>4 DEF Held, HeldPorts
    <2>7. CASE ports[p].svc \in Services
      <3>1. \A t \in Services : t # ports[p].svc => Held'[t] = Held[t]
        BY <2>5, <2>6
      <3>2. p \in Resources
        BY DEF Resources
      <3> QED
        BY <1>1, <2>5, <2>7, <3>1, <3>2
    <2>8. CASE ports[p].svc \notin Services
      <3>1. \A t \in Services : Held'[t] = Held[t]
        BY <2>5, <2>6, <2>8
      <3> QED
        BY <3>1, HeldType, HeldType' DEF Step, Held
    <2> QED
      BY <2>7, <2>8
  <1>3. ASSUME NEW f \in FipIDs, RemoveFip(f)
        PROVE  Step
    <2>1. /\ ~fips'[f].live /\ \A g \in FipIDs : g # f => fips'[g] = fips[g]
          /\ ports' = ports
      BY <1>3 DEF RemoveFip, TypeOK, NoFip
    <2>2. \A t \in Services : /\ HeldFips(t)' = HeldFips(t) \ {f}
                              /\ HeldPorts(t)' = HeldPorts(t) /\ f \notin HeldPorts(t)
      BY <2>1, NamesAssumption DEF HeldPorts, HeldFips, LivePort, LiveFip
    <2>3. \A t \in Services : Held'[t] = Held[t] \ {f}
      BY <2>2 DEF Held
    <2>4. \A t \in Services : t # fips[f].svc => f \notin Held[t]
      BY <2>2 DEF Held, HeldFips
    <2>5. CASE fips[f].svc \in Services
      <3>1. \A t \in Services : t # fips[f].svc => Held'[t] = Held[t]
        BY <2>3, <2>4
      <3>2. f \in Resources
        BY DEF Resources
      <3> QED
        BY <1>1, <2>3, <2>5, <3>1, <3>2
    <2>6. CASE fips[f].svc \notin Services
      <3>1. \A t \in Services : Held'[t] = Held[t]
        BY <2>3, <2>4, <2>6
      <3> QED
        BY <3>1, HeldType, HeldType' DEF Step, Held
    <2> QED
      BY <2>5, <2>6
  <1> QED
    BY <1>2, <1>3

-----------------------------------------------------------------------------
(* The steps *)

(* Steps that keep finalizers, resources and history are no steps. *)
LEMMA Stutter ==
    ASSUME Guarded' = Guarded, Held' = Held, abandoned' = abandoned
    PROVE  Step
  BY DEF Step, Lost

(* Nothing given up, so nothing lost. *)
LEMMA LostKept ==
    ASSUME abandoned' = abandoned
    PROVE  Lost' = Lost
  BY DEF Lost

(* Neutron untouched, nothing held changes. *)
LEMMA NeutronHeld ==
    ASSUME ports' = ports, fips' = fips
    PROVE  Held' = Held
  BY HeldKept

(* Users and other controllers. *)
LEMMA EnvironmentStep ==
    ASSUME TypeOK, Environment
    PROVE  Step
  <1>1. abandoned' = abandoned
    BY DEF Environment, Outside, CreateService, AssignIP, ReassignIP, DeleteService,
           EditService, AddOtherFinalizer, RemoveOtherFinalizer, CreateLB, EditLB, DeleteLB,
           DeletePortOutside, DeleteFipOutside, AttachUserFip
  <1>2. ASSUME NEW s \in Services, NEW c \in Service, WriteService(s, c),
               ports' = ports, fips' = fips, c.exists /\ c.fin <=> Protected(s)
        PROVE  Step
    BY <1>1, <1>2, WriteGuards, NeutronHeld, Stutter
  <1>3. ASSUME NEW s \in Services, CreateService(s)
        PROVE  Step
    <2> DEFINE c == [NoService(svc[s].uid + 1) EXCEPT !.exists = TRUE, !.lbType = TRUE]
    <2>1. svc[s].uid + 1 \in Nat
      BY DEF TypeOK, Service
    <2>2. c \in Service /\ ~c.fin /\ ~svc[s].exists
      BY <1>3, <2>1 DEF CreateService, NoService, Service
    <2> QED
      BY <1>2, <1>3, <2>2 DEF CreateService, neutron, Protected
  <1>4. ASSUME NEW s \in Services,
               AssignIP(s) \/ ReassignIP(s) \/ DeleteService(s) \/ EditService(s)
                  \/ AddOtherFinalizer(s) \/ RemoveOtherFinalizer(s)
        PROVE  Step
    <2>1. ports' = ports /\ fips' = fips
      BY <1>4 DEF AssignIP, ReassignIP, DeleteService, EditService, AddOtherFinalizer,
                  RemoveOtherFinalizer, neutron
    <2>2. svc[s] \in Service
      BY DEF TypeOK
    <2>3. \E c \in Service : WriteService(s, c) /\ c.exists = svc[s].exists /\ c.fin = svc[s].fin
      <3>1. CASE AssignIP(s) \/ ReassignIP(s)
        <4>1. PICK ip \in IPs : WriteService(s, [svc[s] EXCEPT !.ip = ip])
          BY <3>1 DEF AssignIP, ReassignIP
        <4> DEFINE c == [svc[s] EXCEPT !.ip = ip]
        <4>2. c \in Service /\ c.exists = svc[s].exists /\ c.fin = svc[s].fin
          BY <2>2 DEF Service
        <4> QED
          BY <4>1, <4>2
      <3>2. CASE DeleteService(s)
        <4> DEFINE c == [svc[s] EXCEPT !.deleting = TRUE]
        <4>1. c \in Service /\ c.exists = svc[s].exists /\ c.fin = svc[s].fin
          BY <2>2 DEF Service
        <4> QED
          BY <3>2, <4>1 DEF DeleteService
      <3>3. CASE EditService(s)
        <4> DEFINE c == [svc[s] EXCEPT !.lbType = FALSE, !.ip = None]
        <4>1. c \in Service /\ c.exists = svc[s].exists /\ c.fin = svc[s].fin
          BY <2>2 DEF Service
        <4> QED
          BY <3>3, <4>1 DEF EditService
      <3>4. CASE AddOtherFinalizer(s)
        <4> DEFINE c == [svc[s] EXCEPT !.otherFin = TRUE]
        <4>1. c \in Service /\ c.exists = svc[s].exists /\ c.fin = svc[s].fin
          BY <2>2 DEF Service
        <4> QED
          BY <3>4, <4>1 DEF AddOtherFinalizer
      <3>5. CASE RemoveOtherFinalizer(s)
        <4> DEFINE c == [svc[s] EXCEPT !.otherFin = FALSE]
        <4>1. c \in Service /\ c.exists = svc[s].exists /\ c.fin = svc[s].fin
          BY <2>2 DEF Service
        <4> QED
          BY <3>5, <4>1 DEF RemoveOtherFinalizer
      <3> QED
        BY <1>4, <3>1, <3>2, <3>3, <3>4, <3>5
    <2> QED
      BY <1>2, <2>1, <2>3 DEF Protected
  <1>5. ASSUME svc' = svc
        PROVE  Guarded' = Guarded /\ Lost' = Lost
    BY <1>1, <1>5, GuardsKept, LostKept DEF Protected
  <1>6. ASSUME NEW l \in LBs, CreateLB(l) \/ EditLB(l) \/ DeleteLB(l)
        PROVE  Step
    BY <1>1, <1>5, <1>6, NeutronHeld, Stutter DEF CreateLB, EditLB, DeleteLB, neutron
  <1>7. ASSUME NEW p \in PortIDs, DeletePortOutside(p)
        PROVE  Step
    BY <1>5, <1>7, RemovedHeld DEF DeletePortOutside, kube
  <1>8. ASSUME NEW f \in FipIDs, DeleteFipOutside(f)
        PROVE  Step
    BY <1>5, <1>8, RemovedHeld DEF DeleteFipOutside, kube
  <1>9. ASSUME NEW p \in PortIDs, AttachUserFip(p)
        PROVE  Step
    <2>1. svc' = svc /\ ports' = ports
      BY <1>9 DEF AttachUserFip, kube
    <2> DEFINE v == [live |-> TRUE, svc |-> None, port |-> p, proj |-> ports[p].proj,
                     tagged |-> FALSE]
    <2>2. PICK f \in FipIDs : ~LiveFip(f) /\ fips' = [fips EXCEPT ![f] = v]
      BY <1>9 DEF AttachUserFip, FreeFipID
    <2>3. v.svc = None
      OBVIOUS
    <2> HIDE DEF v
    <2>4. Held' = Held
      BY <2>1, <2>2, <2>3, UserFipHeld
    <2> QED
      BY <1>1, <1>5, <2>1, <2>4, Stutter
  <1> QED
    BY <1>3, <1>4, <1>6, <1>7, <1>8, <1>9 DEF Environment

(* Reads, decisions and the writes to the OpenStackLoadBalancer. *)
LEMMA QuietSteps ==
    ASSUME TypeOK, ControlInv,
           \/ \E r \in Requests : Dequeue(r) \/ Sync(r)
           \/ Resync \/ Restart \/ Return
           \/ ListServices \/ ProcessService \/ DetectNetworkForLB \/ VerifyPort
           \/ VerifyFloatingIP \/ FindFloatingIP \/ EndLoop
           \/ ListResources \/ FipsDone \/ PortsDone
           \/ StartDeletion \/ CleanupService \/ EndDeletion \/ GetOpenStackClientFromService
           \/ AddLBFinalizer \/ WriteStatus \/ RemoveLBFinalizer
    PROVE  Step
  <1>1. svc' = svc /\ ports' = ports /\ fips' = fips
    BY DEF Dequeue, Reconcile, ReconcileService, Sync, SyncLB, SyncService, Resync, Restart,
           Return, ListServices, ProcessService, DetectNetworkForLB, VerifyPort,
           VerifyFloatingIP, FindFloatingIP, EndLoop, ListResources, FipsDone, PortsDone,
           StartDeletion, CleanupService, EndDeletion, GetOpenStackClientFromService,
           AddLBFinalizer, WriteStatus, RemoveLBFinalizer, kube, neutron
  <1>2. Guarded' = Guarded /\ Held' = Held
    BY <1>1, GuardsKept, NeutronHeld DEF Protected
  <1>3. CASE abandoned' = abandoned
    BY <1>2, <1>3, Stutter
  <1>4. CASE RemoveLBFinalizer
    <2>1. w.req \in LBs
      BY <1>4 DEF RemoveLBFinalizer, ControlInv, Control, LBPCs
    <2>2. abandoned' = abandoned \/ abandoned' = abandoned \cup {w.req}
      BY <1>4 DEF RemoveLBFinalizer
    <2>3. Lost' = Lost
      BY <2>1, <2>2, NamesAssumption DEF Lost, Resources
    <2> QED
      BY <1>2, <2>3 DEF Step
  <1> QED
    BY <1>3, <1>4
    DEF Dequeue, Reconcile, ReconcileService, Sync, SyncLB, SyncService, Resync, Restart,
        Return, ListServices, ProcessService, DetectNetworkForLB, VerifyPort,
        VerifyFloatingIP, FindFloatingIP, EndLoop, ListResources, FipsDone, PortsDone,
        StartDeletion, CleanupService, EndDeletion, GetOpenStackClientFromService,
        AddLBFinalizer, WriteStatus

(* The annotations of a Service and its external IPs. *)
LEMMA AnnotationSteps ==
    ASSUME TypeOK, ControlInv, FreshInv,
           \/ EnsureServiceHasCredentials \/ ClearPortAnnotation \/ AnnotatePort
           \/ ClearFipAnnotation \/ AnnotateFip \/ UpdateServiceExternalIPs
           \/ ClearAnnotations \/ UpdateServiceWithCredentials
    PROVE  Step
  <1>1. ports' = ports /\ fips' = fips /\ abandoned' = abandoned
    BY DEF EnsureServiceHasCredentials, ClearPortAnnotation, AnnotatePort,
           ClearFipAnnotation, AnnotateFip, UpdateServiceExternalIPs, ClearAnnotations,
           UpdateServiceWithCredentials, neutron
  <1>2. w.cur \in Services
    <2>1. w.pc \in ServicePCs
      BY DEF EnsureServiceHasCredentials, ClearPortAnnotation, AnnotatePort,
             ClearFipAnnotation, AnnotateFip, UpdateServiceExternalIPs, ClearAnnotations,
             UpdateServiceWithCredentials, ServicePCs, LoopPCs, EnsurePCs, CleanupPCs,
             DeletePCs, HandlerPCs
    <2> QED
      BY <2>1 DEF ControlInv, Control
  <1>3. csvc[w.cur] \in Service
    BY <1>2 DEF TypeOK
  <1>4. ASSUME NEW x, NEW y, NEW done, NEW failed,
               \/ UpdateService(w.cur, [csvc[w.cur] EXCEPT !.cred = x], done, failed)
               \/ UpdateService(w.cur, [csvc[w.cur] EXCEPT !.portAnn = x], done, failed)
               \/ UpdateService(w.cur, [csvc[w.cur] EXCEPT !.fipAnn = x], done, failed)
               \/ UpdateService(w.cur, [csvc[w.cur] EXCEPT !.ext = x], done, failed)
               \/ UpdateService(w.cur, [csvc[w.cur] EXCEPT !.portAnn = x, !.fipAnn = y],
                                done, failed)
        PROVE  Guarded' = Guarded
    <2>1. PICK c : /\ c.exists = csvc[w.cur].exists /\ c.fin = csvc[w.cur].fin
                   /\ UpdateService(w.cur, c, done, failed)
      <3>1. /\ [csvc[w.cur] EXCEPT !.cred = x].exists = csvc[w.cur].exists
            /\ [csvc[w.cur] EXCEPT !.cred = x].fin = csvc[w.cur].fin
            /\ [csvc[w.cur] EXCEPT !.portAnn = x].exists = csvc[w.cur].exists
            /\ [csvc[w.cur] EXCEPT !.portAnn = x].fin = csvc[w.cur].fin
            /\ [csvc[w.cur] EXCEPT !.fipAnn = x].exists = csvc[w.cur].exists
            /\ [csvc[w.cur] EXCEPT !.fipAnn = x].fin = csvc[w.cur].fin
            /\ [csvc[w.cur] EXCEPT !.ext = x].exists = csvc[w.cur].exists
            /\ [csvc[w.cur] EXCEPT !.ext = x].fin = csvc[w.cur].fin
            /\ [csvc[w.cur] EXCEPT !.portAnn = x, !.fipAnn = y].exists = csvc[w.cur].exists
            /\ [csvc[w.cur] EXCEPT !.portAnn = x, !.fipAnn = y].fin = csvc[w.cur].fin
        BY <1>3 DEF Service
      <3> QED
        BY <1>4, <3>1
    <2> QED
      BY <1>2, <2>1, UpdateGuards
  <1>5. Guarded' = Guarded
    <2>1. CASE svc' = svc
      BY <2>1, GuardsKept DEF Protected
    <2> QED
      BY <1>4, <2>1
         DEF EnsureServiceHasCredentials, ClearPortAnnotation, AnnotatePort,
             ClearFipAnnotation, AnnotateFip, UpdateServiceExternalIPs, ClearAnnotations,
             UpdateServiceWithCredentials
  <1> QED
    BY <1>1, <1>5, NeutronHeld, Stutter

(* Both places that add the finalizer. *)
LEMMA GuardStep ==
    ASSUME TypeOK, LeakInv, EnsureServiceHasFinalizer \/ EnsureServiceFinalizer
    PROVE  Step
  <1> DEFINE obj == [w.snap[w.cur] EXCEPT !.fin = TRUE]
             c == Overwrite(svc[w.cur], obj)
  <1>1. /\ ports' = ports /\ fips' = fips /\ abandoned' = abandoned
        /\ w.pc \in {"svcFinalizer", "handlerFinalizer"}
    BY DEF EnsureServiceHasFinalizer, EnsureServiceFinalizer, neutron
  <1>2. w.cur \in Services
    BY <1>1 DEF LeakInv, ControlInv, Control, ServicePCs, LoopPCs, HandlerPCs
  <1>3. w.snap[w.cur].exists
    BY <1>1, <1>2 DEF LeakInv, WorkerInv, LoopInv, HandlerInv, LoopPCs, HandlerPCs
  <1>4. w.snap[w.cur] \in Service
    BY <1>2, WorkerParts DEF TypeOK
  <1>5. c.exists /\ c.fin
    BY <1>3, <1>4 DEF Overwrite, Service
  <1>6. svc' = svc \/ WriteService(w.cur, c)
    BY DEF EnsureServiceHasFinalizer, EnsureServiceFinalizer, UpdateResource
  <1>7. Held' = Held /\ Lost' = Lost
    BY <1>1, NeutronHeld, LostKept
  <1>8. CASE svc' = svc
    BY <1>1, <1>7, <1>8, GuardsKept, Stutter DEF Protected
  <1>9. CASE WriteService(w.cur, c)
    <2> HIDE DEF c
    <2>1. Settle(c) = c
      BY <1>5 DEF Settle
    <2>2. svc'[w.cur] = c /\ \A t \in Services : t # w.cur => svc'[t] = svc[t]
      BY <1>2, <1>9, <2>1 DEF WriteService, TypeOK
    <2>3. Guarded' = Guarded \cup {w.cur}
      BY <1>2, <1>5, <2>2 DEF Guarded, Protected
    <2>4. Custody!Guard(w.cur)
      BY <1>7, <2>3 DEF Custody!Guard
    <2> QED
      BY <1>2, <2>4 DEF Step, Custody!Next
  <1> QED
    BY <1>6, <1>8, <1>9

(* Tags change neither life nor owner of a resource. *)
LEMMA TagSteps ==
    ASSUME TypeOK, TagPort \/ TagFip
    PROVE  Step
  <1>1. svc' = svc /\ abandoned' = abandoned
    BY DEF TagPort, TagFip, kube
  <1>2. \A p \in PortIDs : ports'[p].live = ports[p].live /\ ports'[p].svc = ports[p].svc
    <2>1. ASSUME NEW p \in PortIDs
          PROVE  ports'[p].live = ports[p].live /\ ports'[p].svc = ports[p].svc
      <3>1. ports[p] \in Port /\ ports \in [PortIDs -> Port]
        BY DEF TypeOK
      <3>2. ports' = ports \/ ports' = [ports EXCEPT ![w.pid].tagged = TRUE]
        BY DEF TagPort, TagFip, SetPortTags
      <3> QED
        BY <3>1, <3>2 DEF Port
    <2> QED
      BY <2>1
  <1>3. \A f \in FipIDs : fips'[f].live = fips[f].live /\ fips'[f].svc = fips[f].svc
    <2>1. ASSUME NEW f \in FipIDs
          PROVE  fips'[f].live = fips[f].live /\ fips'[f].svc = fips[f].svc
      <3>1. fips[f] \in Fip /\ fips \in [FipIDs -> Fip]
        BY DEF TypeOK
      <3>2. fips' = fips \/ fips' = [fips EXCEPT ![w.fid].tagged = TRUE]
        BY DEF TagPort, TagFip, SetFipTags
      <3> QED
        BY <3>1, <3>2 DEF Fip
    <2> QED
      BY <2>1
  <1>4. Held' = Held
    BY <1>2, <1>3, HeldKept
  <1> QED
    BY <1>1, <1>4, GuardsKept, Stutter DEF Protected

(* The deletions of a cleanup. *)
LEMMA DisposeSteps ==
    ASSUME TypeOK, DeleteFips \/ DeletePorts
    PROVE  Step
  <1>1. svc' = svc /\ abandoned' = abandoned
    BY DEF DeleteFips, DeletePorts, kube
  <1>2. Guarded' = Guarded /\ Lost' = Lost
    BY <1>1, GuardsKept, LostKept DEF Protected
  <1>3. w.delF \subseteq FipIDs /\ w.delP \subseteq PortIDs
    BY WorkerParts DEF TypeOK
  <1>4. CASE ports' = ports /\ fips' = fips
    BY <1>1, <1>2, <1>4, NeutronHeld, Stutter
  <1>5. \/ ports' = ports /\ fips' = fips
        \/ \E p \in PortIDs : RemovePort(p)
        \/ \E f \in FipIDs : RemoveFip(f)
    BY <1>3 DEF DeleteFips, DeletePorts, DeleteFloatingIP, DeletePort, neutron
  <1> QED
    BY <1>2, <1>4, <1>5, RemovedHeld

(* The two creations: the Service carries the finalizer, although only a    *)
(* copy of it was looked at, and the ID is new.                             *)
LEMMA AcquireSteps ==
    ASSUME TypeOK, LeakInv, EnsurePortExists \/ CreateNewFloatingIP
    PROVE  Step
  <1>1. svc' = svc /\ abandoned' = abandoned /\ w.pc \in EnsurePCs
    BY DEF EnsurePortExists, CreateNewFloatingIP, kube, EnsurePCs
  <1>2. Guarded' = Guarded /\ Lost' = Lost
    BY <1>1, GuardsKept, LostKept DEF Protected
  <1>3. w.cur \in Services /\ w.cur \in Guarded
    BY <1>1, EnsureProtected DEF Guarded
  <1>4. ASSUME NEW r \in Resources, r \notin abandoned,
               \A t \in Services : r \notin Held[t],
               Held'[w.cur] = Held[w.cur] \cup {r},
               \A t \in Services : t # w.cur => Held'[t] = Held[t]
        PROVE  Step
    <2>1. Held' = [Held EXCEPT ![w.cur] = Held[w.cur] \cup {r}]
      BY <1>4, HeldType, HeldType' DEF Held
    <2>2. Custody!Acquire(w.cur, r)
      BY <1>2, <1>3, <1>4, <2>1 DEF Custody!Acquire, Lost
    <2> QED
      BY <1>3, <2>2 DEF Step, Custody!Next
  <1>5. CASE ports' = ports /\ fips' = fips
    BY <1>1, <1>2, <1>5, NeutronHeld, Stutter
  <1>6. CASE EnsurePortExists /\ ports' # ports
    <2>1. PICK p \in PortIDs :
              /\ FreePortID(p)
              /\ ports' = [ports EXCEPT ![p] =
                     [live |-> TRUE, svc |-> w.cur, ip |-> w.snap[w.cur].ip,
                      proj |-> w.client, tagged |-> FALSE]]
      BY <1>6 DEF EnsurePortExists, CreatePort
    <2>2. /\ ports'[p].live /\ ports'[p].svc = w.cur /\ fips' = fips
          /\ \A q \in PortIDs : q # p => ports'[q] = ports[q]
      BY <1>6, <2>1 DEF TypeOK, EnsurePortExists
    <2>3. ~ports[p].live /\ p \notin abandoned
      BY <2>1 DEF FreePortID, LivePort
    <2>4. /\ \A t \in Services : t = w.cur => HeldPorts(t)' = HeldPorts(t) \cup {p}
          /\ \A t \in Services : t # w.cur => HeldPorts(t)' = HeldPorts(t)
          /\ \A t \in Services : HeldFips(t)' = HeldFips(t)
      BY <2>2, <2>3 DEF HeldPorts, HeldFips, LivePort, LiveFip
    <2>5. \A t \in Services : p \notin HeldPorts(t) /\ p \notin HeldFips(t)
      BY <2>3, NamesAssumption DEF HeldPorts, HeldFips, LivePort
    <2>6. p \in Resources
      BY DEF Resources
    <2>7. /\ Held'[w.cur] = Held[w.cur] \cup {p}
          /\ \A t \in Services : p \notin Held[t]
          /\ \A t \in Services : t # w.cur => Held'[t] = Held[t]
      BY <1>3, <2>4, <2>5 DEF Held
    <2> QED
      BY <1>4, <2>3, <2>6, <2>7
  <1>7. CASE CreateNewFloatingIP /\ fips' # fips
    <2>1. PICK f \in FipIDs :
              /\ FreeFipID(f)
              /\ fips' = [fips EXCEPT ![f] =
                     [live |-> TRUE, svc |-> w.cur, port |-> w.pid, proj |-> w.client,
                      tagged |-> FALSE]]
      BY <1>7 DEF CreateNewFloatingIP, CreateFloatingIP
    <2>2. /\ fips'[f].live /\ fips'[f].svc = w.cur /\ ports' = ports
          /\ \A g \in FipIDs : g # f => fips'[g] = fips[g]
      BY <1>7, <2>1 DEF TypeOK, CreateNewFloatingIP
    <2>3. ~fips[f].live /\ f \notin abandoned
      BY <2>1 DEF FreeFipID, LiveFip
    <2>4. /\ \A t \in Services : t = w.cur => HeldFips(t)' = HeldFips(t) \cup {f}
          /\ \A t \in Services : t # w.cur => HeldFips(t)' = HeldFips(t)
          /\ \A t \in Services : HeldPorts(t)' = HeldPorts(t)
      BY <2>2, <2>3 DEF HeldPorts, HeldFips, LivePort, LiveFip
    <2>5. \A t \in Services : f \notin HeldPorts(t) /\ f \notin HeldFips(t)
      BY <2>3, NamesAssumption DEF HeldPorts, HeldFips, LiveFip
    <2>6. f \in Resources
      BY DEF Resources
    <2>7. /\ Held'[w.cur] = Held[w.cur] \cup {f}
          /\ \A t \in Services : f \notin Held[t]
          /\ \A t \in Services : t # w.cur => Held'[t] = Held[t]
      BY <1>3, <2>4, <2>5 DEF Held
    <2> QED
      BY <1>4, <2>3, <2>6, <2>7
  <1> QED
    BY <1>5, <1>6, <1>7 DEF EnsurePortExists, CreateNewFloatingIP

(* Both removals of the finalizer: nothing is left, or what is left is      *)
(* given up.                                                                *)
LEMMA ReleaseSteps ==
    ASSUME SingleProject, TypeOK, LeakInv, RemoveServiceFinalizer \/ ForceFinalizerRemoval
    PROVE  Step
  <1>1. ports' = ports /\ fips' = fips /\ w.pc \in {"unfinalize", "force"}
    BY DEF RemoveServiceFinalizer, ForceFinalizerRemoval, neutron
  <1>2. w.pc \in CleanupPCs \ {"delLoop"} /\ w.pc \in DeletePCs
    BY <1>1 DEF CleanupPCs, DeletePCs
  <1>3. w.cur \in Services /\ w.snap[w.cur] \in Service /\ svc[w.cur] \in Service
    BY <1>2, CleanupFacts DEF TypeOK
  <1>4. Held' = Held
    BY <1>1, NeutronHeld
  <1>5. CASE svc' = svc /\ abandoned' = abandoned
    BY <1>4, <1>5, GuardsKept, Stutter DEF Protected
  <1>6. ASSUME NEW c, ~c.fin, WriteService(w.cur, c), abandoned' = LeftBehind(w.cur),
               svc[w.cur].exists
        PROVE  Step
    <2>1. svc'[w.cur] = Settle(c) /\ \A t \in Services : t # w.cur => svc'[t] = svc[t]
      BY <1>3, <1>6 DEF WriteService, TypeOK
    <2>2. ~Settle(c).fin
      BY <1>6 DEF Settle, NoService
    <2>3. Guarded' = Guarded \ {w.cur}
      BY <1>3, <2>1, <2>2 DEF Guarded, Protected
    <2>4. CASE ~svc[w.cur].fin
      <3>1. abandoned' = abandoned /\ w.cur \notin Guarded
        BY <1>6, <2>4 DEF LeftBehind, Guarded, Protected
      <3> QED
        BY <1>4, <2>3, <3>1, Stutter
    <2>5. CASE svc[w.cur].fin /\ w.fail
      <3>1. abandoned' = abandoned \cup HeldPorts(w.cur) \cup HeldFips(w.cur)
        BY <1>6, <2>5 DEF LeftBehind, HeldPorts, HeldFips
      <3>2. Held[w.cur] = HeldPorts(w.cur) \cup HeldFips(w.cur) /\ Held[w.cur] \subseteq Resources
        BY <1>3, HeldType DEF Held
      <3>3. Lost' = Lost \cup Held[w.cur]
        BY <3>1, <3>2 DEF Lost
      <3>4. Custody!GiveUp(w.cur)
        BY <1>4, <2>3, <3>3 DEF Custody!GiveUp
      <3> QED
        BY <1>3, <3>4 DEF Step, Custody!Next
    <2>6. CASE svc[w.cur].fin /\ ~w.fail
      <3>1. HeldPorts(w.cur) = {} /\ HeldFips(w.cur) = {}
        BY <1>1, <1>2, <2>6
           DEF LeakInv, WorkerInv, RemainderInv, HeldPorts, HeldFips
      <3>2. Held[w.cur] = {}
        BY <1>3, <3>1 DEF Held
      <3>3. Lost' = Lost
        BY <1>6, <2>6 DEF LeftBehind, Lost
      <3>4. Custody!Release(w.cur)
        BY <1>4, <2>3, <3>2, <3>3 DEF Custody!Release
      <3> QED
        BY <1>3, <3>4 DEF Step, Custody!Next
    <2> QED
      BY <2>4, <2>5, <2>6
  <1>7. CASE RemoveServiceFinalizer
    <2> DEFINE obj == [w.snap[w.cur] EXCEPT !.fin = FALSE]
               c == Overwrite(svc[w.cur], obj)
    <2>1. ~c.fin
      BY <1>3 DEF Overwrite, Service
    <2>2. abandoned' = IF svc'[w.cur].fin THEN abandoned ELSE LeftBehind(w.cur)
      BY <1>7 DEF RemoveServiceFinalizer
    <2>3. svc' = svc \/ (csvc[w.cur].exists /\ w.cur \in fresh /\ WriteService(w.cur, c))
      BY <1>7 DEF RemoveServiceFinalizer, UpdateResource
    <2> HIDE DEF c
    <2>4. CASE svc' = svc
      <3>1. abandoned' = abandoned
        BY <2>2, <2>4 DEF LeftBehind
      <3> QED
        BY <1>5, <2>4, <3>1
    <2>5. CASE csvc[w.cur].exists /\ w.cur \in fresh /\ WriteService(w.cur, c)
      <3>1. svc[w.cur].exists
        BY <1>3, <2>5 DEF LeakInv, FreshInv
      <3>2. ~svc'[w.cur].fin
        BY <1>3, <2>1, <2>5 DEF WriteService, Settle, NoService, TypeOK
      <3> QED
        BY <1>6, <2>1, <2>2, <2>5, <3>1, <3>2
    <2> QED
      BY <2>3, <2>4, <2>5
  <1>8. CASE ForceFinalizerRemoval
    <2> DEFINE c == [svc[w.cur] EXCEPT !.fin = FALSE, !.otherFin = FALSE]
    <2>1. ~c.fin
      BY <1>3 DEF Service
    <2>2. \/ svc[w.cur].exists /\ WriteService(w.cur, c) /\ abandoned' = LeftBehind(w.cur)
          \/ svc' = svc /\ abandoned' = abandoned
      BY <1>8 DEF ForceFinalizerRemoval
    <2> HIDE DEF c
    <2> QED
      BY <1>5, <1>6, <2>1, <2>2
  <1> QED
    BY <1>7, <1>8

-----------------------------------------------------------------------------
(* Every step of the operator and of its environment is one of the custody. *)
LEMMA StepSimulation ==
    ASSUME SingleProject, TypeInv, LeakInv, [Next]_vars
    PROVE  Step
  <1>1. TypeOK /\ ControlInv /\ FreshInv
    BY DEF TypeInv, LeakInv
  <1>2. CASE UNCHANGED vars
    BY <1>2, GuardsKept, NeutronHeld, Stutter DEF vars, Protected
  <1>3. CASE Environment
    BY <1>1, <1>3, EnvironmentStep
  <1>4. CASE Provision
    BY <1>1, <1>4, QuietSteps, AnnotationSteps, GuardStep, TagSteps, AcquireSteps
       DEF Provision
  <1>5. CASE Cleanup
    BY <1>1, <1>5, QuietSteps, AnnotationSteps, DisposeSteps, ReleaseSteps DEF Cleanup
  <1>6. CASE Delete \/ Return
    BY <1>1, <1>6, QuietSteps DEF Delete
  <1>7. CASE Handle
    BY <1>1, <1>7, QuietSteps, AnnotationSteps, GuardStep DEF Handle
  <1>8. CASE (\E r \in Requests : Dequeue(r) \/ Sync(r)) \/ Resync \/ Restart
    BY <1>1, <1>8, QuietSteps
  <1> QED
    BY <1>2, <1>3, <1>4, <1>5, <1>6, <1>7, <1>8 DEF Next, Work

(* The operator implements the custody of resources: in any interleaving of *)
(* users, faults, stale caches, crashes and reconciles it creates ports and *)
(* floating IPs only under a finalizer that is in place in the API server,  *)
(* and drops a finalizer only when nothing is left or when it knows that    *)
(* the cleanup failed (processService, HandleServiceFinalizationWithForce), *)
(* provided the credentials of all LBs belong to one OpenStack project.     *)
THEOREM OperatorKeepsCustody ==
    ASSUME SingleProject
    PROVE  Spec => ImplementsCustody
  <1>1. Init => Custody!Init
    <2> SUFFICES ASSUME Init
                 PROVE  Guarded = {} /\ Held = [s \in Services |-> {}] /\ Lost = {}
      BY DEF Custody!Init
    <2>1. Guarded = {}
      BY DEF Init, Guarded, Protected, NoService
    <2>2. \A s \in Services : HeldPorts(s) = {} /\ HeldFips(s) = {}
      BY DEF Init, HeldPorts, HeldFips, LivePort, LiveFip, NoPort, NoFip
    <2>3. Held = [s \in Services |-> {}]
      BY <2>2 DEF Held
    <2> QED
      BY <2>1, <2>3 DEF Init, Lost
  <1>2. TypeInv /\ LeakInv /\ [Next]_vars => [Custody!Next]_Custody!custody
    BY StepSimulation DEF Step, Custody!custody
  <1>3. Spec => []TypeInv
    BY TypeCorrect, PTL DEF TypeInv
  <1>4. Spec => []LeakInv
    BY LeakInvariant
  <1> QED
    BY <1>1, <1>2, <1>3, <1>4, PTL DEF Spec, ImplementsCustody, Custody!Spec

=============================================================================
