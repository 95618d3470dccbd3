------------------------------ MODULE StaleProofs ------------------------------
(***************************************************************************)
(* What copies of an object in the cache and in the worker's memory still  *)
(* say about it (StaleInv), and AnnotatedIsProtected from it, for every    *)
(* value of the constants. A step is seen through what it does to the      *)
(* worker's copies (Keeps) and to the object itself (Ages).                *)
(***************************************************************************)
EXTENDS LeakProofs

-----------------------------------------------------------------------------
(* The worker's copies *)

SameIdentity(b, m) ==
    b.uid = m.uid /\ b.exists = m.exists /\ b.deleting = m.deleting /\ b.fin = m.fin

(* v is at the same request, with the LB as read: only its status differs. *)
Stays(v) == v.req = w.req /\ SameIdentity(v.mem, w.mem)

(* and with the Services as read. *)
Keeps(v) == Stays(v) /\ v.snap = w.snap

(* Conditions and the rest of the status are not part of the identity. *)
LEMMA StatusIdentity ==
    ASSUME NEW b \in LoadBalancer
    PROVE  /\ \A t, r : SameIdentity(SetCondition(b, t, r), b)
           /\ \A n, t, r : SameIdentity(SetCondition([b EXCEPT !.net = n], t, r), b)
           /\ \A t, r : SameIdentity(SetCondition([b EXCEPT !.ready = TRUE], t, r), b)
  <1>1. ASSUME NEW t, NEW r
        PROVE  SameIdentity(SetCondition(b, t, r), b)
    BY DEF SameIdentity, SetCondition, LoadBalancer
  <1>2. ASSUME NEW n, NEW t, NEW r
        PROVE  SameIdentity(SetCondition([b EXCEPT !.net = n], t, r), b)
    BY DEF SameIdentity, SetCondition, LoadBalancer
  <1>3. ASSUME NEW t, NEW r
        PROVE  SameIdentity(SetCondition([b EXCEPT !.ready = TRUE], t, r), b)
    BY DEF SameIdentity, SetCondition, LoadBalancer
  <1> QED
    BY <1>1, <1>2, <1>3

(* How a step of a reconcile leaves the worker: the copies stay. *)
LEMMA MovesKeep ==
    ASSUME w \in Worker
    PROVE  /\ \A rq : Keeps(ReturnWith(rq)) /\ Keeps(ServiceHandled(rq))
           /\ \A rq, e : Keeps(Processed(rq, e))
           /\ \A failed : Keeps(CleanupReturns(failed))
           /\ \A p : Keeps(WithPort(p))
           /\ \A x : Keeps([w EXCEPT !.pc = x])
  <1>1. ASSUME NEW rq
        PROVE  Keeps(ReturnWith(rq))
    BY DEF ReturnWith, Keeps, Stays, SameIdentity, Worker
  <1>2. ASSUME NEW rq
        PROVE  Keeps(ServiceHandled(rq))
    BY <1>1 DEF ServiceHandled, Keeps, Stays, SameIdentity, Worker
  <1>3. ASSUME NEW rq, NEW e
        PROVE  Keeps(Processed(rq, e))
    BY DEF Processed, Keeps, Stays, SameIdentity, Worker
  <1>4. ASSUME NEW x
        PROVE  Keeps([w EXCEPT !.pc = x])
    BY DEF Keeps, Stays, SameIdentity, Worker
  <1>5. ASSUME NEW x, NEW b
        PROVE  Keeps([w EXCEPT !.pc = x, !.fail = b])
    BY DEF Keeps, Stays, SameIdentity, Worker
  <1>6. ASSUME NEW p
        PROVE  Keeps(WithPort(p))
    <2>1. Keeps([w EXCEPT !.pc = "fip", !.pid = p])
      BY DEF Keeps, Stays, SameIdentity, Worker
    <2> QED
      BY <1>3, <2>1 DEF WithPort
  <1>7. ASSUME NEW failed
        PROVE  Keeps(CleanupReturns(failed))
    BY <1>2, <1>4, <1>5 DEF CleanupReturns
  <1> QED
    BY <1>1, <1>2, <1>3, <1>4, <1>6, <1>7

(* The steps of a reconcile that read nothing anew. *)
Ongoing ==
    \/ AddLBFinalizer \/ ProcessService
    \/ EnsureServiceHasFinalizer \/ EnsureServiceHasCredentials \/ DetectNetworkForLB
    \/ VerifyPort \/ ClearPortAnnotation \/ EnsurePortExists \/ TagPort \/ AnnotatePort
    \/ VerifyFloatingIP \/ ClearFipAnnotation \/ FindFloatingIP \/ CreateNewFloatingIP
    \/ TagFip \/ AnnotateFip \/ UpdateServiceExternalIPs
    \/ EndLoop \/ WriteStatus
    \/ Cleanup \/ CleanupService \/ EndDeletion \/ RemoveLBFinalizer \/ Handle

(* They keep the copies. *)
LEMMA OngoingKeeps ==
    ASSUME w \in Worker, Ongoing
    PROVE  Keeps(w')
  <1>1. w.mem \in LoadBalancer
    BY WorkerParts
  <1>2. CASE AddLBFinalizer \/ WriteStatus \/ RemoveLBFinalizer
    BY <1>2, MovesKeep
       DEF AddLBFinalizer, WriteStatus, RemoveLBFinalizer, UpdateLB, UpdateStatus, Written
  <1>3. CASE ProcessService
    BY <1>3 DEF ProcessService, Keeps, Stays, SameIdentity, Worker
  <1>4. CASE EnsureServiceHasFinalizer \/ EnsureServiceHasCredentials
             \/ ClearPortAnnotation \/ AnnotatePort \/ ClearFipAnnotation \/ AnnotateFip
             \/ UpdateServiceExternalIPs
    BY <1>4, MovesKeep
       DEF EnsureServiceHasFinalizer, EnsureServiceHasCredentials, ClearPortAnnotation,
           AnnotatePort, ClearFipAnnotation, AnnotateFip, UpdateServiceExternalIPs,
           UpdateResource, UpdateService, Written
  <1>5. CASE DetectNetworkForLB
    <2>1. \/ \E m : SameIdentity(m, w.mem) /\ w' = [Processed(TRUE, TRUE) EXCEPT !.mem = m]
          \/ \E m : SameIdentity(m, w.mem) /\ w' = [w EXCEPT !.pc = "port", !.mem = m]
      BY <1>1, <1>5, StatusIdentity DEF DetectNetworkForLB
    <2>2. ASSUME NEW m, SameIdentity(m, w.mem), w' = [Processed(TRUE, TRUE) EXCEPT !.mem = m]
          PROVE  Keeps(w')
      BY <2>2 DEF Processed, Keeps, Stays, Worker
    <2>3. ASSUME NEW m, SameIdentity(m, w.mem), w' = [w EXCEPT !.pc = "port", !.mem = m]
          PROVE  Keeps(w')
      BY <2>3 DEF Keeps, Stays, Worker
    <2> QED
      BY <2>1, <2>2, <2>3
  <1>6. CASE EndLoop
    <2>1. SameIdentity(Verdict, w.mem)
      BY <1>1, StatusIdentity DEF Verdict
    <2>2. w' = [w EXCEPT !.pc = "status", !.mem = Verdict]
      BY <1>6 DEF EndLoop
    <2> QED
      BY <2>1, <2>2 DEF Keeps, Stays, Worker
  <1>7. CASE VerifyPort \/ TagPort \/ TagFip
    BY <1>7, MovesKeep DEF VerifyPort, TagPort, TagFip, SetPortTags, SetFipTags
  <1>8. CASE VerifyFloatingIP \/ FindFloatingIP \/ EnsurePortExists \/ CreateNewFloatingIP
    <2>1. \/ w' = Processed(TRUE, TRUE) \/ \E x : w' = [w EXCEPT !.pc = x]
          \/ \E x, f : w' = [w EXCEPT !.pc = x, !.fid = f]
          \/ \E x, p : w' = [w EXCEPT !.pc = x, !.pid = p]
      BY <1>8 DEF VerifyFloatingIP, FindFloatingIP, EnsurePortExists, CreateNewFloatingIP,
                  CreatePort, CreateFloatingIP
    <2>2. ASSUME NEW x, NEW f, w' = [w EXCEPT !.pc = x, !.fid = f]
          PROVE  Keeps(w')
      BY <2>2 DEF Keeps, Stays, SameIdentity, Worker
    <2>3. ASSUME NEW x, NEW p, w' = [w EXCEPT !.pc = x, !.pid = p]
          PROVE  Keeps(w')
      BY <2>3 DEF Keeps, Stays, SameIdentity, Worker
    <2>4. ASSUME NEW x, w' = [w EXCEPT !.pc = x]
          PROVE  Keeps(w')
      BY <2>4 DEF Keeps, Stays, SameIdentity, Worker
    <2>5. Keeps(Processed(TRUE, TRUE))
      BY MovesKeep
    <2> QED
      BY <2>1, <2>2, <2>3, <2>4, <2>5
  <1>9. CASE Cleanup
    <2>1. CASE PortsDone \/ FipsDone \/ ClearAnnotations \/ RemoveServiceFinalizer
               \/ ForceFinalizerRemoval
      BY <2>1, MovesKeep
         DEF PortsDone, FipsDone, ClearAnnotations, RemoveServiceFinalizer,
             ForceFinalizerRemoval, UpdateService, UpdateResource, Written
    <2>2. CASE ListResources
      <3>1. ASSUME NEW F, NEW P, w' = [w EXCEPT !.pc = "delFips", !.delF = F, !.delP = P]
            PROVE  Keeps(w')
        BY <3>1 DEF Keeps, Stays, SameIdentity, Worker
      <3>2. \/ w' = CleanupReturns(TRUE)
            \/ \E F, P : w' = [w EXCEPT !.pc = "delFips", !.delF = F, !.delP = P]
        BY <2>2 DEF ListResources
      <3> QED
        BY <3>1, <3>2, MovesKeep
    <2>3. CASE DeleteFips \/ DeletePorts
      <3>1. \/ \E D, k : w' = [w EXCEPT !.delF = D, !.clr = k]
            \/ \E D, b : w' = [w EXCEPT !.delF = D, !.fail = b]
            \/ \E D, k : w' = [w EXCEPT !.delP = D, !.clr = k]
            \/ \E D, b : w' = [w EXCEPT !.delP = D, !.fail = b]
        BY <2>3 DEF DeleteFips, DeletePorts, DeleteFloatingIP, DeletePort, FipDeleted,
                    PortDeleted
      <3>2. ASSUME NEW D, NEW k, w' = [w EXCEPT !.delF = D, !.clr = k]
            PROVE  Keeps(w')
        BY <3>2 DEF Keeps, Stays, SameIdentity, Worker
      <3>3. ASSUME NEW D, NEW b, w' = [w EXCEPT !.delF = D, !.fail = b]
            PROVE  Keeps(w')
        BY <3>3 DEF Keeps, Stays, SameIdentity, Worker
      <3>4. ASSUME NEW D, NEW k, w' = [w EXCEPT !.delP = D, !.clr = k]
            PROVE  Keeps(w')
        BY <3>4 DEF Keeps, Stays, SameIdentity, Worker
      <3>5. ASSUME NEW D, NEW b, w' = [w EXCEPT !.delP = D, !.fail = b]
            PROVE  Keeps(w')
        BY <3>5 DEF Keeps, Stays, SameIdentity, Worker
      <3> QED
        BY <3>1, <3>2, <3>3, <3>4, <3>5
    <2> QED
      BY <1>9, <2>1, <2>2, <2>3 DEF Cleanup
  <1>10. CASE CleanupService
    <2>1. \/ \E T : w' = [w EXCEPT !.todo = T]
          \/ \E T, s : w' = [w EXCEPT !.todo = T, !.cur = s, !.pc = "list"]
      BY <1>10 DEF CleanupService
    <2>2. ASSUME NEW T, w' = [w EXCEPT !.todo = T]
          PROVE  Keeps(w')
      BY <2>2 DEF Keeps, Stays, SameIdentity, Worker
    <2>3. ASSUME NEW T, NEW s, w' = [w EXCEPT !.todo = T, !.cur = s, !.pc = "list"]
          PROVE  Keeps(w')
      BY <2>3 DEF Keeps, Stays, SameIdentity, Worker
    <2> QED
      BY <2>1, <2>2, <2>3
  <1>11. CASE EndDeletion
    BY <1>11, MovesKeep DEF EndDeletion
  <1>12. CASE Handle
    <2>1. CASE EnsureServiceFinalizer \/ UpdateServiceWithCredentials
      BY <2>1, MovesKeep DEF EnsureServiceFinalizer, UpdateServiceWithCredentials,
                             UpdateResource, UpdateService, Written
    <2>2. CASE GetOpenStackClientFromService
      <3>1. \/ \E rq : w' = ReturnWith(rq)
            \/ \E c : w' = [w EXCEPT !.pc = "list", !.client = c]
            \/ w' = [w EXCEPT !.pc = "unfinalize", !.fail = TRUE]
        BY <2>2 DEF GetOpenStackClientFromService, ClientFor, NoClient
      <3>2. ASSUME NEW c, w' = [w EXCEPT !.pc = "list", !.client = c]
            PROVE  Keeps(w')
        BY <3>2 DEF Keeps, Stays, SameIdentity, Worker
      <3>3. CASE w' = [w EXCEPT !.pc = "unfinalize", !.fail = TRUE]
        BY <3>3 DEF Keeps, Stays, SameIdentity, Worker
      <3> QED
        BY <3>1, <3>2, <3>3, MovesKeep
    <2> QED
      BY <1>12, <2>1, <2>2 DEF Handle
  <1> QED
    BY <1>2, <1>3, <1>4, <1>5, <1>6, <1>7, <1>8, <1>9, <1>10, <1>11, <1>12 DEF Ongoing

-----------------------------------------------------------------------------
(* The Services *)

(* From o to n an object never goes back to an earlier incarnation, and     *)
(* within one a deletion is not undone, nor a finalizer lost regained.      *)
Ages(o, n) ==
    /\ o.uid <= n.uid
    /\ o.uid = n.uid /\ Doomed(o) => Doomed(n) /\ (n.fin => o.fin)

Covered(c) == c.exists /\ ~c.deleting /\ HasResourceAnnotations(c) => c.fin

(* The finalizer is granted on a current cache only. *)
Joins(s) == s \in fresh /\ svc[s].exists /\ w.pc \in {"svcFinalizer", "handlerFinalizer"}

(* What Service s may become in one step: n. *)
Successor(s, n) ==
    /\ Ages(svc[s], n)
    /\ Covered(svc[s]) => Covered(n)
    /\ n.exists /\ n.fin => n.uid = svc[s].uid /\ (Protected(s) \/ Joins(s))
    /\ \/ n.portAnn \in {None, svc[s].portAnn, w.snap[s].portAnn}
       \/ s = w.cur /\ w.pc = "annotatePort" /\ n.portAnn = w.pid
    /\ \/ n.fipAnn \in {None, svc[s].fipAnn, w.snap[s].fipAnn}
       \/ s = w.cur /\ w.pc = "annotateFip" /\ n.fipAnn = w.fid

Succession == \A s \in Services : Successor(s, svc'[s])

(* Copies lag behind what an object becomes, too. *)
LEMMA LagsOn ==
    ASSUME NEW c, NEW o, NEW n, c.uid \in Nat, o.uid \in Nat, n.uid \in Nat, Lags(c, o),
           Ages(o, n)
    PROVE  Lags(c, n)
  BY DEF Lags, Ages

(* An object lags behind itself, and ages into itself. *)
LEMMA LagsSelf ==
    ASSUME NEW o, o.uid \in Nat
    PROVE  Lags(o, o) /\ Ages(o, o)
  BY DEF Lags, Ages, Doomed

(* A Service that stays as it is. *)
LEMMA SameSuccessor ==
    ASSUME TypeOK, NEW s \in Services
    PROVE  Successor(s, svc[s])
  <1>1. svc[s] \in Service
    BY DEF TypeOK
  <1>2. svc[s].uid \in Nat
    BY <1>1 DEF Service
  <1> QED
    BY <1>2, LagsSelf DEF Successor, Protected

(* Steps that write no Service. *)
LEMMA NoServiceWrite ==
    ASSUME TypeOK, svc' = svc
    PROVE  Succession
  BY SameSuccessor DEF Succession

(* A write, and the removal that the API server may make of it. *)
LEMMA WriteSuccession ==
    ASSUME TypeOK, NEW s \in Services, NEW c, WriteService(s, c), Successor(s, c)
    PROVE  Succession
  <1>1. Successor(s, Settle(c))
    BY DEF Settle, Successor, Ages, Covered, Doomed, NoService
  <1>2. svc'[s] = Settle(c) /\ \A t \in Services : t # s => svc'[t] = svc[t]
    BY DEF WriteService, TypeOK
  <1> QED
    BY <1>1, <1>2, SameSuccessor DEF Succession

(* A write of the current Service with other annotations: they may be new   *)
(* only where the finalizer is in place.                                    *)
LEMMA AnnotateSuccession ==
    ASSUME TypeOK, FreshInv, NEW s \in Services, NEW c, NEW done, NEW failed,
           UpdateService(s, c, done, failed),
           c.uid = csvc[s].uid, c.exists = csvc[s].exists, c.fin = csvc[s].fin,
           c.deleting = csvc[s].deleting,
           Protected(s) \/ (HasResourceAnnotations(c) => HasResourceAnnotations(csvc[s])),
           \/ c.portAnn \in {None, csvc[s].portAnn}
           \/ s = w.cur /\ w.pc = "annotatePort" /\ c.portAnn = w.pid,
           \/ c.fipAnn \in {None, csvc[s].fipAnn}
           \/ s = w.cur /\ w.pc = "annotateFip" /\ c.fipAnn = w.fid
    PROVE  Succession
  <1>1. CASE svc' = svc
    BY <1>1, NoServiceWrite
  <1>2. CASE s \in fresh /\ WriteService(s, c)
    <2>1. csvc[s] = svc[s] /\ svc[s] \in Service
      BY <1>2 DEF FreshInv, TypeOK
    <2>2. svc[s].uid \in Nat
      BY <2>1 DEF Service
    <2>3. Ages(svc[s], c)
      BY <2>1, <2>2 DEF Ages, Doomed
    <2>4. Covered(svc[s]) => Covered(c)
      BY <2>1 DEF Covered, Protected
    <2>5. Successor(s, c)
      BY <2>1, <2>3, <2>4 DEF Successor, Protected
    <2> QED
      BY <1>2, <2>5, WriteSuccession
  <1> QED
    BY <1>1, <1>2 DEF UpdateService

(* Users and other controllers. *)
LEMMA EnvironmentSuccession ==
    ASSUME TypeOK, Environment
    PROVE  Succession
  <1>1. ASSUME NEW s \in Services, CreateService(s)
        PROVE  Succession
    <2> DEFINE c == [NoService(svc[s].uid + 1) EXCEPT !.exists = TRUE, !.lbType = TRUE]
    <2>1. svc[s].uid \in Nat
      BY DEF TypeOK, Service
    <2>2. /\ c.uid = svc[s].uid + 1 /\ c.exists /\ ~c.fin /\ ~c.deleting
          /\ c.portAnn = None /\ c.fipAnn = None
      BY DEF NoService
    <2>3. WriteService(s, c)
      BY <1>1 DEF CreateService
    <2> HIDE DEF c
    <2>4. Successor(s, c)
      BY <2>1, <2>2 DEF Successor, Ages, Covered, HasResourceAnnotations
    <2> QED
      BY <2>3, <2>4, WriteSuccession
  <1>2. ASSUME NEW s \in Services, NEW c, WriteService(s, c), c.uid = svc[s].uid,
               c.exists = svc[s].exists, c.fin = svc[s].fin,
               svc[s].deleting => c.deleting,
               c.portAnn = svc[s].portAnn, c.fipAnn = svc[s].fipAnn
        PROVE  Succession
    <2>1. svc[s].uid \in Nat
      BY DEF TypeOK, Service
    <2>2. Ages(svc[s], c)
      BY <1>2, <2>1 DEF Ages, Doomed
    <2>3. Covered(svc[s]) => Covered(c)
      BY <1>2 DEF Covered, HasResourceAnnotations
    <2>4. Successor(s, c)
      BY <1>2, <2>2, <2>3 DEF Successor, Protected
    <2> QED
      BY <1>2, <2>4, WriteSuccession
  <1>3. ASSUME NEW s \in Services,
               AssignIP(s) \/ ReassignIP(s) \/ DeleteService(s) \/ EditService(s)
                  \/ AddOtherFinalizer(s) \/ RemoveOtherFinalizer(s)
        PROVE  Succession
    <2>1. svc[s] \in Service
      BY DEF TypeOK
    <2>2. CASE AssignIP(s) \/ ReassignIP(s)
      <3>1. PICK ip \in IPs : WriteService(s, [svc[s] EXCEPT !.ip = ip])
        BY <2>2 DEF AssignIP, ReassignIP
      <3> QED
        BY <1>2, <2>1, <3>1 DEF Service
    <2>3. CASE DeleteService(s)
      BY <1>2, <2>1, <2>3 DEF DeleteService, Service
    <2>4. CASE EditService(s)
      BY <1>2, <2>1, <2>4 DEF EditService, Service
    <2>5. CASE AddOtherFinalizer(s)
      BY <1>2, <2>1, <2>5 DEF AddOtherFinalizer, Service
    <2>6. CASE RemoveOtherFinalizer(s)
      BY <1>2, <2>1, <2>6 DEF RemoveOtherFinalizer, Service
    <2> QED
      BY <1>3, <2>2, <2>3, <2>4, <2>5, <2>6
  <1>4. CASE svc' = svc
    BY <1>4, NoServiceWrite
  <1> QED
    BY <1>1, <1>3, <1>4
       DEF Environment, CreateLB, EditLB, DeleteLB, DeletePortOutside, DeleteFipOutside,
           AttachUserFip, kube

(* The steps that write no Service. *)
LEMMA QuietSuccession ==
    ASSUME TypeOK,
           \/ \E r \in Requests : Dequeue(r) \/ Sync(r)
           \/ Resync \/ Restart \/ Return
           \/ ListServices \/ ProcessService \/ DetectNetworkForLB
           \/ VerifyPort \/ EnsurePortExists \/ TagPort
           \/ VerifyFloatingIP \/ FindFloatingIP \/ CreateNewFloatingIP \/ TagFip \/ EndLoop
           \/ ListResources \/ DeleteFips \/ FipsDone \/ DeletePorts \/ PortsDone
           \/ StartDeletion \/ CleanupService \/ EndDeletion \/ GetOpenStackClientFromService
           \/ AddLBFinalizer \/ WriteStatus \/ RemoveLBFinalizer
    PROVE  svc' = svc /\ Succession
  <1>1. svc' = svc
    BY DEF Dequeue, Reconcile, ReconcileService, Sync, SyncLB, SyncService, Resync, Restart,
           Return, ListServices, ProcessService, DetectNetworkForLB, VerifyPort,
           EnsurePortExists, TagPort, VerifyFloatingIP, FindFloatingIP, CreateNewFloatingIP,
           TagFip, EndLoop, ListResources, DeleteFips, FipsDone, DeletePorts, PortsDone,
           StartDeletion, CleanupService, EndDeletion, GetOpenStackClientFromService,
           AddLBFinalizer, WriteStatus, RemoveLBFinalizer, kube
  <1> QED
    BY <1>1, NoServiceWrite

(* Annotations are added where the finalizer is, and removed anywhere. *)
LEMMA AnnotationSuccession ==
    ASSUME TypeOK, LeakInv,
           \/ EnsureServiceHasCredentials \/ ClearPortAnnotation \/ AnnotatePort
           \/ ClearFipAnnotation \/ AnnotateFip \/ UpdateServiceExternalIPs
           \/ ClearAnnotations \/ UpdateServiceWithCredentials
    PROVE  Succession
  <1>1. FreshInv
    BY DEF LeakInv
  <1>2. w.cur \in Services
    <2>1. w.pc \in ServicePCs
      BY DEF EnsureServiceHasCredentials, ClearPortAnnotation, AnnotatePort,
             ClearFipAnnotation, AnnotateFip, UpdateServiceExternalIPs, ClearAnnotations,
             UpdateServiceWithCredentials, ServicePCs, LoopPCs, EnsurePCs, CleanupPCs,
             DeletePCs, HandlerPCs
    <2> QED
      BY <2>1 DEF LeakInv, ControlInv, Control
  <1> DEFINE s == w.cur
             c == csvc[w.cur]
  <1>3. c \in Service
    BY <1>2 DEF TypeOK
  <1>4. CASE AnnotatePort
    <2>1. Protected(s) /\ w.pc = "annotatePort"
      BY <1>4, EnsureProtected DEF AnnotatePort, EnsurePCs
    <2> QED
      BY <1>1, <1>2, <1>3, <1>4, <2>1, AnnotateSuccession DEF AnnotatePort, Service
  <1>5. CASE AnnotateFip
    <2>1. Protected(s) /\ w.pc = "annotateFip"
      BY <1>5, EnsureProtected DEF AnnotateFip, EnsurePCs
    <2> QED
      BY <1>1, <1>2, <1>3, <1>5, <2>1, AnnotateSuccession DEF AnnotateFip, Service
  <1>6. ASSUME NEW d, NEW done, NEW failed, UpdateService(s, d, done, failed),
               d.uid = c.uid, d.exists = c.exists, d.fin = c.fin, d.deleting = c.deleting,
               d.portAnn \in {None, c.portAnn}, d.fipAnn \in {None, c.fipAnn}
        PROVE  Succession
    <2>1. HasResourceAnnotations(d) => HasResourceAnnotations(c)
      BY <1>6 DEF HasResourceAnnotations
    <2> QED
      BY <1>1, <1>2, <1>6, <2>1, AnnotateSuccession
  <1>7. CASE EnsureServiceHasCredentials \/ UpdateServiceWithCredentials
    BY <1>3, <1>6, <1>7
       DEF EnsureServiceHasCredentials, UpdateServiceWithCredentials, Service
  <1>8. CASE ClearPortAnnotation
    BY <1>3, <1>6, <1>8 DEF ClearPortAnnotation, Service
  <1>9. CASE ClearFipAnnotation
    BY <1>3, <1>6, <1>9 DEF ClearFipAnnotation, Service
  <1>10. CASE UpdateServiceExternalIPs
    <2>1. CASE svc' = svc
      BY <2>1, NoServiceWrite
    <2> QED
      BY <1>3, <1>6, <1>10, <2>1 DEF UpdateServiceExternalIPs, Service
  <1>11. CASE ClearAnnotations
    <2> DEFINE x == IF "port" \in w.clr THEN None ELSE c.portAnn
               y == IF "fip" \in w.clr THEN None ELSE c.fipAnn
               d == [c EXCEPT !.portAnn = x, !.fipAnn = y]
    <2>1. x \in {None, c.portAnn} /\ y \in {None, c.fipAnn}
      OBVIOUS
    <2>2. UpdateService(s, d, CleanupReturns(w.fail), CleanupReturns(TRUE))
      BY <1>11 DEF ClearAnnotations
    <2> HIDE DEF x, y
    <2>3. /\ d.uid = c.uid /\ d.exists = c.exists /\ d.fin = c.fin /\ d.deleting = c.deleting
          /\ d.portAnn = x /\ d.fipAnn = y
      BY <1>3 DEF Service
    <2> HIDE DEF d
    <2> QED
      BY <1>6, <2>1, <2>2, <2>3
  <1> QED
    BY <1>4, <1>5, <1>7, <1>8, <1>9, <1>10, <1>11

(* Both places that add the finalizer to a copy read before. *)
LEMMA GrantSuccession ==
    ASSUME TypeOK, LeakInv, EnsureServiceHasFinalizer \/ EnsureServiceFinalizer
    PROVE  Succession
  <1> DEFINE s == w.cur
             obj == [w.snap[s] EXCEPT !.fin = TRUE]
             c == Overwrite(svc[s], obj)
  <1>1. w.pc \in {"svcFinalizer", "handlerFinalizer"}
    BY DEF EnsureServiceHasFinalizer, EnsureServiceFinalizer
  <1>2. s \in Services
    BY <1>1 DEF LeakInv, ControlInv, Control, ServicePCs, LoopPCs, HandlerPCs
  <1>3. w.snap[s] \in Service /\ svc[s] \in Service
    BY <1>2, WorkerParts DEF TypeOK
  <1>4. /\ obj.uid = w.snap[s].uid /\ obj.fin
        /\ c.fin /\ c.uid = obj.uid /\ c.deleting = svc[s].deleting
        /\ c.portAnn = w.snap[s].portAnn /\ c.fipAnn = w.snap[s].fipAnn
    BY <1>3 DEF Overwrite, Service
  <1>5. \/ svc' = svc
        \/ /\ csvc[s].exists /\ s \in fresh /\ Accepts(svc[s], obj)
           /\ WriteService(s, c)
    BY DEF EnsureServiceHasFinalizer, EnsureServiceFinalizer, UpdateResource
  <1>6. CASE svc' = svc
    BY <1>6, NoServiceWrite
  <1>7. CASE csvc[s].exists /\ s \in fresh /\ Accepts(svc[s], obj) /\ WriteService(s, c)
    <2>1. svc[s].exists
      BY <1>2, <1>7 DEF LeakInv, FreshInv
    <2>2. obj.uid = svc[s].uid /\ (svc[s].deleting => svc[s].fin)
      BY <1>4, <1>7 DEF Accepts
    <2>3. svc[s].uid \in Nat
      BY <1>3 DEF Service
    <2> HIDE DEF c, obj
    <2>4. Ages(svc[s], c)
      BY <1>4, <2>1, <2>2, <2>3 DEF Ages, Doomed
    <2>5. Joins(s)
      BY <1>1, <1>7, <2>1 DEF Joins
    <2>6. Successor(s, c)
      BY <1>4, <2>2, <2>4, <2>5 DEF Successor, Covered
    <2> QED
      BY <1>2, <1>7, <2>6, WriteSuccession
  <1> QED
    BY <1>5, <1>6, <1>7

(* Both removals of the finalizer meet a Service that is terminating, or    *)
(* has no finalizer to lose.                                                *)
LEMMA DropSuccession ==
    ASSUME TypeOK, LeakInv, StaleInv, RemoveServiceFinalizer \/ ForceFinalizerRemoval
    PROVE  Succession
  <1> DEFINE s == w.cur
  <1>1. w.pc \in {"unfinalize", "force"}
    BY DEF RemoveServiceFinalizer, ForceFinalizerRemoval
  <1>2. s \in Services
    BY <1>1 DEF LeakInv, ControlInv, Control, ServicePCs, CleanupPCs, DeletePCs
  <1>3. /\ w.snap[s].exists /\ w.snap[s].deleting
        /\ ~Healthy(svc[s])
    BY <1>1, <1>2 DEF LeakInv, WorkerInv, CleanupInv, CleanupPCs, DeletePCs
  <1>4. w.snap[s] \in Service /\ svc[s] \in Service
    BY <1>2, WorkerParts DEF TypeOK
  <1>5. svc[s].uid \in Nat
    BY <1>4 DEF Service
  <1>6. CASE svc' = svc
    BY <1>6, NoServiceWrite
  <1>7. CASE RemoveServiceFinalizer /\ svc' # svc
    <2> DEFINE obj == [w.snap[s] EXCEPT !.fin = FALSE]
               c == Overwrite(svc[s], obj)
    <2>1. /\ csvc[s].exists /\ s \in fresh /\ Accepts(svc[s], obj)
          /\ WriteService(s, c)
      BY <1>7 DEF RemoveServiceFinalizer, UpdateResource
    <2>2. /\ obj.uid = w.snap[s].uid /\ c.uid = obj.uid /\ ~c.fin
          /\ c.deleting = svc[s].deleting
          /\ c.portAnn = w.snap[s].portAnn /\ c.fipAnn = w.snap[s].fipAnn
      BY <1>4 DEF Overwrite, Service
    <2>3. svc[s].uid = w.snap[s].uid
      BY <2>1, <2>2 DEF Accepts
    <2>4. svc[s].exists
      BY <1>2, <2>1 DEF LeakInv, FreshInv
    <2>5. svc[s].deleting
      BY <1>2, <1>3, <2>3, <2>4 DEF StaleInv, Lags, Doomed
    <2> HIDE DEF c, obj
    <2>6. Successor(s, c)
      BY <1>5, <2>2, <2>3, <2>5 DEF Successor, Ages, Doomed, Covered
    <2> QED
      BY <1>2, <2>1, <2>6, WriteSuccession
  <1>8. CASE ForceFinalizerRemoval /\ svc' # svc
    <2> DEFINE c == [svc[s] EXCEPT !.fin = FALSE, !.otherFin = FALSE]
    <2>1. svc[s].exists /\ WriteService(s, c)
      BY <1>8 DEF ForceFinalizerRemoval
    <2>2. /\ c.uid = svc[s].uid /\ c.exists = svc[s].exists /\ ~c.fin
          /\ c.deleting = svc[s].deleting
          /\ c.portAnn = svc[s].portAnn /\ c.fipAnn = svc[s].fipAnn
      BY <1>4 DEF Service
    <2> HIDE DEF c
    <2>3. Covered(svc[s]) => Covered(c)
      BY <1>3, <2>1, <2>2 DEF Covered, Healthy, HasResourceAnnotations
    <2>4. Successor(s, c)
      BY <1>5, <2>2, <2>3 DEF Successor, Ages, Doomed
    <2> QED
      BY <1>2, <2>1, <2>4, WriteSuccession
  <1> QED
    BY <1>6, <1>7, <1>8

(* Every step. *)
LEMMA StepSuccession ==
    ASSUME TypeOK, LeakInv, StaleInv, [Next]_vars
    PROVE  Succession
  <1>1. CASE UNCHANGED vars
    BY <1>1, NoServiceWrite DEF vars
  <1>2. CASE Environment
    BY <1>2, EnvironmentSuccession
  <1>3. CASE Provision
    BY <1>3, QuietSuccession, AnnotationSuccession, GrantSuccession DEF Provision
  <1>4. CASE Cleanup
    BY <1>4, QuietSuccession, AnnotationSuccession, DropSuccession DEF Cleanup
  <1>5. CASE Delete \/ Return
    BY <1>5, QuietSuccession DEF Delete
  <1>6. CASE Handle
    BY <1>6, QuietSuccession, AnnotationSuccession, GrantSuccession DEF Handle
  <1>7. CASE (\E r \in Requests : Dequeue(r) \/ Sync(r)) \/ Resync \/ Restart
    BY <1>7, QuietSuccession
  <1> QED
    BY <1>1, <1>2, <1>3, <1>4, <1>5, <1>6, <1>7 DEF Next, Work

-----------------------------------------------------------------------------
(* The copies *)

(* A copy is made of what the API server has, or of what the cache has. *)
Copied(s) ==
    /\ csvc'[s] \in {csvc[s], svc'[s]}
    /\ w'.snap[s] \in {w.snap[s], csvc[s], NoService(0)}

(* The steps that read the Services, or forget them. *)
LEMMA Readings ==
    ASSUME TypeOK,
           \/ ListServices \/ StartDeletion \/ Return \/ Restart
           \/ \E r \in Requests : Dequeue(r)
    PROVE  \A s \in Services : w'.snap[s] \in {w.snap[s], csvc[s], NoService(0)}
  <1>1. IdleWorker.snap = NoSnap
    BY DEF IdleWorker
  <1>2. CASE ListServices
    <2> DEFINE T == {s \in Services : Eligible(w.req, s, csvc[s])}
               m == SetCondition(w.mem, "Ready", "OpenStackClientError")
    <2>1. \/ \E x : w' = [w EXCEPT !.pc = "loop", !.client = x, !.snap = csvc, !.todo = T]
          \/ w' = [w EXCEPT !.pc = "status", !.mem = m]
      BY <1>2 DEF ListServices
    <2> HIDE DEF T, m
    <2>2. w'.snap = csvc \/ w'.snap = w.snap
      BY <2>1 DEF TypeOK, Worker
    <2> QED
      BY <2>2
  <1>3. CASE StartDeletion
    <2> DEFINE T == {s \in Services : Managed(w.req, s, csvc[s])}
    <2>1. \/ \E x : w' = [w EXCEPT !.pc = "delLoop", !.client = x, !.snap = csvc, !.todo = T]
          \/ w' = [w EXCEPT !.pc = "lbUnfinalize", !.fail = TRUE]
      BY <1>3 DEF StartDeletion
    <2> HIDE DEF T
    <2>2. w'.snap = csvc \/ w'.snap = w.snap
      BY <2>1 DEF TypeOK, Worker
    <2> QED
      BY <2>2
  <1>4. CASE Return \/ Restart
    BY <1>1, <1>4 DEF Return, Restart, NoSnap
  <1>5. ASSUME NEW r, Reconcile(r)
        PROVE  w'.snap = NoSnap
    BY <1>5 DEF Reconcile, IdleWorker
  <1>6. ASSUME NEW r, ReconcileService(r)
        PROVE  w'.snap = [NoSnap EXCEPT ![r] = csvc[r]]
    BY <1>6 DEF ReconcileService, IdleWorker
  <1> QED
    BY <1>2, <1>3, <1>4, <1>5, <1>6 DEF Dequeue, NoSnap

(* Every step. *)
LEMMA StepCopies ==
    ASSUME TypeOK, [Next]_vars
    PROVE  \A s \in Services : Copied(s)
  <1>1. ASSUME csvc' = csvc, w'.snap = w.snap
        PROVE  \A s \in Services : Copied(s)
    BY <1>1 DEF Copied
  <1>2. CASE UNCHANGED vars
    BY <1>1, <1>2 DEF vars
  <1>3. CASE Environment
    <2>1. csvc' = csvc /\ w' = w
      BY <1>3 DEF Environment, Outside, CreateService, AssignIP, ReassignIP, DeleteService,
             EditService, AddOtherFinalizer, RemoveOtherFinalizer, CreateLB, EditLB, DeleteLB,
             DeletePortOutside, DeleteFipOutside, AttachUserFip, cache
    <2> QED
      BY <1>1, <2>1
  <1>4. CASE Ongoing
    <2>1. Keeps(w')
      BY <1>4, OngoingKeeps DEF TypeOK
    <2>2. csvc' = csvc
      BY <1>4 DEF Ongoing, AddLBFinalizer, ProcessService, EnsureServiceHasFinalizer,
         EnsureServiceHasCredentials, DetectNetworkForLB, VerifyPort, ClearPortAnnotation,
         EnsurePortExists, TagPort, AnnotatePort, VerifyFloatingIP, ClearFipAnnotation,
         FindFloatingIP, CreateNewFloatingIP, TagFip, AnnotateFip, UpdateServiceExternalIPs,
         EndLoop, WriteStatus, Cleanup, ListResources, DeleteFips, FipsDone, DeletePorts,
         PortsDone, ClearAnnotations, RemoveServiceFinalizer, ForceFinalizerRemoval,
         CleanupService, EndDeletion, RemoveLBFinalizer, Handle, EnsureServiceFinalizer,
         UpdateServiceWithCredentials, GetOpenStackClientFromService, cache
    <2> QED
      BY <1>1, <2>1, <2>2 DEF Keeps
  <1>5. CASE ListServices \/ StartDeletion \/ Return \/ \E r \in Requests : Dequeue(r)
    <2>1. csvc' = csvc
      BY <1>5 DEF ListServices, StartDeletion, Return, Dequeue, Reconcile, ReconcileService,
                  cache
    <2> QED
      BY <1>5, <2>1, Readings DEF Copied
  <1>6. CASE Restart
    <2>1. csvc' = svc'
      BY <1>6 DEF Restart, kube
    <2> QED
      BY <1>6, <2>1, Readings DEF Copied
  <1>7. CASE Resync \/ \E r \in Requests : Sync(r)
    <2>1. w' = w /\ svc' = svc
      BY <1>7 DEF Resync, Sync, SyncLB, SyncService, kube
    <2>2. \A s \in Services : csvc'[s] \in {csvc[s], svc[s]}
      BY <1>7 DEF Resync, Sync, SyncLB, SyncService, TypeOK, cache
    <2> QED
      BY <2>1, <2>2 DEF Copied
  <1> QED
    BY <1>2, <1>3, <1>4, <1>5, <1>6, <1>7
       DEF Next, Work, Provision, Delete, Ongoing

(* Copies go on lagging behind the Services. *)
LEMMA StaleKept ==
    ASSUME TypeOK, TypeOK', LeakInv, StaleInv, [Next]_vars
    PROVE  StaleInv'
  <1> SUFFICES ASSUME NEW s \in Services
               PROVE  Lags(csvc'[s], svc'[s]) /\ Lags(w'.snap[s], svc'[s])
    BY DEF StaleInv
  <1>1. /\ svc[s].uid \in Nat /\ csvc[s].uid \in Nat /\ w.snap[s].uid \in Nat
        /\ svc'[s].uid \in Nat
    <2>1. svc[s] \in Service /\ csvc[s] \in Service /\ svc'[s] \in Service
      BY DEF TypeOK
    <2>2. w.snap[s] \in Service
      BY WorkerParts DEF TypeOK
    <2> QED
      BY <2>1, <2>2 DEF Service
  <1>2. Ages(svc[s], svc'[s])
    BY StepSuccession DEF Succession, Successor
  <1>3. Lags(csvc[s], svc'[s]) /\ Lags(w.snap[s], svc'[s])
    BY <1>1, <1>2, LagsOn DEF StaleInv
  <1>4. Lags(svc'[s], svc'[s])
    BY <1>1, LagsSelf
  <1>5. Lags(NoService(0), svc'[s])
    BY <1>1 DEF Lags, NoService
  <1>6. Copied(s)
    BY StepCopies
  <1> QED
    BY <1>3, <1>4, <1>5, <1>6 DEF Copied

(* Every step of the operator and of its environment keeps AnnotationInv. *)
LEMMA AnnotationInductive ==
    /\ Init => AnnotationInv
    /\ TypeInv /\ LeakInv /\ AnnotationInv /\ [Next]_vars => AnnotationInv'
  <1>1. ASSUME Init PROVE AnnotationInv
    <2>1. \A s \in Services : /\ svc[s] = NoService(0) /\ csvc[s] = NoService(0)
                              /\ w.snap[s] = NoService(0)
      BY <1>1 DEF Init, IdleWorker, NoSnap
    <2>2. Lags(NoService(0), NoService(0))
      BY DEF Lags, NoService
    <2>3. StaleInv
      BY <2>1, <2>2 DEF StaleInv
    <2>4. AnnotatedIsProtected
      BY <2>1 DEF AnnotatedIsProtected, NoService
    <2> QED
      BY <2>3, <2>4 DEF AnnotationInv
  <1>2. ASSUME TypeInv, LeakInv, AnnotationInv, [Next]_vars PROVE AnnotationInv'
    <2>1. TypeOK /\ TypeOK'
      BY <1>2, TypeInductive DEF TypeInv
    <2>2. StaleInv'
      BY <1>2, <2>1, StaleKept DEF AnnotationInv
    <2>3. \A s \in Services : Covered(svc[s]) => Covered(svc'[s])
      BY <1>2, <2>1, StepSuccession DEF AnnotationInv, Succession, Successor
    <2>4. \A s \in Services : Covered(svc[s])
      BY <1>2 DEF AnnotationInv, AnnotatedIsProtected, Covered
    <2>5. AnnotatedIsProtected'
      BY <2>3, <2>4 DEF AnnotatedIsProtected, Covered
    <2> QED
      BY <2>2, <2>5 DEF AnnotationInv
  <1> QED
    BY <1>1, <1>2

(* The argument as an invariant: a copy of a Service, in the cache or in a  *)
(* reconcile's memory, is of the same incarnation or an earlier one, and of *)
(* the same one its deletion stands.                                        *)
THEOREM AnnotationInvariant == Spec => []AnnotationInv
  <1>1. Init => TypeInv /\ LeakInv /\ AnnotationInv
    BY TypeInductive, LeakInductive, AnnotationInductive
  <1>2. TypeInv /\ LeakInv /\ AnnotationInv /\ [Next]_vars
            => (TypeInv /\ LeakInv /\ AnnotationInv)'
    BY TypeInductive, LeakInductive, AnnotationInductive
  <1> QED
    BY <1>1, <1>2, PTL DEF Spec

(* A Service that records a port or a floating IP and is not being deleted  *)
(* carries the finalizer, whichever write came last: the retried write of a *)
(* copy read long before, a write whose reply was lost, or the forced       *)
(* removal that carries no version (updateResourceWithRetry,                *)
(* forceFinalizerRemoval), for any number of Services, LBs and projects.    *)
THEOREM AnnotatedProtected == Spec => []AnnotatedIsProtected
  <1>1. Spec => []AnnotationInv
    BY AnnotationInvariant
  <1>2. AnnotationInv => AnnotatedIsProtected
    BY DEF AnnotationInv
  <1> QED
    BY <1>1, <1>2, PTL

=============================================================================
