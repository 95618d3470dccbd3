------------------------------ MODULE AnswerProofs ------------------------------
(***************************************************************************)
(* An OpenStackLoadBalancer answers for the ports of its class:            *)
(* PortsAnsweredFor, for every value of the constants, by way of AnswerInv. *)
(***************************************************************************)
EXTENDS StaleProofs

-----------------------------------------------------------------------------
(* The OpenStackLoadBalancers *)

(* The deletion of l is through: the finalizer goes, after the cleanup. *)
Dismissed(l) == w.pc = "lbUnfinalize" /\ w.req = l /\ RemoveLBFinalizer

(* What LB l may become in one step: n. *)
LBSuccessor(l, n) ==
    /\ Ages(lb[l], n)
    /\ Answers(l) => \/ n.exists /\ n.fin
                     \/ Dismissed(l) /\ ~Healthy(clb[l])

(* What a step does to the LBs and to the cache of them. *)
LBStep == \A l \in LBs :
    /\ LBSuccessor(l, lb'[l])
    /\ l \in fresh' => clb'[l] = lb'[l]
    /\ clb'[l] \in {clb[l], lb'[l]}

(* Steps that leave the LBs alone. *)
LEMMA NoLBWrite ==
    ASSUME TypeOK, LBCacheInv, lb' = lb, clb' = clb,
           \A l \in LBs : l \in fresh' => l \in fresh
    PROVE  LBStep
  <1>1. \A l \in LBs : lb[l].uid \in Nat
    BY DEF TypeOK, LoadBalancer
  <1> QED
    BY <1>1, LagsSelf DEF LBStep, LBSuccessor, LBCacheInv, Answers

(* A write, and the removal that the API server may make of it. *)
LEMMA LBWriteStep ==
    ASSUME TypeOK, LBCacheInv, NEW l \in LBs, NEW b, WriteLB(l, b), clb' = clb,
           LBSuccessor(l, b)
    PROVE  LBStep
  <1>1. lb[l].uid \in Nat /\ \A k \in LBs : lb[k].uid \in Nat
    BY DEF TypeOK, LoadBalancer
  <1>2. LBSuccessor(l, SettleLB(b))
    BY DEF SettleLB, LBSuccessor, Ages, Doomed, NoLB
  <1>3. lb'[l] = SettleLB(b) /\ \A k \in LBs : k # l => lb'[k] = lb[k]
    BY DEF WriteLB, TypeOK
  <1>4. \A k \in LBs : k # l => LBSuccessor(k, lb'[k])
    BY <1>1, <1>3, LagsSelf DEF LBSuccessor, Answers
  <1>5. \A k \in LBs : k \in fresh' => k \in fresh /\ lb'[k] = lb[k]
    BY <1>3 DEF WriteLB
  <1> QED
    BY <1>2, <1>3, <1>4, <1>5 DEF LBStep, LBCacheInv

(* Users and other controllers. *)
LEMMA EnvironmentLB ==
    ASSUME TypeOK, LBCacheInv, Environment
    PROVE  LBStep
  <1>1. clb' = clb
    BY DEF Environment, Outside, CreateService, AssignIP, ReassignIP, DeleteService,
           EditService, AddOtherFinalizer, RemoveOtherFinalizer, CreateLB, EditLB, DeleteLB,
           DeletePortOutside, DeleteFipOutside, AttachUserFip, cache
  <1>2. ASSUME NEW l \in LBs, CreateLB(l)
        PROVE  LBStep
    <2>1. PICK f \in FipChoices :
              WriteLB(l, [NoLB(lb[l].uid + 1) EXCEPT !.exists = TRUE, !.fip = f])
      BY <1>2 DEF CreateLB
    <2> DEFINE b == [NoLB(lb[l].uid + 1) EXCEPT !.exists = TRUE, !.fip = f]
    <2>2. b.uid = lb[l].uid + 1
      BY DEF NoLB
    <2>3. lb[l].uid \in Nat /\ ~lb[l].exists
      BY <1>2 DEF TypeOK, LoadBalancer, CreateLB
    <2> HIDE DEF b
    <2>4. LBSuccessor(l, b)
      BY <2>2, <2>3 DEF LBSuccessor, Ages, Answers
    <2> QED
      BY <1>1, <2>1, <2>4, LBWriteStep DEF b
  <1>3. ASSUME NEW l \in LBs, EditLB(l)
        PROVE  LBStep
    <2>1. PICK f : WriteLB(l, [lb[l] EXCEPT !.fip = f])
      BY <1>3 DEF EditLB
    <2> DEFINE b == [lb[l] EXCEPT !.fip = f]
    <2>2. lb[l] \in LoadBalancer
      BY DEF TypeOK
    <2>3. /\ b.uid = lb[l].uid /\ b.exists = lb[l].exists /\ b.fin = lb[l].fin
          /\ b.deleting = lb[l].deleting /\ lb[l].uid \in Nat
      BY <2>2 DEF LoadBalancer
    <2> HIDE DEF b
    <2>4. LBSuccessor(l, b)
      BY <2>3 DEF LBSuccessor, Ages, Doomed, Answers
    <2> QED
      BY <1>1, <2>1, <2>4, LBWriteStep DEF b
  <1>4. ASSUME NEW l \in LBs, DeleteLB(l)
        PROVE  LBStep
    <2> DEFINE b == [lb[l] EXCEPT !.deleting = TRUE]
    <2>1. WriteLB(l, b)
      BY <1>4 DEF DeleteLB
    <2>2. lb[l] \in LoadBalancer
      BY DEF TypeOK
    <2>3. /\ b.uid = lb[l].uid /\ b.exists = lb[l].exists /\ b.fin = lb[l].fin
          /\ b.deleting /\ lb[l].uid \in Nat
      BY <2>2 DEF LoadBalancer
    <2> HIDE DEF b
    <2>4. LBSuccessor(l, b)
      BY <2>3 DEF LBSuccessor, Ages, Doomed, Answers
    <2> QED
      BY <1>1, <2>1, <2>4, LBWriteStep
  <1>5. CASE lb' = lb /\ fresh' \subseteq fresh
    BY <1>1, <1>5, NoLBWrite
  <1>6. ASSUME NEW s, NEW c, WriteService(s, c)
        PROVE  fresh' \subseteq fresh
    BY <1>6 DEF WriteService
  <1> QED
    BY <1>2, <1>3, <1>4, <1>5, <1>6
       DEF Environment, CreateService, AssignIP, ReassignIP, DeleteService, EditService,
           AddOtherFinalizer, RemoveOtherFinalizer, DeletePortOutside, DeleteFipOutside,
           AttachUserFip, kube

(* The operator's own writes: the finalizer added, the status, the          *)
(* finalizer removed.                                                       *)
LEMMA WorkerLB ==
    ASSUME TypeOK, ControlInv, LBCacheInv, MemInv,
           AddLBFinalizer \/ WriteStatus \/ RemoveLBFinalizer
    PROVE  LBStep
  <1> DEFINE l == w.req
  <1>1. clb' = clb
    BY DEF AddLBFinalizer, WriteStatus, RemoveLBFinalizer, cache
  <1>2. l \in LBs
    BY DEF AddLBFinalizer, WriteStatus, RemoveLBFinalizer, ControlInv, Control, LBPCs
  <1>3. lb[l] \in LoadBalancer /\ w.mem \in LoadBalancer
    BY <1>2, WorkerParts DEF TypeOK
  <1>4. lb[l].uid \in Nat
    BY <1>3 DEF LoadBalancer
  <1>5. l \in fresh /\ clb[l].exists => lb[l].exists /\ lb[l] = clb[l]
    BY <1>2 DEF LBCacheInv
  <1>6. CASE lb' = lb /\ fresh' = fresh
    BY <1>1, <1>6, NoLBWrite
  <1>7. CASE AddLBFinalizer /\ ~(lb' = lb /\ fresh' = fresh)
    <2> DEFINE b == [lb[l] EXCEPT !.fin = TRUE, !.fip = w.mem.fip]
    <2>1. /\ clb[l].exists /\ l \in fresh /\ (lb[l].deleting => lb[l].fin)
          /\ WriteLB(l, b)
      BY <1>7 DEF AddLBFinalizer, UpdateLB
    <2>2. /\ b.uid = lb[l].uid /\ b.exists = lb[l].exists /\ b.fin
          /\ b.deleting = lb[l].deleting
      BY <1>3 DEF LoadBalancer
    <2> HIDE DEF b
    <2>3. LBSuccessor(l, b)
      BY <1>4, <1>5, <2>1, <2>2 DEF LBSuccessor, Ages, Doomed, Answers
    <2> QED
      BY <1>1, <1>2, <2>1, <2>3, LBWriteStep
  <1>8. CASE WriteStatus /\ ~(lb' = lb /\ fresh' = fresh)
    <2> DEFINE b == [lb[l] EXCEPT !.net = w.mem.net, !.ready = w.mem.ready,
                                  !.cond = w.mem.cond]
    <2>1. WriteLB(l, b)
      BY <1>8 DEF WriteStatus, UpdateStatus
    <2>2. /\ b.uid = lb[l].uid /\ b.exists = lb[l].exists /\ b.fin = lb[l].fin
          /\ b.deleting = lb[l].deleting
      BY <1>3 DEF LoadBalancer
    <2> HIDE DEF b
    <2>3. LBSuccessor(l, b)
      BY <1>4, <2>2 DEF LBSuccessor, Ages, Doomed, Answers
    <2> QED
      BY <1>1, <1>2, <2>1, <2>3, LBWriteStep
  <1>9. CASE RemoveLBFinalizer /\ ~(lb' = lb /\ fresh' = fresh)
    <2> DEFINE b == [lb[l] EXCEPT !.fin = FALSE, !.fip = w.mem.fip]
    <2>1. /\ clb[l].exists /\ l \in fresh /\ w.mem.uid = lb[l].uid
          /\ WriteLB(l, b) /\ w.pc = "lbUnfinalize"
      BY <1>9 DEF RemoveLBFinalizer, UpdateLB
    <2>2. /\ b.uid = lb[l].uid /\ b.exists = lb[l].exists /\ ~b.fin
          /\ b.deleting = lb[l].deleting
      BY <1>3 DEF LoadBalancer
    <2> HIDE DEF b
    <2>3. w.mem.exists /\ w.mem.deleting /\ Lags(w.mem, lb[l])
      BY <1>2, <2>1 DEF MemInv
    <2>4. clb[l].deleting
      BY <1>5, <2>1, <2>3 DEF Lags, Doomed
    <2>5. LBSuccessor(l, b)
      BY <1>4, <1>9, <2>1, <2>2, <2>4 DEF LBSuccessor, Ages, Doomed, Healthy, Dismissed
    <2> QED
      BY <1>1, <1>2, <2>1, <2>5, LBWriteStep
  <1> QED
    BY <1>6, <1>7, <1>8, <1>9

(* Every step. *)
LEMMA StepLB ==
    ASSUME TypeOK, ControlInv, LBCacheInv, MemInv, [Next]_vars
    PROVE  LBStep
  <1>1. CASE lb' = lb /\ clb' = clb /\ \A l \in LBs : l \in fresh' => l \in fresh
    BY <1>1, NoLBWrite
  <1>2. ASSUME NEW s, NEW c, WriteService(s, c)
        PROVE  fresh' \subseteq fresh
    BY <1>2 DEF WriteService
  <1>3. CASE UNCHANGED vars
    BY <1>1, <1>3 DEF vars
  <1>4. CASE Environment
    BY <1>4, EnvironmentLB
  <1>5. CASE AddLBFinalizer \/ WriteStatus \/ RemoveLBFinalizer
    BY <1>5, WorkerLB
  <1>6. CASE Provision /\ ~AddLBFinalizer /\ ~WriteStatus
    <2>1. lb' = lb /\ clb' = clb
      BY <1>6 DEF Provision, ListServices, ProcessService,
             EnsureServiceHasFinalizer, EnsureServiceHasCredentials, DetectNetworkForLB,
             VerifyPort, ClearPortAnnotation, EnsurePortExists, TagPort, AnnotatePort,
             VerifyFloatingIP, ClearFipAnnotation, FindFloatingIP, CreateNewFloatingIP,
             TagFip, AnnotateFip, UpdateServiceExternalIPs, EndLoop, kube, cache
    <2>2. fresh' \subseteq fresh
      BY <1>2, <1>6 DEF Provision, ListServices, ProcessService,
             EnsureServiceHasFinalizer, EnsureServiceHasCredentials, DetectNetworkForLB,
             VerifyPort, ClearPortAnnotation, EnsurePortExists, TagPort, AnnotatePort,
             VerifyFloatingIP, ClearFipAnnotation, FindFloatingIP, CreateNewFloatingIP,
             TagFip, AnnotateFip, UpdateServiceExternalIPs, EndLoop, UpdateResource,
             UpdateService
    <2> QED
      BY <1>1, <2>1, <2>2
  <1>7. CASE Cleanup \/ Handle \/ Return \/ (Delete /\ ~RemoveLBFinalizer)
    <2>1. lb' = lb /\ clb' = clb
      BY <1>7 DEF Cleanup, ListResources, DeleteFips, FipsDone, DeletePorts, PortsDone,
             ClearAnnotations, RemoveServiceFinalizer, ForceFinalizerRemoval, Delete,
             StartDeletion, CleanupService, EndDeletion, Handle, EnsureServiceFinalizer,
             UpdateServiceWithCredentials, GetOpenStackClientFromService, Return, kube, cache
    <2>2. fresh' \subseteq fresh
      BY <1>2, <1>7 DEF Cleanup, ListResources, DeleteFips, FipsDone, DeletePorts, PortsDone,
             ClearAnnotations, RemoveServiceFinalizer, ForceFinalizerRemoval, Delete,
             StartDeletion, CleanupService, EndDeletion, Handle, EnsureServiceFinalizer,
             UpdateServiceWithCredentials, GetOpenStackClientFromService, Return,
             UpdateResource, UpdateService
    <2> QED
      BY <1>1, <2>1, <2>2
  <1>8. CASE Resync \/ \E r \in Requests : Dequeue(r)
    BY <1>1, <1>8 DEF Dequeue, Reconcile, ReconcileService, Resync, kube, cache
  <1>9. CASE Restart
    <2>1. lb' = lb /\ clb' = lb
      BY <1>9 DEF Restart, kube
    <2>2. \A l \in LBs : lb[l].uid \in Nat
      BY DEF TypeOK, LoadBalancer
    <2> QED
      BY <2>1, <2>2, LagsSelf DEF LBStep, LBSuccessor, Answers
  <1>10. ASSUME NEW r \in Requests, Sync(r)
         PROVE  LBStep
    <2>1. \A l \in LBs : lb[l].uid \in Nat
      BY DEF TypeOK, LoadBalancer
    <2>2. CASE r \in Services /\ SyncService(r)
      <3>1. r \notin LBs
        BY <2>2, NamesAssumption
      <3> QED
        BY <1>1, <2>2, <3>1 DEF SyncService, kube
    <2>3. CASE r \in LBs /\ SyncLB(r)
      <3>1. lb' = lb /\ fresh' = fresh \cup {r} /\ clb'[r] = lb[r]
        BY <2>3 DEF SyncLB, kube, TypeOK
      <3>2. \A k \in LBs : k # r => clb'[k] = clb[k]
        BY <2>3 DEF SyncLB, TypeOK
      <3> QED
        BY <2>1, <3>1, <3>2, LagsSelf DEF LBStep, LBSuccessor, Answers, LBCacheInv
    <2> QED
      BY <1>10, <2>2, <2>3 DEF Sync
  <1> QED
    BY <1>3, <1>4, <1>5, <1>6, <1>7, <1>8, <1>9, <1>10 DEF Next, Work

(* The cache of the LBs stays as good as it was. *)
LEMMA LBCacheKept ==
    ASSUME TypeOK, TypeOK', LBCacheInv, LBStep
    PROVE  LBCacheInv'
  <1> SUFFICES ASSUME NEW l \in LBs
               PROVE  /\ l \in fresh' => clb'[l] = lb'[l]
                      /\ Lags(clb'[l], lb'[l])
                      /\ Healthy(clb'[l]) => lb'[l].exists /\ lb'[l].fin
    BY DEF LBCacheInv, Answers
  <1>1. lb[l].uid \in Nat /\ clb[l].uid \in Nat /\ lb'[l].uid \in Nat
    <2>1. lb[l] \in LoadBalancer /\ clb[l] \in LoadBalancer /\ lb'[l] \in LoadBalancer
      BY DEF TypeOK
    <2> QED
      BY <2>1 DEF LoadBalancer
  <1>2. Lags(clb[l], lb'[l]) /\ Lags(lb'[l], lb'[l])
    BY <1>1, LagsOn, LagsSelf DEF LBStep, LBSuccessor, LBCacheInv
  <1>3. clb'[l] \in {clb[l], lb'[l]}
    BY DEF LBStep
  <1>4. Healthy(clb[l]) => lb'[l].exists /\ lb'[l].fin
    BY DEF LBStep, LBSuccessor, LBCacheInv, Answers
  <1>5. Healthy(lb'[l]) => lb'[l].exists /\ lb'[l].fin
    BY DEF Healthy
  <1> QED
    BY <1>2, <1>3, <1>4, <1>5 DEF LBStep

-----------------------------------------------------------------------------
(* The course of a reconcile *)

(* The steps of the loop over the Services. *)
LoopStep ==
    \/ ProcessService
    \/ EnsureServiceHasFinalizer \/ EnsureServiceHasCredentials \/ DetectNetworkForLB
    \/ VerifyPort \/ ClearPortAnnotation \/ EnsurePortExists \/ TagPort \/ AnnotatePort
    \/ VerifyFloatingIP \/ ClearFipAnnotation \/ FindFloatingIP \/ CreateNewFloatingIP
    \/ TagFip \/ AnnotateFip \/ UpdateServiceExternalIPs

(* v is in the loop still, at a Service that was to be processed. *)
Loops(v) ==
    /\ v.pc \in LoopPCs /\ v.todo \subseteq w.todo
    /\ v.pc = "loop" \/ v.cur \in w.todo \/ (v.cur = w.cur /\ w.pc # "loop")

(* How the steps of the loop leave the worker. *)
LEMMA MovesLoop ==
    ASSUME w \in Worker
    PROVE  /\ \A rq, e : Loops(Processed(rq, e))
           /\ w.pc # "loop" => \A x \in LoopPCs : Loops([w EXCEPT !.pc = x])
           /\ w.pc # "loop" => \A p : Loops(WithPort(p))
  <1>1. ASSUME NEW rq, NEW e
        PROVE  Loops(Processed(rq, e))
    BY DEF Processed, Loops, LoopPCs, Worker
  <1>2. ASSUME NEW x \in LoopPCs, w.pc # "loop"
        PROVE  Loops([w EXCEPT !.pc = x])
    BY <1>2 DEF Loops, Worker
  <1>3. ASSUME NEW p, w.pc # "loop"
        PROVE  Loops(WithPort(p))
    <2>1. "fip" \in LoopPCs
      BY DEF LoopPCs, EnsurePCs
    <2>2. Loops([w EXCEPT !.pc = "fip", !.pid = p])
      BY <1>3, <2>1 DEF Loops, Worker
    <2> QED
      BY <1>1, <2>2 DEF WithPort
  <1> QED
    BY <1>1, <1>2, <1>3

(* The steps of the loop stay in the loop. *)
LEMMA LoopMoves ==
    ASSUME TypeOK, LoopStep
    PROVE  w.pc \in LoopPCs /\ Loops(w')
  <1>1. w \in Worker
    BY DEF TypeOK
  <1>2. w.pc \in LoopPCs
    BY DEF LoopStep, ProcessService, EnsureServiceHasFinalizer, EnsureServiceHasCredentials,
           DetectNetworkForLB, VerifyPort, ClearPortAnnotation, EnsurePortExists, TagPort,
           AnnotatePort, VerifyFloatingIP, ClearFipAnnotation, FindFloatingIP,
           CreateNewFloatingIP, TagFip, AnnotateFip, UpdateServiceExternalIPs, LoopPCs,
           EnsurePCs
  <1>3. {"clearPort", "annotatePort", "clearFip", "createFip", "externalIPs", "port",
         "network", "credentials", "svcFinalizer", "tagPort", "tagFip", "annotateFip"}
            \subseteq LoopPCs
    BY DEF LoopPCs, EnsurePCs
  <1>4. AfterCredentials \in LoopPCs
    BY <1>3 DEF AfterCredentials
  <1>5. CASE EnsureServiceHasFinalizer \/ EnsureServiceHasCredentials
             \/ ClearPortAnnotation \/ AnnotatePort \/ ClearFipAnnotation \/ AnnotateFip
             \/ UpdateServiceExternalIPs \/ VerifyPort \/ TagPort \/ TagFip
    <2>1. w.pc # "loop"
      BY <1>5 DEF EnsureServiceHasFinalizer, EnsureServiceHasCredentials, VerifyPort,
             ClearPortAnnotation, TagPort, AnnotatePort, ClearFipAnnotation, TagFip,
             AnnotateFip, UpdateServiceExternalIPs
    <2>2. \/ \E rq, e : w' = Processed(rq, e)
          \/ \E x \in LoopPCs : w' = [w EXCEPT !.pc = x]
          \/ \E p : w' = WithPort(p)
      BY <1>3, <1>4, <1>5
         DEF EnsureServiceHasFinalizer, EnsureServiceHasCredentials, VerifyPort,
             ClearPortAnnotation, TagPort, AnnotatePort, ClearFipAnnotation, TagFip,
             AnnotateFip, UpdateServiceExternalIPs, SetPortTags, SetFipTags,
             UpdateResource, UpdateService, Written
    <2> QED
      BY <1>1, <1>2, <2>1, <2>2, MovesLoop
  <1>6. CASE ProcessService
    <2>1. \A c : FirstStep(c) \in LoopPCs
      BY <1>3, <1>4 DEF FirstStep, AfterFinalizer
    <2>2. \E s \in w.todo :
             w' = [w EXCEPT !.todo = w.todo \ {s}, !.cur = s, !.pc = FirstStep(w.snap[s])]
      BY <1>6 DEF ProcessService
    <2>3. ASSUME NEW s \in w.todo, NEW x \in LoopPCs, NEW T \in SUBSET w.todo,
                 w' = [w EXCEPT !.todo = T, !.cur = s, !.pc = x]
          PROVE  Loops(w')
      BY <1>1, <2>3 DEF Loops, Worker
    <2>4. \E s \in w.todo, x \in LoopPCs, T \in SUBSET w.todo :
             w' = [w EXCEPT !.todo = T, !.cur = s, !.pc = x]
      BY <2>1, <2>2
    <2> QED
      BY <1>2, <2>3, <2>4
  <1>7. CASE DetectNetworkForLB
    <2>1. w.pc # "loop"
      BY <1>7 DEF DetectNetworkForLB
    <2>2. \/ \E m : w' = [Processed(TRUE, TRUE) EXCEPT !.mem = m]
          \/ \E m : w' = [w EXCEPT !.pc = "port", !.mem = m]
      BY <1>7 DEF DetectNetworkForLB
    <2>3. ASSUME NEW m, w' = [Processed(TRUE, TRUE) EXCEPT !.mem = m]
          PROVE  Loops(w')
      BY <1>1, <2>3 DEF Processed, Loops, LoopPCs, Worker
    <2>4. ASSUME NEW m, w' = [w EXCEPT !.pc = "port", !.mem = m]
          PROVE  Loops(w')
      BY <1>1, <1>3, <2>1, <2>4 DEF Loops, Worker
    <2> QED
      BY <1>2, <2>2, <2>3, <2>4
  <1>8. CASE VerifyFloatingIP \/ FindFloatingIP \/ EnsurePortExists \/ CreateNewFloatingIP
    <2>1. w.pc # "loop"
      BY <1>8 DEF VerifyFloatingIP, FindFloatingIP, EnsurePortExists, CreateNewFloatingIP
    <2>2. \/ w' = Processed(TRUE, TRUE) \/ \E x \in LoopPCs : w' = [w EXCEPT !.pc = x]
          \/ \E x \in LoopPCs : \E f : w' = [w EXCEPT !.pc = x, !.fid = f]
          \/ \E x \in LoopPCs : \E p : w' = [w EXCEPT !.pc = x, !.pid = p]
      BY <1>3, <1>8
         DEF VerifyFloatingIP, FindFloatingIP, EnsurePortExists, CreateNewFloatingIP,
             CreatePort, CreateFloatingIP
    <2>3. ASSUME NEW x \in LoopPCs, NEW f, w' = [w EXCEPT !.pc = x, !.fid = f]
          PROVE  Loops(w')
      BY <1>1, <2>1, <2>3 DEF Loops, Worker
    <2>4. ASSUME NEW x \in LoopPCs, NEW p, w' = [w EXCEPT !.pc = x, !.pid = p]
          PROVE  Loops(w')
      BY <1>1, <2>1, <2>4 DEF Loops, Worker
    <2>5. ASSUME NEW x \in LoopPCs, w' = [w EXCEPT !.pc = x]
          PROVE  Loops(w')
      BY <1>1, <2>1, <2>5 DEF Loops, Worker
    <2>6. Loops(Processed(TRUE, TRUE))
      BY <1>1, MovesLoop
    <2> QED
      BY <1>2, <2>2, <2>3, <2>4, <2>5, <2>6
  <1> QED
    BY <1>5, <1>6, <1>7, <1>8 DEF LoopStep

(* The steps of the cleanup of one Service. *)
LEMMA CleaningMoves ==
    ASSUME TypeOK, Cleanup
    PROVE  /\ w.pc \in CleanupPCs \ {"svcClient", "delLoop"}
           /\ w'.pc \in (CleanupPCs \ {"svcClient"}) \cup {"return"}
  <1>1. w \in Worker
    BY DEF TypeOK
  <1>2. w.pc \in CleanupPCs \ {"svcClient", "delLoop"}
    BY DEF Cleanup, ListResources, DeleteFips, FipsDone, DeletePorts, PortsDone,
           ClearAnnotations, RemoveServiceFinalizer, ForceFinalizerRemoval, CleanupPCs,
           DeletePCs
  <1> DEFINE X == {"delFips", "delPorts", "clearAnnotations", "unfinalize", "force",
                   "delLoop", "return"}
  <1>3. X \subseteq (CleanupPCs \ {"svcClient"}) \cup {"return"}
    BY DEF CleanupPCs, DeletePCs
  <1>4. \A rq : ServiceHandled(rq).pc \in X
    <2> TAKE rq
    <2> QED
      BY <1>1 DEF ServiceHandled, ReturnWith, Worker
  <1>5. \A failed : CleanupReturns(failed).pc \in X
    <2> TAKE failed
    <2> QED
      BY <1>1, <1>4 DEF CleanupReturns, Worker
  <1>6. ASSUME NEW x \in X
        PROVE  [w EXCEPT !.pc = x].pc \in X
    BY <1>1 DEF Worker
  <1>7. CASE \/ PortsDone \/ FipsDone \/ ClearAnnotations \/ RemoveServiceFinalizer
             \/ ForceFinalizerRemoval
    <2>1. w'.pc \in X
      BY <1>4, <1>5, <1>6, <1>7
         DEF PortsDone, FipsDone, ClearAnnotations, RemoveServiceFinalizer,
             ForceFinalizerRemoval, UpdateService, UpdateResource, Written
    <2> QED
      BY <1>2, <1>3, <2>1
  <1>8. CASE ListResources
    <2>1. \/ w' = CleanupReturns(TRUE)
          \/ \E F, P : w' = [w EXCEPT !.pc = "delFips", !.delF = F, !.delP = P]
      BY <1>8 DEF ListResources
    <2>2. ASSUME NEW F, NEW P, w' = [w EXCEPT !.pc = "delFips", !.delF = F, !.delP = P]
          PROVE  w'.pc \in X
      BY <1>1, <2>2 DEF Worker
    <2>3. w'.pc \in X
      BY <1>5, <2>1, <2>2
    <2> QED
      BY <1>2, <1>3, <2>3
  <1>9. CASE DeleteFips \/ DeletePorts
    <2>1. /\ w.pc \in {"delFips", "delPorts"}
          /\ \/ \E D, k : w' = [w EXCEPT !.delF = D, !.clr = k]
             \/ \E D, b : w' = [w EXCEPT !.delF = D, !.fail = b]
             \/ \E D, k : w' = [w EXCEPT !.delP = D, !.clr = k]
             \/ \E D, b : w' = [w EXCEPT !.delP = D, !.fail = b]
      BY <1>9 DEF DeleteFips, DeletePorts, DeleteFloatingIP, DeletePort, FipDeleted,
                  PortDeleted
    <2>2. w'.pc = w.pc
      BY <1>1, <2>1 DEF Worker
    <2> QED
      BY <1>2, <1>3, <2>1, <2>2
  <1> QED
    BY <1>7, <1>8, <1>9 DEF Cleanup

(* The other steps of a reconcile that go on. *)
LEMMA OtherMoves ==
    ASSUME TypeOK
    PROVE  /\ AddLBFinalizer \/ WriteStatus \/ RemoveLBFinalizer => w'.pc = "return"
           /\ EndLoop => w'.pc = "status"
           /\ CleanupService => w.pc = "delLoop" /\ w'.pc \in {"delLoop", "list"}
           /\ EndDeletion => w.pc = "delLoop" /\ w'.pc \in {"lbUnfinalize", "return"}
           /\ Handle => /\ w.pc \in HandlerPCs \cup {"svcClient"}
                        /\ w'.pc \in {"handlerCredentials", "list", "unfinalize", "return"}
  <1>1. w \in Worker
    BY DEF TypeOK
  <1>2. ASSUME NEW rq
        PROVE  ReturnWith(rq).pc = "return"
    BY <1>1 DEF ReturnWith, Worker
  <1>3. ASSUME NEW x
        PROVE  [w EXCEPT !.pc = x].pc = x
    BY <1>1 DEF Worker
  <1>4. ASSUME AddLBFinalizer \/ WriteStatus \/ RemoveLBFinalizer
        PROVE  w'.pc = "return"
    BY <1>2, <1>4 DEF AddLBFinalizer, WriteStatus, RemoveLBFinalizer, UpdateLB, UpdateStatus,
                      Written
  <1>5. ASSUME EndLoop
        PROVE  w'.pc = "status"
    <2>1. \E m : w' = [w EXCEPT !.pc = "status", !.mem = m]
      BY <1>5 DEF EndLoop
    <2> QED
      BY <1>1, <2>1 DEF Worker
  <1>6. ASSUME CleanupService
        PROVE  w.pc = "delLoop" /\ w'.pc \in {"delLoop", "list"}
    <2>1. /\ w.pc = "delLoop"
          /\ \/ \E T : w' = [w EXCEPT !.todo = T]
             \/ \E T, s : w' = [w EXCEPT !.todo = T, !.cur = s, !.pc = "list"]
      BY <1>6 DEF CleanupService
    <2> QED
      BY <1>1, <2>1 DEF Worker
  <1>7. ASSUME EndDeletion
        PROVE  w.pc = "delLoop" /\ w'.pc \in {"lbUnfinalize", "return"}
    BY <1>2, <1>3, <1>7 DEF EndDeletion
  <1>8. ASSUME Handle
        PROVE  /\ w.pc \in HandlerPCs \cup {"svcClient"}
               /\ w'.pc \in {"handlerCredentials", "list", "unfinalize", "return"}
    <2>1. w.pc \in HandlerPCs \cup {"svcClient"}
      BY <1>8 DEF Handle, EnsureServiceFinalizer, UpdateServiceWithCredentials,
                  GetOpenStackClientFromService, HandlerPCs
    <2>2. \/ \E rq : w' = ReturnWith(rq)
          \/ w' = [w EXCEPT !.pc = "handlerCredentials"]
          \/ \E c : w' = [w EXCEPT !.pc = "list", !.client = c]
          \/ w' = [w EXCEPT !.pc = "unfinalize", !.fail = TRUE]
      BY <1>8 DEF Handle, EnsureServiceFinalizer, UpdateServiceWithCredentials,
                  GetOpenStackClientFromService, ClientFor, NoClient, UpdateResource,
                  UpdateService, Written
    <2>3. ASSUME NEW c, w' = [w EXCEPT !.pc = "list", !.client = c]
          PROVE  w'.pc = "list"
      BY <1>1, <2>3 DEF Worker
    <2>4. CASE w' = [w EXCEPT !.pc = "unfinalize", !.fail = TRUE]
      BY <1>1, <2>1, <2>4 DEF Worker
    <2> QED
      BY <1>2, <1>3, <2>1, <2>2, <2>3, <2>4
  <1> QED
    BY <1>4, <1>5, <1>6, <1>7, <1>8

(* The steps of others, and the informers'. *)
Aside ==
    \/ Environment \/ Resync \/ UNCHANGED vars
    \/ \E r \in Requests : Sync(r)

(* They do not touch the worker. *)
LEMMA AsideMoves ==
    ASSUME Aside
    PROVE  w' = w /\ abandoned' = abandoned
  BY DEF Aside, Environment, Outside, CreateService, AssignIP, ReassignIP,
         DeleteService, EditService, AddOtherFinalizer, RemoveOtherFinalizer, CreateLB,
         EditLB, DeleteLB, DeletePortOutside, DeleteFipOutside, AttachUserFip, vars,
         Resync, Sync, SyncLB, SyncService

(* The steps that read the Services. *)
LEMMA ListMoves ==
    ASSUME TypeOK
    PROVE  /\ ListServices =>
                 /\ w.pc = "lbClient" /\ Stays(w') /\ w'.requeue = w.requeue
                 /\ \/ w'.pc = "status"
                    \/ /\ w'.pc = "loop"
                       /\ \A s \in w'.todo : <<s, w.req>> \in Matches
           /\ StartDeletion =>
                 /\ w.pc = "delClient" /\ Stays(w') /\ w'.requeue = w.requeue
                 /\ \/ w'.pc = "lbUnfinalize" /\ w'.fail
                    \/ /\ w'.pc = "delLoop" /\ w'.snap = csvc
                       /\ w'.todo = {s \in Services : Managed(w.req, s, csvc[s])}
  <1>1. w \in Worker /\ w.mem \in LoadBalancer
    BY WorkerParts DEF TypeOK
  <1>2. ASSUME ListServices
        PROVE  /\ w.pc = "lbClient" /\ Stays(w') /\ w'.requeue = w.requeue
               /\ \/ w'.pc = "status"
                  \/ w'.pc = "loop" /\ \A s \in w'.todo : <<s, w.req>> \in Matches
    <2> DEFINE T == {s \in Services : Eligible(w.req, s, csvc[s])}
               m == SetCondition(w.mem, "Ready", "OpenStackClientError")
    <2>1. /\ w.pc = "lbClient"
          /\ \/ \E x : w' = [w EXCEPT !.pc = "loop", !.client = x, !.snap = csvc, !.todo = T]
             \/ w' = [w EXCEPT !.pc = "status", !.mem = m]
      BY <1>2 DEF ListServices
    <2>2. SameIdentity(m, w.mem)
      BY <1>1, StatusIdentity
    <2>3. \A s \in T : <<s, w.req>> \in Matches
      BY DEF Eligible
    <2> HIDE DEF T, m
    <2>4. ASSUME NEW x,
                 w' = [w EXCEPT !.pc = "loop", !.client = x, !.snap = csvc, !.todo = T]
          PROVE  Stays(w') /\ w'.requeue = w.requeue /\ w'.pc = "loop" /\ w'.todo = T
      BY <1>1, <2>4 DEF Stays, SameIdentity, Worker
    <2>5. CASE w' = [w EXCEPT !.pc = "status", !.mem = m]
      BY <1>1, <2>1, <2>2, <2>5 DEF Stays, Worker
    <2> QED
      BY <2>1, <2>3, <2>4, <2>5
  <1>3. ASSUME StartDeletion
        PROVE  /\ w.pc = "delClient" /\ Stays(w') /\ w'.requeue = w.requeue
               /\ \/ w'.pc = "lbUnfinalize" /\ w'.fail
                  \/ /\ w'.pc = "delLoop" /\ w'.snap = csvc
                     /\ w'.todo = {s \in Services : Managed(w.req, s, csvc[s])}
    <2> DEFINE T == {s \in Services : Managed(w.req, s, csvc[s])}
    <2>1. /\ w.pc = "delClient"
          /\ \/ \E x : w' = [w EXCEPT !.pc = "delLoop", !.client = x, !.snap = csvc, !.todo = T]
             \/ w' = [w EXCEPT !.pc = "lbUnfinalize", !.fail = TRUE]
      BY <1>3 DEF StartDeletion
    <2> HIDE DEF T
    <2>2. ASSUME NEW x,
                 w' = [w EXCEPT !.pc = "delLoop", !.client = x, !.snap = csvc, !.todo = T]
          PROVE  /\ Stays(w') /\ w'.requeue = w.requeue /\ w'.pc = "delLoop"
                 /\ w'.snap = csvc /\ w'.todo = T
      BY <1>1, <2>2 DEF Stays, SameIdentity, Worker
    <2>3. CASE w' = [w EXCEPT !.pc = "lbUnfinalize", !.fail = TRUE]
      BY <1>1, <2>1, <2>3 DEF Stays, SameIdentity, Worker
    <2> QED
      BY <2>1, <2>2, <2>3 DEF T
  <1> QED
    BY <1>2, <1>3

(* The beginning of a reconcile, and its end. *)
LEMMA BeginMoves ==
    /\ \A l \in LBs : Reconcile(l) =>
           /\ w'.req = l /\ w'.mem = clb[l] /\ w'.pc = Branch(clb[l])
    /\ \A s \in Services : ReconcileService(s) =>
           w'.req \notin LBs /\ w'.pc = ServiceBranch(s, csvc[s])
    /\ Return \/ Restart => w'.req \notin LBs /\ w'.pc = "idle"
    /\ \A b : Branch(b) \in {"return", "delClient", "lbClient", "lbFinalizer"}
    /\ \A s, c : ServiceBranch(s, c) \in {"return", "svcClient", "handlerFinalizer"}
  <1>1. ASSUME NEW l \in LBs, Reconcile(l)
        PROVE  w'.req = l /\ w'.mem = clb[l] /\ w'.pc = Branch(clb[l])
    BY <1>1 DEF Reconcile, IdleWorker
  <1>2. ASSUME NEW s \in Services, ReconcileService(s)
        PROVE  w'.req \notin LBs /\ w'.pc = ServiceBranch(s, csvc[s])
    <2>1. w'.req = s /\ w'.pc = ServiceBranch(s, csvc[s])
      BY <1>2 DEF ReconcileService, IdleWorker
    <2> QED
      BY <2>1, NamesAssumption
  <1>3. ASSUME Return \/ Restart
        PROVE  w'.req \notin LBs /\ w'.pc = "idle"
    BY <1>3, NamesAssumption DEF Return, Restart, IdleWorker
  <1> QED
    BY <1>1, <1>2, <1>3 DEF Branch, ServiceBranch

(* One of these happens in a step. *)
Course ==
    \/ Aside \/ Return \/ Restart
    \/ \E l \in LBs : Reconcile(l)
    \/ \E s \in Services : ReconcileService(s)
    \/ ListServices \/ StartDeletion
    \/ LoopStep \/ Cleanup \/ CleanupService \/ EndDeletion \/ EndLoop \/ Handle
    \/ AddLBFinalizer \/ WriteStatus \/ RemoveLBFinalizer

(* Every step is one of them. *)
LEMMA StepCourse ==
    ASSUME [Next]_vars
    PROVE  Course
  BY DEF Next, Work, Provision, Delete, Dequeue, Course, Aside, LoopStep

(* The worker's copy of the LB remains what it was relied upon for. *)
LEMMA MemKept ==
    ASSUME TypeOK, TypeOK', ControlInv, LBCacheInv, MemInv, LBStep, [Next]_vars
    PROVE  MemInv'
  <1> DEFINE Mem(v) == v.req \in LBs => Lags(v.mem, lb'[v.req])
             Early(v) == v.pc \in LoopPCs \cup {"lbClient"}
                            => lb'[v.req].exists /\ lb'[v.req].fin
             Late(v) == v.req \in LBs /\ v.pc \in CleanupPCs \cup {"delClient", "lbUnfinalize"}
                            => v.mem.exists /\ v.mem.deleting
             Apart(v) == v.pc \in HandlerPCs \cup {"svcClient"} => v.req \notin LBs
  <1> SUFFICES Mem(w') /\ Early(w') /\ Late(w') /\ Apart(w')
    BY DEF MemInv, Answers
  <1>1. \A l \in LBs : lb[l].uid \in Nat /\ clb[l].uid \in Nat /\ lb'[l].uid \in Nat
    <2>1. \A l \in LBs : lb[l] \in LoadBalancer /\ clb[l] \in LoadBalancer
                         /\ lb'[l] \in LoadBalancer
      BY DEF TypeOK
    <2> QED
      BY <2>1 DEF LoadBalancer
  <1>2. w \in Worker /\ w.mem.uid \in Nat
    BY WorkerParts DEF TypeOK, LoadBalancer
  <1>3. w.req \in LBs => Lags(w.mem, lb'[w.req])
    BY <1>1, <1>2, LagsOn DEF MemInv, LBStep, LBSuccessor
  <1>4. w.pc \in LoopPCs \cup {"lbClient"} => lb'[w.req].exists /\ lb'[w.req].fin
    <2>1. w.pc \in LoopPCs \cup {"lbClient"} => w.req \in LBs /\ w.pc # "lbUnfinalize"
      BY DEF ControlInv, Control, LBPCs, LoopPCs, EnsurePCs
    <2> QED
      BY <2>1 DEF MemInv, LBStep, LBSuccessor, Answers, Dismissed
  <1>5. CASE Aside
    BY <1>3, <1>4, <1>5, AsideMoves DEF MemInv
  <1>6. ASSUME Stays(w')
        PROVE  Mem(w') /\ w'.req = w.req /\ w'.mem.exists = w.mem.exists
               /\ w'.mem.deleting = w.mem.deleting
    BY <1>3, <1>6 DEF Stays, SameIdentity, Lags
  <1>7. CASE Return \/ Restart
    BY <1>7, BeginMoves, Phases DEF LoopPCs, EnsurePCs, CleanupPCs, DeletePCs, HandlerPCs
  <1>8. ASSUME NEW l \in LBs, Reconcile(l)
        PROVE  Mem(w') /\ Early(w') /\ Late(w') /\ Apart(w')
    <2>1. lb' = lb
      BY <1>8 DEF Reconcile, kube
    <2>2. w'.req = l /\ w'.mem = clb[l] /\ w'.pc = Branch(clb[l])
      BY <1>8, BeginMoves
    <2>3. /\ Branch(clb[l]) = "lbClient" => Healthy(clb[l])
          /\ Branch(clb[l]) = "delClient" => clb[l].exists /\ clb[l].deleting
          /\ Branch(clb[l]) \in {"return", "delClient", "lbClient", "lbFinalizer"}
      BY DEF Branch, Healthy
    <2>4. Mem(w') /\ (Healthy(clb[l]) => lb'[l].exists /\ lb'[l].fin)
      BY <2>1, <2>2 DEF LBCacheInv, Answers
    <2>5. Early(w')
      BY <2>2, <2>3, <2>4 DEF LoopPCs, EnsurePCs
    <2> QED
      BY <2>2, <2>3, <2>4, <2>5 DEF CleanupPCs, DeletePCs, HandlerPCs
  <1>9. ASSUME NEW s \in Services, ReconcileService(s)
        PROVE  Mem(w') /\ Early(w') /\ Late(w') /\ Apart(w')
    BY <1>9, BeginMoves DEF LoopPCs, EnsurePCs
  <1>10. CASE ListServices \/ StartDeletion
    BY <1>4, <1>6, <1>10, ListMoves
       DEF MemInv, LoopPCs, EnsurePCs, CleanupPCs, DeletePCs, HandlerPCs
  <1>11. CASE LoopStep
    <2>1. Stays(w')
      BY <1>2, <1>11, OngoingKeeps DEF LoopStep, Ongoing, Keeps
    <2>2. w.pc \in LoopPCs /\ w'.pc \in LoopPCs
      BY <1>11, LoopMoves DEF Loops
    <2>3. w'.pc \notin CleanupPCs \cup {"delClient", "lbUnfinalize"} \cup HandlerPCs
      BY <2>2 DEF LoopPCs, EnsurePCs, CleanupPCs, DeletePCs, HandlerPCs
    <2>4. w'.pc # "svcClient"
      BY <2>2 DEF LoopPCs, EnsurePCs
    <2> QED
      BY <1>4, <1>6, <2>1, <2>2, <2>3, <2>4
  <1>12. CASE Cleanup \/ CleanupService \/ EndDeletion \/ EndLoop
              \/ AddLBFinalizer \/ WriteStatus \/ RemoveLBFinalizer
    <2>1. Stays(w')
      BY <1>2, <1>12, OngoingKeeps DEF Ongoing, Keeps
    <2>2. w'.pc \in CleanupPCs \cup {"lbUnfinalize"} => w.pc \in CleanupPCs
      BY <1>12, CleaningMoves, OtherMoves DEF CleanupPCs, DeletePCs
    <2>3. w'.pc \in (CleanupPCs \ {"svcClient"}) \cup {"lbUnfinalize", "return", "status"}
      BY <1>12, CleaningMoves, OtherMoves DEF CleanupPCs, DeletePCs
    <2>4. /\ w'.pc \notin LoopPCs \cup {"lbClient"} \cup HandlerPCs
          /\ w'.pc \notin {"svcClient", "delClient"}
      BY <2>3 DEF CleanupPCs, DeletePCs, LoopPCs, EnsurePCs, HandlerPCs
    <2> QED
      BY <1>6, <2>1, <2>2, <2>4 DEF MemInv
  <1>13. CASE Handle
    <2>1. Stays(w')
      BY <1>2, <1>13, OngoingKeeps DEF Ongoing, Keeps
    <2>2. w.req \notin LBs
      BY <1>13, OtherMoves DEF MemInv
    <2>3. w'.pc \notin LoopPCs \cup {"lbClient"}
      BY <1>13, OtherMoves DEF LoopPCs, EnsurePCs
    <2> QED
      BY <1>6, <2>1, <2>2, <2>3
  <1> QED
    BY <1>5, <1>7, <1>8, <1>9, <1>10, <1>11, <1>12, <1>13, StepCourse DEF Course

(* The loop keeps to the Services of the class. *)
LEMMA ClassKept ==
    ASSUME TypeOK, ClassInv, [Next]_vars
    PROVE  ClassInv'
  <1>1. CASE Aside
    BY <1>1, AsideMoves DEF ClassInv
  <1>2. CASE w'.pc \notin LoopPCs
    BY <1>2 DEF ClassInv
  <1>3. CASE ListServices
    BY <1>2, <1>3, ListMoves DEF ClassInv, Stays, LoopPCs, EnsurePCs
  <1>4. CASE LoopStep
    <2>1. w.pc \in LoopPCs /\ Loops(w')
      BY <1>4, LoopMoves
    <2>2. w'.req = w.req
      BY <1>4, OngoingKeeps DEF LoopStep, Ongoing, Keeps, Stays, TypeOK
    <2> QED
      BY <2>1, <2>2 DEF ClassInv, Loops
  <1>5. CASE Return \/ Restart
    BY <1>2, <1>5, BeginMoves DEF LoopPCs, EnsurePCs
  <1>6. ASSUME NEW r, (r \in LBs /\ Reconcile(r)) \/ (r \in Services /\ ReconcileService(r))
        PROVE  w'.pc \notin LoopPCs
    BY <1>6, BeginMoves DEF LoopPCs, EnsurePCs
  <1>7. CASE StartDeletion
    BY <1>2, <1>7, ListMoves DEF LoopPCs, EnsurePCs
  <1>8. CASE Cleanup \/ CleanupService \/ EndDeletion \/ EndLoop \/ Handle
             \/ AddLBFinalizer \/ WriteStatus \/ RemoveLBFinalizer
    BY <1>2, <1>8, CleaningMoves, OtherMoves
       DEF CleanupPCs, DeletePCs, LoopPCs, EnsurePCs
  <1> QED
    BY <1>1, <1>2, <1>3, <1>4, <1>5, <1>6, <1>7, <1>8, StepCourse DEF Course

-----------------------------------------------------------------------------
(* The Services a deletion has seen *)

(* A Service that carries the finalizer has been seen. *)
LEMMA SeenKept ==
    ASSUME TypeOK, LeakInv, StaleInv, MemInv, SeenInv, [Next]_vars
    PROVE  SeenInv'
  <1> SUFFICES ASSUME NEW s \in Services, svc'[s].exists, svc'[s].fin
               PROVE  /\ csvc'[s].exists /\ csvc'[s].uid = svc'[s].uid
                      /\ w'.req \in LBs /\ w'.pc \in CleanupPCs
                            => w'.snap[s].exists /\ w'.snap[s].uid = svc'[s].uid
    BY DEF SeenInv, Protected
  <1>1. svc'[s].uid = svc[s].uid /\ (Protected(s) \/ Joins(s))
    BY StepSuccession DEF Succession, Successor
  <1>2. csvc[s].exists /\ csvc[s].uid = svc[s].uid
    BY <1>1 DEF SeenInv, Joins, LeakInv, FreshInv
  <1>3. csvc'[s].exists /\ csvc'[s].uid = svc'[s].uid
    BY <1>1, <1>2, StepCopies DEF Copied
  <1>4. ASSUME w'.req \in LBs, w'.pc \in CleanupPCs
        PROVE  w'.snap[s].exists /\ w'.snap[s].uid = svc'[s].uid
    <2>1. ASSUME w.req \in LBs, w.pc \in CleanupPCs, w'.snap = w.snap
          PROVE  w'.snap[s].exists /\ w'.snap[s].uid = svc'[s].uid
      <3>1. ~Joins(s)
        BY <2>1 DEF Joins, CleanupPCs, DeletePCs
      <3> QED
        BY <1>1, <2>1, <3>1 DEF SeenInv
    <2>2. CASE Aside
      BY <1>4, <2>1, <2>2, AsideMoves
    <2>3. CASE StartDeletion
      BY <1>1, <1>2, <1>4, <2>3, ListMoves DEF CleanupPCs, DeletePCs
    <2>4. CASE Cleanup \/ CleanupService
      <3>1. w.pc \in CleanupPCs
        BY <2>4, CleaningMoves, OtherMoves DEF CleanupPCs, DeletePCs
      <3>2. w'.req = w.req /\ w'.snap = w.snap
        BY <2>4, OngoingKeeps DEF Ongoing, Keeps, Stays, TypeOK
      <3> QED
        BY <1>4, <2>1, <3>1, <3>2
    <2>5. CASE Handle
      <3>1. w.req \notin LBs
        BY <2>5, OtherMoves DEF MemInv
      <3>2. w'.req = w.req
        BY <2>5, OngoingKeeps DEF Ongoing, Keeps, Stays, TypeOK
      <3> QED
        BY <1>4, <3>1, <3>2
    <2>6. CASE LoopStep
      BY <1>4, <2>6, LoopMoves, Phases DEF Loops
    <2>7. CASE EndDeletion \/ EndLoop \/ AddLBFinalizer \/ WriteStatus \/ RemoveLBFinalizer
      BY <1>4, <2>7, OtherMoves DEF CleanupPCs, DeletePCs
    <2>8. CASE \/ Return \/ Restart
               \/ \E l \in LBs : Reconcile(l)
               \/ \E t \in Services : ReconcileService(t)
      BY <1>4, <2>8, BeginMoves DEF CleanupPCs, DeletePCs
    <2>9. CASE ListServices
      BY <1>4, <2>9, ListMoves DEF CleanupPCs, DeletePCs
    <2> QED
      BY <2>2, <2>3, <2>4, <2>5, <2>6, <2>7, <2>8, <2>9, StepCourse DEF Course
  <1> QED
    BY <1>3, <1>4

-----------------------------------------------------------------------------
(* The ports *)

(* No port is created. *)
FewerPorts ==
    \A p \in PortIDs : ports'[p].live => ports[p].live /\ ports'[p].svc = ports[p].svc

(* The deletion of a port. *)
LEMMA RemovedPort ==
    ASSUME TypeOK, NEW p, RemovePort(p)
    PROVE  FewerPorts
  BY DEF RemovePort, FewerPorts, TypeOK, NoPort

(* Only ensurePortExists creates one. *)
LEMMA StepPorts ==
    ASSUME TypeOK, [Next]_vars
    PROVE  EnsurePortExists \/ FewerPorts
  <1>1. CASE ports' = ports
    BY <1>1 DEF FewerPorts
  <1>2. CASE Environment
    BY <1>1, <1>2, RemovedPort
       DEF Environment, CreateService, AssignIP, ReassignIP, DeleteService, EditService,
           AddOtherFinalizer, RemoveOtherFinalizer, CreateLB, EditLB, DeleteLB,
           DeletePortOutside, DeleteFipOutside, AttachUserFip, RemoveFip, neutron
  <1>3. CASE TagPort
    <2>1. ports' = ports \/ ports' = [ports EXCEPT ![w.pid].tagged = TRUE]
      BY <1>3 DEF TagPort, SetPortTags
    <2>2. ASSUME NEW p \in PortIDs
          PROVE  ports'[p].live = ports[p].live /\ ports'[p].svc = ports[p].svc
      <3>1. ports[p] \in Port /\ ports \in [PortIDs -> Port]
        BY DEF TypeOK
      <3> QED
        BY <2>1, <3>1 DEF Port
    <2> QED
      BY <2>2 DEF FewerPorts
  <1>4. CASE Provision /\ ~EnsurePortExists /\ ~TagPort
    <2>1. ports' = ports
      BY <1>4 DEF Provision, AddLBFinalizer, ListServices, ProcessService,
             EnsureServiceHasFinalizer, EnsureServiceHasCredentials, DetectNetworkForLB,
             VerifyPort, ClearPortAnnotation, AnnotatePort, CreateNewFloatingIP, TagFip,
             VerifyFloatingIP, ClearFipAnnotation, FindFloatingIP, AnnotateFip,
             UpdateServiceExternalIPs, EndLoop, WriteStatus, neutron
    <2> QED
      BY <1>1, <2>1
  <1>5. CASE Cleanup
    BY <1>1, <1>5, RemovedPort
       DEF Cleanup, ListResources, FipsDone, PortsDone, ClearAnnotations, DeleteFips,
           DeletePorts, DeleteFloatingIP, DeletePort, RemoveFip, RemoveServiceFinalizer,
           ForceFinalizerRemoval, neutron
  <1>6. CASE Delete \/ Handle \/ Return
    BY <1>1, <1>6 DEF Delete, StartDeletion, CleanupService, EndDeletion, RemoveLBFinalizer,
       Handle, EnsureServiceFinalizer, UpdateServiceWithCredentials,
       GetOpenStackClientFromService, Return, neutron
  <1>7. CASE (\E r \in Requests : Dequeue(r) \/ Sync(r)) \/ Resync \/ Restart
    BY <1>1, <1>7 DEF Dequeue, Reconcile, ReconcileService, Sync, SyncLB, SyncService,
       Resync, Restart, neutron
  <1> QED
    BY <1>1, <1>2, <1>3, <1>4, <1>5, <1>6, <1>7 DEF Next, Work, vars

(* What was given up on stays so. *)
LEMMA StepAbandoned ==
    ASSUME [Next]_vars
    PROVE  abandoned \subseteq abandoned'
  <1>1. CASE Aside
    BY <1>1, AsideMoves
  <1>2. CASE Provision \/ Return \/ Restart \/ \E r \in Requests : Dequeue(r)
    BY <1>2 DEF Provision, AddLBFinalizer, ListServices, ProcessService,
             EnsureServiceHasFinalizer, EnsureServiceHasCredentials, DetectNetworkForLB,
             VerifyPort, ClearPortAnnotation, EnsurePortExists, TagPort, AnnotatePort,
             VerifyFloatingIP, ClearFipAnnotation, FindFloatingIP, CreateNewFloatingIP,
             TagFip, AnnotateFip, UpdateServiceExternalIPs, EndLoop, WriteStatus, Return,
             Restart, Dequeue, Reconcile, ReconcileService
  <1>3. CASE Cleanup \/ Delete \/ Handle
    BY <1>3 DEF Cleanup, ListResources, DeleteFips, FipsDone, DeletePorts, PortsDone,
             ClearAnnotations, RemoveServiceFinalizer, ForceFinalizerRemoval, LeftBehind,
             Delete, StartDeletion, CleanupService, EndDeletion, RemoveLBFinalizer, Handle,
             EnsureServiceFinalizer, UpdateServiceWithCredentials,
             GetOpenStackClientFromService
  <1> QED
    BY <1>1, <1>2, <1>3 DEF Next, Work, Aside

(* The Service at hand has no port left that was not given up on. *)
Settled == \A p \in PortIDs : ports'[p].live /\ ports'[p].svc = w.cur => p \in abandoned'

(* v goes on with the cleanup of the Service at hand, *)
SameService(v) ==
    /\ v.pc \in DeletePCs /\ v.todo = w.todo /\ v.cur = w.cur /\ v.requeue = w.requeue
    /\ v.pc = "unfinalize" => ~v.fail

(* or is done with it, for good unless there is to be another pass. *)
ServiceDone(v) ==
    /\ v.pc = "delLoop" /\ v.todo = w.todo
    /\ ~v.requeue => ~w.requeue /\ Settled

(* The end of the handling of one Service of a deletion. *)
LEMMA HandledDone ==
    ASSUME w \in Worker, w.req \in LBs
    PROVE  /\ ServiceDone(ServiceHandled(TRUE))
           /\ \A rq \in BOOLEAN : Settled => ServiceDone(ServiceHandled(rq))
  <1>1. ASSUME NEW rq \in BOOLEAN, rq \/ Settled
        PROVE  ServiceDone(ServiceHandled(rq))
    <2> DEFINE v == ServiceHandled(rq)
    <2>1. v.pc = "delLoop" /\ v.todo = w.todo /\ v.requeue = (w.requeue \/ rq)
      BY DEF ServiceHandled, Worker
    <2> HIDE DEF v
    <2> QED
      BY <1>1, <2>1 DEF ServiceDone, v
  <1> QED
    BY <1>1

(* CleanupResourcesForService has returned. *)
LEMMA ReturnedDone ==
    ASSUME w \in Worker, w.req \in LBs, NEW failed \in BOOLEAN,
           ~failed => ~w.fail /\ Settled, w' = CleanupReturns(failed)
    PROVE  SameService(w') \/ ServiceDone(w')
  <1> DEFINE c == w.snap[w.cur]
  <1>1. CASE \E rq : w' = ServiceHandled(rq) /\ (rq = TRUE \/ (rq = FALSE /\ ~failed))
    BY <1>1, HandledDone
  <1>2. CASE w' = [w EXCEPT !.pc = "force", !.fail = failed]
    BY <1>2 DEF SameService, DeletePCs, Worker
  <1>3. CASE ~failed /\ w' = [w EXCEPT !.pc = "unfinalize"]
    BY <1>3 DEF SameService, DeletePCs, Worker
  <1> QED
    BY <1>1, <1>2, <1>3 DEF CleanupReturns

(* A cleanup goes on with its Service until it is settled. *)
LEMMA CleaningSettles ==
    ASSUME SingleProject, TypeOK, LeakInv, DeletionInv, w.req \in LBs, Cleanup
    PROVE  SameService(w') \/ ServiceDone(w')
  <1>1. w \in Worker /\ w.fail \in BOOLEAN
    BY WorkerParts DEF TypeOK
  <1>2. ASSUME ~w.fail, w.delP = {}, w.pc \in DeletePCs, ports' = ports
        PROVE  Settled
    BY <1>2 DEF LeakInv, WorkerInv, RemainderInv, Settled, LivePort
  <1>3. CASE ListResources
    <2>1. \/ w' = CleanupReturns(TRUE)
          \/ \E F, P : w' = [w EXCEPT !.pc = "delFips", !.delF = F, !.delP = P]
      BY <1>3 DEF ListResources
    <2>2. ASSUME NEW F, NEW P, w' = [w EXCEPT !.pc = "delFips", !.delF = F, !.delP = P]
          PROVE  SameService(w')
      BY <1>1, <2>2 DEF SameService, DeletePCs, Worker
    <2> QED
      BY <1>1, <2>1, <2>2, ReturnedDone
  <1>4. CASE DeleteFips \/ DeletePorts
    <2>1. /\ w.pc \in {"delFips", "delPorts"}
          /\ \/ \E D, k : w' = [w EXCEPT !.delF = D, !.clr = k]
             \/ \E D, b : w' = [w EXCEPT !.delF = D, !.fail = b]
             \/ \E D, k : w' = [w EXCEPT !.delP = D, !.clr = k]
             \/ \E D, b : w' = [w EXCEPT !.delP = D, !.fail = b]
      BY <1>4 DEF DeleteFips, DeletePorts, DeleteFloatingIP, DeletePort, FipDeleted,
                  PortDeleted
    <2>2. w'.pc = w.pc /\ w'.todo = w.todo /\ w'.cur = w.cur /\ w'.requeue = w.requeue
      BY <1>1, <2>1 DEF Worker
    <2> QED
      BY <2>1, <2>2 DEF SameService, DeletePCs
  <1>5. CASE FipsDone
    BY <1>1, <1>5 DEF FipsDone, SameService, DeletePCs, Worker
  <1>6. CASE PortsDone
    <2>1. w.pc = "delPorts" /\ w.delP = {} /\ ports' = ports
      BY <1>6 DEF PortsDone, neutron
    <2>2. ~w.fail => Settled
      BY <1>2, <2>1 DEF DeletePCs
    <2>3. CASE w' = [w EXCEPT !.pc = "clearAnnotations"]
      BY <1>1, <2>3 DEF SameService, DeletePCs, Worker
    <2> QED
      BY <1>1, <1>6, <2>2, <2>3, ReturnedDone DEF PortsDone
  <1>7. CASE ClearAnnotations
    <2>1. w.pc = "clearAnnotations" /\ ports' = ports
      BY <1>7 DEF ClearAnnotations, neutron
    <2>2. ~w.fail => w.delP = {}
      BY <2>1 DEF LeakInv, WorkerInv, RemainderInv, DeletePCs
    <2>3. ~w.fail => Settled
      BY <1>2, <2>1, <2>2 DEF DeletePCs
    <2>4. w' = CleanupReturns(w.fail) \/ w' = CleanupReturns(TRUE)
      BY <1>7 DEF ClearAnnotations, UpdateService, Written
    <2> QED
      BY <1>1, <2>3, <2>4, ReturnedDone
  <1>8. CASE RemoveServiceFinalizer
    <2>1. w.pc = "unfinalize" /\ ports' = ports
      BY <1>8 DEF RemoveServiceFinalizer, neutron
    <2>2. ~w.fail
      BY <2>1 DEF DeletionInv
    <2>3. w.delP = {}
      BY <2>1, <2>2 DEF LeakInv, WorkerInv, RemainderInv, DeletePCs
    <2>4. Settled
      BY <1>2, <2>1, <2>2, <2>3 DEF DeletePCs
    <2>5. w' = ServiceHandled(FALSE) \/ w' = [w EXCEPT !.pc = "force"]
      BY <1>8 DEF RemoveServiceFinalizer, UpdateResource, Written
    <2>6. CASE w' = [w EXCEPT !.pc = "force"]
      BY <1>1, <2>6 DEF SameService, DeletePCs, Worker
    <2> QED
      BY <1>1, <2>4, <2>5, <2>6, HandledDone
  <1>9. CASE ForceFinalizerRemoval
    <2>1. w.pc = "force" /\ ports' = ports
      BY <1>9 DEF ForceFinalizerRemoval, neutron
    <2>2. w.cur \in Services
      BY <2>1 DEF LeakInv, ControlInv, Control, ServicePCs, CleanupPCs, DeletePCs
    <2>3. CASE w' = ServiceHandled(TRUE)
      BY <1>1, <2>3, HandledDone
    <2>4. CASE w' = ServiceHandled(FALSE) /\ abandoned' = LeftBehind(w.cur)
      <3>1. CASE ~w.fail
        <4>1. w.delP = {}
          BY <2>1, <3>1 DEF LeakInv, WorkerInv, RemainderInv, DeletePCs
        <4>2. Settled
          BY <1>2, <2>1, <3>1, <4>1 DEF DeletePCs
        <4> QED
          BY <1>1, <2>4, <4>2, HandledDone
      <3>2. CASE w.fail /\ svc[w.cur].fin
        <4>1. Settled
          BY <2>1, <2>4, <3>2 DEF Settled, LeftBehind, LivePort
        <4> QED
          BY <1>1, <2>4, <4>1, HandledDone
      <3>3. CASE w.fail /\ ~svc[w.cur].fin
        <4>1. abandoned' = abandoned
          BY <2>4, <3>3 DEF LeftBehind
        <4>2. Settled
          BY <2>1, <3>3, <4>1 DEF Settled, LeakInv, LeakFree, NoSilentLeak, Protected,
                                  LivePort
        <4> QED
          BY <1>1, <2>4, <4>2, HandledDone
      <3> QED
        BY <3>1, <3>2, <3>3
    <2> QED
      BY <1>9, <2>3, <2>4 DEF ForceFinalizerRemoval, Written
  <1> QED
    BY <1>3, <1>4, <1>5, <1>6, <1>7, <1>8, <1>9 DEF Cleanup

(* A deletion passes over no port of its class. *)
LEMMA PendingKept ==
    ASSUME SingleProject, TypeOK, LeakInv, StaleInv, MemInv, SeenInv, DeletionInv,
           [Next]_vars
    PROVE  DeletionInv'
  <1> DEFINE Scope(v) == (v.pc \in CleanupPCs /\ ~v.requeue) \/ (v.pc = "lbUnfinalize" /\ ~v.fail)
             Waits(v, p) ==
                 \/ p \in abandoned'
                 \/ v.pc # "lbUnfinalize" /\ ports'[p].svc \in v.todo
                 \/ v.pc \notin {"delLoop", "lbUnfinalize"} /\ ports'[p].svc = v.cur
             Goal(v) == v.req \in LBs =>
                 /\ v.pc = "unfinalize" => ~v.fail
                 /\ Scope(v) => \A p \in PortIDs :
                       ports'[p].live /\ <<ports'[p].svc, v.req>> \in Matches => Waits(v, p)
  <1> SUFFICES Goal(w')
    BY DEF DeletionInv, Pending, LivePort
  <1>1. w \in Worker /\ w.todo \subseteq Services
    BY WorkerParts DEF TypeOK
  <1>2. abandoned \subseteq abandoned'
    BY StepAbandoned
  <1>3. \A p \in PortIDs : LivePort(p) => \/ p \in abandoned
                                          \/ Protected(ports[p].svc) /\ ports[p].svc \in Services
    BY DEF LeakInv, LeakFree, NoSilentLeak, ResourceInv
  <1>4. CASE w'.req \notin LBs
    BY <1>4
  <1>5. CASE w'.pc \notin CleanupPCs \cup {"lbUnfinalize"}
    BY <1>5 DEF CleanupPCs, DeletePCs
  <1>6. CASE Aside
    <2>1. w' = w
      BY <1>6, AsideMoves
    <2>2. EnsurePortExists => w.pc \notin CleanupPCs \cup {"lbUnfinalize"}
      BY DEF EnsurePortExists, CleanupPCs, DeletePCs
    <2>3. CASE FewerPorts
      BY <1>2, <2>1, <2>3 DEF DeletionInv, Pending, FewerPorts, LivePort
    <2> QED
      BY <1>5, <2>1, <2>2, <2>3, StepPorts
  <1>7. CASE StartDeletion
    <2>1. ports' = ports /\ abandoned' = abandoned
      BY <1>7 DEF StartDeletion, neutron
    <2>2. CASE w'.pc = "lbUnfinalize" /\ w'.fail
      BY <2>2 DEF CleanupPCs, DeletePCs
    <2>3. CASE /\ w'.pc = "delLoop" /\ w'.req = w.req
               /\ w'.todo = {s \in Services : Managed(w.req, s, csvc[s])}
      <3>1. ASSUME NEW p \in PortIDs, LivePort(p), <<ports[p].svc, w.req>> \in Matches
            PROVE  p \in abandoned \/ ports[p].svc \in w'.todo
        BY <1>3, <2>3, <3>1 DEF SeenInv, Managed
      <3> QED
        BY <2>1, <2>3, <3>1 DEF LivePort
    <2> QED
      BY <1>7, <2>2, <2>3, ListMoves DEF Stays
  <1>8. CASE CleanupService /\ w.req \in LBs
    <2>1. ports' = ports /\ abandoned' = abandoned /\ w.pc = "delLoop"
      BY <1>8 DEF CleanupService, neutron
    <2>2. PICK s \in w.todo :
              \/ /\ w.snap[s].deleting /\ ~w.snap[s].fin
                 /\ w' = [w EXCEPT !.todo = w.todo \ {s}]
              \/ w' = [w EXCEPT !.todo = w.todo \ {s}, !.cur = s, !.pc = "list"]
      BY <1>8 DEF CleanupService
    <2>3. "delLoop" \in CleanupPCs
      BY DEF CleanupPCs
    <2> DEFINE T == w.todo \ {s}
    <2>4. CASE w.snap[s].deleting /\ ~w.snap[s].fin /\ w' = [w EXCEPT !.todo = w.todo \ {s}]
      <3>1. /\ w'.todo = T /\ w'.pc = w.pc /\ w'.req = w.req /\ w'.requeue = w.requeue
            /\ w'.fail = w.fail
        BY <1>1, <2>4 DEF Worker
      <3>2. ASSUME Protected(s)
            PROVE  FALSE
        <4>1. w.snap[s].exists /\ w.snap[s].uid = svc[s].uid
          BY <1>1, <1>8, <2>1, <2>3, <3>2 DEF SeenInv
        <4>2. Lags(w.snap[s], svc[s])
          BY <1>1 DEF StaleInv
        <4> QED
          BY <2>4, <3>2, <4>1, <4>2 DEF Lags, Protected
      <3>3. ASSUME NEW p \in PortIDs, LivePort(p), <<ports[p].svc, w.req>> \in Matches,
                   ~w.requeue
            PROVE  p \in abandoned \/ ports[p].svc \in T
        <4>1. p \in abandoned \/ ports[p].svc \in w.todo
          BY <1>8, <2>1, <2>3, <3>3 DEF DeletionInv, Pending
        <4> QED
          BY <1>3, <3>2, <3>3, <4>1
      <3> HIDE DEF T
      <3> QED
        BY <2>1, <3>1, <3>3 DEF LivePort
    <2>5. CASE w' = [w EXCEPT !.todo = w.todo \ {s}, !.cur = s, !.pc = "list"]
      <3>1. /\ w'.todo = T /\ w'.pc = "list" /\ w'.req = w.req /\ w'.requeue = w.requeue
            /\ w'.cur = s
        BY <1>1, <2>5 DEF Worker
      <3>2. ASSUME NEW p \in PortIDs, LivePort(p), <<ports[p].svc, w.req>> \in Matches,
                   ~w.requeue
            PROVE  p \in abandoned \/ ports[p].svc \in T \/ ports[p].svc = s
        BY <1>8, <2>1, <2>3, <3>2 DEF DeletionInv, Pending
      <3> HIDE DEF T
      <3> QED
        BY <2>1, <3>1, <3>2 DEF LivePort
    <2> QED
      BY <2>2, <2>4, <2>5
  <1>9. CASE EndDeletion
    <2>1. /\ ports' = ports /\ abandoned' = abandoned /\ w.pc = "delLoop" /\ w.todo = {}
          /\ \/ w' = ReturnWith(TRUE)
             \/ ~w.requeue /\ w' = [w EXCEPT !.pc = "lbUnfinalize"]
      BY <1>9 DEF EndDeletion, neutron
    <2>2. CASE w' = ReturnWith(TRUE)
      <3>1. w'.pc = "return"
        BY <1>1, <2>2 DEF ReturnWith, Worker
      <3> QED
        BY <1>5, <3>1 DEF CleanupPCs, DeletePCs
    <2>3. CASE ~w.requeue /\ w' = [w EXCEPT !.pc = "lbUnfinalize"]
      <3>1. w'.pc = "lbUnfinalize" /\ w'.req = w.req
        BY <1>1, <2>3 DEF Worker
      <3>2. ASSUME NEW p \in PortIDs, LivePort(p), <<ports[p].svc, w.req>> \in Matches,
                   w.req \in LBs
            PROVE  p \in abandoned
        BY <2>1, <2>3, <3>2 DEF DeletionInv, Pending, CleanupPCs
      <3> QED
        BY <2>1, <3>1, <3>2 DEF LivePort
    <2> QED
      BY <2>1, <2>2, <2>3
  <1>10. CASE Cleanup /\ w.req \in LBs
    <2>1. w.pc \in CleanupPCs \ {"svcClient", "delLoop"} /\ w.pc # "lbUnfinalize"
      BY <1>10, CleaningMoves DEF CleanupPCs, DeletePCs
    <2>2. w'.req = w.req
      BY <1>1, <1>10, OngoingKeeps DEF Ongoing, Keeps, Stays
    <2>3. FewerPorts
      <3>1. ~EnsurePortExists
        BY <2>1 DEF EnsurePortExists, CleanupPCs, DeletePCs
      <3> QED
        BY <3>1, StepPorts
    <2>4. ASSUME NEW p \in PortIDs, ports'[p].live, <<ports'[p].svc, w.req>> \in Matches,
                 ~w.requeue
          PROVE  p \in abandoned' \/ ports'[p].svc \in w.todo \/ ports'[p].svc = w.cur
      BY <1>2, <1>10, <2>1, <2>3, <2>4 DEF DeletionInv, Pending, FewerPorts, LivePort
    <2>5. CASE SameService(w')
      <3>1. w'.pc \notin {"lbUnfinalize", "delLoop"}
        BY <2>5 DEF SameService, DeletePCs
      <3> QED
        BY <2>2, <2>4, <2>5, <3>1 DEF SameService
    <2>6. CASE ServiceDone(w')
      BY <2>2, <2>4, <2>6 DEF ServiceDone, Settled
    <2> QED
      BY <1>10, <2>5, <2>6, CleaningSettles
  <1>11. CASE (Cleanup \/ CleanupService) /\ w.req \notin LBs
    BY <1>1, <1>4, <1>11, OngoingKeeps DEF Ongoing, Keeps, Stays
  <1>12. CASE Handle
    <2>1. w.req \notin LBs
      BY <1>12, OtherMoves DEF MemInv
    <2> QED
      BY <1>1, <1>4, <1>12, <2>1, OngoingKeeps DEF Ongoing, Keeps, Stays
  <1>13. CASE LoopStep
    <2>1. w'.pc \in LoopPCs
      BY <1>13, LoopMoves DEF Loops
    <2> QED
      BY <1>5, <2>1 DEF LoopPCs, EnsurePCs, CleanupPCs, DeletePCs
  <1>14. CASE EndLoop \/ AddLBFinalizer \/ WriteStatus \/ RemoveLBFinalizer \/ ListServices
    <2>1. w'.pc \in {"status", "return", "loop"}
      BY <1>14, OtherMoves, ListMoves
    <2> QED
      BY <1>5, <2>1 DEF CleanupPCs, DeletePCs
  <1>15. CASE Return \/ Restart \/ \E s \in Services : ReconcileService(s)
    BY <1>4, <1>15, BeginMoves
  <1>16. CASE \E l \in LBs : Reconcile(l)
    <2>1. w'.pc \in {"return", "delClient", "lbClient", "lbFinalizer"}
      BY <1>16, BeginMoves
    <2> QED
      BY <1>5, <2>1 DEF CleanupPCs, DeletePCs
  <1> QED
    BY <1>6, <1>7, <1>8, <1>9, <1>10, <1>11, <1>12, <1>13, <1>14, <1>15, <1>16, StepCourse
       DEF Course

(* Every live port keeps an LB that answers for it. *)
LEMMA AnsweredKept ==
    ASSUME TypeOK, LeakInv, LBStep, MemInv, ClassInv, DeletionInv, PortsAnsweredFor,
           [Next]_vars
    PROVE  PortsAnsweredFor'
  <1> DEFINE Fine(p) ==
                 \/ p \in abandoned'
                 \/ \E l \in LBs : /\ <<ports'[p].svc, l>> \in Matches
                                   /\ l \in abandoned' \/ (lb'[l].exists /\ lb'[l].fin)
  <1> SUFFICES ASSUME NEW p \in PortIDs, ports'[p].live
               PROVE  Fine(p)
    BY DEF PortsAnsweredFor, LivePort
  <1>1. abandoned \subseteq abandoned'
    BY StepAbandoned
  <1>2. CASE ports[p].live /\ ports'[p].svc = ports[p].svc
    <2>1. CASE p \in abandoned
      BY <1>1, <2>1
    <2>2. ASSUME NEW l \in LBs, <<ports[p].svc, l>> \in Matches, l \in abandoned \/ Answers(l)
          PROVE  Fine(p)
      <3>1. CASE l \in abandoned \/ (lb'[l].exists /\ lb'[l].fin)
        BY <1>1, <1>2, <2>2, <3>1
      <3>2. CASE Answers(l) /\ Dismissed(l) /\ ~(lb'[l].exists /\ lb'[l].fin)
        <4>1. w.pc = "lbUnfinalize" /\ w.req = l /\ RemoveLBFinalizer
          BY <3>2 DEF Dismissed
        <4>2. CASE w.fail
          <5>1. ~lb'[l].fin
            <6> DEFINE b == [lb[l] EXCEPT !.fin = FALSE, !.fip = w.mem.fip]
            <6>1. lb' = lb \/ WriteLB(l, b)
              BY <4>1 DEF RemoveLBFinalizer, UpdateLB
            <6>2. lb[l] \in LoadBalancer
              BY DEF TypeOK
            <6>3. ~b.fin
              BY <6>2 DEF LoadBalancer
            <6> HIDE DEF b
            <6>4. ~SettleLB(b).fin
              BY <6>3 DEF SettleLB, NoLB
            <6> QED
              BY <3>2, <6>1, <6>4 DEF WriteLB, TypeOK, Answers
          <5>2. lb[w.req].fin
            BY <3>2, <4>1 DEF Answers
          <5>3. l \in abandoned'
            BY <4>1, <4>2, <5>1, <5>2 DEF RemoveLBFinalizer
          <5> QED
            BY <1>2, <2>2, <5>3
        <4>3. CASE ~w.fail
          <5>1. p \in abandoned
            BY <1>2, <2>2, <4>1, <4>3 DEF DeletionInv, Pending, LivePort
          <5> QED
            BY <1>1, <5>1
        <4> QED
          BY <4>2, <4>3
      <3> QED
        BY <2>2, <3>1, <3>2 DEF LBStep, LBSuccessor
    <2> QED
      BY <1>2, <2>1, <2>2 DEF PortsAnsweredFor, LivePort, Answers
  <1>3. CASE ~(ports[p].live /\ ports'[p].svc = ports[p].svc)
    <2>1. EnsurePortExists
      BY <1>3, StepPorts DEF FewerPorts
    <2>2. w.pc = "port" /\ lb' = lb
      BY <2>1 DEF EnsurePortExists, kube
    <2>3. w.req \in LBs /\ Answers(w.req) /\ <<w.cur, w.req>> \in Matches
      BY <2>2 DEF MemInv, ClassInv, LeakInv, ControlInv, Control, LBPCs, LoopPCs, EnsurePCs
    <2>4. ports'[p].svc = w.cur
      <3> DEFINE v == [live |-> TRUE, svc |-> w.cur, ip |-> w.snap[w.cur].ip,
                       proj |-> w.client, tagged |-> FALSE]
      <3>1. ports' = ports \/ \E q \in PortIDs : ports' = [ports EXCEPT ![q] = v]
        BY <2>1 DEF EnsurePortExists, CreatePort
      <3>2. v.svc = w.cur
        OBVIOUS
      <3> HIDE DEF v
      <3> QED
        BY <1>3, <3>1, <3>2 DEF TypeOK
    <2> QED
      BY <2>2, <2>3, <2>4 DEF Answers
  <1> QED
    BY <1>2, <1>3

-----------------------------------------------------------------------------
(* Every step of the operator and of its environment keeps AnswerInv. *)
LEMMA AnswerInductive ==
    ASSUME SingleProject
    PROVE  /\ Init => AnswerInv
           /\ TypeInv /\ LeakInv /\ AnnotationInv /\ AnswerInv /\ [Next]_vars => AnswerInv'
  <1>1. ASSUME Init PROVE AnswerInv
    <2>1. w.pc = "idle" /\ w.req \notin LBs
      BY <1>1, NamesAssumption DEF Init, IdleWorker
    <2>2. LBCacheInv
      <3>1. \A l \in LBs : lb[l] = NoLB(0) /\ clb[l] = lb[l]
        BY <1>1 DEF Init
      <3>2. Lags(NoLB(0), NoLB(0)) /\ ~Healthy(NoLB(0))
        BY DEF Lags, NoLB, Healthy
      <3> QED
        BY <3>1, <3>2 DEF LBCacheInv
    <2>3. MemInv /\ ClassInv /\ DeletionInv
      BY <2>1 DEF MemInv, ClassInv, DeletionInv, LoopPCs, EnsurePCs, HandlerPCs
    <2>4. SeenInv
      BY <1>1 DEF Init, SeenInv, Protected, NoService
    <2>5. PortsAnsweredFor
      BY <1>1 DEF Init, PortsAnsweredFor, LivePort, NoPort
    <2> QED
      BY <2>2, <2>3, <2>4, <2>5 DEF AnswerInv
  <1>2. ASSUME TypeInv, LeakInv, AnnotationInv, AnswerInv, [Next]_vars PROVE AnswerInv'
    <2>1. TypeOK /\ TypeOK' /\ ControlInv
      BY <1>2, TypeInductive DEF TypeInv
    <2>2. /\ LBCacheInv /\ MemInv /\ ClassInv /\ SeenInv /\ DeletionInv /\ PortsAnsweredFor
          /\ StaleInv
      BY <1>2 DEF AnswerInv, AnnotationInv
    <2>3. LBStep
      BY <1>2, <2>1, <2>2, StepLB
    <2>4. LBCacheInv' /\ MemInv' /\ ClassInv'
      BY <1>2, <2>1, <2>2, <2>3, LBCacheKept, MemKept, ClassKept
    <2>5. SeenInv' /\ DeletionInv' /\ PortsAnsweredFor'
      BY <1>2, <2>1, <2>2, <2>3, SeenKept, PendingKept, AnsweredKept
    <2> QED
      BY <2>4, <2>5 DEF AnswerInv
  <1> QED
    BY <1>1, <1>2

(* The argument as an invariant: ports are made only for an LB that holds   *)
(* its finalizer in the API server, and a deletion that is to let the LB go *)
(* has passed over no port of its class, although it works from a list read *)
(* at its start and each Service may have changed since (handleDeletion).   *)
THEOREM AnswerInvariant ==
    ASSUME SingleProject
    PROVE  Spec => []AnswerInv
  <1>1. Init => TypeInv /\ LeakInv /\ AnnotationInv /\ AnswerInv
    BY TypeInductive, LeakInductive, AnnotationInductive, AnswerInductive
  <1>2. TypeInv /\ LeakInv /\ AnnotationInv /\ AnswerInv /\ [Next]_vars
            => (TypeInv /\ LeakInv /\ AnnotationInv /\ AnswerInv)'
    BY TypeInductive, LeakInductive, AnnotationInductive, AnswerInductive
  <1> QED
    BY <1>1, <1>2, PTL DEF Spec

(* A live port always has an OpenStackLoadBalancer of its class that still  *)
(* holds its finalizer, or was let go because no client could be made, or   *)
(* is itself knowingly abandoned: the finalizer of an LB goes only after    *)
(* the ports of its class (handleDeletion), for any number of Services and  *)
(* LBs, provided the credentials of all LBs belong to one project.          *)
THEOREM PortsAreAnsweredFor ==
    ASSUME SingleProject
    PROVE  Spec => []PortsAnsweredFor
  <1>1. Spec => []AnswerInv
    BY AnswerInvariant
  <1>2. AnswerInv => PortsAnsweredFor
    BY DEF AnswerInv
  <1> QED
    BY <1>1, <1>2, PTL

=============================================================================
