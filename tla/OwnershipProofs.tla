---------------------------- MODULE OwnershipProofs ----------------------------
(***************************************************************************)
(* What the operator deletes is its own and may go: UserFipsKept, by way   *)
(* of UserFipInv, and DeletesJustified, by way of OwnershipInv, for every  *)
(* value of the constants.                                                 *)
(***************************************************************************)
EXTENDS AnswerProofs

-----------------------------------------------------------------------------
(* Floating IPs of users *)

(* How the steps of a reconcile move on: only the creation of a floating   *)
(* IP leads to its tags.                                                    *)
LEMMA MovesUntagged ==
    ASSUME w \in Worker
    PROVE  /\ \A rq : ReturnWith(rq).pc # "tagFip" /\ ServiceHandled(rq).pc # "tagFip"
           /\ \A rq, e : Processed(rq, e).pc # "tagFip"
           /\ \A failed : CleanupReturns(failed).pc # "tagFip"
           /\ \A p : WithPort(p).pc # "tagFip"
           /\ \A x : x # "tagFip" => [w EXCEPT !.pc = x].pc # "tagFip"
  <1>1. ASSUME NEW rq
        PROVE  ReturnWith(rq).pc # "tagFip"
    BY DEF ReturnWith, Worker
  <1>2. ASSUME NEW rq
        PROVE  ServiceHandled(rq).pc # "tagFip"
    BY <1>1 DEF ServiceHandled, Worker
  <1>3. ASSUME NEW rq, NEW e
        PROVE  Processed(rq, e).pc # "tagFip"
    BY DEF Processed, Worker
  <1>4. ASSUME NEW x, x # "tagFip"
        PROVE  [w EXCEPT !.pc = x].pc # "tagFip"
    BY <1>4 DEF Worker
  <1>5. ASSUME NEW failed
        PROVE  CleanupReturns(failed).pc # "tagFip"
    BY <1>2 DEF CleanupReturns, Worker
  <1>6. ASSUME NEW p
        PROVE  WithPort(p).pc # "tagFip"
    BY <1>3 DEF WithPort, Worker
  <1> QED
    BY <1>1, <1>2, <1>3, <1>4, <1>5, <1>6

(* Work leads to the tags of a floating IP in no other way. *)
LEMMA WorkUntagged ==
    ASSUME TypeOK, Work
    PROVE  CreateNewFloatingIP \/ w'.pc # "tagFip"
  <1>1. w \in Worker
    BY DEF TypeOK
  <1>2. CASE \/ AddLBFinalizer \/ WriteStatus \/ RemoveLBFinalizer \/ EndDeletion
             \/ EnsureServiceHasFinalizer \/ EnsureServiceHasCredentials
             \/ ClearPortAnnotation \/ AnnotatePort \/ ClearFipAnnotation \/ AnnotateFip
             \/ UpdateServiceExternalIPs \/ VerifyPort \/ TagPort \/ TagFip
    BY <1>1, <1>2, MovesUntagged
       DEF AddLBFinalizer, WriteStatus, RemoveLBFinalizer, EndDeletion,
           EnsureServiceHasFinalizer, EnsureServiceHasCredentials, ClearPortAnnotation,
           AnnotatePort, ClearFipAnnotation, AnnotateFip, UpdateServiceExternalIPs,
           VerifyPort, TagPort, TagFip, SetPortTags, SetFipTags, UpdateLB, UpdateStatus,
           UpdateResource, UpdateService, Written, AfterCredentials
  <1>3. CASE ListServices
    <2> DEFINE T == {s \in Services : Eligible(w.req, s, csvc[s])}
               m == SetCondition(w.mem, "Ready", "OpenStackClientError")
    <2>1. \/ \E x : w' = [w EXCEPT !.pc = "loop", !.client = x, !.snap = csvc, !.todo = T]
          \/ w' = [w EXCEPT !.pc = "status", !.mem = m]
      BY <1>3 DEF ListServices
    <2> HIDE DEF T, m
    <2> QED
      BY <1>1, <2>1 DEF Worker
  <1>4. CASE ProcessService
    <2>1. \A c : FirstStep(c) # "tagFip"
      BY DEF FirstStep, AfterFinalizer, AfterCredentials
    <2>2. \E s, T : w' = [w EXCEPT !.todo = T, !.cur = s, !.pc = FirstStep(w.snap[s])]
      BY <1>4 DEF ProcessService
    <2>3. \E s, T, x : x # "tagFip" /\ w' = [w EXCEPT !.todo = T, !.cur = s, !.pc = x]
      BY <2>1, <2>2
    <2> QED
      BY <1>1, <2>3 DEF Worker
  <1>5. CASE DetectNetworkForLB
    <2>1. \/ \E m : w' = [Processed(TRUE, TRUE) EXCEPT !.mem = m]
          \/ \E m : w' = [w EXCEPT !.pc = "port", !.mem = m]
      BY <1>5 DEF DetectNetworkForLB
    <2> QED
      BY <1>1, <2>1 DEF Processed, Worker
  <1>6. CASE EndLoop
    <2>1. \E m : w' = [w EXCEPT !.pc = "status", !.mem = m]
      BY <1>6 DEF EndLoop
    <2> QED
      BY <1>1, <2>1 DEF Worker
  <1>7. CASE VerifyFloatingIP \/ FindFloatingIP
    <2>1. \/ w' = Processed(TRUE, TRUE)
          \/ \E x : x # "tagFip" /\ w' = [w EXCEPT !.pc = x]
          \/ \E x, f : x # "tagFip" /\ w' = [w EXCEPT !.pc = x, !.fid = f]
      BY <1>7 DEF VerifyFloatingIP, FindFloatingIP
    <2>2. ASSUME NEW x, NEW f, x # "tagFip", w' = [w EXCEPT !.pc = x, !.fid = f]
          PROVE  w'.pc # "tagFip"
      BY <1>1, <2>2 DEF Worker
    <2> QED
      BY <1>1, <2>1, <2>2, MovesUntagged
  <1>8. CASE EnsurePortExists
    <2>1. \/ w' = Processed(TRUE, TRUE)
          \/ \E p : w' = [w EXCEPT !.pc = "tagPort", !.pid = p]
      BY <1>8 DEF EnsurePortExists, CreatePort
    <2>2. ASSUME NEW p, w' = [w EXCEPT !.pc = "tagPort", !.pid = p]
          PROVE  w'.pc # "tagFip"
      BY <1>1, <2>2 DEF Worker
    <2> QED
      BY <1>1, <2>1, <2>2, MovesUntagged
  <1>9. CASE PortsDone \/ FipsDone \/ ClearAnnotations \/ RemoveServiceFinalizer
             \/ ForceFinalizerRemoval
    BY <1>1, <1>9, MovesUntagged
       DEF PortsDone, FipsDone, ClearAnnotations, RemoveServiceFinalizer,
           ForceFinalizerRemoval, UpdateService, UpdateResource, Written
  <1>10. CASE ListResources
    <2>1. \/ w' = CleanupReturns(TRUE)
          \/ \E F, P : w' = [w EXCEPT !.pc = "delFips", !.delF = F, !.delP = P]
      BY <1>10 DEF ListResources
    <2>2. ASSUME NEW F, NEW P, w' = [w EXCEPT !.pc = "delFips", !.delF = F, !.delP = P]
          PROVE  w'.pc # "tagFip"
      BY <1>1, <2>2 DEF Worker
    <2> QED
      BY <1>1, <2>1, <2>2, MovesUntagged
  <1>11. CASE DeleteFips \/ DeletePorts
    <2>1. /\ w.pc \in {"delFips", "delPorts"}
          /\ \/ \E D, k : w' = [w EXCEPT !.delF = D, !.clr = k]
             \/ \E D, b : w' = [w EXCEPT !.delF = D, !.fail = b]
             \/ \E D, k : w' = [w EXCEPT !.delP = D, !.clr = k]
             \/ \E D, b : w' = [w EXCEPT !.delP = D, !.fail = b]
      BY <1>11 DEF DeleteFips, DeletePorts, DeleteFloatingIP, DeletePort, FipDeleted,
                   PortDeleted
    <2> QED
      BY <1>1, <2>1 DEF Worker
  <1>12. CASE StartDeletion
    <2> DEFINE T == {s \in Services : Managed(w.req, s, csvc[s])}
    <2>1. \/ \E x : w' = [w EXCEPT !.pc = "delLoop", !.client = x, !.snap = csvc, !.todo = T]
          \/ w' = [w EXCEPT !.pc = "lbUnfinalize", !.fail = TRUE]
      BY <1>12 DEF StartDeletion
    <2> HIDE DEF T
    <2> QED
      BY <1>1, <2>1 DEF Worker
  <1>13. CASE CleanupService
    <2>1. /\ w.pc = "delLoop"
          /\ \/ \E T : w' = [w EXCEPT !.todo = T]
             \/ \E T, s : w' = [w EXCEPT !.todo = T, !.cur = s, !.pc = "list"]
      BY <1>13 DEF CleanupService
    <2> QED
      BY <1>1, <2>1 DEF Worker
  <1>14. CASE EnsureServiceFinalizer \/ UpdateServiceWithCredentials
    BY <1>1, <1>14, MovesUntagged DEF EnsureServiceFinalizer, UpdateServiceWithCredentials,
                                      UpdateResource, UpdateService, Written
  <1>15. CASE GetOpenStackClientFromService
    <2>1. \/ \E rq : w' = ReturnWith(rq)
          \/ \E c : w' = [w EXCEPT !.pc = "list", !.client = c]
          \/ w' = [w EXCEPT !.pc = "unfinalize", !.fail = TRUE]
      BY <1>15 DEF GetOpenStackClientFromService, ClientFor, NoClient
    <2>2. ASSUME NEW c, w' = [w EXCEPT !.pc = "list", !.client = c]
          PROVE  w'.pc # "tagFip"
      BY <1>1, <2>2 DEF Worker
    <2>3. CASE w' = [w EXCEPT !.pc = "unfinalize", !.fail = TRUE]
      BY <1>1, <2>3 DEF Worker
    <2> QED
      BY <1>1, <2>1, <2>2, <2>3, MovesUntagged
  <1>16. CASE Return
    BY <1>16 DEF Return, IdleWorker
  <1> QED
    BY <1>2, <1>3, <1>4, <1>5, <1>6, <1>7, <1>8, <1>9, <1>10, <1>11, <1>12, <1>13, <1>14,
       <1>15, <1>16 DEF Work, Provision, Cleanup, Delete, Handle

(* A floating IP that lives keeps owner and tag, or is a user's new one,   *)
(* with an ID the worker does not hold.                                     *)
TagsKept ==
    \A f \in FipIDs : fips'[f].live =>
        \/ fips[f].live /\ fips'[f].svc = fips[f].svc /\ fips'[f].tagged = fips[f].tagged
        \/ fips'[f].svc = None /\ ~fips'[f].tagged /\ f # w.fid /\ w' = w

(* The deletions keep the tags of what they leave. *)
LEMMA RemovalTags ==
    ASSUME TypeOK, (\E p \in PortIDs : RemovePort(p)) \/ (\E f \in FipIDs : RemoveFip(f))
    PROVE  TagsKept
  <1>1. fips \in [FipIDs -> Fip]
    BY DEF TypeOK
  <1>2. ASSUME NEW p \in PortIDs, RemovePort(p), NEW f \in FipIDs
        PROVE  /\ fips'[f].live = fips[f].live /\ fips'[f].svc = fips[f].svc
               /\ fips'[f].tagged = fips[f].tagged
    <2>1. fips[f] \in Fip
      BY <1>1
    <2>2. fips'[f] \in {fips[f], [fips[f] EXCEPT !.port = None]}
      BY <1>2 DEF RemovePort
    <2> QED
      BY <2>1, <2>2 DEF Fip
  <1>3. ASSUME NEW g \in FipIDs, RemoveFip(g), NEW f \in FipIDs
        PROVE  fips'[f].live => fips'[f] = fips[f]
    BY <1>1, <1>3 DEF RemoveFip, NoFip
  <1> QED
    BY <1>2, <1>3 DEF TagsKept

(* Apart from the creation and the tags of a floating IP, steps keep tags. *)
LEMMA StepTags ==
    ASSUME TypeOK, [Next]_vars
    PROVE  CreateNewFloatingIP \/ TagFip \/ TagsKept
  <1>1. CASE fips' = fips
    BY <1>1 DEF TagsKept
  <1>2. ASSUME NEW p \in PortIDs, AttachUserFip(p)
        PROVE  TagsKept
    <2> DEFINE v == [live |-> TRUE, svc |-> None, port |-> p, proj |-> ports[p].proj,
                     tagged |-> FALSE]
    <2>1. PICK f \in FipIDs : FreeFipID(f) /\ fips' = [fips EXCEPT ![f] = v]
      BY <1>2 DEF AttachUserFip
    <2>2. f # w.fid /\ w' = w
      BY <1>2, <2>1 DEF FreeFipID, AttachUserFip, Outside
    <2>3. v.svc = None /\ ~v.tagged
      OBVIOUS
    <2> HIDE DEF v
    <2>4. fips'[f] = v /\ \A g \in FipIDs : g # f => fips'[g] = fips[g]
      BY <2>1 DEF TypeOK
    <2> QED
      BY <2>2, <2>3, <2>4 DEF TagsKept
  <1>3. CASE DeleteFips \/ DeletePorts
    <2>1. w.delF \subseteq FipIDs /\ w.delP \subseteq PortIDs
      BY WorkerParts DEF TypeOK
    <2>2. \/ fips' = fips
          \/ \E p \in PortIDs : RemovePort(p)
          \/ \E f \in FipIDs : RemoveFip(f)
      BY <1>3, <2>1 DEF DeleteFips, DeletePorts, DeleteFloatingIP, DeletePort, neutron
    <2> QED
      BY <1>1, <2>2, RemovalTags
  <1>4. CASE Environment
    <2>1. CASE \/ \E p \in PortIDs : DeletePortOutside(p)
               \/ \E f \in FipIDs : DeleteFipOutside(f)
      BY <2>1, RemovalTags DEF DeletePortOutside, DeleteFipOutside
    <2> QED
      BY <1>1, <1>2, <1>4, <2>1
         DEF Environment, CreateService, AssignIP, ReassignIP, DeleteService, EditService,
             AddOtherFinalizer, RemoveOtherFinalizer, CreateLB, EditLB, DeleteLB, neutron
  <1>5. CASE Provision /\ ~CreateNewFloatingIP /\ ~TagFip
    <2>1. fips' = fips
      BY <1>5 DEF Provision, AddLBFinalizer, ListServices, ProcessService,
             EnsureServiceHasFinalizer, EnsureServiceHasCredentials, DetectNetworkForLB,
             VerifyPort, ClearPortAnnotation, EnsurePortExists, TagPort, AnnotatePort,
             VerifyFloatingIP, ClearFipAnnotation, FindFloatingIP, AnnotateFip,
             UpdateServiceExternalIPs, EndLoop, WriteStatus, neutron
    <2> QED
      BY <1>1, <2>1
  <1>6. CASE Cleanup
    BY <1>1, <1>3, <1>6 DEF Cleanup, ListResources, FipsDone, PortsDone, ClearAnnotations,
                            RemoveServiceFinalizer, ForceFinalizerRemoval, neutron
  <1>7. CASE Delete \/ Handle \/ Return
    BY <1>1, <1>7 DEF Delete, StartDeletion, CleanupService, EndDeletion, RemoveLBFinalizer,
       Handle, EnsureServiceFinalizer, UpdateServiceWithCredentials,
       GetOpenStackClientFromService, Return, neutron
  <1>8. CASE (\E r \in Requests : Dequeue(r) \/ Sync(r)) \/ Resync \/ Restart
    BY <1>1, <1>8 DEF Dequeue, Reconcile, ReconcileService, Sync, SyncLB, SyncService,
       Resync, Restart, neutron
  <1> QED
    BY <1>1, <1>4, <1>5, <1>6, <1>7, <1>8 DEF Next, Work, vars

(* Every step of the operator and of its environment keeps UserFipInv. *)
LEMMA UserFipInductive ==
    /\ Init => UserFipInv
    /\ TypeInv /\ UserFipInv /\ [Next]_vars => UserFipInv'
  <1>1. ASSUME Init PROVE UserFipInv
    BY <1>1 DEF Init, UserFipInv, IdleWorker, LiveFip, NoFip
  <1>2. ASSUME TypeInv, UserFipInv, [Next]_vars PROVE UserFipInv'
    <2>1. TypeOK /\ ControlInv
      BY <1>2 DEF TypeInv
    <2>2. CASE CreateNewFloatingIP
      <3>1. w.cur \in Services
        BY <2>1, <2>2 DEF CreateNewFloatingIP, ControlInv, Control, ServicePCs, LoopPCs,
                          EnsurePCs
      <3>2. w.cur # None
        BY <3>1, NamesAssumption
      <3> DEFINE v == [live |-> TRUE, svc |-> w.cur, port |-> w.pid, proj |-> w.client,
                       tagged |-> FALSE]
      <3>3. \/ fips' = fips /\ w' = Processed(TRUE, TRUE)
            \/ \E f \in FipIDs : /\ fips' = [fips EXCEPT ![f] = v]
                                 /\ \/ w' = [w EXCEPT !.pc = "tagFip", !.fid = f]
                                    \/ w' = Processed(TRUE, TRUE)
        BY <2>2 DEF CreateNewFloatingIP, CreateFloatingIP
      <3>4. v.svc # None
        BY <3>2
      <3> HIDE DEF v
      <3>5. Processed(TRUE, TRUE).pc # "tagFip"
        BY <2>1, MovesUntagged DEF TypeOK
      <3>6. CASE fips' = fips /\ w' = Processed(TRUE, TRUE)
        BY <1>2, <3>5, <3>6 DEF UserFipInv, LiveFip
      <3>7. ASSUME NEW f \in FipIDs, fips' = [fips EXCEPT ![f] = v],
                   \/ w' = [w EXCEPT !.pc = "tagFip", !.fid = f]
                   \/ w' = Processed(TRUE, TRUE)
            PROVE  UserFipInv'
        <4>1. fips'[f] = v /\ \A g \in FipIDs : g # f => fips'[g] = fips[g]
          BY <2>1, <3>7 DEF TypeOK
        <4>2. w'.pc = "tagFip" => w'.fid = f
          BY <2>1, <3>5, <3>7 DEF TypeOK, Worker
        <4> QED
          BY <1>2, <3>4, <4>1, <4>2 DEF UserFipInv, LiveFip
      <3> QED
        BY <3>3, <3>6, <3>7
    <2>3. CASE TagFip
      <3>1. w' = [w EXCEPT !.pc = "annotateFip"] /\ w.pc = "tagFip"
        BY <2>3 DEF TagFip, SetFipTags
      <3>2. w'.pc = "annotateFip"
        BY <2>1, <3>1 DEF TypeOK, Worker
      <3>3. \/ fips' = fips
            \/ LiveFip(w.fid) /\ fips' = [fips EXCEPT ![w.fid].tagged = TRUE]
        BY <2>3 DEF TagFip, SetFipTags
      <3>4. ASSUME NEW f \in FipIDs, fips'[f].live, fips'[f].svc = None
            PROVE  ~fips'[f].tagged
        <4>1. fips[f] \in Fip /\ fips \in [FipIDs -> Fip]
          BY <2>1 DEF TypeOK
        <4>2. CASE fips'[f] = fips[f]
          BY <1>2, <3>4, <4>2 DEF UserFipInv, LiveFip
        <4>3. CASE fips'[f] # fips[f]
          <5>1. f = w.fid /\ LiveFip(w.fid) /\ fips'[f] = [fips[f] EXCEPT !.tagged = TRUE]
            BY <3>3, <4>1, <4>3
          <5>2. fips'[f].svc = fips[f].svc
            BY <4>1, <5>1 DEF Fip
          <5> QED
            BY <1>2, <3>1, <3>4, <5>1, <5>2 DEF UserFipInv
        <4> QED
          BY <4>2, <4>3
      <3> QED
        BY <3>2, <3>4 DEF UserFipInv, LiveFip
    <2>4. CASE ~CreateNewFloatingIP /\ ~TagFip
      <3>1. TagsKept
        BY <1>2, <2>1, <2>4, StepTags
      <3>2. w' = w \/ w'.pc # "tagFip"
        <4>1. CASE Environment \/ UNCHANGED vars
          BY <4>1 DEF Environment, Outside, CreateService, AssignIP, ReassignIP,
             DeleteService, EditService, AddOtherFinalizer, RemoveOtherFinalizer, CreateLB,
             EditLB, DeleteLB, DeletePortOutside, DeleteFipOutside, AttachUserFip, vars
        <4>2. CASE Work
          BY <2>1, <2>4, <4>2, WorkUntagged
        <4>3. CASE (\E r \in Requests : Sync(r)) \/ Resync \/ Restart
          BY <4>3 DEF Sync, SyncLB, SyncService, Resync, Restart, IdleWorker
        <4>4. ASSUME NEW r \in Requests, Dequeue(r)
              PROVE  w'.pc # "tagFip"
          <5>1. Branch(clb[r]) # "tagFip" /\ ServiceBranch(r, csvc[r]) # "tagFip"
            BY DEF Branch, ServiceBranch
          <5>2. CASE Reconcile(r)
            BY <5>1, <5>2 DEF Reconcile, IdleWorker
          <5>3. CASE ReconcileService(r)
            BY <5>1, <5>3 DEF ReconcileService, IdleWorker
          <5> QED
            BY <4>4, <5>2, <5>3 DEF Dequeue
        <4> QED
          BY <1>2, <4>1, <4>2, <4>3, <4>4 DEF Next
      <3>3. w.pc = "tagFip" => w.fid \in FipIDs
        BY <2>1 DEF ControlInv, Control
      <3> QED
        BY <1>2, <3>1, <3>2, <3>3 DEF UserFipInv, TagsKept, LiveFip
    <2> QED
      BY <2>2, <2>3, <2>4
  <1> QED
    BY <1>1, <1>2

(* The operator never deletes a floating IP that a user made, in any        *)
(* interleaving: not when it adopted and published it                       *)
(* (createOrFindFloatingIP), and not when it took the place of one that the *)
(* operator had just created and was about to tag (CreateFloatingIP,        *)
(* deleteResource), as long as the tags can be read.                        *)
THEOREM UserFipsAreKept == Spec => UserFipsKept
  <1> DEFINE Kept1 == w' # w /\ faults' = faults =>
                 \A f \in FipIDs : LiveFip(f) /\ fips[f].svc = None => LiveFip(f)'
  <1>1. TypeInv /\ UserFipInv /\ [Next]_vars => [Kept1]_vars
    <2> SUFFICES ASSUME TypeInv, UserFipInv, [Next]_vars, w' # w, faults' = faults,
                        NEW f \in FipIDs, LiveFip(f), fips[f].svc = None
                 PROVE  fips'[f].live
      BY DEF LiveFip
    <2>1. TypeOK /\ fips \in [FipIDs -> Fip] /\ faults \in Nat
      BY BoundsAssumption DEF TypeInv, TypeOK
    <2>2. fips[f] \in Fip
      BY <2>1
    <2>3. CASE fips' = fips
      BY <2>3 DEF LiveFip
    <2>4. CASE CreateNewFloatingIP
      <3> DEFINE v == [live |-> TRUE, svc |-> w.cur, port |-> w.pid, proj |-> w.client,
                       tagged |-> FALSE]
      <3>1. fips' = fips \/ \E g \in FipIDs : fips' = [fips EXCEPT ![g] = v]
        BY <2>4 DEF CreateNewFloatingIP, CreateFloatingIP
      <3>2. v.live
        OBVIOUS
      <3> HIDE DEF v
      <3> QED
        BY <2>1, <2>3, <3>1, <3>2 DEF LiveFip
    <2>5. CASE TagFip
      <3>1. fips' = fips \/ fips' = [fips EXCEPT ![w.fid].tagged = TRUE]
        BY <2>5 DEF TagFip, SetFipTags
      <3> QED
        BY <2>1, <2>2, <2>3, <3>1 DEF LiveFip, Fip
    <2>6. CASE DeletePorts
      <3>1. fips' = fips \/ \E p : RemovePort(p)
        BY <2>6 DEF DeletePorts, DeletePort, neutron
      <3>2. ASSUME NEW p, RemovePort(p)
            PROVE  fips'[f].live
        <4>1. fips'[f] \in {fips[f], [fips[f] EXCEPT !.port = None]}
          BY <3>2 DEF RemovePort
        <4> QED
          BY <2>2, <4>1 DEF Fip, LiveFip
      <3> QED
        BY <2>3, <3>1, <3>2
    <2>7. CASE DeleteFips
      <3>1. fips' = fips \/ \E g \in w.delF : fips[g].tagged /\ VisibleFip(g) /\ RemoveFip(g)
        BY <2>1, <2>7 DEF DeleteFips, DeleteFloatingIP, neutron, Fault
      <3>2. w.delF \subseteq FipIDs
        BY <2>1, WorkerParts DEF TypeOK
      <3>3. ASSUME NEW g \in w.delF, fips[g].tagged, VisibleFip(g), RemoveFip(g)
            PROVE  fips'[f].live
        <4>1. g # f
          BY <3>3 DEF UserFipInv
        <4> QED
          BY <2>1, <3>2, <3>3, <4>1 DEF RemoveFip, LiveFip
      <3> QED
        BY <2>3, <3>1, <3>3
    <2>8. CASE Work
      BY <2>3, <2>4, <2>5, <2>6, <2>7, <2>8
         DEF Work, Provision, AddLBFinalizer, ListServices, ProcessService,
             EnsureServiceHasFinalizer, EnsureServiceHasCredentials, DetectNetworkForLB,
             VerifyPort, ClearPortAnnotation, EnsurePortExists, TagPort, AnnotatePort,
             VerifyFloatingIP, ClearFipAnnotation, FindFloatingIP, AnnotateFip,
             UpdateServiceExternalIPs, EndLoop, WriteStatus, Cleanup, ListResources,
             FipsDone, PortsDone, ClearAnnotations, RemoveServiceFinalizer,
             ForceFinalizerRemoval, Delete, StartDeletion, CleanupService, EndDeletion,
             RemoveLBFinalizer, Handle, EnsureServiceFinalizer,
             UpdateServiceWithCredentials, GetOpenStackClientFromService, Return, neutron
    <2>9. CASE Environment
      BY <2>9 DEF Environment, Outside, CreateService, AssignIP, ReassignIP,
             DeleteService, EditService, AddOtherFinalizer, RemoveOtherFinalizer, CreateLB,
             EditLB, DeleteLB, DeletePortOutside, DeleteFipOutside, AttachUserFip
    <2>10. CASE (\E r \in Requests : Dequeue(r) \/ Sync(r)) \/ Resync \/ Restart
      BY <2>3, <2>10 DEF Dequeue, Reconcile, ReconcileService, Sync, SyncLB, SyncService,
         Resync, Restart, neutron
    <2> QED
      BY <2>8, <2>9, <2>10 DEF Next, vars
  <1>2. Spec => [](TypeInv /\ UserFipInv)
    <2>1. Init => TypeInv /\ UserFipInv
      BY TypeInductive, UserFipInductive
    <2>2. TypeInv /\ UserFipInv /\ [Next]_vars => (TypeInv /\ UserFipInv)'
      BY TypeInductive, UserFipInductive
    <2> QED
      BY <2>1, <2>2, PTL DEF Spec
  <1> QED
    BY <1>1, <1>2, PTL DEF Spec, UserFipsKept

-----------------------------------------------------------------------------
(* Ownership *)

(* IDs that no Service and no copy of one names. *)
UnnamedPort(p) ==
    \A s \in Services : p \notin {svc[s].portAnn, csvc[s].portAnn, w.snap[s].portAnn}
UnnamedFip(f) ==
    \A s \in Services : f \notin {svc[s].fipAnn, csvc[s].fipAnn, w.snap[s].fipAnn}

(* Resources keep their owners, and new ones of the operator get new IDs. *)
Owners ==
    /\ \A p \in PortIDs : ports'[p].live =>
          \/ ports[p].live /\ ports'[p].svc = ports[p].svc
          \/ EnsurePortExists /\ UnnamedPort(p) /\ ~ports[p].live
    /\ \A f \in FipIDs : fips'[f].live =>
          \/ fips[f].live /\ fips'[f].svc = fips[f].svc
          \/ fips'[f].svc = None
          \/ CreateNewFloatingIP /\ UnnamedFip(f)

(* What the two creations make. *)
LEMMA Creations ==
    ASSUME TypeOK
    PROVE  /\ EnsurePortExists =>
                 \/ ports' = ports
                 \/ \E q \in PortIDs :
                       /\ ~ports[q].live /\ UnnamedPort(q) /\ ports'[q].svc = w.cur
                       /\ \A p \in PortIDs : p # q => ports'[p] = ports[p]
                       /\ \/ w' = [w EXCEPT !.pc = "tagPort", !.pid = q]
                          \/ w' = Processed(TRUE, TRUE)
           /\ CreateNewFloatingIP =>
                 \/ fips' = fips
                 \/ \E g \in FipIDs :
                       /\ UnnamedFip(g) /\ fips'[g].svc = w.cur /\ fips'[g].port = w.pid
                       /\ VisiblePort(w.pid)
                       /\ \A f \in FipIDs : f # g => fips'[f] = fips[f]
                       /\ \/ w' = [w EXCEPT !.pc = "tagFip", !.fid = g]
                          \/ w' = Processed(TRUE, TRUE)
  <1>1. ASSUME EnsurePortExists, ports' # ports
        PROVE  \E q \in PortIDs :
                  /\ ~ports[q].live /\ UnnamedPort(q) /\ ports'[q].svc = w.cur
                  /\ \A p \in PortIDs : p # q => ports'[p] = ports[p]
                  /\ \/ w' = [w EXCEPT !.pc = "tagPort", !.pid = q]
                     \/ w' = Processed(TRUE, TRUE)
    <2> DEFINE v == [live |-> TRUE, svc |-> w.cur, ip |-> w.snap[w.cur].ip,
                     proj |-> w.client, tagged |-> FALSE]
    <2>1. PICK q \in PortIDs : /\ FreePortID(q) /\ ports' = [ports EXCEPT ![q] = v]
                               /\ \/ w' = [w EXCEPT !.pc = "tagPort", !.pid = q]
                                  \/ w' = Processed(TRUE, TRUE)
      BY <1>1 DEF EnsurePortExists, CreatePort
    <2>2. v.svc = w.cur
      OBVIOUS
    <2> HIDE DEF v
    <2>3. ports'[q].svc = w.cur /\ \A p \in PortIDs : p # q => ports'[p] = ports[p]
      BY <2>1, <2>2 DEF TypeOK
    <2>4. ~ports[q].live /\ UnnamedPort(q)
      BY <2>1 DEF FreePortID, UnnamedPort, LivePort
    <2> QED
      BY <2>1, <2>3, <2>4
  <1>2. ASSUME CreateNewFloatingIP, fips' # fips
        PROVE  \E g \in FipIDs :
                  /\ UnnamedFip(g) /\ fips'[g].svc = w.cur /\ fips'[g].port = w.pid
                  /\ VisiblePort(w.pid)
                  /\ \A f \in FipIDs : f # g => fips'[f] = fips[f]
                  /\ \/ w' = [w EXCEPT !.pc = "tagFip", !.fid = g]
                     \/ w' = Processed(TRUE, TRUE)
    <2> DEFINE v == [live |-> TRUE, svc |-> w.cur, port |-> w.pid, proj |-> w.client,
                     tagged |-> FALSE]
    <2>1. PICK g \in FipIDs : /\ FreeFipID(g) /\ FipAllowed(w.pid)
                              /\ fips' = [fips EXCEPT ![g] = v]
                              /\ \/ w' = [w EXCEPT !.pc = "tagFip", !.fid = g]
                                 \/ w' = Processed(TRUE, TRUE)
      BY <1>2 DEF CreateNewFloatingIP, CreateFloatingIP
    <2>2. v.svc = w.cur /\ v.port = w.pid
      OBVIOUS
    <2> HIDE DEF v
    <2>3. /\ fips'[g].svc = w.cur /\ fips'[g].port = w.pid
          /\ \A f \in FipIDs : f # g => fips'[f] = fips[f]
      BY <2>1, <2>2 DEF TypeOK
    <2>4. UnnamedFip(g) /\ VisiblePort(w.pid)
      BY <2>1 DEF FreeFipID, UnnamedFip, FipAllowed
    <2> QED
      BY <2>1, <2>3, <2>4
  <1> QED
    BY <1>1, <1>2

(* Every step. *)
LEMMA StepOwners ==
    ASSUME TypeOK, [Next]_vars
    PROVE  Owners
  <1>1. \A p \in PortIDs : ports'[p].live =>
          \/ ports[p].live /\ ports'[p].svc = ports[p].svc
          \/ EnsurePortExists /\ UnnamedPort(p) /\ ~ports[p].live
    <2>1. CASE FewerPorts
      BY <2>1 DEF FewerPorts
    <2>2. CASE EnsurePortExists
      BY <2>2, Creations
    <2> QED
      BY <2>1, <2>2, StepPorts
  <1>2. \A f \in FipIDs : fips'[f].live =>
          \/ fips[f].live /\ fips'[f].svc = fips[f].svc
          \/ fips'[f].svc = None
          \/ CreateNewFloatingIP /\ UnnamedFip(f)
    <2>1. CASE TagsKept
      BY <2>1 DEF TagsKept
    <2>2. CASE CreateNewFloatingIP
      BY <2>2, Creations
    <2>3. CASE TagFip
      <3>1. fips' = fips \/ fips' = [fips EXCEPT ![w.fid].tagged = TRUE]
        BY <2>3 DEF TagFip, SetFipTags
      <3>2. ASSUME NEW f \in FipIDs
            PROVE  fips'[f].live = fips[f].live /\ fips'[f].svc = fips[f].svc
        <4>1. fips[f] \in Fip /\ fips \in [FipIDs -> Fip]
          BY DEF TypeOK
        <4> QED
          BY <3>1, <4>1 DEF Fip
      <3> QED
        BY <3>2
    <2> QED
      BY <2>1, <2>2, <2>3, StepTags
  <1> QED
    BY <1>1, <1>2 DEF Owners

(* Ownership of what is named, and of what the worker has at hand in a      *)
(* state where nothing is created, stays.                                   *)
LEMMA OwnKept ==
    ASSUME Owners, NEW s \in Services
    PROVE  /\ \A p \in PortIDs : OwnPort(p, s) /\ (~UnnamedPort(p) \/ w.pc # "port")
                 => (ports'[p].live => ports'[p].svc = s)
           /\ \A f \in FipIDs : OwnFip(f, s) /\ (~UnnamedFip(f) \/ w.pc # "createFip")
                 => (fips'[f].live => fips'[f].svc \in {s, None})
  BY DEF Owners, OwnPort, OwnFip, LivePort, LiveFip, EnsurePortExists, CreateNewFloatingIP


(* What Service copy c names is owned after the step. *)
OwnNext(c, s) ==
    /\ c.portAnn # None => (ports'[c.portAnn].live => ports'[c.portAnn].svc = s)
    /\ c.fipAnn # None => (fips'[c.fipAnn].live => fips'[c.fipAnn].svc \in {s, None})

(* Annotations go on naming resources of the Service. *)
LEMMA RecordKept ==
    ASSUME TypeOK, Owners, Succession, \A s \in Services : Copied(s), RecordInv, HandInv
    PROVE  RecordInv'
  <1>1. ASSUME NEW s \in Services, NEW c \in {svc[s], csvc[s], w.snap[s]}
        PROVE  OwnNext(c, s)
    <2>1. c \in Service
      BY WorkerParts DEF TypeOK
    <2>2. Own(c, s)
      BY DEF RecordInv
    <2>3. c.portAnn # None => c.portAnn \in PortIDs /\ ~UnnamedPort(c.portAnn)
      BY <2>1 DEF Service, UnnamedPort
    <2>4. c.fipAnn # None => c.fipAnn \in FipIDs /\ ~UnnamedFip(c.fipAnn)
      BY <2>1 DEF Service, UnnamedFip
    <2> QED
      BY <2>2, <2>3, <2>4, OwnKept DEF Own, OwnNext
  <1>2. ASSUME NEW s \in Services
        PROVE  OwnNext(svc'[s], s)
    <2>1. ASSUME s = w.cur, w.pc = "annotatePort", w.pid # None
          PROVE  ports'[w.pid].live => ports'[w.pid].svc = s
      <3>1. OwnPort(w.pid, s) /\ w.pid \in PortIDs
        BY <2>1, WorkerParts DEF HandInv, EnsurePCs, TypeOK
      <3> QED
        BY <2>1, <3>1, OwnKept
    <2>2. ASSUME s = w.cur, w.pc = "annotateFip", w.fid # None
          PROVE  fips'[w.fid].live => fips'[w.fid].svc \in {s, None}
      <3>1. OwnFip(w.fid, s) /\ w.fid \in FipIDs
        BY <2>2, WorkerParts DEF HandInv, EnsurePCs, TypeOK
      <3> QED
        BY <2>2, <3>1, OwnKept
    <2>3. Successor(s, svc'[s])
      BY DEF Succession
    <2> QED
      BY <1>1, <2>1, <2>2, <2>3 DEF Successor, OwnNext
  <1>3. ASSUME NEW s \in Services
        PROVE  OwnNext(csvc'[s], s) /\ OwnNext(w'.snap[s], s)
    <2>1. OwnNext(NoService(0), s)
      BY DEF OwnNext, NoService
    <2> QED
      BY <1>1, <1>2, <2>1 DEF Copied
  <1> QED
    BY <1>2, <1>3 DEF RecordInv, Own, OwnPort, OwnFip, OwnNext, LivePort, LiveFip


(* The deletions leave no floating IP on a port that is gone. *)
LEMMA RemovalAttach ==
    ASSUME TypeOK, AttachInv,
           (\E p \in PortIDs : RemovePort(p)) \/ (\E f \in FipIDs : RemoveFip(f))
    PROVE  AttachInv'
  <1>1. ports \in [PortIDs -> Port] /\ fips \in [FipIDs -> Fip]
    BY DEF TypeOK
  <1>2. ASSUME NEW p \in PortIDs, RemovePort(p)
        PROVE  AttachInv'
    <2>1. ASSUME NEW f \in FipIDs
          PROVE  /\ fips'[f].live = fips[f].live /\ fips'[f].svc = fips[f].svc
                 /\ fips'[f].port = IF fips[f].port = p THEN None ELSE fips[f].port
      <3>1. fips[f] \in Fip
        BY <1>1
      <3>2. fips'[f] = IF fips[f].port = p THEN [fips[f] EXCEPT !.port = None] ELSE fips[f]
        BY <1>2 DEF RemovePort
      <3> QED
        BY <3>1, <3>2 DEF Fip
    <2>2. \A q \in PortIDs : q # p => ports'[q] = ports[q]
      BY <1>1, <1>2 DEF RemovePort
    <2>3. \A f \in FipIDs : fips[f].port \in PortIDs \cup {None}
      BY <1>1 DEF Fip
    <2> QED
      BY <2>1, <2>2, <2>3 DEF AttachInv, LivePort, LiveFip
  <1>3. ASSUME NEW g \in FipIDs, RemoveFip(g)
        PROVE  AttachInv'
    <2>1. \A f \in FipIDs : fips'[f].live => fips'[f] = fips[f]
      BY <1>1, <1>3 DEF RemoveFip, NoFip
    <2> QED
      BY <1>3, <2>1 DEF AttachInv, LivePort, LiveFip, RemoveFip
  <1> QED
    BY <1>2, <1>3

(* The tags do not matter. *)
LEMMA TagAttach ==
    ASSUME TypeOK, AttachInv, TagPort \/ TagFip
    PROVE  AttachInv'
  <1>1. ports \in [PortIDs -> Port] /\ fips \in [FipIDs -> Fip]
    BY DEF TypeOK
  <1>2. /\ ports' = ports \/ ports' = [ports EXCEPT ![w.pid].tagged = TRUE]
        /\ fips' = fips \/ fips' = [fips EXCEPT ![w.fid].tagged = TRUE]
    BY DEF TagPort, TagFip, SetPortTags, SetFipTags
  <1>3. ASSUME NEW p \in PortIDs
        PROVE  ports'[p].live = ports[p].live /\ ports'[p].svc = ports[p].svc
    <2>1. ports[p] \in Port
      BY <1>1
    <2> QED
      BY <1>1, <1>2, <2>1 DEF Port
  <1>4. ASSUME NEW f \in FipIDs
        PROVE  /\ fips'[f].live = fips[f].live /\ fips'[f].svc = fips[f].svc
               /\ fips'[f].port = fips[f].port
    <2>1. fips[f] \in Fip
      BY <1>1
    <2> QED
      BY <1>1, <1>2, <2>1 DEF Fip
  <1>5. \A f \in FipIDs : fips[f].port \in PortIDs \cup {None}
    BY <1>1 DEF Fip
  <1> QED
    BY <1>3, <1>4, <1>5 DEF AttachInv, LivePort, LiveFip

(* A floating IP stays on a port of its own Service. *)
LEMMA AttachKept ==
    ASSUME TypeOK, AttachInv, HandInv, [Next]_vars
    PROVE  AttachInv'
  <1>1. fips \in [FipIDs -> Fip]
    BY DEF TypeOK
  <1>2. CASE neutron' = neutron
    BY <1>2 DEF AttachInv, LivePort, LiveFip, neutron
  <1>3. ASSUME NEW p \in PortIDs, AttachUserFip(p)
        PROVE  AttachInv'
    <2> DEFINE v == [live |-> TRUE, svc |-> None, port |-> p, proj |-> ports[p].proj,
                     tagged |-> FALSE]
    <2>1. PICK f \in FipIDs : fips' = [fips EXCEPT ![f] = v]
      BY <1>3 DEF AttachUserFip
    <2>2. v.svc = None /\ ports' = ports
      BY <1>3 DEF AttachUserFip
    <2> HIDE DEF v
    <2>3. fips'[f] = v /\ \A g \in FipIDs : g # f => fips'[g] = fips[g]
      BY <1>1, <2>1
    <2> QED
      BY <2>2, <2>3 DEF AttachInv, LivePort, LiveFip
  <1>4. CASE EnsurePortExists
    <2>1. fips' = fips
      BY <1>4 DEF EnsurePortExists
    <2>2. \A p \in PortIDs : ports[p].live => ports'[p] = ports[p]
      BY <1>4, Creations
    <2>3. \A f \in FipIDs : fips[f].port \in PortIDs \cup {None}
      BY <1>1 DEF Fip
    <2> QED
      BY <2>1, <2>2, <2>3 DEF AttachInv, LivePort, LiveFip
  <1>5. CASE CreateNewFloatingIP
    <2>1. ports' = ports /\ w.pc = "createFip"
      BY <1>5 DEF CreateNewFloatingIP
    <2>2. OwnPort(w.pid, w.cur)
      BY <2>1 DEF HandInv, EnsurePCs
    <2> QED
      BY <1>5, <2>1, <2>2, Creations
         DEF AttachInv, LivePort, LiveFip, OwnPort, VisiblePort
  <1>6. CASE DeleteFips \/ DeletePorts
    <2>1. w.delF \subseteq FipIDs /\ w.delP \subseteq PortIDs
      BY WorkerParts DEF TypeOK
    <2>2. \/ neutron' = neutron
          \/ \E p \in PortIDs : RemovePort(p)
          \/ \E f \in FipIDs : RemoveFip(f)
      BY <1>6, <2>1 DEF DeleteFips, DeletePorts, DeleteFloatingIP, DeletePort
    <2> QED
      BY <1>2, <2>2, RemovalAttach
  <1>7. CASE Environment
    <2>1. CASE \/ \E p \in PortIDs : DeletePortOutside(p)
               \/ \E f \in FipIDs : DeleteFipOutside(f)
      BY <2>1, RemovalAttach DEF DeletePortOutside, DeleteFipOutside
    <2> QED
      BY <1>2, <1>3, <1>7, <2>1
         DEF Environment, CreateService, AssignIP, ReassignIP, DeleteService, EditService,
             AddOtherFinalizer, RemoveOtherFinalizer, CreateLB, EditLB, DeleteLB
  <1>8. CASE Provision /\ ~CreateNewFloatingIP /\ ~EnsurePortExists /\ ~TagFip /\ ~TagPort
    <2>1. neutron' = neutron
      BY <1>8 DEF Provision, AddLBFinalizer, ListServices, ProcessService,
             EnsureServiceHasFinalizer, EnsureServiceHasCredentials, DetectNetworkForLB,
             VerifyPort, ClearPortAnnotation, AnnotatePort, VerifyFloatingIP,
             ClearFipAnnotation, FindFloatingIP, AnnotateFip, UpdateServiceExternalIPs,
             EndLoop, WriteStatus
    <2> QED
      BY <1>2, <2>1
  <1>9. CASE Cleanup
    BY <1>2, <1>6, <1>9 DEF Cleanup, ListResources, FipsDone, PortsDone, ClearAnnotations,
                            RemoveServiceFinalizer, ForceFinalizerRemoval
  <1>10. CASE Delete \/ Handle \/ Return
    BY <1>2, <1>10 DEF Delete, StartDeletion, CleanupService, EndDeletion,
       RemoveLBFinalizer, Handle, EnsureServiceFinalizer, UpdateServiceWithCredentials,
       GetOpenStackClientFromService, Return
  <1>11. CASE (\E r \in Requests : Dequeue(r) \/ Sync(r)) \/ Resync \/ Restart
    BY <1>2, <1>11 DEF Dequeue, Reconcile, ReconcileService, Sync, SyncLB, SyncService,
       Resync, Restart
  <1> QED
    BY <1>2, <1>4, <1>5, <1>7, <1>8, <1>9, <1>10, <1>11, TagAttach DEF Next, Work, vars,
       neutron


(* What the worker has in hand *)

OwnPortNext(p, s) == ports'[p].live => ports'[p].svc = s
OwnFipNext(f, s) == fips'[f].live => fips'[f].svc \in {s, None}

(* v, in the loop, has nothing in hand that is not the Service's. *)
Holds(v) ==
    /\ v.pc \in {"loop", "svcFinalizer"} => v.pid = None /\ v.fid = None
    /\ v.pc \in {"tagPort", "annotatePort", "fip", "createFip"} => v.pid # None
    /\ v.pid # None => OwnPortNext(v.pid, v.cur)
    /\ v.fid # None => OwnFipNext(v.fid, v.cur)

(* What the worker has in hand is still the Service's. *)
Firm ==
    /\ w.pid # None => OwnPortNext(w.pid, w.cur)
    /\ w.fid # None => OwnFipNext(w.fid, w.cur)

(* It is, unless something is being created. *)
LEMMA StaysFirm ==
    ASSUME TypeOK, Owners, HandInv, w.pc \in EnsurePCs,
           ~EnsurePortExists, ~CreateNewFloatingIP
    PROVE  Firm
  <1>1. w.pid \in PortIDs \cup {None} /\ w.fid \in FipIDs \cup {None}
    BY WorkerParts DEF TypeOK
  <1>2. /\ w.pid # None => OwnPort(w.pid, w.cur)
        /\ w.fid # None => OwnFip(w.fid, w.cur)
    BY DEF HandInv
  <1> QED
    BY <1>1, <1>2 DEF Owners, OwnPort, OwnFip, LivePort, LiveFip, Firm, OwnPortNext,
                      OwnFipNext

(* How the steps of the loop leave what is in hand. *)
LEMMA MovesHold ==
    ASSUME w \in Worker
    PROVE  /\ \A rq, e : Holds(Processed(rq, e))
           /\ \A x : /\ Firm /\ x \in EnsurePCs
                     /\ x \in {"tagPort", "annotatePort", "fip", "createFip"} => w.pid # None
                     => Holds([w EXCEPT !.pc = x])
           /\ \A p : Firm /\ p # None /\ OwnPortNext(p, w.cur) => Holds(WithPort(p))
           /\ \A x, f : Firm /\ x \in {"externalIPs", "annotateFip"} /\ OwnFipNext(f, w.cur)
                          => Holds([w EXCEPT !.pc = x, !.fid = f])
  <1>1. ASSUME NEW rq, NEW e
        PROVE  Holds(Processed(rq, e))
    BY DEF Processed, Holds, Worker
  <1>2. ASSUME NEW x, Firm, x \in EnsurePCs,
               x \in {"tagPort", "annotatePort", "fip", "createFip"} => w.pid # None
        PROVE  Holds([w EXCEPT !.pc = x])
    BY <1>2 DEF Holds, Firm, Worker, EnsurePCs
  <1>3. ASSUME NEW p, Firm, p # None, OwnPortNext(p, w.cur)
        PROVE  Holds(WithPort(p))
    <2>1. Holds([w EXCEPT !.pc = "fip", !.pid = p])
      BY <1>3 DEF Holds, Firm, Worker
    <2> QED
      BY <1>1, <2>1 DEF WithPort
  <1>4. ASSUME NEW x, NEW f, Firm, x \in {"externalIPs", "annotateFip"}, OwnFipNext(f, w.cur)
        PROVE  Holds([w EXCEPT !.pc = x, !.fid = f])
    BY <1>4 DEF Holds, Firm, Worker
  <1> QED
    BY <1>1, <1>2, <1>3, <1>4

(* The two creations put their own into the worker's hand. *)
LEMMA CreationsHold ==
    ASSUME TypeOK, HandInv, EnsurePortExists \/ CreateNewFloatingIP
    PROVE  Holds(w')
  <1>1. w \in Worker /\ w.pid \in PortIDs \cup {None} /\ w.fid \in FipIDs \cup {None}
    BY WorkerParts DEF TypeOK
  <1>2. \A rq, e : Holds(Processed(rq, e))
    BY <1>1, MovesHold
  <1>3. w.pc \in EnsurePCs
    BY DEF EnsurePortExists, CreateNewFloatingIP, EnsurePCs
  <1>4. CASE EnsurePortExists
    <2>1. \/ w' = Processed(TRUE, TRUE)
          \/ \E q \in PortIDs : /\ w' = [w EXCEPT !.pc = "tagPort", !.pid = q]
                                /\ ports'[q].svc = w.cur
      <3>1. CASE ports' # ports
        BY <1>4, <3>1, Creations
      <3>2. CASE ports' = ports /\ w' # Processed(TRUE, TRUE)
        <4> DEFINE v == [live |-> TRUE, svc |-> w.cur, ip |-> w.snap[w.cur].ip,
                         proj |-> w.client, tagged |-> FALSE]
        <4>1. PICK q \in PortIDs : /\ ports' = [ports EXCEPT ![q] = v]
                                   /\ w' = [w EXCEPT !.pc = "tagPort", !.pid = q]
          BY <1>4, <3>2 DEF EnsurePortExists, CreatePort
        <4>2. v.svc = w.cur
          OBVIOUS
        <4> HIDE DEF v
        <4> QED
          BY <4>1, <4>2 DEF TypeOK
      <3> QED
        BY <3>1, <3>2
    <2>2. fips' = fips /\ (w.fid # None => OwnFip(w.fid, w.cur))
      BY <1>3, <1>4 DEF EnsurePortExists, HandInv
    <2>3. ASSUME NEW q \in PortIDs, w' = [w EXCEPT !.pc = "tagPort", !.pid = q],
                 ports'[q].svc = w.cur
          PROVE  Holds(w')
      <3>1. w'.pc = "tagPort" /\ w'.pid = q /\ w'.fid = w.fid /\ w'.cur = w.cur
        BY <1>1, <2>3 DEF Worker
      <3>2. q # None
        BY NamesAssumption
      <3> QED
        BY <2>2, <2>3, <3>1, <3>2
           DEF Holds, OwnPortNext, OwnFipNext, OwnFip, LiveFip
    <2> QED
      BY <1>2, <2>1, <2>3
  <1>5. CASE CreateNewFloatingIP
    <2>1. \/ w' = Processed(TRUE, TRUE)
          \/ \E f \in FipIDs : /\ w' = [w EXCEPT !.pc = "tagFip", !.fid = f]
                               /\ fips'[f].svc = w.cur
      <3>1. CASE fips' # fips
        BY <1>5, <3>1, Creations
      <3>2. CASE fips' = fips /\ w' # Processed(TRUE, TRUE)
        <4> DEFINE v == [live |-> TRUE, svc |-> w.cur, port |-> w.pid, proj |-> w.client,
                         tagged |-> FALSE]
        <4>1. PICK f \in FipIDs : /\ fips' = [fips EXCEPT ![f] = v]
                                  /\ w' = [w EXCEPT !.pc = "tagFip", !.fid = f]
          BY <1>5, <3>2 DEF CreateNewFloatingIP, CreateFloatingIP
        <4>2. v.svc = w.cur
          OBVIOUS
        <4> HIDE DEF v
        <4> QED
          BY <4>1, <4>2 DEF TypeOK
      <3> QED
        BY <3>1, <3>2
    <2>2. ports' = ports /\ (w.pid # None => OwnPort(w.pid, w.cur))
      BY <1>3, <1>5 DEF CreateNewFloatingIP, HandInv
    <2>3. ASSUME NEW f \in FipIDs, w' = [w EXCEPT !.pc = "tagFip", !.fid = f],
                 fips'[f].svc = w.cur
          PROVE  Holds(w')
      <3>1. w'.pc = "tagFip" /\ w'.pid = w.pid /\ w'.fid = f /\ w'.cur = w.cur
        BY <1>1, <2>3 DEF Worker
      <3> QED
        BY <2>2, <2>3, <3>1 DEF Holds, OwnPortNext, OwnFipNext, OwnPort, LivePort
    <2> QED
      BY <1>2, <2>1, <2>3
  <1> QED
    BY <1>4, <1>5


(* Every step of the loop. *)
LEMMA LoopHolds ==
    ASSUME TypeOK, ControlInv, Owners, RecordInv, AttachInv, HandInv, LoopStep
    PROVE  Holds(w')
  <1>1. w \in Worker /\ w.pid \in PortIDs \cup {None} /\ w.fid \in FipIDs \cup {None}
    BY WorkerParts DEF TypeOK
  <1>2. \A rq, e : Holds(Processed(rq, e))
    BY <1>1, MovesHold
  <1>3. CASE EnsurePortExists \/ CreateNewFloatingIP
    BY <1>3, CreationsHold
  <1>4. ASSUME w.pc \in EnsurePCs, ~EnsurePortExists, ~CreateNewFloatingIP
        PROVE  Firm
    BY <1>4, StaysFirm
  <1>5. CASE ProcessService
    <2>1. w.pid = None /\ w.fid = None
      BY <1>5 DEF ProcessService, HandInv
    <2>2. PICK s : w' = [w EXCEPT !.todo = w.todo \ {s}, !.cur = s, !.pc = FirstStep(w.snap[s])]
      BY <1>5 DEF ProcessService
    <2> DEFINE x == FirstStep(w.snap[s])
               T == w.todo \ {s}
    <2>3. x \in {"svcFinalizer", "credentials", "network", "port"}
      BY DEF FirstStep, AfterFinalizer, AfterCredentials
    <2>4. w' = [w EXCEPT !.todo = T, !.cur = s, !.pc = x]
      BY <2>2
    <2> HIDE DEF x, T
    <2>5. w'.pc = x /\ w'.pid = None /\ w'.fid = None
      BY <1>1, <2>1, <2>4 DEF Worker
    <2> QED
      BY <2>3, <2>5 DEF Holds
  <1>6. CASE /\ ~EnsurePortExists /\ ~CreateNewFloatingIP
             /\ \/ EnsureServiceHasFinalizer \/ EnsureServiceHasCredentials
                \/ ClearPortAnnotation \/ TagPort \/ ClearFipAnnotation \/ TagFip
                \/ AnnotateFip \/ UpdateServiceExternalIPs
    <2>1. \/ \E rq, e : w' = Processed(rq, e)
          \/ /\ w.pc \in EnsurePCs
             /\ \E x \in EnsurePCs : /\ w' = [w EXCEPT !.pc = x]
                                     /\ \/ x \notin {"tagPort", "annotatePort", "fip", "createFip"}
                                        \/ w.pc = "tagPort"
      BY <1>6 DEF EnsureServiceHasFinalizer, EnsureServiceHasCredentials,
         ClearPortAnnotation, TagPort, ClearFipAnnotation, TagFip, AnnotateFip,
         UpdateServiceExternalIPs, UpdateService, UpdateResource, Written, SetPortTags,
         SetFipTags, AfterCredentials, EnsurePCs
    <2>2. w.pc = "tagPort" => w.pid # None
      BY DEF HandInv
    <2> QED
      BY <1>1, <1>2, <1>4, <1>6, <2>1, <2>2, MovesHold
  <1>7. CASE DetectNetworkForLB /\ ~EnsurePortExists /\ ~CreateNewFloatingIP
    <2>1. Firm
      BY <1>4, <1>7 DEF DetectNetworkForLB, EnsurePCs
    <2>2. \/ \E m : w' = [Processed(TRUE, TRUE) EXCEPT !.mem = m]
          \/ \E m : w' = [w EXCEPT !.pc = "port", !.mem = m]
      BY <1>7 DEF DetectNetworkForLB
    <2>3. ASSUME NEW m, w' = [Processed(TRUE, TRUE) EXCEPT !.mem = m]
          PROVE  Holds(w')
      BY <1>1, <2>3 DEF Processed, Holds, Worker
    <2>4. ASSUME NEW m, w' = [w EXCEPT !.pc = "port", !.mem = m]
          PROVE  Holds(w')
      BY <1>1, <2>1, <2>4 DEF Holds, Firm, Worker
    <2> QED
      BY <2>2, <2>3, <2>4
  <1>8. CASE VerifyPort /\ ~EnsurePortExists /\ ~CreateNewFloatingIP
    <2> DEFINE p == w.snap[w.cur].portAnn
    <2>1. Firm /\ w.cur \in Services
      BY <1>4, <1>8 DEF VerifyPort, EnsurePCs, ControlInv, Control, ServicePCs, LoopPCs
    <2>2. p # None /\ OwnPortNext(p, w.cur)
      BY <1>8, <2>1 DEF VerifyPort, RecordInv, Own, OwnPort, OwnPortNext, LivePort, neutron
    <2>3. \/ w' = WithPort(p) \/ w' = [w EXCEPT !.pc = "clearPort"]
          \/ w' = Processed(TRUE, TRUE)
      BY <1>8 DEF VerifyPort
    <2>4. "clearPort" \in EnsurePCs
      BY DEF EnsurePCs
    <2> HIDE DEF p
    <2> QED
      BY <1>1, <1>2, <2>1, <2>2, <2>3, <2>4, MovesHold
  <1>9. CASE AnnotatePort /\ ~EnsurePortExists /\ ~CreateNewFloatingIP
    <2>1. Firm /\ w.pid # None
      BY <1>4, <1>9 DEF AnnotatePort, EnsurePCs, HandInv
    <2>2. w' = WithPort(w.pid) \/ w' = Processed(TRUE, TRUE)
      BY <1>9 DEF AnnotatePort, UpdateService, Written
    <2> QED
      BY <1>1, <1>2, <2>1, <2>2, MovesHold DEF Firm
  <1>10. CASE VerifyFloatingIP /\ ~EnsurePortExists /\ ~CreateNewFloatingIP
    <2> DEFINE f == w.snap[w.cur].fipAnn
    <2>1. Firm /\ w.cur \in Services
      BY <1>4, <1>10 DEF VerifyFloatingIP, EnsurePCs, ControlInv, Control, ServicePCs, LoopPCs
    <2>2. f # None /\ OwnFipNext(f, w.cur)
      BY <1>10, <2>1 DEF VerifyFloatingIP, RecordInv, Own, OwnFip, OwnFipNext, LiveFip, neutron
    <2>3. \/ w' = [w EXCEPT !.pc = "externalIPs", !.fid = f]
          \/ w' = [w EXCEPT !.pc = "clearFip"]
          \/ w' = Processed(TRUE, TRUE)
      BY <1>10 DEF VerifyFloatingIP
    <2>4. "clearFip" \in EnsurePCs
      BY DEF EnsurePCs
    <2> HIDE DEF f
    <2>5. Holds([w EXCEPT !.pc = "externalIPs", !.fid = f])
      BY <1>1, <2>1, <2>2, MovesHold
    <2>6. Holds([w EXCEPT !.pc = "clearFip"])
      BY <1>1, <2>1, <2>4, MovesHold
    <2> QED
      BY <1>2, <2>3, <2>5, <2>6
  <1>11. CASE FindFloatingIP /\ ~EnsurePortExists /\ ~CreateNewFloatingIP
    <2>1. Firm /\ w.pid # None /\ OwnPort(w.pid, w.cur)
      BY <1>4, <1>11 DEF FindFloatingIP, EnsurePCs, HandInv
    <2>2. ASSUME NEW f \in GetFloatingIPByPortID(w.pid)
          PROVE  OwnFipNext(f, w.cur)
      BY <1>11, <2>1 DEF GetFloatingIPByPortID, VisibleFip, AttachInv, OwnPort, OwnFipNext,
                         FindFloatingIP, neutron, LiveFip
    <2>3. \/ \E f \in GetFloatingIPByPortID(w.pid) : w' = [w EXCEPT !.pc = "annotateFip", !.fid = f]
          \/ w' = [w EXCEPT !.pc = "createFip"]
          \/ w' = Processed(TRUE, TRUE)
      BY <1>11 DEF FindFloatingIP
    <2>4. "createFip" \in EnsurePCs
      BY DEF EnsurePCs
    <2>5. ASSUME NEW f \in GetFloatingIPByPortID(w.pid)
          PROVE  Holds([w EXCEPT !.pc = "annotateFip", !.fid = f])
      BY <1>1, <2>1, <2>2, MovesHold
    <2>6. Holds([w EXCEPT !.pc = "createFip"])
      BY <1>1, <2>1, <2>4, MovesHold
    <2> QED
      BY <1>2, <2>3, <2>5, <2>6
  <1> QED
    BY <1>3, <1>5, <1>6, <1>7, <1>8, <1>9, <1>10, <1>11 DEF LoopStep

(* What the worker has in hand remains the Service's. *)
LEMMA HandKept ==
    ASSUME TypeOK, ControlInv, Owners, RecordInv, AttachInv, HandInv, [Next]_vars
    PROVE  HandInv'
  <1>1. w \in Worker
    BY DEF TypeOK
  <1>2. CASE LoopStep
    <2>1. Holds(w') /\ w'.pc \in LoopPCs
      BY <1>2, LoopHolds, LoopMoves DEF Loops
    <2>2. w'.pc # "lbClient"
      BY <2>1 DEF LoopPCs, EnsurePCs
    <2> QED
      BY <2>1, <2>2 DEF Holds, HandInv, OwnPort, OwnFip, OwnPortNext, OwnFipNext, LivePort,
                        LiveFip
  <1>3. CASE Aside
    <2>1. w' = w
      BY <1>3, AsideMoves
    <2>2. ~EnsurePortExists /\ ~CreateNewFloatingIP
      <3>1. Processed(TRUE, TRUE).pc = "loop"
        BY <1>1 DEF Processed, Worker
      <3>2. \A q : [w EXCEPT !.pc = "tagPort", !.pid = q].pc = "tagPort"
        BY <1>1 DEF Worker
      <3>3. \A f : [w EXCEPT !.pc = "tagFip", !.fid = f].pc = "tagFip"
        BY <1>1 DEF Worker
      <3> QED
        BY <2>1, <3>1, <3>2, <3>3
           DEF EnsurePortExists, CreatePort, CreateNewFloatingIP, CreateFloatingIP
    <2>3. w.pc \in EnsurePCs => Firm
      BY <2>2, StaysFirm
    <2> QED
      BY <2>1, <2>3 DEF HandInv, Firm, OwnPort, OwnFip, OwnPortNext, OwnFipNext, LivePort,
                        LiveFip
  <1>4. ASSUME w'.pc \in CleanupPCs \cup HandlerPCs \cup
                         {"idle", "return", "delClient", "lbFinalizer", "lbUnfinalize", "status"}
        PROVE  HandInv'
    BY <1>4 DEF CleanupPCs, DeletePCs, HandlerPCs, HandInv, EnsurePCs
  <1>5. ASSUME w'.pc \in {"lbClient", "loop"}, w'.pid = None, w'.fid = None
        PROVE  HandInv'
    BY <1>5 DEF HandInv, EnsurePCs
  <1>6. ASSUME NEW l \in LBs, Reconcile(l)
        PROVE  HandInv'
    <2>1. w'.pid = None /\ w'.fid = None
      BY <1>6 DEF Reconcile, IdleWorker
    <2>2. w'.pc \in {"return", "delClient", "lbClient", "lbFinalizer"}
      BY <1>6, BeginMoves
    <2> QED
      BY <1>4, <1>5, <2>1, <2>2
  <1>7. CASE ListServices
    <2> DEFINE T == {s \in Services : Eligible(w.req, s, csvc[s])}
               m == SetCondition(w.mem, "Ready", "OpenStackClientError")
    <2>1. w.pid = None /\ w.fid = None
      BY <1>7 DEF ListServices, HandInv
    <2>2. \/ \E x : w' = [w EXCEPT !.pc = "loop", !.client = x, !.snap = csvc, !.todo = T]
          \/ w' = [w EXCEPT !.pc = "status", !.mem = m]
      BY <1>7 DEF ListServices
    <2> HIDE DEF T, m
    <2>3. w'.pc = "status" \/ (w'.pc = "loop" /\ w'.pid = None /\ w'.fid = None)
      BY <1>1, <2>1, <2>2 DEF Worker
    <2> QED
      BY <1>4, <1>5, <2>3
  <1>8. CASE \/ Return \/ Restart \/ StartDeletion
             \/ \E s \in Services : ReconcileService(s)
             \/ Cleanup \/ CleanupService \/ EndDeletion \/ EndLoop \/ Handle
             \/ AddLBFinalizer \/ WriteStatus \/ RemoveLBFinalizer
    <2>1. w'.pc \in CleanupPCs \cup HandlerPCs \cup
                    {"idle", "return", "delClient", "lbFinalizer", "lbUnfinalize", "status"}
      BY <1>8, BeginMoves, ListMoves, CleaningMoves, OtherMoves
         DEF CleanupPCs, DeletePCs, HandlerPCs
    <2> QED
      BY <1>4, <2>1
  <1> QED
    BY <1>2, <1>3, <1>6, <1>7, <1>8, StepCourse DEF Course


-----------------------------------------------------------------------------
(* The lists of a cleanup *)

(* All of F and P is the Service's after the step. *)
ListNext(F, P, s) == /\ \A p \in P : OwnPortNext(p, s)
                     /\ \A f \in F : OwnFipNext(f, s)

(* v has listed nothing that is not the Service's. *)
Lists(v) ==
    /\ v.pc \in {"delClient", "delLoop", "svcClient"} => v.delP = {} /\ v.delF = {}
    /\ v.pc \in DeletePCs \cup {"list"} => ListNext(v.delF, v.delP, v.cur)

(* How the steps of a cleanup leave the lists. *)
LEMMA MovesList ==
    ASSUME w \in Worker, ListNext(w.delF, w.delP, w.cur)
    PROVE  /\ \A rq : Lists(ReturnWith(rq)) /\ Lists(ServiceHandled(rq))
           /\ \A x \in DeletePCs : Lists([w EXCEPT !.pc = x])
           /\ \A failed : Lists(CleanupReturns(failed))
  <1>1. ASSUME NEW rq
        PROVE  Lists(ReturnWith(rq))
    BY DEF ReturnWith, Lists, Worker, DeletePCs
  <1>2. ASSUME NEW rq
        PROVE  Lists(ServiceHandled(rq))
    <2> DEFINE r == w.requeue \/ rq
    <2>1. \/ ServiceHandled(rq) = ReturnWith(rq)
          \/ ServiceHandled(rq) =
               [w EXCEPT !.pc = "delLoop", !.cur = None, !.delF = {}, !.delP = {},
                         !.clr = {}, !.fail = FALSE, !.requeue = r]
      BY DEF ServiceHandled
    <2> HIDE DEF r
    <2>2. Lists([w EXCEPT !.pc = "delLoop", !.cur = None, !.delF = {}, !.delP = {},
                         !.clr = {}, !.fail = FALSE, !.requeue = r])
      BY DEF Lists, Worker, DeletePCs
    <2> QED
      BY <1>1, <2>1, <2>2
  <1>3. ASSUME NEW x \in DeletePCs
        PROVE  Lists([w EXCEPT !.pc = x])
    BY DEF Lists, Worker, DeletePCs
  <1>4. ASSUME NEW failed
        PROVE  Lists(CleanupReturns(failed))
    <2>1. Lists([w EXCEPT !.pc = "force", !.fail = failed])
      BY DEF Lists, Worker, DeletePCs
    <2>2. Lists([w EXCEPT !.pc = "unfinalize"])
      BY <1>3 DEF DeletePCs
    <2> QED
      BY <1>2, <2>1, <2>2 DEF CleanupReturns
  <1> QED
    BY <1>1, <1>2, <1>3, <1>4

(* What the searches find is the Service's, as long as no other Service's   *)
(* text matches and the annotations name the Service's own.                 *)
LEMMA SearchesOwn ==
    ASSUME DistinctTexts, TypeOK, AttachInv, NEW s \in Services, NEW c \in Service, Own(c, s)
    PROVE  /\ \A p \in PortsToDelete(s, c) : OwnPort(p, s)
           /\ \A f \in FloatingIPsToDelete(s, c) : OwnFip(f, s)
  <1>1. \A t : <<t, s>> \in Mentions => t = s
    BY MentionsAssumption DEF DistinctTexts
  <1>2. ASSUME NEW p \in PortsToDelete(s, c)
        PROVE  OwnPort(p, s)
    <2>1. p \in PortIDs /\ (p = c.portAnn \/ <<ports[p].svc, s>> \in Mentions)
      BY DEF PortsToDelete, GetAllPorts
    <2>2. p # None
      BY <2>1, NamesAssumption
    <2> QED
      BY <1>1, <2>1, <2>2 DEF Own, OwnPort
  <1>3. ASSUME NEW f \in FloatingIPsToDelete(s, c)
        PROVE  OwnFip(f, s)
    <2>1. /\ f \in FipIDs
          /\ \/ f = c.fipAnn
             \/ c.portAnn # None /\ fips[f].port = c.portAnn
             \/ <<fips[f].svc, s>> \in Mentions
      BY DEF FloatingIPsToDelete, GetAllFloatingIPs
    <2>2. f # None
      BY <2>1, NamesAssumption
    <2> QED
      BY <1>1, <2>1, <2>2 DEF Own, OwnPort, OwnFip, AttachInv
  <1> QED
    BY <1>2, <1>3

(* The steps of the cleanup of one Service. *)
LEMMA CleaningLists ==
    ASSUME DistinctTexts, TypeOK, ControlInv, Owners, RecordInv, AttachInv, ListsInv, Cleanup
    PROVE  Lists(w')
  <1>1. /\ w \in Worker /\ w.delF \subseteq FipIDs /\ w.delP \subseteq PortIDs
        /\ w.pc \in DeletePCs \cup {"list"}
    BY WorkerParts, CleaningMoves DEF TypeOK, CleanupPCs
  <1>2. w.pc \notin {"port", "createFip"}
    BY <1>1 DEF DeletePCs
  <1>3. w.cur \in Services
    BY <1>1 DEF ControlInv, Control, ServicePCs, CleanupPCs, DeletePCs
  <1>4. ListNext(w.delF, w.delP, w.cur)
    BY <1>1, <1>2, <1>3, OwnKept DEF ListsInv, ListNext, OwnPortNext, OwnFipNext
  <1>5. CASE ListResources
    <2> DEFINE F == FloatingIPsToDelete(w.cur, w.snap[w.cur])
               P == PortsToDelete(w.cur, w.snap[w.cur])
    <2>1. ListNext(F, P, w.cur)
      <3>1. w.snap[w.cur] \in Service /\ Own(w.snap[w.cur], w.cur)
        BY <1>1, <1>3, WorkerParts DEF RecordInv
      <3>2. /\ \A p \in P : OwnPort(p, w.cur)
            /\ \A f \in F : OwnFip(f, w.cur)
        BY <1>3, <3>1, SearchesOwn
      <3>3. ports' = ports /\ fips' = fips
        BY <1>5 DEF ListResources, neutron
      <3> HIDE DEF F, P
      <3> QED
        BY <3>2, <3>3 DEF ListNext, OwnPort, OwnFip, OwnPortNext, OwnFipNext, LivePort,
                          LiveFip
    <2>2. \/ w' = CleanupReturns(TRUE)
          \/ w' = [w EXCEPT !.pc = "delFips", !.delF = F, !.delP = P]
      BY <1>5 DEF ListResources
    <2> HIDE DEF F, P
    <2>3. CASE w' = [w EXCEPT !.pc = "delFips", !.delF = F, !.delP = P]
      BY <1>1, <2>1, <2>3 DEF Lists, Worker, DeletePCs
    <2> QED
      BY <1>1, <1>4, <2>2, <2>3, MovesList
  <1>6. CASE DeleteFips \/ DeletePorts
    <2>1. \/ \E D, k : D \subseteq w.delF /\ w' = [w EXCEPT !.delF = D, !.clr = k]
          \/ \E D, b : D \subseteq w.delF /\ w' = [w EXCEPT !.delF = D, !.fail = b]
          \/ \E D, k : D \subseteq w.delP /\ w' = [w EXCEPT !.delP = D, !.clr = k]
          \/ \E D, b : D \subseteq w.delP /\ w' = [w EXCEPT !.delP = D, !.fail = b]
      <3>1. \A f : w.delF \ {f} \subseteq w.delF /\ w.delP \ {f} \subseteq w.delP
        OBVIOUS
      <3> QED
        BY <1>6, <3>1 DEF DeleteFips, DeletePorts, DeleteFloatingIP, DeletePort,
                          FipDeleted, PortDeleted
    <2>2. ASSUME NEW D, D \subseteq w.delF,
                 (\E k : w' = [w EXCEPT !.delF = D, !.clr = k]) \/
                 (\E b : w' = [w EXCEPT !.delF = D, !.fail = b])
          PROVE  Lists(w')
      <3>1. w'.pc = w.pc /\ w'.delF = D /\ w'.delP = w.delP /\ w'.cur = w.cur
        BY <1>1, <2>2 DEF Worker
      <3> QED
        BY <1>1, <1>4, <2>2, <3>1 DEF Lists, ListNext, DeletePCs
    <2>3. ASSUME NEW D, D \subseteq w.delP,
                 (\E k : w' = [w EXCEPT !.delP = D, !.clr = k]) \/
                 (\E b : w' = [w EXCEPT !.delP = D, !.fail = b])
          PROVE  Lists(w')
      <3>1. w'.pc = w.pc /\ w'.delF = w.delF /\ w'.delP = D /\ w'.cur = w.cur
        BY <1>1, <2>3 DEF Worker
      <3> QED
        BY <1>1, <1>4, <2>3, <3>1 DEF Lists, ListNext, DeletePCs
    <2> QED
      BY <2>1, <2>2, <2>3
  <1>7. CASE \/ FipsDone \/ PortsDone \/ ClearAnnotations \/ RemoveServiceFinalizer
             \/ ForceFinalizerRemoval
    <2>1. \/ \E rq : w' = ServiceHandled(rq)
          \/ \E x \in DeletePCs : w' = [w EXCEPT !.pc = x]
          \/ \E failed : w' = CleanupReturns(failed)
      BY <1>7 DEF FipsDone, PortsDone, ClearAnnotations, RemoveServiceFinalizer,
                  ForceFinalizerRemoval, UpdateService, UpdateResource, Written, DeletePCs
    <2> QED
      BY <1>1, <1>4, <2>1, MovesList
  <1> QED
    BY <1>5, <1>6, <1>7 DEF Cleanup


(* The service handler goes on with the Service it was called for. *)
LEMMA HandleMoves ==
    ASSUME TypeOK, Handle, w'.pc \in CleanupPCs
    PROVE  /\ w.pc = "svcClient" /\ w'.pc \in DeletePCs \cup {"list"} /\ w'.cur = w.cur
           /\ w'.delF = w.delF /\ w'.delP = w.delP
  <1>1. w \in Worker
    BY DEF TypeOK
  <1>2. CASE EnsureServiceFinalizer \/ UpdateServiceWithCredentials
    <2>1. (\E rq : w' = ReturnWith(rq)) \/ w' = [w EXCEPT !.pc = "handlerCredentials"]
      BY <1>2 DEF EnsureServiceFinalizer, UpdateServiceWithCredentials, UpdateResource,
                  UpdateService, Written
    <2>2. w'.pc \in {"return", "handlerCredentials"}
      BY <1>1, <2>1 DEF ReturnWith, Worker
    <2> QED
      BY <2>2 DEF CleanupPCs, DeletePCs
  <1>3. CASE GetOpenStackClientFromService
    <2>1. /\ w.pc = "svcClient"
          /\ \/ \E rq : w' = ReturnWith(rq)
             \/ \E c : w' = [w EXCEPT !.pc = "list", !.client = c]
             \/ w' = [w EXCEPT !.pc = "unfinalize", !.fail = TRUE]
      BY <1>3 DEF GetOpenStackClientFromService, ClientFor, NoClient
    <2>2. ASSUME NEW rq, w' = ReturnWith(rq)
          PROVE  w'.pc = "return"
      BY <1>1, <2>2 DEF ReturnWith, Worker
    <2>3. ASSUME NEW c, w' = [w EXCEPT !.pc = "list", !.client = c]
          PROVE  /\ w'.pc = "list" /\ w'.cur = w.cur
                 /\ w'.delF = w.delF /\ w'.delP = w.delP
      BY <1>1, <2>3 DEF Worker
    <2>4. ASSUME w' = [w EXCEPT !.pc = "unfinalize", !.fail = TRUE]
          PROVE  /\ w'.pc = "unfinalize" /\ w'.cur = w.cur
                 /\ w'.delF = w.delF /\ w'.delP = w.delP
      BY <1>1, <2>4 DEF Worker
    <2> QED
      BY <2>1, <2>2, <2>3, <2>4 DEF CleanupPCs, DeletePCs
  <1> QED
    BY <1>2, <1>3 DEF Handle

(* The lists of a cleanup remain the Service's. *)
LEMMA ListsKept ==
    ASSUME DistinctTexts, TypeOK, ControlInv, Owners, RecordInv, AttachInv, ListsInv,
           [Next]_vars
    PROVE  ListsInv'
  <1>1. /\ w \in Worker /\ w.delF \subseteq FipIDs /\ w.delP \subseteq PortIDs
    BY WorkerParts DEF TypeOK
  <1>2. ASSUME Lists(w')
        PROVE  ListsInv'
    BY <1>2 DEF Lists, ListsInv, ListNext, OwnPort, OwnFip, OwnPortNext, OwnFipNext,
                LivePort, LiveFip
  <1>3. ASSUME w'.pc \notin CleanupPCs \cup {"delClient"}
        PROVE  ListsInv'
    BY <1>3 DEF CleanupPCs, DeletePCs, ListsInv
  <1>4. ASSUME w'.delF = {}, w'.delP = {}
        PROVE  ListsInv'
    BY <1>4 DEF ListsInv
  <1>5. CASE Aside
    <2>1. w' = w
      BY <1>5, AsideMoves
    <2>2. ASSUME w.pc \in DeletePCs \cup {"list"}
          PROVE  ListNext(w.delF, w.delP, w.cur)
      <3>1. w.pc \notin {"port", "createFip"} /\ w.cur \in Services
        BY <2>2 DEF ControlInv, Control, ServicePCs, CleanupPCs, DeletePCs
      <3> QED
        BY <1>1, <2>2, <3>1, OwnKept DEF ListsInv, ListNext, OwnPortNext, OwnFipNext
    <2>3. Lists(w')
      BY <2>1, <2>2 DEF Lists, ListsInv
    <2> QED
      BY <1>2, <2>3
  <1>6. CASE Cleanup
    BY <1>2, <1>6, CleaningLists
  <1>7. CASE (\E l \in LBs : Reconcile(l)) \/ (\E s \in Services : ReconcileService(s))
             \/ Return \/ Restart
    <2>1. CASE \E l \in LBs : Reconcile(l)
      BY <1>4, <2>1 DEF Reconcile, IdleWorker
    <2>2. CASE \E s \in Services : ReconcileService(s)
      BY <1>4, <2>2 DEF ReconcileService, IdleWorker
    <2>3. CASE Return \/ Restart
      BY <1>4, <2>3 DEF Return, Restart, IdleWorker
    <2> QED
      BY <1>7, <2>1, <2>2, <2>3
  <1>8. CASE CleanupService \/ StartDeletion
    <2> DEFINE T == {s \in Services : Managed(w.req, s, csvc[s])}
    <2>1. w.delF = {} /\ w.delP = {}
      BY <1>8 DEF CleanupService, StartDeletion, ListsInv
    <2>2. \/ \E D : w' = [w EXCEPT !.todo = D]
          \/ \E D, s : w' = [w EXCEPT !.todo = D, !.cur = s, !.pc = "list"]
          \/ \E x : w' = [w EXCEPT !.pc = "delLoop", !.client = x, !.snap = csvc, !.todo = T]
          \/ w' = [w EXCEPT !.pc = "lbUnfinalize", !.fail = TRUE]
      BY <1>8 DEF CleanupService, StartDeletion
    <2> HIDE DEF T
    <2>3. w'.delF = w.delF /\ w'.delP = w.delP
      BY <1>1, <2>2 DEF Worker
    <2> QED
      BY <1>4, <2>1, <2>3
  <1>9. CASE Handle
    <2>1. CASE w'.pc \in CleanupPCs
      BY <1>4, <1>9, <2>1, HandleMoves DEF ListsInv
    <2>2. w'.pc # "delClient"
      BY <1>9, OtherMoves
    <2> QED
      BY <1>3, <2>1, <2>2
  <1>10. CASE \/ ListServices \/ LoopStep \/ EndDeletion \/ EndLoop
              \/ AddLBFinalizer \/ WriteStatus \/ RemoveLBFinalizer
    <2>1. w'.pc \in LoopPCs \cup {"status", "lbUnfinalize", "return"}
      BY <1>10, ListMoves, LoopMoves, OtherMoves DEF Loops, LoopPCs
    <2>2. w'.pc \notin CleanupPCs \cup {"delClient"}
      BY <2>1 DEF LoopPCs, EnsurePCs, CleanupPCs, DeletePCs
    <2> QED
      BY <1>3, <2>2
  <1> QED
    BY <1>5, <1>6, <1>7, <1>8, <1>9, <1>10, StepCourse DEF Course

(* A cleanup that is not part of a deletion stays with its Service. *)
LEMMA CleaningStays ==
    ASSUME TypeOK, Cleanup, w.req \notin LBs
    PROVE  w'.cur = w.cur
  <1>1. w \in Worker
    BY DEF TypeOK
  <1>2. ASSUME NEW rq, w' = ServiceHandled(rq)
        PROVE  w'.cur = w.cur
    BY <1>1, <1>2 DEF ServiceHandled, ReturnWith, Worker
  <1>3. ASSUME NEW x, w' = [w EXCEPT !.pc = x]
        PROVE  w'.cur = w.cur
    BY <1>1, <1>3 DEF Worker
  <1>4. ASSUME NEW failed, w' = CleanupReturns(failed)
        PROVE  w'.cur = w.cur
    <2>1. \/ \E rq : w' = ServiceHandled(rq)
          \/ \E x : w' = [w EXCEPT !.pc = x]
          \/ w' = [w EXCEPT !.pc = "force", !.fail = failed]
      BY <1>4 DEF CleanupReturns
    <2>2. CASE w' = [w EXCEPT !.pc = "force", !.fail = failed]
      BY <1>1, <2>2 DEF Worker
    <2> QED
      BY <1>2, <1>3, <2>1, <2>2
  <1>5. CASE ListResources
    <2>1. \/ w' = CleanupReturns(TRUE)
          \/ \E F, P : w' = [w EXCEPT !.pc = "delFips", !.delF = F, !.delP = P]
      BY <1>5 DEF ListResources
    <2>2. ASSUME NEW F, NEW P, w' = [w EXCEPT !.pc = "delFips", !.delF = F, !.delP = P]
          PROVE  w'.cur = w.cur
      BY <1>1, <2>2 DEF Worker
    <2> QED
      BY <1>4, <2>1, <2>2
  <1>6. CASE DeleteFips \/ DeletePorts
    <2>1. \/ \E D, k : w' = [w EXCEPT !.delF = D, !.clr = k]
          \/ \E D, b : w' = [w EXCEPT !.delF = D, !.fail = b]
          \/ \E D, k : w' = [w EXCEPT !.delP = D, !.clr = k]
          \/ \E D, b : w' = [w EXCEPT !.delP = D, !.fail = b]
      BY <1>6 DEF DeleteFips, DeletePorts, DeleteFloatingIP, DeletePort, FipDeleted,
                  PortDeleted
    <2> QED
      BY <1>1, <2>1 DEF Worker
  <1>7. CASE \/ FipsDone \/ PortsDone \/ ClearAnnotations \/ RemoveServiceFinalizer
             \/ ForceFinalizerRemoval
    <2>1. \/ \E rq : w' = ServiceHandled(rq)
          \/ \E x : w' = [w EXCEPT !.pc = x]
          \/ \E failed : w' = CleanupReturns(failed)
      BY <1>7 DEF FipsDone, PortsDone, ClearAnnotations, RemoveServiceFinalizer,
                  ForceFinalizerRemoval, UpdateService, UpdateResource, Written
    <2> QED
      BY <1>2, <1>3, <1>4, <2>1
  <1> QED
    BY <1>5, <1>6, <1>7 DEF Cleanup

(* The service handler cleans up only what it read as terminating. *)
LEMMA FinalizeKept ==
    ASSUME TypeOK, ControlInv, FinalizeInv, [Next]_vars
    PROVE  FinalizeInv'
  <1>1. w \in Worker
    BY DEF TypeOK
  <1>2. ASSUME w'.pc \notin CleanupPCs
        PROVE  FinalizeInv'
    BY <1>2 DEF FinalizeInv
  <1>3. ASSUME w'.req \in LBs
        PROVE  FinalizeInv'
    BY <1>3 DEF FinalizeInv
  <1>4. CASE Aside
    BY <1>4, AsideMoves DEF FinalizeInv
  <1>5. CASE Cleanup
    <2>1. w'.req = w.req /\ w'.snap = w.snap /\ w.pc \in CleanupPCs
      BY <1>1, <1>5, OngoingKeeps, CleaningMoves DEF Ongoing, Keeps, Stays
    <2> QED
      BY <1>5, <2>1, CleaningStays DEF FinalizeInv
  <1>6. ASSUME NEW s \in Services, ReconcileService(s)
        PROVE  FinalizeInv'
    <2>1. w'.cur = s /\ w'.snap[s] = csvc[s] /\ w'.pc = ServiceBranch(s, csvc[s])
      BY <1>6 DEF ReconcileService, IdleWorker, NoSnap
    <2>2. w'.pc = "svcClient" => csvc[s].deleting
      BY <2>1 DEF ServiceBranch
    <2>3. w'.pc \in CleanupPCs => w'.pc = "svcClient"
      BY <2>1, BeginMoves DEF CleanupPCs, DeletePCs
    <2> QED
      BY <2>1, <2>2, <2>3 DEF FinalizeInv
  <1>7. CASE Handle
    <2>1. w'.req = w.req /\ w'.snap = w.snap
      BY <1>1, <1>7, OngoingKeeps DEF Ongoing, Keeps, Stays
    <2>2. CASE w'.pc \in CleanupPCs
      <3>1. w.pc \in CleanupPCs /\ w'.cur = w.cur
        BY <1>7, <2>2, HandleMoves DEF CleanupPCs
      <3> QED
        BY <2>1, <3>1 DEF FinalizeInv
    <2> QED
      BY <1>2, <2>2
  <1>8. CASE \/ CleanupService \/ StartDeletion
             \/ \E l \in LBs : Reconcile(l)
    <2>1. CASE \E l \in LBs : Reconcile(l)
      BY <1>3, <2>1, BeginMoves
    <2>2. CASE CleanupService
      <3>1. w.req \in LBs
        BY <2>2 DEF CleanupService, ControlInv, Control, LBPCs
      <3> QED
        BY <1>1, <1>3, <2>2, <3>1, OngoingKeeps DEF Ongoing, Keeps, Stays
    <2>3. CASE StartDeletion
      <3>1. w.req \in LBs
        BY <2>3 DEF StartDeletion, ControlInv, Control, LBPCs
      <3> QED
        BY <1>3, <2>3, <3>1, ListMoves DEF Stays
    <2> QED
      BY <1>8, <2>1, <2>2, <2>3
  <1>9. CASE \/ ListServices \/ LoopStep \/ EndDeletion \/ EndLoop \/ Return \/ Restart
             \/ AddLBFinalizer \/ WriteStatus \/ RemoveLBFinalizer
    <2>1. w'.pc \in LoopPCs \cup {"status", "lbUnfinalize", "return", "idle"}
      BY <1>9, ListMoves, LoopMoves, OtherMoves, BeginMoves DEF Loops, LoopPCs
    <2>2. w'.pc \notin CleanupPCs
      BY <2>1 DEF LoopPCs, EnsurePCs, CleanupPCs, DeletePCs
    <2> QED
      BY <1>2, <2>2
  <1> QED
    BY <1>4, <1>5, <1>6, <1>7, <1>8, <1>9, StepCourse DEF Course


-----------------------------------------------------------------------------
(* Every step of the operator and of its environment keeps OwnershipInv. *)
LEMMA OwnershipInductive ==
    ASSUME DistinctTexts
    PROVE  /\ Init => OwnershipInv
           /\ TypeInv /\ LeakInv /\ StaleInv /\ OwnershipInv /\ [Next]_vars => OwnershipInv'
  <1>1. ASSUME Init PROVE OwnershipInv
    <2>1. RecordInv
      BY <1>1 DEF Init, RecordInv, Own, NoService, IdleWorker, NoSnap
    <2>2. AttachInv
      BY <1>1 DEF Init, AttachInv, LiveFip, NoFip
    <2>3. w.pc = "idle"
      BY <1>1 DEF Init, IdleWorker
    <2>4. HandInv /\ ListsInv /\ FinalizeInv
      BY <2>3 DEF HandInv, ListsInv, FinalizeInv, EnsurePCs, CleanupPCs, DeletePCs
    <2> QED
      BY <2>1, <2>2, <2>4 DEF OwnershipInv
  <1>2. ASSUME TypeInv, LeakInv, StaleInv, OwnershipInv, [Next]_vars PROVE OwnershipInv'
    <2>1. TypeOK /\ ControlInv /\ Owners /\ Succession /\ \A s \in Services : Copied(s)
      BY <1>2, StepOwners, StepSuccession, StepCopies DEF TypeInv
    <2>2. RecordInv /\ AttachInv /\ HandInv /\ ListsInv /\ FinalizeInv
      BY <1>2 DEF OwnershipInv
    <2>3. RecordInv'
      BY <2>1, <2>2, RecordKept
    <2>4. AttachInv'
      BY <1>2, <2>1, <2>2, AttachKept
    <2>5. HandInv'
      BY <1>2, <2>1, <2>2, HandKept
    <2>6. ListsInv'
      BY <1>2, <2>1, <2>2, ListsKept
    <2>7. FinalizeInv'
      BY <1>2, <2>1, <2>2, FinalizeKept
    <2> QED
      BY <2>3, <2>4, <2>5, <2>6, <2>7 DEF OwnershipInv
  <1> QED
    BY <1>1, <1>2

(* The argument as an invariant: whatever a Service, a copy of it, or the   *)
(* worker's memory names for a Service is that Service's own, or a floating *)
(* IP of a user, and so is what a cleanup has listed before its first       *)
(* deletion (ensurePortExists, createOrFindFloatingIP,                      *)
(* identifyPortsToDelete), provided no text of a resource matches the       *)
(* search of another Service.                                               *)
THEOREM OwnershipInvariant ==
    ASSUME DistinctTexts
    PROVE  Spec => []OwnershipInv
  <1>1. Init => TypeInv /\ LeakInv /\ AnnotationInv /\ OwnershipInv
    BY TypeInductive, LeakInductive, AnnotationInductive, OwnershipInductive
  <1>2. TypeInv /\ LeakInv /\ AnnotationInv /\ OwnershipInv /\ [Next]_vars
          => (TypeInv /\ LeakInv /\ AnnotationInv /\ OwnershipInv)'
    BY TypeInductive, LeakInductive, AnnotationInductive, OwnershipInductive
       DEF AnnotationInv
  <1> QED
    BY <1>1, <1>2, PTL DEF Spec

(* What is deleted in a cleanup is the Service's, and may be deleted. *)
LEMMA MayCleanUp ==
    ASSUME SingleProject, TypeOK, LeakInv, MemInv, FinalizeInv,
           w.pc \in {"delFips", "delPorts"}, w.cur \in Services
    PROVE  /\ \A p \in PortIDs : LivePort(p) /\ ports[p].svc = w.cur => Grounded(w.cur, p)
           /\ \A f \in FipIDs : LiveFip(f) /\ fips[f].svc = w.cur => Grounded(w.cur, f)
  <1>1. w.pc \in CleanupPCs /\ w.pc # "delLoop"
    BY DEF CleanupPCs, DeletePCs
  <1>2. CASE w.req \in LBs
    <2>1. w.mem.exists /\ w.mem.deleting /\ Lags(w.mem, lb[w.req])
      BY <1>1, <1>2 DEF MemInv
    <2>2. Doomed(lb[w.req]) \/ lb[w.req].uid # w.mem.uid
      BY <2>1 DEF Lags
    <2> QED
      BY <1>2, <2>2 DEF Grounded, LBDoomed
  <1>3. CASE w.req \notin LBs
    <2>1. w.snap[w.cur].deleting /\ w.snap[w.cur].exists
      BY <1>1, <1>3 DEF FinalizeInv, LeakInv, WorkerInv, CleanupInv
    <2>2. ~Healthy(svc[w.cur])
      BY <1>1, <2>1 DEF LeakInv, WorkerInv, CleanupInv
    <2>3. Doomed(svc[w.cur]) \/ ~Protected(w.cur)
      BY <2>2 DEF Healthy, Doomed, Protected
    <2>4. NoSilentLeak /\ w.cur # None
      BY NamesAssumption DEF LeakInv, LeakFree
    <2> QED
      BY <2>3, <2>4 DEF NoSilentLeak, Grounded
  <1> QED
    BY <1>2, <1>3

(* The operator deletes a port or floating IP of its own only for a reason  *)
(* that holds in the API server, not just in its stale cache or in the copy *)
(* it read when the reconcile began (CleanupResourcesForService,            *)
(* handleDeletion): the Service is being deleted or gone, or the LB whose   *)
(* deletion is handled is, or the resource had been knowingly given up on.  *)
(* For any number of Services, LBs and classes, provided the credentials of *)
(* all LBs belong to one project and no text of a resource matches the      *)
(* search of another Service.                                               *)
THEOREM DeletesAreGrounded ==
    ASSUME SingleProject, DistinctTexts
    PROVE  Spec => DeletesGrounded
  <1> DEFINE Justified ==
          w' # w =>
            /\ \A p \in PortIDs : LivePort(p) /\ ~LivePort(p)' => Grounded(ports[p].svc, p)
            /\ \A f \in FipIDs : LiveFip(f) /\ fips[f].svc # None /\ ~LiveFip(f)'
                                     => Grounded(fips[f].svc, f)
  <1>1. TypeInv /\ LeakInv /\ AnswerInv /\ OwnershipInv /\ [Next]_vars => [Justified]_vars
    <2> SUFFICES ASSUME TypeInv, LeakInv, AnswerInv, OwnershipInv, [Next]_vars, w' # w
                 PROVE  Justified
      OBVIOUS
    <2>1. TypeOK /\ ControlInv /\ MemInv /\ ListsInv /\ FinalizeInv
      BY DEF TypeInv, AnswerInv, OwnershipInv
    <2>2. ports \in [PortIDs -> Port] /\ fips \in [FipIDs -> Fip]
      BY <2>1 DEF TypeOK
    <2>3. ASSUME \A p \in PortIDs : ports[p].live => ports'[p].live,
                 \A f \in FipIDs : fips[f].live => fips'[f].live
          PROVE  Justified
      BY <2>3 DEF LivePort, LiveFip
    <2>4. CASE EnsurePortExists
      <3>1. fips' = fips
        BY <2>4 DEF EnsurePortExists
      <3>2. \A p \in PortIDs : ports[p].live => ports'[p] = ports[p]
        BY <2>1, <2>4, Creations
      <3> QED
        BY <2>3, <3>1, <3>2
    <2>5. CASE CreateNewFloatingIP
      <3> DEFINE v == [live |-> TRUE, svc |-> w.cur, port |-> w.pid, proj |-> w.client,
                       tagged |-> FALSE]
      <3>1. /\ ports' = ports
            /\ fips' = fips \/ \E g \in FipIDs : fips' = [fips EXCEPT ![g] = v]
        BY <2>5 DEF CreateNewFloatingIP, CreateFloatingIP
      <3>2. v.live
        OBVIOUS
      <3> HIDE DEF v
      <3> QED
        BY <2>2, <2>3, <3>1, <3>2
    <2>6. CASE TagPort \/ TagFip
      <3>1. /\ ports' = ports \/ ports' = [ports EXCEPT ![w.pid].tagged = TRUE]
            /\ fips' = fips \/ fips' = [fips EXCEPT ![w.fid].tagged = TRUE]
        BY <2>6 DEF TagPort, TagFip, SetPortTags, SetFipTags
      <3>2. ASSUME NEW p \in PortIDs
            PROVE  ports'[p].live = ports[p].live
        <4>1. ports[p] \in Port
          BY <2>2
        <4> QED
          BY <2>2, <3>1, <4>1 DEF Port
      <3>3. ASSUME NEW f \in FipIDs
            PROVE  fips'[f].live = fips[f].live
        <4>1. fips[f] \in Fip
          BY <2>2
        <4> QED
          BY <2>2, <3>1, <4>1 DEF Fip
      <3> QED
        BY <2>3, <3>2, <3>3
    <2>7. CASE DeleteFips \/ DeletePorts
      <3>1. /\ w.delF \subseteq FipIDs /\ w.delP \subseteq PortIDs
            /\ w.pc \in {"delFips", "delPorts"}
        BY <2>1, <2>7, WorkerParts DEF TypeOK, DeleteFips, DeletePorts
      <3>2. w.cur \in Services
        BY <2>1, <3>1 DEF ControlInv, Control, ServicePCs, CleanupPCs, DeletePCs
      <3>3. /\ \A p \in w.delP : OwnPort(p, w.cur)
            /\ \A f \in w.delF : OwnFip(f, w.cur)
        BY <2>1, <3>1 DEF ListsInv, DeletePCs
      <3>4. /\ \A p \in PortIDs : LivePort(p) /\ ports[p].svc = w.cur => Grounded(w.cur, p)
            /\ \A f \in FipIDs : LiveFip(f) /\ fips[f].svc = w.cur => Grounded(w.cur, f)
        BY <2>1, <3>1, <3>2, MayCleanUp
      <3>5. \/ neutron' = neutron
            \/ \E p \in w.delP : RemovePort(p)
            \/ \E f \in w.delF : RemoveFip(f)
        BY <2>7 DEF DeleteFips, DeletePorts, DeleteFloatingIP, DeletePort
      <3>6. ASSUME NEW p \in w.delP, RemovePort(p)
            PROVE  Justified
        <4>1. \A q \in PortIDs : q # p => ports'[q] = ports[q]
          BY <2>2, <3>6 DEF RemovePort
        <4>2. ASSUME NEW f \in FipIDs
              PROVE  fips'[f].live = fips[f].live
          <5>1. fips[f] \in Fip
            BY <2>2
          <5>2. fips'[f] \in {fips[f], [fips[f] EXCEPT !.port = None]}
            BY <3>6 DEF RemovePort
          <5> QED
            BY <5>1, <5>2 DEF Fip
        <4> QED
          BY <3>1, <3>3, <3>4, <4>1, <4>2 DEF LivePort, LiveFip, OwnPort
      <3>7. ASSUME NEW f \in w.delF, RemoveFip(f)
            PROVE  Justified
        <4>1. ports' = ports /\ \A g \in FipIDs : g # f => fips'[g] = fips[g]
          BY <2>2, <3>7 DEF RemoveFip
        <4> QED
          BY <3>1, <3>3, <3>4, <4>1 DEF LivePort, LiveFip, OwnFip
      <3> QED
        BY <2>3, <3>5, <3>6, <3>7 DEF neutron
    <2>8. CASE Work
      <3>1. \/ neutron' = neutron
            \/ EnsurePortExists \/ CreateNewFloatingIP \/ TagPort \/ TagFip
            \/ DeleteFips \/ DeletePorts
        BY <2>8
           DEF Work, Provision, AddLBFinalizer, ListServices, ProcessService,
               EnsureServiceHasFinalizer, EnsureServiceHasCredentials, DetectNetworkForLB,
               VerifyPort, ClearPortAnnotation, AnnotatePort, VerifyFloatingIP,
               ClearFipAnnotation, FindFloatingIP, AnnotateFip, UpdateServiceExternalIPs,
               EndLoop, WriteStatus, Cleanup, ListResources, FipsDone, PortsDone,
               ClearAnnotations, RemoveServiceFinalizer, ForceFinalizerRemoval, Delete,
               StartDeletion, CleanupService, EndDeletion, RemoveLBFinalizer, Handle,
               EnsureServiceFinalizer, UpdateServiceWithCredentials,
               GetOpenStackClientFromService, Return
      <3> QED
        BY <2>3, <2>4, <2>5, <2>6, <2>7, <3>1 DEF neutron
    <2>9. CASE Environment
      BY <2>9 DEF Environment, Outside, CreateService, AssignIP, ReassignIP,
             DeleteService, EditService, AddOtherFinalizer, RemoveOtherFinalizer, CreateLB,
             EditLB, DeleteLB, DeletePortOutside, DeleteFipOutside, AttachUserFip
    <2>10. CASE (\E r \in Requests : Dequeue(r) \/ Sync(r)) \/ Resync \/ Restart
      <3>1. neutron' = neutron
        BY <2>10 DEF Dequeue, Reconcile, ReconcileService, Sync, SyncLB, SyncService,
           Resync, Restart
      <3> QED
        BY <2>3, <3>1 DEF neutron
    <2> QED
      BY <2>8, <2>9, <2>10 DEF Next, vars
  <1>2. Spec => []TypeInv
    BY TypeCorrect DEF TypeInv
  <1>3. Spec => []LeakInv
    BY LeakInvariant
  <1>4. Spec => []AnswerInv
    BY AnswerInvariant
  <1>5. Spec => []OwnershipInv
    BY OwnershipInvariant
  <1> QED
    BY <1>1, <1>2, <1>3, <1>4, <1>5, PTL DEF Spec, DeletesGrounded

(* Where all Services and LBs are of one class the LB is one that serves    *)
(* the Service, so that a deletion concerns nobody else's resources         *)
(* (handleDeletion, which takes annotated Services whatever their class).   *)
THEOREM DeletesAreJustified ==
    ASSUME SingleProject, DistinctTexts, SingleClass
    PROVE  Spec => DeletesJustified
  <1> DEFINE Deletes(May(_, _)) ==
          w' # w =>
            /\ \A p \in PortIDs : LivePort(p) /\ ~LivePort(p)' => May(ports[p].svc, p)
            /\ \A f \in FipIDs : LiveFip(f) /\ fips[f].svc # None /\ ~LiveFip(f)'
                                     => May(fips[f].svc, f)
  <1>1. TypeInv /\ LeakInv /\ [Deletes(Grounded)]_vars => [Deletes(MayDelete)]_vars
    <2>1. ASSUME NEW s \in Services, NEW id, Grounded(s, id)
          PROVE  MayDelete(s, id)
      BY <2>1 DEF Grounded, MayDelete, LBDoomed, SingleClass
    <2>2. ASSUME LeakInv, NEW p \in PortIDs, LivePort(p)
          PROVE  ports[p].svc \in Services
      BY <2>2 DEF LeakInv, ResourceInv
    <2>3. ASSUME TypeInv, NEW f \in FipIDs, fips[f].svc # None
          PROVE  fips[f].svc \in Services
      BY <2>3 DEF TypeInv, TypeOK, Fip
    <2> QED
      BY <2>1, <2>2, <2>3
  <1>2. Spec => []TypeInv
    BY TypeCorrect DEF TypeInv
  <1>3. Spec => []LeakInv
    BY LeakInvariant
  <1>4. Spec => [][Deletes(Grounded)]_vars
    BY DeletesAreGrounded DEF DeletesGrounded
  <1> QED
    BY <1>1, <1>2, <1>3, <1>4, PTL DEF DeletesJustified

=============================================================================
