------------------------------ MODULE LeakProofs ------------------------------
(***************************************************************************)
(* No silent leak, for every value of the constants: NoSilentLeak is an    *)
(* invariant, by way of LeakInv. A step is described by what it does to    *)
(* finalizers (Grow, Calm), to the freshness of the cache (FreshKept) and  *)
(* to the resources (Fewer), and by where it takes the worker.             *)
(***************************************************************************)
EXTENDS TypeProofs

(* No Service loses its finalizer. *)
Grow == \A s \in Services : Protected(s) => svc'[s].exists /\ svc'[s].fin

(* No Service becomes healthy. *)
Calm == \A s \in Services : Healthy(svc'[s]) => Healthy(svc[s])

(* Services still fresh have not changed. *)
FreshKept == \A s \in Services : s \in fresh' => s \in fresh /\ svc'[s] = svc[s]

(* No resource is created, other than floating IPs of users. *)
Fewer ==
    /\ \A p \in PortIDs : ports'[p].live =>
          ports[p].live /\ ports'[p].svc = ports[p].svc /\ ports'[p].proj = ports[p].proj
    /\ \A f \in FipIDs : fips'[f].live =>
          \/ fips[f].live /\ fips'[f].svc = fips[f].svc /\ fips'[f].proj = fips[f].proj
          \/ /\ fips'[f].svc = None
             /\ \E p \in PortIDs : ports[p].live /\ fips'[f].proj = ports[p].proj

-----------------------------------------------------------------------------
(* The cache *)

(* Steps that leave the cache and the finalizers alone keep its invariants. *)
LEMMA CacheKept ==
    ASSUME FreshInv, CacheInv, FreshKept, Grow, Calm, csvc' = csvc
    PROVE  FreshInv' /\ CacheInv'
  BY DEF FreshInv, CacheInv, FreshKept, Grow, Calm, Protected, Healthy

(* A write that neither drops the finalizer nor makes the Service healthy. *)
LEMMA TameWrite ==
    ASSUME TypeOK, NEW s \in Services, NEW c \in Service, WriteService(s, c),
           Protected(s) => c.exists /\ c.fin, Healthy(c) => Healthy(svc[s])
    PROVE  Grow /\ Calm /\ FreshKept
  <1>1. svc' = [svc EXCEPT ![s] = Settle(c)] /\ svc \in [Services -> Service]
    BY DEF WriteService, TypeOK
  <1>2. Protected(s) => Settle(c).exists /\ Settle(c).fin
    BY DEF Settle
  <1>3. Healthy(Settle(c)) => Healthy(svc[s])
    BY DEF Settle, Healthy, NoService
  <1>4. s \in fresh' => s \in fresh /\ Settle(c) = svc[s]
    BY DEF WriteService
  <1>5. \A t \in fresh' : t \in fresh
    BY DEF WriteService
  <1>6. \A t \in Services : t # s => svc'[t] = svc[t]
    BY <1>1
  <1>7. svc'[s] = Settle(c)
    BY <1>1
  <1> QED
    BY <1>2, <1>3, <1>4, <1>5, <1>6, <1>7 DEF Grow, Calm, FreshKept, Protected

(* Nothing written: nothing to show. *)
LEMMA NoWrite ==
    ASSUME svc' = svc, fresh' \subseteq fresh
    PROVE  Grow /\ Calm /\ FreshKept
  BY DEF Grow, Calm, FreshKept, Protected

(* The annotation updates write the current Service with its finalizer,     *)
(* because a stale cached version is refused as a conflict.                 *)
LEMMA UpdateServiceTame ==
    ASSUME TypeOK, FreshInv, NEW s \in Services, NEW c \in Service, NEW done, NEW failed,
           c.exists = csvc[s].exists, c.fin = csvc[s].fin, c.deleting = csvc[s].deleting,
           UpdateService(s, c, done, failed)
    PROVE  Grow /\ Calm /\ FreshKept /\ (w' = done \/ w' = failed)
  <1>0. w' = done \/ w' = failed
    BY DEF UpdateService, Written
  <1>1. CASE svc' = svc /\ fresh' = fresh
    BY <1>0, <1>1, NoWrite
  <1>2. CASE s \in fresh /\ WriteService(s, c)
    <2>1. csvc[s] = svc[s]
      BY <1>2 DEF FreshInv
    <2>2. Grow /\ Calm /\ FreshKept
      BY <1>2, <2>1, TameWrite DEF Protected, Healthy
    <2> QED
      BY <1>0, <2>2
  <1> QED
    BY <1>1, <1>2 DEF UpdateService

(* Adding the finalizer: the write is made on a current cache, so a Service *)
(* the cache shows terminating is terminating and does not become healthy.  *)
LEMMA AddFinalizer ==
    ASSUME TypeOK, FreshInv, CacheInv, NEW s \in Services, NEW obj \in Service,
           NEW done, NEW failed, obj.exists, obj.fin, csvc' = csvc,
           UpdateResource(s, obj, done, failed)
    PROVE  Grow /\ FreshInv' /\ CacheInv' /\ (w' = done \/ w' = failed)
  <1>0. w' = done \/ w' = failed
    BY DEF UpdateResource, Written
  <1>1. CASE svc' = svc /\ fresh' = fresh
    BY <1>0, <1>1, NoWrite, CacheKept
  <1>2. CASE s \in fresh /\ WriteService(s, Overwrite(svc[s], obj))
    <2> DEFINE c == Overwrite(svc[s], obj)
    <2>1. csvc[s] = svc[s]
      BY <1>2 DEF FreshInv
    <2>2. c.exists = obj.exists /\ c.fin = obj.fin /\ c.deleting = svc[s].deleting
      BY DEF Overwrite, Service
    <2>3. Settle(c) = c
      BY <2>2 DEF Settle
    <2>4. svc'[s] = c /\ \A t \in Services : t # s => svc'[t] = svc[t]
      BY <1>2, <2>3 DEF WriteService, TypeOK
    <2> HIDE DEF c
    <2>5. Grow
      BY <2>2, <2>4 DEF Grow, Protected
    <2>6. FreshInv'
      <3>1. s \in fresh' => c = svc[s]
        BY <1>2, <2>3 DEF WriteService, c
      <3>2. \A t \in fresh' : t \in fresh
        BY <1>2 DEF WriteService
      <3> QED
        BY <2>4, <3>1, <3>2 DEF FreshInv
    <2>7. CacheInv'
      BY <2>1, <2>2, <2>4, <2>5 DEF CacheInv, Grow, Protected, Healthy
    <2> QED
      BY <1>0, <2>5, <2>6, <2>7
  <1> QED
    BY <1>1, <1>2 DEF UpdateResource

-----------------------------------------------------------------------------
(* The resources *)

(* Without new resources and without lost finalizers nothing leaks. *)
LEMMA FewerKept ==
    ASSUME TypeOK, ResourceInv, LeakFree, Fewer, Grow, abandoned \subseteq abandoned'
    PROVE  ResourceInv' /\ LeakFree'
  <1>1. \A f \in FipIDs : fips[f].svc \in Services \cup {None}
    BY DEF TypeOK, Fip
  <1>2. ResourceInv'
    BY DEF ResourceInv, Fewer, LivePort, LiveFip
  <1>3. NoSilentLeak => NoSilentLeak'
    BY <1>1 DEF ResourceInv, NoSilentLeak, Fewer, Grow, LivePort, LiveFip, Protected
  <1> QED
    BY <1>2, <1>3 DEF LeakFree

(* Neutron untouched. *)
LEMMA SameResources ==
    ASSUME ports' = ports, fips' = fips
    PROVE  Fewer
  BY DEF Fewer

(* Deleting a port or a floating IP creates nothing. *)
LEMMA RemoveFewer ==
    ASSUME TypeOK
    PROVE  /\ \A p \in PortIDs : RemovePort(p) =>
                 /\ Fewer /\ ~ports'[p].live
                 /\ \A f \in FipIDs : fips'[f].live => fips[f].live /\ fips'[f].svc = fips[f].svc
           /\ \A f \in FipIDs : RemoveFip(f) => Fewer /\ ~fips'[f].live /\ ports' = ports
  <1>1. ASSUME NEW p \in PortIDs, RemovePort(p)
        PROVE  /\ Fewer /\ ~ports'[p].live
               /\ \A f \in FipIDs : fips'[f].live => fips[f].live /\ fips'[f].svc = fips[f].svc
    <2>1. /\ ports'[p] = NoPort
          /\ \A q \in PortIDs : q # p => ports'[q] = ports[q]
      BY <1>1 DEF RemovePort, TypeOK
    <2>2. ASSUME NEW f \in FipIDs
          PROVE  /\ fips'[f].live = fips[f].live /\ fips'[f].svc = fips[f].svc
                 /\ fips'[f].proj = fips[f].proj
      <3>1. fips[f] \in Fip
        BY DEF TypeOK
      <3> QED
        BY <1>1, <3>1 DEF RemovePort, Fip
    <2> QED
      BY <2>1, <2>2 DEF Fewer, NoPort
  <1>2. ASSUME NEW f \in FipIDs, RemoveFip(f)
        PROVE  Fewer /\ ~fips'[f].live /\ ports' = ports
    <2>1. /\ fips'[f] = NoFip /\ ports' = ports
          /\ \A g \in FipIDs : g # f => fips'[g] = fips[g]
      BY <1>2 DEF RemoveFip, TypeOK
    <2> QED
      BY <2>1 DEF Fewer, NoFip
  <1> QED
    BY <1>1, <1>2

-----------------------------------------------------------------------------
(* The worker *)

(* A step that neither creates resources nor drops or grants finalizers. *)
Tame ==
    Grow /\ Calm /\ FreshKept /\ Fewer /\ csvc' = csvc /\ abandoned \subseteq abandoned'

(* What is left to show of LeakInv' once the worker is dealt with. *)
LEMMA TameKept ==
    ASSUME TypeOK, LeakInv, Tame
    PROVE  FreshInv' /\ CacheInv' /\ ResourceInv' /\ LeakFree'
  BY CacheKept, FewerKept DEF LeakInv, Tame

(* The phases of a reconcile do not overlap. *)
LEMMA Phases ==
    /\ LoopPCs \cap CleanupPCs = {} /\ LoopPCs \cap HandlerPCs = {}
    /\ CleanupPCs \cap HandlerPCs = {} /\ EnsurePCs \subseteq LoopPCs
    /\ DeletePCs \subseteq CleanupPCs /\ "delLoop" \notin DeletePCs
    /\ DeletePCs \subseteq ServicePCs
  BY DEF LoopPCs, EnsurePCs, CleanupPCs, DeletePCs, HandlerPCs, ServicePCs

(* Outside those phases the worker carries nothing that can go stale. *)
LEMMA QuietWorker ==
    ASSUME w'.pc \notin LoopPCs \cup CleanupPCs \cup HandlerPCs
    PROVE  WorkerInv'
  BY Phases DEF WorkerInv, LoopInv, CleanupInv, HandlerInv, ClientInv, RemainderInv

(* Steps of others do not invalidate what the worker has read. *)
LEMMA SteadyWorker ==
    ASSUME TypeOK, ControlInv, WorkerInv, Grow, Calm, Fewer, w' = w,
           \A s \in Services : Healthy(csvc'[s]) => Healthy(csvc[s]) \/ Healthy(svc[s])
    PROVE  WorkerInv'
  <1>1. w.snap \in [Services -> Service] /\ w.todo \subseteq Services
        /\ w.cur \in Services \cup {None}
    BY WorkerParts DEF TypeOK
  <1>2. LoopInv'
    BY <1>1 DEF WorkerInv, LoopInv, Grow, Protected
  <1>3. CleanupInv'
    BY DEF WorkerInv, CleanupInv, Calm
  <1>4. HandlerInv' /\ ClientInv'
    BY DEF WorkerInv, HandlerInv, ClientInv
  <1>5. RemainderInv'
    <2>1. w.pc \in DeletePCs => w.cur # None
      BY Phases, NamesAssumption DEF ControlInv, Control
    <2> QED
      BY <2>1 DEF WorkerInv, RemainderInv, Fewer, LivePort, LiveFip
  <1> QED
    BY <1>2, <1>3, <1>4, <1>5 DEF WorkerInv

(* Provisioning goes on with the Services as listed. *)
LEMMA LoopWorker ==
    ASSUME TypeOK, WorkerInv, Grow, w.pc \in LoopPCs, w'.pc \in LoopPCs,
           w'.snap = w.snap, w'.client = w.client, w'.todo = w.todo,
           w'.pc = "loop" \/ (w'.pc \in EnsurePCs /\ w'.cur = w.cur /\ w.pc \in EnsurePCs)
    PROVE  WorkerInv'
  <1>1. w.snap \in [Services -> Service] /\ w.todo \subseteq Services
        /\ w.cur \in Services \cup {None}
    BY WorkerParts DEF TypeOK
  <1>2. LoopInv'
    <2>1. "loop" \notin EnsurePCs
      BY DEF EnsurePCs
    <2>2. \A s \in Services : s \in w.todo \/ (s = w'.cur /\ w'.pc # "loop") =>
              /\ w.snap[s].exists /\ ~w.snap[s].deleting
              /\ w.snap[s].fin => svc'[s].exists /\ svc'[s].fin
      BY <1>1, <2>1 DEF WorkerInv, LoopInv, Grow, Protected
    <2>3. w'.pc \in EnsurePCs => w'.snap[w'.cur].fin
      BY <2>1 DEF WorkerInv, LoopInv
    <2> QED
      BY <2>2, <2>3 DEF LoopInv, Protected
  <1>3. ClientInv'
    BY Phases DEF WorkerInv, ClientInv, CleanupPCs, DeletePCs
  <1>4. CleanupInv' /\ HandlerInv' /\ RemainderInv'
    BY Phases DEF CleanupInv, HandlerInv, RemainderInv
  <1> QED
    BY <1>2, <1>3, <1>4 DEF WorkerInv

(* A cleanup goes on with the Services as read. *)
LEMMA CleanupWorker ==
    ASSUME WorkerInv, Calm, csvc' = csvc, w.pc \in CleanupPCs, w'.pc \in CleanupPCs,
           w'.snap = w.snap, w'.todo \subseteq w.todo,
           w'.pc # "delLoop" => w.snap[w'.cur].exists,
           w'.pc \in {"svcClient", "unfinalize", "force"} => w.snap[w'.cur].deleting,
           ClientInv', RemainderInv'
    PROVE  WorkerInv'
  <1>1. CleanupInv'
    BY DEF WorkerInv, CleanupInv, Calm
  <1>2. LoopInv' /\ HandlerInv'
    BY Phases DEF LoopInv, HandlerInv
  <1> QED
    BY <1>1, <1>2 DEF WorkerInv

(* LeakInv without its part about control, which TypeInductive covers. *)
Kept == FreshInv /\ CacheInv /\ WorkerInv /\ ResourceInv /\ LeakFree

(* A tame step has only the worker to worry about. *)
LEMMA TameStep ==
    ASSUME TypeOK, LeakInv, Tame, WorkerInv'
    PROVE  Kept'
  BY TameKept DEF Kept

-----------------------------------------------------------------------------
(* The environment *)

(* Users and other controllers neither grant nor drop the finalizer. *)
LEMMA EnvironmentKept ==
    ASSUME TypeOK, LeakInv, Environment
    PROVE  Kept'
  <1> SUFFICES Grow /\ Calm /\ FreshKept /\ Fewer /\ csvc' = csvc /\ w' = w
               /\ abandoned' = abandoned
    BY SteadyWorker, TameStep DEF Tame, LeakInv
  <1>1. csvc' = csvc /\ w' = w /\ abandoned' = abandoned
    BY DEF Environment, Outside, cache, CreateService, AssignIP, ReassignIP, DeleteService,
           EditService, AddOtherFinalizer, RemoveOtherFinalizer, CreateLB, EditLB, DeleteLB,
           DeletePortOutside, DeleteFipOutside, AttachUserFip
  <1>2. ASSUME NEW s \in Services, NEW c \in Service, WriteService(s, c),
               ports' = ports, fips' = fips,
               Protected(s) => c.exists /\ c.fin, Healthy(c) => Healthy(svc[s])
        PROVE  Grow /\ Calm /\ FreshKept /\ Fewer
    BY <1>2, TameWrite, SameResources
  <1>3. ASSUME NEW s \in Services, CreateService(s)
        PROVE  Grow /\ Calm /\ FreshKept /\ Fewer
    <2> DEFINE c == [NoService(svc[s].uid + 1) EXCEPT !.exists = TRUE, !.lbType = TRUE]
    <2>1. c \in Service /\ ~c.fin /\ ~svc[s].exists
      <3>1. svc[s].uid + 1 \in Nat
        BY DEF TypeOK, Service
      <3> QED
        BY <1>3, <3>1 DEF CreateService, NoService, Service
    <2> QED
      BY <1>2, <1>3, <2>1 DEF CreateService, neutron, Protected, Healthy
  <1>4. ASSUME NEW s \in Services,
               AssignIP(s) \/ ReassignIP(s) \/ DeleteService(s) \/ EditService(s)
                  \/ AddOtherFinalizer(s) \/ RemoveOtherFinalizer(s)
        PROVE  Grow /\ Calm /\ FreshKept /\ Fewer
    <2>1. svc[s] \in Service
      BY DEF TypeOK
    <2>2. CASE AssignIP(s) \/ ReassignIP(s)
      <3>1. PICK ip \in IPs : WriteService(s, [svc[s] EXCEPT !.ip = ip])
        BY <2>2 DEF AssignIP, ReassignIP
      <3> DEFINE c == [svc[s] EXCEPT !.ip = ip]
      <3>2. c \in Service /\ c.exists = svc[s].exists /\ c.fin = svc[s].fin
            /\ c.deleting = svc[s].deleting
        BY <2>1 DEF Service
      <3> QED
        BY <1>2, <2>2, <3>1, <3>2 DEF AssignIP, ReassignIP, neutron, Protected, Healthy
    <2>3. CASE DeleteService(s)
      <3> DEFINE c == [svc[s] EXCEPT !.deleting = TRUE]
      <3>1. c \in Service /\ c.exists = svc[s].exists /\ c.fin = svc[s].fin /\ c.deleting
        BY <2>1 DEF Service
      <3> QED
        BY <1>2, <2>3, <3>1 DEF DeleteService, neutron, Protected, Healthy
    <2>4. CASE EditService(s)
      <3> DEFINE c == [svc[s] EXCEPT !.lbType = FALSE, !.ip = None]
      <3>1. c \in Service /\ c.exists = svc[s].exists /\ c.fin = svc[s].fin
            /\ c.deleting = svc[s].deleting
        BY <2>1 DEF Service
      <3> QED
        BY <1>2, <2>4, <3>1 DEF EditService, neutron, Protected, Healthy
    <2>5. CASE AddOtherFinalizer(s)
      <3> DEFINE c == [svc[s] EXCEPT !.otherFin = TRUE]
      <3>1. c \in Service /\ c.exists = svc[s].exists /\ c.fin = svc[s].fin
            /\ c.deleting = svc[s].deleting
        BY <2>1 DEF Service
      <3> QED
        BY <1>2, <2>5, <3>1 DEF AddOtherFinalizer, neutron, Protected, Healthy
    <2>6. CASE RemoveOtherFinalizer(s)
      <3> DEFINE c == [svc[s] EXCEPT !.otherFin = FALSE]
      <3>1. c \in Service /\ c.exists = svc[s].exists /\ c.fin = svc[s].fin
            /\ c.deleting = svc[s].deleting
        BY <2>1 DEF Service
      <3> QED
        BY <1>2, <2>6, <3>1 DEF RemoveOtherFinalizer, neutron, Protected, Healthy
    <2> QED
      BY <1>4, <2>2, <2>3, <2>4, <2>5, <2>6
  <1>5. ASSUME NEW l \in LBs, CreateLB(l) \/ EditLB(l) \/ DeleteLB(l)
        PROVE  Grow /\ Calm /\ FreshKept /\ Fewer
    <2>1. svc' = svc /\ ports' = ports /\ fips' = fips /\ fresh' \subseteq fresh
      BY <1>5 DEF CreateLB, EditLB, DeleteLB, WriteLB, neutron
    <2> QED
      BY <2>1, NoWrite, SameResources
  <1>6. ASSUME NEW p \in PortIDs, DeletePortOutside(p)
        PROVE  Grow /\ Calm /\ FreshKept /\ Fewer
    BY <1>6, NoWrite, RemoveFewer DEF DeletePortOutside, kube
  <1>7. ASSUME NEW f \in FipIDs, DeleteFipOutside(f)
        PROVE  Grow /\ Calm /\ FreshKept /\ Fewer
    BY <1>7, NoWrite, RemoveFewer DEF DeleteFipOutside, kube
  <1>8. ASSUME NEW p \in PortIDs, AttachUserFip(p)
        PROVE  Grow /\ Calm /\ FreshKept /\ Fewer
    <2>1. svc' = svc /\ fresh' = fresh /\ ports' = ports /\ LivePort(p)
      BY <1>8 DEF AttachUserFip, kube
    <2>2. PICK f \in FipIDs :
              fips' = [fips EXCEPT ![f] = [live |-> TRUE, svc |-> None, port |-> p,
                                           proj |-> ports[p].proj, tagged |-> FALSE]]
      BY <1>8 DEF AttachUserFip
    <2>3. /\ fips'[f].svc = None /\ fips'[f].proj = ports[p].proj
          /\ \A g \in FipIDs : g # f => fips'[g] = fips[g]
      BY <2>2 DEF TypeOK
    <2>4. Fewer
      BY <2>1, <2>3 DEF Fewer, LivePort
    <2> QED
      BY <2>1, <2>4, NoWrite
  <1> QED
    BY <1>1, <1>3, <1>4, <1>5, <1>6, <1>7, <1>8 DEF Environment

(* The cache moves to what the API server has, the queue fills. *)
LEMMA QueueKept ==
    ASSUME TypeOK, LeakInv,
           (\E r \in Requests : Sync(r)) \/ Resync \/ Restart \/ Return
    PROVE  Kept'
  <1>1. CASE \E s \in Services : SyncService(s)
    <2>1. PICK s \in Services : SyncService(s)
      BY <1>1
    <2>2. /\ svc' = svc /\ ports' = ports /\ fips' = fips /\ w' = w /\ abandoned' = abandoned
          /\ csvc' = [csvc EXCEPT ![s] = svc[s]] /\ fresh' = fresh \cup {s}
      BY <2>1 DEF SyncService, kube, neutron
    <2>3. csvc'[s] = svc[s] /\ \A t \in Services : t # s => csvc'[t] = csvc[t]
      BY <2>2 DEF TypeOK
    <2>4. FreshInv'
      BY <2>2, <2>3 DEF LeakInv, FreshInv
    <2>5. CacheInv'
      BY <2>2, <2>3 DEF LeakInv, CacheInv, Healthy, Protected
    <2>6. Grow /\ Calm /\ Fewer
      BY <2>2, SameResources DEF Grow, Calm, Protected
    <2>7. WorkerInv'
      BY <2>2, <2>3, <2>6, SteadyWorker DEF LeakInv
    <2> QED
      BY <2>2, <2>4, <2>5, <2>6, <2>7, FewerKept DEF Kept, LeakInv
  <1>2. CASE (\E l \in LBs : SyncLB(l)) \/ Resync
    <2>1. /\ svc' = svc /\ ports' = ports /\ fips' = fips /\ w' = w /\ abandoned' = abandoned
          /\ csvc' = csvc
      BY <1>2 DEF SyncLB, Resync, kube, cache, neutron
    <2>2. FreshKept
      <3>1. \A s \in Services : s \in fresh' => s \in fresh
        BY <1>2, NamesAssumption DEF SyncLB, Resync
      <3> QED
        BY <2>1, <3>1 DEF FreshKept
    <2>3. Grow /\ Calm /\ Fewer
      BY <2>1, SameResources DEF Grow, Calm, Protected
    <2> QED
      BY <2>1, <2>2, <2>3, SteadyWorker, TameStep DEF Tame, LeakInv
  <1>3. CASE Restart
    <2>1. svc' = svc /\ ports' = ports /\ fips' = fips /\ abandoned' = abandoned /\ csvc' = svc
      BY <1>3 DEF Restart, kube, neutron
    <2>2. w'.pc = "idle"
      BY <1>3 DEF Restart, IdleWorker
    <2>3. WorkerInv'
      BY <2>2, QuietWorker DEF LoopPCs, EnsurePCs, CleanupPCs, DeletePCs, HandlerPCs
    <2>4. Grow /\ Fewer
      BY <2>1, SameResources DEF Grow, Protected
    <2>5. FreshInv' /\ CacheInv'
      BY <2>1 DEF FreshInv, CacheInv, Healthy, Protected
    <2> QED
      BY <2>1, <2>3, <2>4, <2>5, FewerKept DEF Kept, LeakInv
  <1>4. CASE Return
    <2>1. /\ svc' = svc /\ ports' = ports /\ fips' = fips /\ abandoned' = abandoned
          /\ csvc' = csvc /\ fresh' = fresh
      BY <1>4 DEF Return, kube, cache, neutron
    <2>2. w'.pc = "idle"
      BY <1>4 DEF Return, IdleWorker
    <2>3. WorkerInv'
      BY <2>2, QuietWorker DEF LoopPCs, EnsurePCs, CleanupPCs, DeletePCs, HandlerPCs
    <2> QED
      BY <2>1, <2>3, NoWrite, SameResources, TameStep DEF Tame
  <1> QED
    BY <1>1, <1>2, <1>3, <1>4 DEF Sync

-----------------------------------------------------------------------------
(* Starting a reconcile, and provisioning *)

(* A reconcile starts from what the cache shows. *)
LEMMA DequeueKept ==
    ASSUME TypeOK, LeakInv, NEW r \in Requests, Dequeue(r)
    PROVE  Kept'
  <1>1. Tame
    <2>1. /\ svc' = svc /\ csvc' = csvc /\ fresh' = fresh /\ ports' = ports /\ fips' = fips
          /\ abandoned' = abandoned
      BY DEF Dequeue, Reconcile, ReconcileService, kube, cache, neutron
    <2> QED
      BY <2>1, NoWrite, SameResources DEF Tame
  <1>2. CASE r \in LBs /\ Reconcile(r)
    <2>1. w'.pc = Branch(clb[r])
      BY <1>2 DEF Reconcile, IdleWorker
    <2>2. w'.pc \in {"return", "delClient", "lbClient", "lbFinalizer"}
      BY <2>1 DEF Branch
    <2>3. WorkerInv'
      BY <2>2, QuietWorker DEF LoopPCs, EnsurePCs, CleanupPCs, DeletePCs, HandlerPCs
    <2> QED
      BY <1>1, <2>3, TameStep
  <1>3. CASE r \in Services /\ ReconcileService(r)
    <2> DEFINE c == csvc[r]
    <2>1. /\ w'.pc = ServiceBranch(r, c) /\ w'.cur = r /\ w'.todo = {} /\ w'.req = r
          /\ w'.snap = [NoSnap EXCEPT ![r] = c]
      BY <1>3 DEF ReconcileService, IdleWorker
    <2>2. /\ w'.pc \in {"return", "svcClient", "handlerFinalizer"}
          /\ w'.pc = "svcClient" => c.exists /\ c.deleting
          /\ w'.pc = "handlerFinalizer" => c.exists
      BY <2>1 DEF ServiceBranch
    <2>3. /\ w'.snap[r] = c
          /\ \A t \in Services : t # r => ~w'.snap[t].exists
      BY <1>3, <2>1 DEF NoSnap, NoService
    <2>4. CASE w'.pc = "return"
      BY <1>1, <2>4, QuietWorker, TameStep
         DEF LoopPCs, EnsurePCs, CleanupPCs, DeletePCs, HandlerPCs
    <2>5. CASE w'.pc = "handlerFinalizer"
      <3>1. w'.pc \in HandlerPCs
        BY <2>5 DEF HandlerPCs
      <3>2. HandlerInv'
        BY <2>1, <2>2, <2>3, <2>5 DEF HandlerInv
      <3>3. LoopInv' /\ CleanupInv' /\ ClientInv' /\ RemainderInv'
        BY <3>1, Phases DEF LoopInv, CleanupInv, ClientInv, RemainderInv
      <3> QED
        BY <1>1, <3>2, <3>3, TameStep DEF WorkerInv
    <2>6. CASE w'.pc = "svcClient"
      <3>1. w'.pc \in CleanupPCs \ DeletePCs
        BY <2>6 DEF CleanupPCs, DeletePCs
      <3>2. svc' = svc /\ csvc' = csvc
        BY <1>3 DEF ReconcileService, kube, cache
      <3>3. CleanupInv'
        BY <1>3, <2>1, <2>2, <2>3, <2>6, <3>2 DEF CleanupInv, LeakInv, CacheInv, Healthy
      <3>4. LoopInv' /\ HandlerInv' /\ ClientInv' /\ RemainderInv'
        BY <1>3, <2>1, <2>6, <3>1, Phases, NamesAssumption
           DEF LoopInv, HandlerInv, ClientInv, RemainderInv
      <3> QED
        BY <1>1, <3>3, <3>4, TameStep DEF WorkerInv
    <2> QED
      BY <2>2, <2>4, <2>5, <2>6
  <1> QED
    BY <1>2, <1>3 DEF Dequeue

(* v goes on with the loop over the Services, or with the Service at hand. *)
Onward(v) ==
    /\ v.snap = w.snap /\ v.client = w.client /\ v.todo = w.todo
    /\ v.pc = "loop" \/ (v.pc \in EnsurePCs /\ v.cur = w.cur /\ w.pc \in EnsurePCs)

(* A tame step that goes on with the loop keeps the invariant. *)
LEMMA OnwardKept ==
    ASSUME TypeOK, LeakInv, Tame, w.pc \in LoopPCs, Onward(w')
    PROVE  Kept'
  <1>1. w'.pc \in LoopPCs
    BY DEF Onward, LoopPCs
  <1> QED
    BY <1>1, LoopWorker, TameStep DEF LeakInv, Tame, Onward

(* What processService and its ensure functions do to the worker goes on. *)
LEMMA OnwardMoves ==
    ASSUME TypeOK
    PROVE  /\ \A rq, e \in BOOLEAN : Onward(Processed(rq, e))
           /\ w.pc \in EnsurePCs => \A x \in EnsurePCs : Onward([w EXCEPT !.pc = x])
           /\ w.pc \in EnsurePCs => \A p : Onward(WithPort(p))
  <1>1. w \in Worker
    BY DEF TypeOK
  <1>2. ASSUME NEW rq \in BOOLEAN, NEW e \in BOOLEAN
        PROVE  Onward(Processed(rq, e))
    BY <1>1 DEF Processed, Onward, Worker
  <1>3. ASSUME w.pc \in EnsurePCs, NEW x \in EnsurePCs
        PROVE  Onward([w EXCEPT !.pc = x])
    BY <1>1, <1>3 DEF Onward, Worker
  <1>4. ASSUME w.pc \in EnsurePCs, NEW p
        PROVE  Onward(WithPort(p))
    <2>1. CASE WithPort(p) = [w EXCEPT !.pc = "fip", !.pid = p]
      BY <1>1, <1>4, <2>1 DEF Onward, Worker, EnsurePCs
    <2> QED
      BY <1>2, <2>1 DEF WithPort
  <1> QED
    BY <1>2, <1>3, <1>4

(* Resources are made in a project of the LBs, for a Service that carries  *)
(* the finalizer.                                                          *)
LEMMA EnsureProtected ==
    ASSUME TypeOK, LeakInv, w.pc \in EnsurePCs
    PROVE  /\ w.cur \in Services /\ Protected(w.cur) /\ w.pc \in LoopPCs
           /\ \E l \in LBs : w.client = ProjectOf[l]
  <1>1. /\ w.pc \in LoopPCs /\ w.pc # "loop" /\ w.pc \in ServicePCs
        /\ w.pc \notin {"svcClient", "unfinalize", "force"}
    BY DEF EnsurePCs, LoopPCs, ServicePCs
  <1>2. w.cur \in Services
    BY <1>1 DEF LeakInv, ControlInv, Control
  <1> QED
    BY <1>1, <1>2 DEF LeakInv, WorkerInv, LoopInv, ClientInv

(* The two creations of resources: what is created belongs to a protected   *)
(* Service and to the project of the client in use.                         *)
LEMMA CreateKept ==
    ASSUME TypeOK, LeakInv, EnsurePortExists \/ CreateNewFloatingIP
    PROVE  Kept'
  <1>1. /\ svc' = svc /\ csvc' = csvc /\ fresh' = fresh /\ abandoned' = abandoned
        /\ w.pc \in EnsurePCs
    BY DEF EnsurePortExists, CreateNewFloatingIP, kube, cache, EnsurePCs
  <1>2. Grow /\ Calm /\ FreshKept
    BY <1>1, NoWrite
  <1>3. FreshInv' /\ CacheInv'
    BY <1>1, <1>2, CacheKept DEF LeakInv
  <1>4. Onward(w')
    <2>1. "tagPort" \in EnsurePCs /\ "tagFip" \in EnsurePCs
      BY DEF EnsurePCs
    <2>2. \/ w' = Processed(TRUE, TRUE)
          \/ \E p \in PortIDs : w' = [w EXCEPT !.pc = "tagPort", !.pid = p]
          \/ \E f \in FipIDs : w' = [w EXCEPT !.pc = "tagFip", !.fid = f]
      BY DEF EnsurePortExists, CreateNewFloatingIP, CreatePort, CreateFloatingIP
    <2>3. CASE w' # Processed(TRUE, TRUE)
      BY <1>1, <2>1, <2>2, <2>3 DEF Onward, TypeOK, Worker
    <2> QED
      BY <2>3, OnwardMoves
  <1>5. WorkerInv'
    <2>1. w'.pc \in LoopPCs /\ w.pc \in LoopPCs
      BY <1>1, <1>4 DEF Onward, LoopPCs
    <2> QED
      BY <1>2, <1>4, <2>1, LoopWorker DEF Onward, LeakInv
  <1>6. w.cur \in Services /\ Protected(w.cur) /\ \E l \in LBs : w.client = ProjectOf[l]
    BY <1>1, EnsureProtected
  <1>7. CASE ports' = ports /\ fips' = fips
    BY <1>1, <1>2, <1>3, <1>5, <1>7, SameResources, FewerKept DEF Kept, LeakInv
  <1>8. CASE EnsurePortExists /\ ports' # ports
    <2>1. PICK p \in PortIDs : ports' = [ports EXCEPT ![p] =
               [live |-> TRUE, svc |-> w.cur, ip |-> w.snap[w.cur].ip, proj |-> w.client,
                tagged |-> FALSE]]
      BY <1>8 DEF EnsurePortExists, CreatePort
    <2>2. /\ ports'[p].svc = w.cur /\ ports'[p].proj = w.client
          /\ \A q \in PortIDs : q # p => ports'[q] = ports[q]
      BY <2>1 DEF TypeOK
    <2>3. fips' = fips
      BY <1>8 DEF EnsurePortExists
    <2>4. ResourceInv'
      BY <1>6, <2>2, <2>3 DEF LeakInv, ResourceInv, LivePort, LiveFip
    <2>5. LeakFree'
      BY <1>1, <1>6, <2>2, <2>3 DEF LeakInv, LeakFree, NoSilentLeak, LivePort, LiveFip, Protected
    <2> QED
      BY <1>3, <1>5, <2>4, <2>5 DEF Kept
  <1>9. CASE CreateNewFloatingIP /\ fips' # fips
    <2>1. PICK f \in FipIDs : fips' = [fips EXCEPT ![f] =
               [live |-> TRUE, svc |-> w.cur, port |-> w.pid, proj |-> w.client,
                tagged |-> FALSE]]
      BY <1>9 DEF CreateNewFloatingIP, CreateFloatingIP
    <2>2. /\ fips'[f].svc = w.cur /\ fips'[f].proj = w.client
          /\ \A g \in FipIDs : g # f => fips'[g] = fips[g]
      BY <2>1 DEF TypeOK
    <2>3. ports' = ports
      BY <1>9 DEF CreateNewFloatingIP
    <2>4. ResourceInv'
      BY <1>6, <2>2, <2>3 DEF LeakInv, ResourceInv, LivePort, LiveFip
    <2>5. LeakFree'
      BY <1>1, <1>6, <2>2, <2>3 DEF LeakInv, LeakFree, NoSilentLeak, LivePort, LiveFip, Protected
    <2> QED
      BY <1>3, <1>5, <2>4, <2>5 DEF Kept
  <1> QED
    BY <1>7, <1>8, <1>9 DEF EnsurePortExists, CreateNewFloatingIP

(* The rest of processService: annotations, tags and reads of Neutron. *)
LEMMA EnsureKept ==
    ASSUME TypeOK, LeakInv,
           \/ EnsureServiceHasCredentials \/ DetectNetworkForLB
           \/ VerifyPort \/ ClearPortAnnotation \/ TagPort \/ AnnotatePort
           \/ VerifyFloatingIP \/ ClearFipAnnotation \/ FindFloatingIP
           \/ TagFip \/ AnnotateFip \/ UpdateServiceExternalIPs
    PROVE  Kept'
  <1>1. w.pc \in EnsurePCs
    BY DEF EnsureServiceHasCredentials, DetectNetworkForLB, VerifyPort, ClearPortAnnotation,
           TagPort, AnnotatePort, VerifyFloatingIP, ClearFipAnnotation, FindFloatingIP,
           TagFip, AnnotateFip, UpdateServiceExternalIPs, EnsurePCs
  <1>2. w.cur \in Services /\ w.pc \in LoopPCs
    BY <1>1, EnsureProtected
  <1>3. csvc' = csvc /\ abandoned' = abandoned
    BY DEF EnsureServiceHasCredentials, DetectNetworkForLB, VerifyPort, ClearPortAnnotation,
           TagPort, AnnotatePort, VerifyFloatingIP, ClearFipAnnotation, FindFloatingIP,
           TagFip, AnnotateFip, UpdateServiceExternalIPs, cache
  <1>4. /\ {"port", "clearPort", "annotatePort", "fip", "clearFip", "createFip",
            "annotateFip", "externalIPs", "network"} \subseteq EnsurePCs
        /\ AfterCredentials \in EnsurePCs
    BY DEF EnsurePCs, AfterCredentials
  <1>5. Onward(Processed(TRUE, TRUE)) /\ Onward(Processed(TRUE, FALSE))
        /\ Onward(Processed(FALSE, FALSE))
    BY OnwardMoves
  <1>6. \A x \in EnsurePCs : Onward([w EXCEPT !.pc = x])
    BY <1>1, OnwardMoves
  <1>7. csvc[w.cur] \in Service /\ w.pid \in PortIDs \cup {None} /\ w.fid \in FipIDs \cup {None}
        /\ w.req \in Requests \cup {None} /\ w.mem \in LoadBalancer
    BY <1>2, WorkerParts DEF TypeOK
  <1>8. ASSUME NEW c \in Service, NEW done, NEW failed, Onward(done), Onward(failed),
               c.exists = csvc[w.cur].exists, c.fin = csvc[w.cur].fin,
               c.deleting = csvc[w.cur].deleting,
               UpdateService(w.cur, c, done, failed), UNCHANGED neutron
        PROVE  Kept'
    <2>1. Grow /\ Calm /\ FreshKept /\ Onward(w')
      BY <1>2, <1>8, UpdateServiceTame DEF LeakInv
    <2>2. Fewer
      BY <1>8, SameResources DEF neutron
    <2> QED
      BY <1>2, <1>3, <2>1, <2>2, OnwardKept DEF Tame
  <1>9. ASSUME svc' = svc, fresh' = fresh, Fewer, Onward(w')
        PROVE  Kept'
    BY <1>2, <1>3, <1>9, NoWrite, OnwardKept DEF Tame
  <1>10. CASE EnsureServiceHasCredentials
    <2> DEFINE c == [csvc[w.cur] EXCEPT !.cred = w.req]
    <2>1. w.req \in LBs
      BY <1>2, PCClasses DEF LeakInv, ControlInv, Control
    <2>2. /\ c \in Service /\ c.exists = csvc[w.cur].exists /\ c.fin = csvc[w.cur].fin
          /\ c.deleting = csvc[w.cur].deleting
      BY <1>7, <2>1 DEF Service
    <2> HIDE DEF c
    <2>3. UpdateService(w.cur, c, [w EXCEPT !.pc = AfterCredentials], Processed(TRUE, TRUE))
          /\ UNCHANGED neutron
      BY <1>10 DEF EnsureServiceHasCredentials, c
    <2> QED
      BY <1>4, <1>5, <1>6, <1>8, <2>2, <2>3
  <1>11. CASE ClearPortAnnotation
    <2> DEFINE c == [csvc[w.cur] EXCEPT !.portAnn = None]
    <2>2. /\ c \in Service /\ c.exists = csvc[w.cur].exists /\ c.fin = csvc[w.cur].fin
          /\ c.deleting = csvc[w.cur].deleting
      BY <1>7 DEF Service
    <2> HIDE DEF c
    <2>3. UpdateService(w.cur, c, Processed(TRUE, FALSE), Processed(TRUE, TRUE))
          /\ UNCHANGED neutron
      BY <1>11 DEF ClearPortAnnotation, c
    <2> QED
      BY <1>5, <1>8, <2>2, <2>3
  <1>12. CASE ClearFipAnnotation
    <2> DEFINE c == [csvc[w.cur] EXCEPT !.fipAnn = None]
    <2>2. /\ c \in Service /\ c.exists = csvc[w.cur].exists /\ c.fin = csvc[w.cur].fin
          /\ c.deleting = csvc[w.cur].deleting
      BY <1>7 DEF Service
    <2> HIDE DEF c
    <2>3. UpdateService(w.cur, c, Processed(TRUE, FALSE), Processed(TRUE, TRUE))
          /\ UNCHANGED neutron
      BY <1>12 DEF ClearFipAnnotation, c
    <2> QED
      BY <1>5, <1>8, <2>2, <2>3
  <1>13. CASE AnnotatePort
    <2> DEFINE c == [csvc[w.cur] EXCEPT !.portAnn = w.pid]
    <2>1. Onward(WithPort(w.pid))
      BY <1>1, OnwardMoves
    <2>2. /\ c \in Service /\ c.exists = csvc[w.cur].exists /\ c.fin = csvc[w.cur].fin
          /\ c.deleting = csvc[w.cur].deleting
      BY <1>7 DEF Service
    <2> HIDE DEF c
    <2>3. UpdateService(w.cur, c, WithPort(w.pid), Processed(TRUE, TRUE))
          /\ UNCHANGED neutron
      BY <1>13 DEF AnnotatePort, c
    <2> QED
      BY <1>5, <1>8, <2>1, <2>2, <2>3
  <1>14. CASE AnnotateFip
    <2> DEFINE c == [csvc[w.cur] EXCEPT !.fipAnn = w.fid]
    <2>2. /\ c \in Service /\ c.exists = csvc[w.cur].exists /\ c.fin = csvc[w.cur].fin
          /\ c.deleting = csvc[w.cur].deleting
      BY <1>7 DEF Service
    <2> HIDE DEF c
    <2>3. UpdateService(w.cur, c, [w EXCEPT !.pc = "externalIPs"], Processed(TRUE, TRUE))
          /\ UNCHANGED neutron
      BY <1>14 DEF AnnotateFip, c
    <2> QED
      BY <1>4, <1>5, <1>6, <1>8, <2>2, <2>3
  <1>15. CASE UpdateServiceExternalIPs
    <2> DEFINE e == csvc[w.cur].ext \cup {w.fid}
               c == [csvc[w.cur] EXCEPT !.ext = e]
    <2>1. w.fid \in FipIDs
      BY <1>15 DEF UpdateServiceExternalIPs, LeakInv, ControlInv, Control
    <2>2. e \in SUBSET FipIDs
      BY <1>7, <2>1 DEF Service
    <2> HIDE DEF e
    <2>3. /\ c \in Service /\ c.exists = csvc[w.cur].exists /\ c.fin = csvc[w.cur].fin
          /\ c.deleting = csvc[w.cur].deleting
      BY <1>7, <2>2 DEF Service
    <2> HIDE DEF c
    <2>4. /\ UNCHANGED neutron
          /\ \/ svc' = svc /\ fresh' = fresh /\ w' = Processed(FALSE, FALSE)
             \/ UpdateService(w.cur, c, Processed(FALSE, FALSE), Processed(TRUE, TRUE))
      BY <1>15 DEF UpdateServiceExternalIPs, c, e
    <2> QED
      BY <1>5, <1>8, <1>9, <2>3, <2>4, SameResources DEF neutron
  <1>16. CASE DetectNetworkForLB \/ VerifyPort \/ VerifyFloatingIP \/ FindFloatingIP
    <2>1. svc' = svc /\ fresh' = fresh /\ Fewer
      BY <1>16, SameResources
         DEF DetectNetworkForLB, VerifyPort, VerifyFloatingIP, FindFloatingIP, kube, neutron
    <2>2. CASE DetectNetworkForLB
      <3>1. \/ \E m : w' = [Processed(TRUE, TRUE) EXCEPT !.mem = m]
            \/ \E m : w' = [w EXCEPT !.pc = "port", !.mem = m]
        BY <2>2 DEF DetectNetworkForLB
      <3>2. ASSUME NEW m, w' = [Processed(TRUE, TRUE) EXCEPT !.mem = m]
            PROVE  Onward(w')
        BY <3>2 DEF Processed, Onward, TypeOK, Worker
      <3>3. ASSUME NEW m, w' = [w EXCEPT !.pc = "port", !.mem = m]
            PROVE  Onward(w')
        BY <1>1, <3>3 DEF Onward, TypeOK, Worker, EnsurePCs
      <3> QED
        BY <1>9, <2>1, <3>1, <3>2, <3>3
    <2>3. CASE VerifyPort
      BY <1>1, <1>4, <1>5, <1>6, <1>9, <2>1, <2>3, OnwardMoves DEF VerifyPort
    <2>4. CASE VerifyFloatingIP
      <3>1. \/ w' = Processed(TRUE, TRUE) \/ w' = [w EXCEPT !.pc = "clearFip"]
            \/ \E f : w' = [w EXCEPT !.pc = "externalIPs", !.fid = f]
        BY <2>4 DEF VerifyFloatingIP
      <3>2. ASSUME NEW f, w' = [w EXCEPT !.pc = "externalIPs", !.fid = f]
            PROVE  Onward(w')
        BY <1>1, <3>2 DEF Onward, TypeOK, Worker, EnsurePCs
      <3> QED
        BY <1>4, <1>5, <1>6, <1>9, <2>1, <3>1, <3>2
    <2>5. CASE FindFloatingIP
      <3>1. \/ w' = Processed(TRUE, TRUE) \/ w' = [w EXCEPT !.pc = "createFip"]
            \/ \E f : w' = [w EXCEPT !.pc = "annotateFip", !.fid = f]
        BY <2>5 DEF FindFloatingIP, GetFloatingIPByPortID
      <3>2. ASSUME NEW f, w' = [w EXCEPT !.pc = "annotateFip", !.fid = f]
            PROVE  Onward(w')
        BY <1>1, <3>2 DEF Onward, TypeOK, Worker, EnsurePCs
      <3> QED
        BY <1>4, <1>5, <1>6, <1>9, <2>1, <3>1, <3>2
    <2> QED
      BY <1>16, <2>2, <2>3, <2>4, <2>5
  <1>17. CASE TagPort \/ TagFip
    <2>1. svc' = svc /\ fresh' = fresh /\ Onward(w')
      BY <1>4, <1>6, <1>17 DEF TagPort, TagFip, SetPortTags, SetFipTags, kube
    <2>2. Fewer
      <3>1. \A p \in PortIDs : ports[p] \in Port
        BY DEF TypeOK
      <3>2. \A f \in FipIDs : fips[f] \in Fip
        BY DEF TypeOK
      <3>3. /\ ports' = ports \/ ports' = [ports EXCEPT ![w.pid].tagged = TRUE]
            /\ fips' = fips \/ fips' = [fips EXCEPT ![w.fid].tagged = TRUE]
        BY <1>17 DEF TagPort, TagFip, SetPortTags, SetFipTags
      <3>4. ASSUME NEW p \in PortIDs
            PROVE  /\ ports'[p].live = ports[p].live /\ ports'[p].svc = ports[p].svc
                   /\ ports'[p].proj = ports[p].proj
        BY <3>1, <3>3 DEF TypeOK, Port
      <3>5. ASSUME NEW f \in FipIDs
            PROVE  /\ fips'[f].live = fips[f].live /\ fips'[f].svc = fips[f].svc
                   /\ fips'[f].proj = fips[f].proj
        BY <3>2, <3>3 DEF TypeOK, Fip
      <3> QED
        BY <3>4, <3>5 DEF Fewer
    <2> QED
      BY <1>9, <2>1, <2>2
  <1> QED
    BY <1>10, <1>11, <1>12, <1>13, <1>14, <1>15, <1>16, <1>17

(* A quiet step: the worker drops what it had read, or has read nothing. *)
LEMMA QuietStep ==
    ASSUME TypeOK, LeakInv, Tame,
           w'.pc \in {"return", "status", "lbUnfinalize"}
    PROVE  Kept'
  BY QuietWorker, TameStep DEF LoopPCs, EnsurePCs, CleanupPCs, DeletePCs, HandlerPCs

(* The loop over the Services, from the listing to the status. *)
LEMMA LoopKept ==
    ASSUME TypeOK, LeakInv, ListServices \/ ProcessService \/ EndLoop
    PROVE  Kept'
  <1>1. /\ svc' = svc /\ csvc' = csvc /\ fresh' = fresh /\ ports' = ports /\ fips' = fips
        /\ abandoned' = abandoned
    BY DEF ListServices, ProcessService, EndLoop, kube, cache, neutron
  <1>2. Tame
    BY <1>1, NoWrite, SameResources DEF Tame
  <1>3. w \in Worker /\ csvc \in [Services -> Service]
    BY DEF TypeOK
  <1>4. CASE ListServices
    <2>1. CASE w'.pc = "status"
      BY <1>2, <2>1, QuietStep
    <2> DEFINE T == {s \in Services : Eligible(w.req, s, csvc[s])}
    <2>2. CASE w' = [w EXCEPT !.pc = "loop", !.client = ProjectOf[w.req], !.snap = csvc,
                              !.todo = T]
      <3>1. \A s \in T : csvc[s].exists /\ ~csvc[s].deleting
        BY DEF Eligible
      <3> HIDE DEF T
      <3>2. w'.pc = "loop" /\ w'.client = ProjectOf[w.req] /\ w'.snap = csvc /\ w'.todo = T
        BY <1>3, <2>2 DEF Worker
      <3>3. w.req \in LBs
        BY <1>4 DEF ListServices, NewClient, LeakInv, ControlInv, Control, LBPCs
      <3>4. "loop" \in LoopPCs /\ "loop" \notin EnsurePCs
        BY DEF LoopPCs, EnsurePCs
      <3>5. LoopInv'
        BY <1>1, <3>1, <3>2, <3>4 DEF LoopInv, LeakInv, CacheInv, Healthy, Protected
      <3>6. ClientInv'
        BY <3>2, <3>3 DEF ClientInv
      <3>7. CleanupInv' /\ HandlerInv' /\ RemainderInv'
        BY <3>2, <3>4, Phases DEF CleanupInv, HandlerInv, RemainderInv
      <3> QED
        BY <1>2, <3>5, <3>6, <3>7, TameStep DEF WorkerInv
    <2>3. w' = [w EXCEPT !.pc = "loop", !.client = ProjectOf[w.req], !.snap = csvc, !.todo = T]
          \/ \E m : w' = [w EXCEPT !.pc = "status", !.mem = m]
      BY <1>4 DEF ListServices, NewClient
    <2> QED
      BY <1>3, <2>1, <2>2, <2>3 DEF Worker
  <1>5. CASE ProcessService
    <2>1. PICK s \in w.todo :
             w' = [w EXCEPT !.todo = w.todo \ {s}, !.cur = s, !.pc = FirstStep(w.snap[s])]
      BY <1>5 DEF ProcessService
    <2> DEFINE x == FirstStep(w.snap[s])
               T == w.todo \ {s}
    <2>2. w.pc = "loop" /\ w.todo \subseteq Services
      BY <1>3, <1>5 DEF ProcessService, Worker
    <2>3. x \in LoopPCs \ {"loop"} /\ (x \in EnsurePCs => w.snap[s].fin)
      BY DEF FirstStep, AfterFinalizer, AfterCredentials, LoopPCs, EnsurePCs
    <2>4. T \subseteq w.todo
      OBVIOUS
    <2> HIDE DEF x, T
    <2>5. w' = [w EXCEPT !.todo = T, !.cur = s, !.pc = x]
      BY <2>1 DEF x, T
    <2>6. /\ w'.pc = x /\ w'.cur = s /\ w'.todo = T /\ w'.snap = w.snap
          /\ w'.client = w.client
      BY <1>3, <2>5 DEF Worker
    <2>7. "loop" \in LoopPCs
      BY DEF LoopPCs
    <2>8. LoopInv'
      BY <1>1, <2>2, <2>3, <2>4, <2>6, <2>7 DEF LoopInv, LeakInv, WorkerInv, Protected
    <2>9. ClientInv'
      BY <2>2, <2>6, <2>7 DEF ClientInv, LeakInv, WorkerInv
    <2>10. CleanupInv' /\ HandlerInv' /\ RemainderInv'
      BY <2>3, <2>6, Phases DEF CleanupInv, HandlerInv, RemainderInv
    <2> QED
      BY <1>2, <2>8, <2>9, <2>10, TameStep DEF WorkerInv
  <1>6. CASE EndLoop
    <2>1. w'.pc = "status"
      BY <1>3, <1>6 DEF EndLoop, Worker
    <2> QED
      BY <1>2, <2>1, QuietStep
  <1> QED
    BY <1>4, <1>5, <1>6

(* The writes to the OpenStackLoadBalancer. *)
LEMMA LBWritesKept ==
    ASSUME TypeOK, LeakInv, AddLBFinalizer \/ WriteStatus \/ RemoveLBFinalizer
    PROVE  Kept'
  <1>1. w'.pc = "return"
    BY DEF AddLBFinalizer, WriteStatus, RemoveLBFinalizer, UpdateLB, UpdateStatus, Written,
           ReturnWith, TypeOK, Worker
  <1>2. /\ svc' = svc /\ csvc' = csvc /\ fresh' \subseteq fresh /\ ports' = ports
        /\ fips' = fips /\ abandoned \subseteq abandoned'
    BY DEF AddLBFinalizer, WriteStatus, RemoveLBFinalizer, UpdateLB, UpdateStatus, WriteLB,
           cache, neutron
  <1>3. Tame
    BY <1>2, NoWrite, SameResources DEF Tame
  <1> QED
    BY <1>1, <1>3, QuietStep

(* Both places that add the finalizer to a Service. *)
LEMMA FinalizerKept ==
    ASSUME TypeOK, LeakInv, EnsureServiceHasFinalizer \/ EnsureServiceFinalizer
    PROVE  Kept'
  <1> DEFINE obj == [w.snap[w.cur] EXCEPT !.fin = TRUE]
  <1>1. /\ csvc' = csvc /\ ports' = ports /\ fips' = fips /\ abandoned' = abandoned
        /\ w.pc \in {"svcFinalizer", "handlerFinalizer"}
    BY DEF EnsureServiceHasFinalizer, EnsureServiceFinalizer, cache, neutron
  <1>2. w.cur \in Services /\ w.snap[w.cur].exists
    <2>1. w.cur \in Services
      BY <1>1 DEF LeakInv, ControlInv, Control, ServicePCs, LoopPCs, HandlerPCs
    <2> QED
      BY <1>1, <2>1 DEF LeakInv, WorkerInv, LoopInv, HandlerInv, LoopPCs, HandlerPCs
  <1>3. obj \in Service /\ obj.exists /\ obj.fin
    <2>1. w.snap[w.cur] \in Service
      BY <1>2, WorkerParts DEF TypeOK
    <2> QED
      BY <1>2, <2>1 DEF Service
  <1> HIDE DEF obj
  <1>4. \E done, failed : UpdateResource(w.cur, obj, done, failed)
    BY DEF EnsureServiceHasFinalizer, EnsureServiceFinalizer, obj
  <1>5. Grow /\ FreshInv' /\ CacheInv'
    BY <1>1, <1>2, <1>3, <1>4, AddFinalizer DEF LeakInv
  <1>6. ResourceInv' /\ LeakFree'
    BY <1>1, <1>5, SameResources, FewerKept DEF LeakInv
  <1>7. WorkerInv'
    <2>1. CASE EnsureServiceHasFinalizer
      <3>1. w' = Processed(TRUE, FALSE) \/ w' = Processed(TRUE, TRUE)
        BY <2>1 DEF EnsureServiceHasFinalizer, UpdateResource, Written
      <3>2. Onward(w')
        BY <3>1, OnwardMoves
      <3>3. w.pc \in LoopPCs /\ w'.pc \in LoopPCs
        BY <2>1, <3>2 DEF EnsureServiceHasFinalizer, Onward, LoopPCs
      <3> QED
        BY <1>5, <3>2, <3>3, LoopWorker DEF Onward, LeakInv
    <2>2. CASE EnsureServiceFinalizer
      <3>1. \/ w'.pc = "return"
            \/ w'.pc = "handlerCredentials" /\ w'.snap = w.snap /\ w'.cur = w.cur
        BY <2>2 DEF EnsureServiceFinalizer, UpdateResource, Written, ReturnWith, TypeOK, Worker
      <3>2. CASE w'.pc = "return"
        BY <3>2, QuietWorker DEF LoopPCs, EnsurePCs, CleanupPCs, DeletePCs, HandlerPCs
      <3>3. CASE w'.pc = "handlerCredentials"
        <4>1. w'.pc \in HandlerPCs
          BY <3>3 DEF HandlerPCs
        <4>2. HandlerInv'
          BY <1>2, <3>1, <3>3 DEF HandlerInv
        <4> QED
          BY <4>1, <4>2, Phases
             DEF WorkerInv, LoopInv, CleanupInv, ClientInv, RemainderInv
      <3> QED
        BY <3>1, <3>2, <3>3
    <2> QED
      BY <2>1, <2>2
  <1> QED
    BY <1>5, <1>6, <1>7 DEF Kept

(* All of Provision. *)
LEMMA ProvisionKept ==
    ASSUME TypeOK, LeakInv, Provision
    PROVE  Kept'
  BY LBWritesKept, LoopKept, FinalizerKept, CreateKept, EnsureKept DEF Provision

-----------------------------------------------------------------------------
(* Cleanup *)

(* What the cleanup of a Service relies on. *)
LEMMA CleanupFacts ==
    ASSUME TypeOK, LeakInv, w.pc \in CleanupPCs \ {"delLoop"}
    PROVE  /\ w \in Worker /\ w.cur \in Services /\ w.snap[w.cur] \in Service
           /\ w.snap[w.cur].exists
  <1>1. w.pc \in ServicePCs
    BY DEF CleanupPCs, DeletePCs, ServicePCs, LoopPCs, EnsurePCs
  <1>2. w.cur \in Services
    BY <1>1 DEF LeakInv, ControlInv, Control
  <1>3. w.snap[w.cur] \in Service
    BY <1>2, WorkerParts DEF TypeOK
  <1> QED
    BY <1>2, <1>3 DEF TypeOK, LeakInv, WorkerInv, CleanupInv

(* The Service is done with: the next one, or the end. *)
LEMMA HandledWorker ==
    ASSUME TypeOK, LeakInv, Calm, csvc' = csvc, w.pc \in CleanupPCs, NEW rq,
           w' = ServiceHandled(rq)
    PROVE  WorkerInv'
  <1>1. w \in Worker
    BY DEF TypeOK
  <1>2. CASE w.req \in LBs
    <2>1. /\ w'.pc = "delLoop" /\ w'.snap = w.snap /\ w'.todo = w.todo
          /\ w'.client = w.client
      BY <1>1, <1>2 DEF ServiceHandled, Worker
    <2>2. "delLoop" \in CleanupPCs
      BY DEF CleanupPCs
    <2>3. ClientInv'
      BY <1>2, <2>1 DEF ClientInv, LeakInv, WorkerInv
    <2>4. RemainderInv'
      BY <2>1, Phases DEF RemainderInv
    <2> QED
      BY <2>1, <2>2, <2>3, <2>4, CleanupWorker DEF LeakInv
  <1>3. CASE w.req \notin LBs
    <2>1. w'.pc = "return"
      BY <1>1, <1>3 DEF ServiceHandled, ReturnWith, Worker
    <2> QED
      BY <2>1, QuietWorker DEF LoopPCs, EnsurePCs, CleanupPCs, DeletePCs, HandlerPCs
  <1> QED
    BY <1>2, <1>3

(* Nothing is left of the Service's resources. *)
Clean ==
    /\ \A p \in PortIDs : ports'[p].live => ports'[p].svc # w.cur
    /\ \A f \in FipIDs : fips'[f].live => fips'[f].svc # w.cur
    /\ w.delF = {} /\ w.delP = {}

(* The finalizer is dropped only from a Service read as terminating, and    *)
(* only after a cleanup that left nothing or is known to have failed.       *)
LEMMA ReturnedWorker ==
    ASSUME TypeOK, LeakInv, Calm, csvc' = csvc, w.pc \in CleanupPCs \ {"delLoop"},
           NEW failed \in BOOLEAN, w' = CleanupReturns(failed), SingleProject /\ ~failed => Clean
    PROVE  WorkerInv'
  <1> DEFINE c == w.snap[w.cur]
  <1>1. w \in Worker /\ c.exists
    BY CleanupFacts
  <1>2. CASE \E rq : w' = ServiceHandled(rq)
    BY <1>2, HandledWorker
  <1>3. CASE c.deleting /\ w' = [w EXCEPT !.pc = "force", !.fail = failed]
    <2>1. /\ w'.pc = "force" /\ w'.fail = failed /\ w'.snap = w.snap /\ w'.todo = w.todo
          /\ w'.cur = w.cur /\ w'.delF = w.delF /\ w'.delP = w.delP /\ w'.req = w.req
          /\ w'.client = w.client
      BY <1>1, <1>3 DEF Worker
    <2>2. "force" \in CleanupPCs
      BY DEF CleanupPCs, DeletePCs
    <2>3. ClientInv'
      BY <2>1 DEF ClientInv, LeakInv, WorkerInv
    <2>4. RemainderInv'
      BY <2>1 DEF RemainderInv, Clean, LivePort, LiveFip
    <2> QED
      BY <1>1, <1>3, <2>1, <2>2, <2>3, <2>4, CleanupWorker DEF LeakInv
  <1>4. CASE c.deleting /\ ~failed /\ w' = [w EXCEPT !.pc = "unfinalize"]
    <2>1. /\ w'.pc = "unfinalize" /\ w'.snap = w.snap /\ w'.todo = w.todo
          /\ w'.cur = w.cur /\ w'.delF = w.delF /\ w'.delP = w.delP /\ w'.req = w.req
          /\ w'.client = w.client
      BY <1>1, <1>4 DEF Worker
    <2>2. "unfinalize" \in CleanupPCs
      BY DEF CleanupPCs, DeletePCs
    <2>3. ClientInv'
      BY <2>1 DEF ClientInv, LeakInv, WorkerInv
    <2>4. RemainderInv'
      BY <1>4, <2>1 DEF RemainderInv, Clean, LivePort, LiveFip
    <2> QED
      BY <1>1, <1>4, <2>1, <2>2, <2>3, <2>4, CleanupWorker DEF LeakInv
  <1> QED
    BY <1>2, <1>3, <1>4 DEF CleanupReturns

(* One project: every live resource is visible to the cleanup's client. *)
LEMMA AllVisible ==
    ASSUME SingleProject, TypeOK, LeakInv, w.pc \in {"list", "delFips", "delPorts"}
    PROVE  /\ \A p \in PortIDs : LivePort(p) => VisiblePort(p)
           /\ \A f \in FipIDs : LiveFip(f) => VisibleFip(f)
  <1>1. \E l \in LBs : w.client = ProjectOf[l]
    BY DEF LeakInv, WorkerInv, ClientInv, CleanupPCs, DeletePCs
  <1> QED
    BY <1>1 DEF SingleProject, LeakInv, ResourceInv, VisiblePort, VisibleFip

(* The lists of what to delete hold every resource of the Service. *)
LEMMA ListKept ==
    ASSUME TypeOK, LeakInv, ListResources
    PROVE  Kept'
  <1> DEFINE F == FloatingIPsToDelete(w.cur, w.snap[w.cur])
             P == PortsToDelete(w.cur, w.snap[w.cur])
  <1>1. /\ svc' = svc /\ csvc' = csvc /\ fresh' = fresh /\ ports' = ports /\ fips' = fips
        /\ abandoned' = abandoned /\ w.pc = "list"
    BY DEF ListResources, kube, cache, neutron
  <1>2. Tame
    BY <1>1, NoWrite, SameResources DEF Tame
  <1>3. w.pc \in CleanupPCs \ {"delLoop"}
    BY <1>1 DEF CleanupPCs
  <1>4. w \in Worker /\ w.cur \in Services /\ w.snap[w.cur].exists
    BY <1>3, CleanupFacts
  <1>5. CASE w' = CleanupReturns(TRUE)
    BY <1>1, <1>2, <1>3, <1>5, ReturnedWorker, TameStep DEF Tame
  <1>6. CASE w' = [w EXCEPT !.pc = "delFips", !.delF = F, !.delP = P]
    <2>1. SingleProject =>
             /\ \A p \in PortIDs : LivePort(p) /\ ports[p].svc = w.cur => p \in P
             /\ \A f \in FipIDs : LiveFip(f) /\ fips[f].svc = w.cur => f \in F
      BY <1>1, <1>4, AllVisible, MentionsAssumption
         DEF PortsToDelete, FloatingIPsToDelete, GetAllPorts, GetAllFloatingIPs
    <2> HIDE DEF F, P
    <2>2. /\ w'.pc = "delFips" /\ w'.delF = F /\ w'.delP = P /\ w'.snap = w.snap
          /\ w'.todo = w.todo /\ w'.cur = w.cur /\ w'.client = w.client
      BY <1>4, <1>6 DEF Worker
    <2>3. RemainderInv'
      BY <1>1, <2>1, <2>2 DEF RemainderInv, LivePort, LiveFip
    <2>4. "delFips" \in CleanupPCs
      BY DEF CleanupPCs, DeletePCs
    <2>5. ClientInv'
      BY <1>1, <1>3, <2>2 DEF ClientInv, LeakInv, WorkerInv
    <2>6. WorkerInv'
      BY <1>2, <1>3, <1>4, <2>2, <2>3, <2>4, <2>5, CleanupWorker DEF Tame, LeakInv
    <2> QED
      BY <1>2, <2>6, TameStep
  <1> QED
    BY <1>5, <1>6 DEF ListResources

(* A resource leaves the list when it is gone, or the cleanup has failed. *)
LEMMA DeletesKept ==
    ASSUME TypeOK, LeakInv, DeleteFips \/ DeletePorts
    PROVE  Kept'
  <1>1. /\ svc' = svc /\ csvc' = csvc /\ fresh' = fresh /\ abandoned' = abandoned
        /\ w.pc \in {"delFips", "delPorts"}
    BY DEF DeleteFips, DeletePorts, kube, cache
  <1>2. w.pc \in CleanupPCs \ {"delLoop"} /\ w.pc \in DeletePCs
    BY <1>1 DEF CleanupPCs, DeletePCs
  <1>3. w \in Worker /\ w.cur \in Services /\ w.snap[w.cur].exists
    BY <1>2, CleanupFacts
  <1>4. Grow /\ Calm /\ FreshKept
    BY <1>1, NoWrite
  <1>5. \E l \in LBs : w.client = ProjectOf[l]
    BY <1>1, <1>2 DEF LeakInv, WorkerInv, ClientInv
  <1>6. ASSUME Fewer, RemainderInv', w'.pc = w.pc, w'.snap = w.snap, w'.todo = w.todo,
               w'.cur = w.cur, w'.client = w.client
        PROVE  Kept'
    <2>1. ClientInv'
      BY <1>5, <1>6 DEF ClientInv
    <2>2. WorkerInv'
      BY <1>1, <1>2, <1>3, <1>4, <1>6, <2>1, CleanupWorker DEF LeakInv
    <2> QED
      BY <1>1, <1>4, <1>6, <2>2, TameStep DEF Tame
  <1>7. CASE DeleteFips
    <2>1. PICK f \in w.delF :
             DeleteFloatingIP(f, FipDeleted(f), [w EXCEPT !.delF = w.delF \ {f}, !.fail = TRUE])
      BY <1>7 DEF DeleteFips
    <2>2. f \in FipIDs
      BY <1>3 DEF Worker
    <2>3. /\ Fewer /\ ports' = ports
          /\ \/ w' = FipDeleted(f) /\ (SingleProject => ~fips'[f].live)
             \/ w' = [w EXCEPT !.delF = w.delF \ {f}, !.fail = TRUE]
      BY <1>1, <2>1, <2>2, RemoveFewer, SameResources, AllVisible
         DEF DeleteFloatingIP, neutron, LiveFip
    <2> DEFINE D == w.delF \ {f}
               k == IF f = w.snap[w.cur].fipAnn THEN w.clr \cup {"fip"} ELSE w.clr
    <2>4. \A g \in w.delF : g # f => g \in D
      OBVIOUS
    <2>5. \/ w' = [w EXCEPT !.delF = D, !.clr = k] /\ (SingleProject => ~fips'[f].live)
          \/ w' = [w EXCEPT !.delF = D, !.fail = TRUE]
      BY <2>3 DEF FipDeleted
    <2> HIDE DEF D, k
    <2>6. /\ w'.pc = w.pc /\ w'.snap = w.snap /\ w'.todo = w.todo /\ w'.cur = w.cur
          /\ w'.client = w.client /\ w'.delF = D /\ w'.delP = w.delP
          /\ w'.fail \/ (w'.fail = w.fail /\ (SingleProject => ~fips'[f].live))
      BY <1>3, <2>5 DEF Worker
    <2>7. w.pc = "delFips"
      BY <1>7 DEF DeleteFips
    <2>8. RemainderInv'
      BY <1>2, <1>3, <2>2, <2>3, <2>4, <2>6, <2>7, NamesAssumption
         DEF RemainderInv, LeakInv, WorkerInv, Fewer, LivePort, LiveFip
    <2> QED
      BY <1>6, <2>3, <2>6, <2>8
  <1>8. CASE DeletePorts
    <2>1. PICK p \in w.delP :
             DeletePort(p, PortDeleted(p), [w EXCEPT !.delP = w.delP \ {p}, !.fail = TRUE])
      BY <1>8 DEF DeletePorts
    <2>2. p \in PortIDs
      BY <1>3 DEF Worker
    <2>3. /\ Fewer
          /\ \A f \in FipIDs : fips'[f].live => fips[f].live /\ fips'[f].svc = fips[f].svc
          /\ \/ w' = PortDeleted(p) /\ (SingleProject => ~ports'[p].live)
             \/ w' = [w EXCEPT !.delP = w.delP \ {p}, !.fail = TRUE]
      BY <1>1, <2>1, <2>2, RemoveFewer, SameResources, AllVisible
         DEF DeletePort, neutron, LivePort
    <2> DEFINE D == w.delP \ {p}
               k == IF p = w.snap[w.cur].portAnn THEN w.clr \cup {"port"} ELSE w.clr
    <2>4. \A q \in w.delP : q # p => q \in D
      OBVIOUS
    <2>5. \/ w' = [w EXCEPT !.delP = D, !.clr = k] /\ (SingleProject => ~ports'[p].live)
          \/ w' = [w EXCEPT !.delP = D, !.fail = TRUE]
      BY <2>3 DEF PortDeleted
    <2> HIDE DEF D, k
    <2>6. /\ w'.pc = w.pc /\ w'.snap = w.snap /\ w'.todo = w.todo /\ w'.cur = w.cur
          /\ w'.client = w.client /\ w'.delP = D /\ w'.delF = w.delF
          /\ w'.fail \/ (w'.fail = w.fail /\ (SingleProject => ~ports'[p].live))
      BY <1>3, <2>5 DEF Worker
    <2>7. w.pc = "delPorts"
      BY <1>8 DEF DeletePorts
    <2>8. RemainderInv'
      BY <1>2, <1>3, <2>2, <2>3, <2>4, <2>6, <2>7
         DEF RemainderInv, LeakInv, WorkerInv, Fewer, LivePort, LiveFip
    <2> QED
      BY <1>6, <2>3, <2>6, <2>8
  <1> QED
    BY <1>7, <1>8

(* The ends of the two lists, and the annotations. *)
LEMMA CleanupEndKept ==
    ASSUME TypeOK, LeakInv, FipsDone \/ PortsDone \/ ClearAnnotations
    PROVE  Kept'
  <1>1. /\ csvc' = csvc /\ ports' = ports /\ fips' = fips /\ abandoned' = abandoned
        /\ w.pc \in {"delFips", "delPorts", "clearAnnotations"}
    BY DEF FipsDone, PortsDone, ClearAnnotations, cache, neutron
  <1>2. w.pc \in CleanupPCs \ {"delLoop"} /\ w.pc \in DeletePCs
    BY <1>1 DEF CleanupPCs, DeletePCs
  <1>3. w \in Worker /\ w.cur \in Services /\ w.snap[w.cur].exists
    BY <1>2, CleanupFacts
  <1>4. Grow /\ Calm /\ FreshKept
    <2>1. CASE FipsDone \/ PortsDone
      BY <2>1, NoWrite DEF FipsDone, PortsDone, kube
    <2>2. CASE ClearAnnotations
      <3> DEFINE pa == IF "port" \in w.clr THEN None ELSE csvc[w.cur].portAnn
                 fa == IF "fip" \in w.clr THEN None ELSE csvc[w.cur].fipAnn
                 c == [csvc[w.cur] EXCEPT !.portAnn = pa, !.fipAnn = fa]
      <3>1. csvc[w.cur] \in Service
        BY <1>3 DEF TypeOK
      <3>2. pa \in PortIDs \cup {None} /\ fa \in FipIDs \cup {None}
        BY <3>1 DEF Service
      <3> HIDE DEF pa, fa
      <3>3. /\ c \in Service /\ c.exists = csvc[w.cur].exists /\ c.fin = csvc[w.cur].fin
            /\ c.deleting = csvc[w.cur].deleting
        BY <3>1, <3>2 DEF Service
      <3> HIDE DEF c
      <3>4. UpdateService(w.cur, c, CleanupReturns(w.fail), CleanupReturns(TRUE))
        BY <2>2 DEF ClearAnnotations, c, pa, fa
      <3> QED
        BY <1>3, <3>3, <3>4, UpdateServiceTame DEF LeakInv
    <2> QED
      BY <2>1, <2>2
  <1>5. Tame
    BY <1>1, <1>4, SameResources DEF Tame
  <1>6. ASSUME NEW x \in {"delPorts", "clearAnnotations"}, w' = [w EXCEPT !.pc = x],
               SingleProject => w.fail \/ w.delF = {}, x = "clearAnnotations" => w.delP = {}
        PROVE  Kept'
    <2>1. /\ w'.pc = x /\ w'.snap = w.snap /\ w'.todo = w.todo /\ w'.cur = w.cur
          /\ w'.client = w.client /\ w'.delF = w.delF /\ w'.delP = w.delP /\ w'.fail = w.fail
      BY <1>3, <1>6 DEF Worker
    <2>2. x \in CleanupPCs
      BY DEF CleanupPCs, DeletePCs
    <2>3. ClientInv'
      BY <1>1, <1>2, <2>1 DEF ClientInv, LeakInv, WorkerInv
    <2>4. RemainderInv'
      BY <1>1, <1>2, <1>6, <2>1 DEF RemainderInv, LeakInv, WorkerInv, LivePort, LiveFip
    <2>5. WorkerInv'
      BY <1>1, <1>2, <1>3, <1>4, <2>1, <2>2, <2>3, <2>4, CleanupWorker DEF LeakInv
    <2> QED
      BY <1>5, <2>5, TameStep
  <1>7. ASSUME w' = CleanupReturns(w.fail) \/ w' = CleanupReturns(TRUE),
               w.pc = "delPorts" => w.delP = {}, w.pc # "delFips"
        PROVE  Kept'
    <2>1. SingleProject /\ ~w.fail => Clean
      BY <1>1, <1>2, <1>7 DEF Clean, LeakInv, WorkerInv, RemainderInv, LivePort, LiveFip
    <2>2. w.fail \in BOOLEAN
      BY <1>3 DEF Worker
    <2>3. WorkerInv'
      BY <1>1, <1>2, <1>4, <1>7, <2>1, <2>2, ReturnedWorker
    <2> QED
      BY <1>5, <2>3, TameStep
  <1>8. CASE FipsDone
    BY <1>6, <1>8 DEF FipsDone
  <1>9. CASE PortsDone
    <2>1. SingleProject => w.fail \/ w.delF = {}
      BY <1>2, <1>9 DEF PortsDone, LeakInv, WorkerInv, RemainderInv
    <2> QED
      BY <1>6, <1>7, <1>9, <2>1 DEF PortsDone
  <1>10. CASE ClearAnnotations
    BY <1>7, <1>10 DEF ClearAnnotations, UpdateService, Written
  <1> QED
    BY <1>8, <1>9, <1>10

-----------------------------------------------------------------------------
(* Dropping the finalizer *)

(* The Service at hand is terminating or was recreated without a finalizer, *)
(* and what is left of its resources is abandoned knowingly.                *)
LEMMA DropFinalizer ==
    ASSUME TypeOK, LeakInv, w.pc \in {"unfinalize", "force"}, NEW c \in Service, ~c.fin,
           WriteService(w.cur, c), csvc' = csvc, ports' = ports, fips' = fips,
           abandoned' = LeftBehind(w.cur)
    PROVE  Calm /\ FreshInv' /\ CacheInv' /\ ResourceInv' /\ LeakFree'
  <1>1. w.pc \in CleanupPCs \ {"delLoop"} /\ w.pc \in DeletePCs
    BY DEF CleanupPCs, DeletePCs
  <1>2. w.cur \in Services /\ w.snap[w.cur].exists
    BY <1>1, CleanupFacts
  <1>3. ~Healthy(svc[w.cur]) /\ ~Healthy(csvc[w.cur])
    BY <1>1, <1>2 DEF LeakInv, WorkerInv, CleanupInv
  <1>4. ~Settle(c).fin
    BY DEF Settle, NoService
  <1>5. svc'[w.cur] = Settle(c) /\ \A t \in Services : t # w.cur => svc'[t] = svc[t]
    BY <1>2 DEF WriteService, TypeOK
  <1>6. Calm
    BY <1>4, <1>5 DEF Calm, Healthy
  <1>7. FreshInv'
    <2>1. w.cur \in fresh' => w.cur \in fresh /\ Settle(c) = svc[w.cur]
      BY DEF WriteService
    <2>2. \A t \in fresh' : t \in fresh
      BY DEF WriteService
    <2> QED
      BY <1>5, <2>1, <2>2 DEF FreshInv, LeakInv
  <1>8. CacheInv'
    BY <1>3, <1>5, <1>6 DEF CacheInv, LeakInv, Calm, Protected
  <1>9. ResourceInv'
    BY DEF ResourceInv, LeakInv, LivePort, LiveFip
  <1>10. ASSUME NEW p \in PortIDs, LivePort(p), SingleProject
         PROVE  (svc'[ports[p].svc].exists /\ svc'[ports[p].svc].fin) \/ p \in abandoned'
    <2>1. ports[p].svc \in Services
      BY <1>10 DEF LeakInv, ResourceInv
    <2>2. CASE ports[p].svc = w.cur
      BY <1>1, <1>10, <2>2
         DEF LeakInv, WorkerInv, RemainderInv, LeakFree, NoSilentLeak, LeftBehind, Protected
    <2>3. CASE ports[p].svc # w.cur
      BY <1>5, <1>10, <2>1, <2>3 DEF LeakInv, LeakFree, NoSilentLeak, LeftBehind, Protected
    <2> QED
      BY <2>2, <2>3
  <1>11. ASSUME NEW f \in FipIDs, LiveFip(f), fips[f].svc # None, SingleProject
         PROVE  (svc'[fips[f].svc].exists /\ svc'[fips[f].svc].fin) \/ f \in abandoned'
    <2>1. fips[f].svc \in Services
      BY <1>11 DEF TypeOK, Fip
    <2>2. CASE fips[f].svc = w.cur
      BY <1>1, <1>11, <2>2
         DEF LeakInv, WorkerInv, RemainderInv, LeakFree, NoSilentLeak, LeftBehind, Protected
    <2>3. CASE fips[f].svc # w.cur
      BY <1>5, <1>11, <2>1, <2>3 DEF LeakInv, LeakFree, NoSilentLeak, LeftBehind, Protected
    <2> QED
      BY <2>2, <2>3
  <1>12. LeakFree'
    BY <1>10, <1>11 DEF LeakFree, NoSilentLeak, LivePort, LiveFip, Protected
  <1> QED
    BY <1>6, <1>7, <1>8, <1>9, <1>12

(* Both removals of the finalizer: the normal update, which only a cleanup   *)
(* that left nothing precedes, and the forced patch.                         *)
LEMMA UnfinalizeKept ==
    ASSUME TypeOK, LeakInv, RemoveServiceFinalizer \/ ForceFinalizerRemoval
    PROVE  Kept'
  <1>1. /\ csvc' = csvc /\ ports' = ports /\ fips' = fips
        /\ w.pc \in {"unfinalize", "force"}
    BY DEF RemoveServiceFinalizer, ForceFinalizerRemoval, cache, neutron
  <1>2. w.pc \in CleanupPCs \ {"delLoop"} /\ w.pc \in DeletePCs
    BY <1>1 DEF CleanupPCs, DeletePCs
  <1>3. w \in Worker /\ w.cur \in Services /\ w.snap[w.cur] \in Service /\ w.snap[w.cur].exists
    BY <1>2, CleanupFacts
  <1>4. ASSUME Calm, w' = [w EXCEPT !.pc = "force"]
        PROVE  WorkerInv'
    <2>1. /\ w'.pc = "force" /\ w'.snap = w.snap /\ w'.todo = w.todo
          /\ w'.cur = w.cur /\ w'.delF = w.delF /\ w'.delP = w.delP /\ w'.req = w.req
          /\ w'.client = w.client /\ w'.fail = w.fail
      BY <1>3, <1>4 DEF Worker
    <2>2. "force" \in CleanupPCs /\ w.snap[w.cur].deleting
      BY <1>1, <1>2 DEF CleanupPCs, DeletePCs, LeakInv, WorkerInv, CleanupInv
    <2>3. ClientInv'
      BY <1>2, <2>1 DEF ClientInv, LeakInv, WorkerInv
    <2>4. RemainderInv'
      BY <1>1, <1>2, <2>1 DEF RemainderInv, LeakInv, WorkerInv, LivePort, LiveFip
    <2> QED
      BY <1>1, <1>2, <1>3, <1>4, <2>1, <2>2, <2>3, <2>4, CleanupWorker DEF LeakInv
  <1>5. ASSUME Calm, (\E rq : w' = ServiceHandled(rq)) \/ w' = [w EXCEPT !.pc = "force"]
        PROVE  WorkerInv'
    BY <1>1, <1>2, <1>4, <1>5, HandledWorker
  <1>6. ASSUME NEW c \in Service, ~c.fin, WriteService(w.cur, c),
               abandoned' = LeftBehind(w.cur),
               (\E rq : w' = ServiceHandled(rq)) \/ w' = [w EXCEPT !.pc = "force"]
        PROVE  Kept'
    <2>1. Calm /\ FreshInv' /\ CacheInv' /\ ResourceInv' /\ LeakFree'
      BY <1>1, <1>6, DropFinalizer
    <2> QED
      BY <1>5, <1>6, <2>1 DEF Kept
  <1>7. ASSUME svc' = svc, fresh' = fresh, abandoned \subseteq abandoned',
               (\E rq : w' = ServiceHandled(rq)) \/ w' = [w EXCEPT !.pc = "force"]
        PROVE  Kept'
    <2>1. Tame
      BY <1>1, <1>7, NoWrite, SameResources DEF Tame
    <2> QED
      BY <1>5, <1>7, <2>1, TameStep DEF Tame
  <1>8. abandoned \subseteq LeftBehind(w.cur)
    BY DEF LeftBehind
  <1>9. CASE RemoveServiceFinalizer
    <2> DEFINE obj == [w.snap[w.cur] EXCEPT !.fin = FALSE]
               c == Overwrite(svc[w.cur], obj)
    <2>1. c \in Service /\ ~c.fin
      BY <1>3 DEF Overwrite, Service, TypeOK
    <2>2. UpdateResource(w.cur, obj, ServiceHandled(FALSE), [w EXCEPT !.pc = "force"])
      BY <1>9 DEF RemoveServiceFinalizer
    <2>3. abandoned' = IF svc'[w.cur].fin THEN abandoned ELSE LeftBehind(w.cur)
      BY <1>9 DEF RemoveServiceFinalizer
    <2> HIDE DEF obj
    <2>4. w' = ServiceHandled(FALSE) \/ w' = [w EXCEPT !.pc = "force"]
      BY <2>2 DEF UpdateResource, Written
    <2>5. CASE svc' = svc /\ fresh' = fresh
      BY <1>8, <1>7, <2>3, <2>5, <2>4
    <2>6. CASE WriteService(w.cur, c)
      <3>1. ~svc'[w.cur].fin
        BY <1>3, <2>1, <2>6 DEF WriteService, Settle, NoService, TypeOK
      <3> HIDE DEF c
      <3> QED
        BY <1>6, <2>1, <2>3, <2>6, <2>4, <3>1
    <2> QED
      BY <2>2, <2>5, <2>6 DEF UpdateResource
  <1>10. CASE ForceFinalizerRemoval
    <2> DEFINE c == [svc[w.cur] EXCEPT !.fin = FALSE, !.otherFin = FALSE]
    <2>1. c \in Service /\ ~c.fin
      BY <1>3 DEF TypeOK, Service
    <2>2. \/ /\ WriteService(w.cur, c) /\ abandoned' = LeftBehind(w.cur)
             /\ w' = ServiceHandled(FALSE) \/ w' = ServiceHandled(TRUE)
          \/ /\ svc' = svc /\ fresh' = fresh /\ abandoned' = abandoned
             /\ w' = ServiceHandled(TRUE)
      BY <1>10 DEF ForceFinalizerRemoval, Written
    <2> HIDE DEF c
    <2> QED
      BY <1>6, <1>7, <2>1, <2>2
  <1> QED
    BY <1>9, <1>10

-----------------------------------------------------------------------------
(* The deletion of an OpenStackLoadBalancer and the service handler *)

(* handleDeletion up to the removal of its own finalizer. *)
LEMMA DeletionKept ==
    ASSUME TypeOK, LeakInv, StartDeletion \/ CleanupService \/ EndDeletion
    PROVE  Kept'
  <1>1. /\ svc' = svc /\ csvc' = csvc /\ fresh' = fresh /\ ports' = ports /\ fips' = fips
        /\ abandoned' = abandoned /\ w \in Worker
    BY DEF StartDeletion, CleanupService, EndDeletion, kube, cache, neutron, TypeOK
  <1>2. Tame
    BY <1>1, NoWrite, SameResources DEF Tame
  <1>3. CASE StartDeletion
    <2> DEFINE T == {s \in Services : Managed(w.req, s, csvc[s])}
    <2>1. \A s \in T : s \in Services /\ csvc[s].exists
      BY DEF Managed
    <2> HIDE DEF T
    <2>2. \/ w' = [w EXCEPT !.pc = "delLoop", !.client = ProjectOf[w.req], !.snap = csvc,
                            !.todo = T]
          \/ w' = [w EXCEPT !.pc = "lbUnfinalize", !.fail = TRUE]
      BY <1>3 DEF StartDeletion, NewClient, T
    <2>3. \/ /\ w'.pc = "delLoop" /\ w'.client = ProjectOf[w.req] /\ w'.snap = csvc
             /\ w'.todo = T
          \/ w'.pc = "lbUnfinalize"
      BY <1>1, <2>2 DEF Worker
    <2>4. CASE w'.pc = "lbUnfinalize"
      BY <1>2, <2>4, QuietStep
    <2>5. CASE w'.pc = "delLoop"
      <3>1. w.req \in LBs
        BY <1>3 DEF StartDeletion, NewClient, LeakInv, ControlInv, Control, LBPCs
      <3>2. "delLoop" \in CleanupPCs
        BY DEF CleanupPCs
      <3>3. CleanupInv'
        BY <1>1, <2>1, <2>3, <2>5 DEF CleanupInv, LeakInv, CacheInv, Healthy
      <3>4. ClientInv'
        BY <2>3, <2>5, <3>1 DEF ClientInv
      <3>5. LoopInv' /\ HandlerInv' /\ RemainderInv'
        BY <2>5, <3>2, Phases DEF LoopInv, HandlerInv, RemainderInv
      <3> QED
        BY <1>2, <3>3, <3>4, <3>5, TameStep DEF WorkerInv
    <2> QED
      BY <2>3, <2>4, <2>5
  <1>4. CASE CleanupService
    <2>1. PICK s \in w.todo :
             \/ w' = [w EXCEPT !.todo = w.todo \ {s}]
             \/ w' = [w EXCEPT !.todo = w.todo \ {s}, !.cur = s, !.pc = "list"]
      BY <1>4 DEF CleanupService
    <2> DEFINE T == w.todo \ {s}
    <2>2. T \subseteq w.todo
      OBVIOUS
    <2> HIDE DEF T
    <2>3. w.pc = "delLoop" /\ "delLoop" \in CleanupPCs /\ "list" \in CleanupPCs \ DeletePCs
      BY <1>4 DEF CleanupService, CleanupPCs, DeletePCs
    <2>4. \/ w' = [w EXCEPT !.todo = T]
          \/ w' = [w EXCEPT !.todo = T, !.cur = s, !.pc = "list"]
      BY <2>1 DEF T
    <2>5. /\ w'.snap = w.snap /\ w'.todo = T /\ w'.client = w.client
          /\ w'.pc = "delLoop" \/ (w'.pc = "list" /\ w'.cur = s)
      <3>1. w \in Worker
        BY <1>1
      <3>2. CASE w' = [w EXCEPT !.todo = T]
        BY ONLY <2>3, <3>1, <3>2 DEF Worker
      <3>3. CASE w' = [w EXCEPT !.todo = T, !.cur = s, !.pc = "list"]
        BY ONLY <3>1, <3>3 DEF Worker
      <3> QED
        BY <2>4, <3>2, <3>3
    <2>6. w.snap[s].exists
      BY <2>3 DEF LeakInv, WorkerInv, CleanupInv
    <2>7. ClientInv'
      BY <2>3, <2>5 DEF ClientInv, LeakInv, WorkerInv
    <2>8. RemainderInv'
      BY <2>3, <2>5, Phases DEF RemainderInv
    <2>9. WorkerInv'
      BY <1>1, <1>2, <2>2, <2>3, <2>5, <2>6, <2>7, <2>8, CleanupWorker DEF LeakInv, Tame
    <2> QED
      BY <1>2, <2>9, TameStep
  <1>5. CASE EndDeletion
    <2>1. w'.pc \in {"return", "lbUnfinalize"}
      BY <1>1, <1>5 DEF EndDeletion, ReturnWith, Worker
    <2> QED
      BY <1>2, <2>1, QuietStep
  <1> QED
    BY <1>3, <1>4, <1>5

(* The rest of the service handler: the credentials and the client. *)
LEMMA HandleKept ==
    ASSUME TypeOK, LeakInv, UpdateServiceWithCredentials \/ GetOpenStackClientFromService
    PROVE  Kept'
  <1>1. /\ csvc' = csvc /\ ports' = ports /\ fips' = fips /\ abandoned' = abandoned
        /\ w \in Worker
    BY DEF UpdateServiceWithCredentials, GetOpenStackClientFromService, cache, neutron, TypeOK
  <1>2. CASE UpdateServiceWithCredentials
    <2> DEFINE c == [csvc[w.cur] EXCEPT !.cred = w.match]
    <2>1. w.cur \in Services
      BY <1>2 DEF UpdateServiceWithCredentials, LeakInv, ControlInv, Control, ServicePCs,
                  HandlerPCs
    <2>2. csvc[w.cur] \in Service /\ w.match \in LBs \cup {None}
      BY <1>1, <2>1, WorkerParts DEF TypeOK
    <2>3. /\ c \in Service /\ c.exists = csvc[w.cur].exists /\ c.fin = csvc[w.cur].fin
          /\ c.deleting = csvc[w.cur].deleting
      BY <2>2 DEF Service
    <2> HIDE DEF c
    <2>4. UpdateService(w.cur, c, ReturnWith(FALSE), ReturnWith(TRUE))
      BY <1>2 DEF UpdateServiceWithCredentials, c
    <2>5. Grow /\ Calm /\ FreshKept /\ (w' = ReturnWith(FALSE) \/ w' = ReturnWith(TRUE))
      BY <2>1, <2>3, <2>4, UpdateServiceTame DEF LeakInv
    <2>6. w'.pc = "return"
      BY <1>1, <2>5 DEF ReturnWith, Worker
    <2> QED
      BY <1>1, <2>5, <2>6, SameResources, QuietStep DEF Tame
  <1>3. CASE GetOpenStackClientFromService
    <2>1. svc' = svc /\ fresh' = fresh /\ w.pc = "svcClient"
      BY <1>3 DEF GetOpenStackClientFromService, kube
    <2>2. Tame
      BY <1>1, <2>1, NoWrite, SameResources DEF Tame
    <2>3. w.pc \in CleanupPCs \ {"delLoop"}
      BY <2>1 DEF CleanupPCs
    <2>4. /\ w.cur \in Services /\ w.snap[w.cur] \in Service /\ w.snap[w.cur].exists
          /\ w.snap[w.cur].deleting
      BY <2>1, <2>3, CleanupFacts DEF LeakInv, WorkerInv, CleanupInv
    <2>5. CredentialSources(w.cur, w.snap[w.cur]) \subseteq LBs
      BY <2>4 DEF CredentialSources, MatchingLBs, Service
    <2>6. (\E l \in LBs : w' = ClientFor(l)) \/ w' = NoClient
      BY <1>3, <2>5 DEF GetOpenStackClientFromService
    <2>7. \/ w'.pc = "return"
          \/ /\ w'.pc = "list" /\ \E l \in LBs : w'.client = ProjectOf[l]
             /\ w'.snap = w.snap /\ w'.todo = w.todo /\ w'.cur = w.cur
          \/ /\ w'.pc = "unfinalize" /\ w'.fail /\ w'.client = w.client /\ w'.req = w.req
             /\ w'.snap = w.snap /\ w'.todo = w.todo /\ w'.cur = w.cur
      BY <1>1, <2>6 DEF ClientFor, NewClient, NoClient, ReturnWith, Worker
    <2>8. CASE w'.pc = "return"
      BY <2>2, <2>8, QuietStep
    <2>9. CASE w'.pc # "return"
      <3>1. "list" \in CleanupPCs \ DeletePCs /\ "unfinalize" \in CleanupPCs
        BY DEF CleanupPCs, DeletePCs
      <3>2. ClientInv'
        BY <2>1, <2>3, <2>7, <2>9 DEF ClientInv, LeakInv, WorkerInv
      <3>3. RemainderInv'
        BY <2>7, <2>9, <3>1 DEF RemainderInv
      <3>4. WorkerInv'
        BY <1>1, <2>2, <2>3, <2>4, <2>7, <2>9, <3>1, <3>2, <3>3, CleanupWorker
           DEF LeakInv, Tame
      <3> QED
        BY <2>2, <3>4, TameStep
    <2> QED
      BY <2>8, <2>9
  <1> QED
    BY <1>2, <1>3

-----------------------------------------------------------------------------
(* Every step of the operator and of its environment keeps LeakInv. *)
LEMMA LeakInductive ==
    /\ Init => LeakInv
    /\ TypeInv /\ LeakInv /\ [Next]_vars => LeakInv'
  <1>1. ASSUME Init PROVE LeakInv
    <2>1. ControlInv
      BY <1>1, IdleGood DEF Init, ControlInv, Good
    <2>2. w.pc = "idle"
      BY <1>1 DEF Init, IdleWorker
    <2>3. WorkerInv
      BY <2>2, Phases DEF WorkerInv, LoopInv, CleanupInv, HandlerInv, ClientInv, RemainderInv,
                          LoopPCs, EnsurePCs, CleanupPCs, DeletePCs, HandlerPCs
    <2>4. FreshInv /\ CacheInv
      BY <1>1 DEF Init, FreshInv, CacheInv, Healthy, NoService
    <2>5. ResourceInv /\ LeakFree
      BY <1>1 DEF Init, ResourceInv, LeakFree, NoSilentLeak, LivePort, LiveFip, NoPort, NoFip
    <2> QED
      BY <2>1, <2>3, <2>4, <2>5 DEF LeakInv
  <1>2. ASSUME TypeInv, LeakInv, [Next]_vars PROVE LeakInv'
    <2>1. TypeOK /\ ControlInv'
      BY <1>2, TypeInductive DEF TypeInv
    <2>2. CASE UNCHANGED vars
      <3>1. /\ svc' = svc /\ csvc' = csvc /\ fresh' = fresh /\ ports' = ports /\ fips' = fips
            /\ w' = w /\ abandoned' = abandoned
        BY <2>2 DEF vars
      <3>2. Tame
        BY <3>1, NoWrite, SameResources DEF Tame
      <3>3. WorkerInv'
        BY <1>2, <2>1, <3>1, <3>2, SteadyWorker DEF Tame, LeakInv
      <3> QED
        BY <1>2, <2>1, <3>2, <3>3, TameStep DEF Kept, LeakInv
    <2>3. CASE Environment
      BY <1>2, <2>1, <2>3, EnvironmentKept DEF Kept, LeakInv
    <2>4. CASE \E r \in Requests : Dequeue(r)
      BY <1>2, <2>1, <2>4, DequeueKept DEF Kept, LeakInv
    <2>5. CASE (\E r \in Requests : Sync(r)) \/ Resync \/ Restart \/ Return
      BY <1>2, <2>1, <2>5, QueueKept DEF Kept, LeakInv
    <2>6. CASE Provision
      BY <1>2, <2>1, <2>6, ProvisionKept DEF Kept, LeakInv
    <2>7. CASE Cleanup
      BY <1>2, <2>1, <2>7, ListKept, DeletesKept, CleanupEndKept, UnfinalizeKept
         DEF Cleanup, Kept, LeakInv
    <2>8. CASE Delete
      BY <1>2, <2>1, <2>8, DeletionKept, LBWritesKept DEF Delete, Kept, LeakInv
    <2>9. CASE Handle
      BY <1>2, <2>1, <2>9, HandleKept, FinalizerKept DEF Handle, Kept, LeakInv
    <2> QED
      BY <1>2, <2>2, <2>3, <2>4, <2>5, <2>6, <2>7, <2>8, <2>9 DEF Next, Work
  <1> QED
    BY <1>1, <1>2

(* The whole argument as an invariant: what the cache and the copies in the *)
(* worker's memory may still be relied upon for, however stale they are, and *)
(* what a cleanup has left to delete (that part only where the credentials   *)
(* of all LBs belong to one OpenStack project), at every step of every       *)
(* reconcile (Reconcile, CleanupResourcesForService, reconcileService).      *)
THEOREM LeakInvariant == Spec => []LeakInv
  <1>1. Init => TypeInv /\ LeakInv
    BY LeakInductive, TypeInductive
  <1>2. TypeInv /\ LeakInv /\ [Next]_vars => (TypeInv /\ LeakInv)'
    BY LeakInductive, TypeInductive
  <1> QED
    BY <1>1, <1>2, PTL DEF Spec

(* No port or floating IP the operator made outlives its Service's          *)
(* finalizer in silence, in any interleaving of users, faults, stale        *)
(* caches, crashes and reconciles and for any number of Services and LBs,   *)
(* provided the credentials of all LBs belong to one OpenStack project      *)
(* (HandleServiceFinalizationWithForce, CleanupResourcesForService).        *)
THEOREM LeakFreedom ==
    ASSUME SingleProject
    PROVE  Spec => []NoSilentLeak
  <1>1. Spec => []LeakInv
    BY LeakInvariant
  <1>2. LeakInv => NoSilentLeak
    BY DEF LeakInv, LeakFree
  <1> QED
    BY <1>1, <1>2, PTL

=============================================================================
