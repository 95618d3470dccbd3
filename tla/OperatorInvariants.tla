-------------------------- MODULE OperatorInvariants --------------------------
(***************************************************************************)
(* The inductive strengthenings of the safety properties, one section for  *)
(* each: why a stale cache and a stale copy in the worker's memory do not  *)
(* make the operator drop a finalizer that still protects something, or    *)
(* delete what it should not. First NoSilentLeak.                          *)
(***************************************************************************)
EXTENDS LBOperator

(* Every set of credentials belongs to one project, so that every client   *)
(* sees every resource. Without this a cleanup may look in the wrong       *)
(* project, find nothing and drop the finalizer.                           *)
SingleProject == \A l, m \in LBs : ProjectOf[l] = ProjectOf[m]

(* A Service that may be given resources: finalizer set, not terminating.  *)
Healthy(c) == c.exists /\ c.fin /\ ~c.deleting

(* Where the worker is. *)
EnsurePCs == {"credentials", "network", "port", "clearPort", "tagPort", "annotatePort",
              "fip", "clearFip", "createFip", "tagFip", "annotateFip", "externalIPs"}
LoopPCs == EnsurePCs \cup {"loop", "svcFinalizer"}
DeletePCs == {"delFips", "delPorts", "clearAnnotations", "unfinalize", "force"}
CleanupPCs == DeletePCs \cup {"svcClient", "delLoop", "list"}
HandlerPCs == {"handlerFinalizer", "handlerCredentials"}

(* Which request is at work (an LB), and which Service is at hand. *)
LBPCs == LoopPCs \cup {"lbFinalizer", "lbClient", "status", "delClient", "delLoop",
                       "lbUnfinalize"}
ServicePCs == (LoopPCs \cup CleanupPCs \cup HandlerPCs) \ {"loop", "delLoop"}

(* What every step of a reconcile relies on without checking it again: the  *)
(* request and the Service it was called with, the address that made the    *)
(* Service eligible, and the floating IP to publish.                        *)
Control(v) ==
    /\ v.pc # "idle" => v.req \in Requests
    /\ v.pc \in LBPCs => v.req \in LBs
    /\ v.pc \in ServicePCs => v.cur \in Services
    /\ v.pc \in LoopPCs => \A s \in v.todo : v.snap[s].ip # None
    /\ v.pc \in LoopPCs \ {"loop"} => v.snap[v.cur].ip # None
    /\ v.pc \in {"tagFip", "annotateFip", "externalIPs"} => v.fid \in FipIDs

ControlInv == Control(w)

-----------------------------------------------------------------------------
(* A cached object whose version is the current one is the current one.    *)
FreshInv == \A s \in Services : s \in fresh => csvc[s] = svc[s]

(* The cache may be behind, but never so that a Service it shows healthy   *)
(* has lost its finalizer, nor so that one it shows terminating has since  *)
(* been recreated and given a finalizer: only the worker moves finalizers, *)
(* and it does so on what the cache shows.                                 *)
CacheInv == \A s \in Services :
    /\ Healthy(csvc[s]) => Protected(s)
    /\ csvc[s].exists /\ csvc[s].deleting => ~Healthy(svc[s])

(* The same for the copies of the Services a reconcile works on: while it  *)
(* provisions, *)
LoopInv == w.pc \in LoopPCs =>
    /\ \A s \in Services : s \in w.todo \/ (s = w.cur /\ w.pc # "loop") =>
          /\ w.snap[s].exists /\ ~w.snap[s].deleting
          /\ w.snap[s].fin => Protected(s)
    /\ w.pc \in EnsurePCs => w.snap[w.cur].fin

(* and while it cleans up. *)
CleanupInv == w.pc \in CleanupPCs =>
    /\ \A s \in Services : w.snap[s].exists /\ w.snap[s].deleting
                             => ~Healthy(svc[s]) /\ ~Healthy(csvc[s])
    /\ w.pc # "delLoop" => w.snap[w.cur].exists
    /\ w.pc \in {"svcClient", "unfinalize", "force"} => w.snap[w.cur].deleting
    /\ w.todo \subseteq {s \in Services : w.snap[s].exists}

(* The service handler adds the finalizer to a copy that exists. *)
HandlerInv == w.pc \in HandlerPCs => w.snap[w.cur].exists

(* Resources, and below the client in use, belong to the LBs' projects. *)
ResourceInv ==
    /\ \A p \in PortIDs : LivePort(p) => /\ \E l \in LBs : ports[p].proj = ProjectOf[l]
                                         /\ ports[p].svc \in Services
    /\ \A f \in FipIDs : LiveFip(f) => \E l \in LBs : fips[f].proj = ProjectOf[l]

(* Only the finalization of a single Service goes on without a client. *)
ClientInv ==
    /\ w.pc \in LoopPCs \cup CleanupPCs
    /\ w.pc \in {"svcClient", "unfinalize", "force"} => w.req \in LBs
    => \E l \in LBs : w.client = ProjectOf[l]

(* In a cleanup that has not failed, what is left of the Service's         *)
(* resources is still on the lists of what to delete, provided the client   *)
(* sees them.                                                               *)
RemainderInv == SingleProject /\ w.pc \in DeletePCs /\ ~w.fail =>
    /\ \A p \in PortIDs : LivePort(p) /\ ports[p].svc = w.cur => p \in w.delP
    /\ \A f \in FipIDs : LiveFip(f) /\ fips[f].svc = w.cur => f \in w.delF
    /\ w.pc # "delFips" => w.delF = {}
    /\ w.pc \notin {"delFips", "delPorts"} => w.delP = {}

WorkerInv == LoopInv /\ CleanupInv /\ HandlerInv /\ ClientInv /\ RemainderInv

LeakFree == SingleProject => NoSilentLeak

LeakInv ==
    ControlInv /\ FreshInv /\ CacheInv /\ WorkerInv /\ ResourceInv /\ LeakFree

-----------------------------------------------------------------------------
(* Why AnnotatedIsProtected holds. A copy c of an object that is now o, in  *)
(* the cache or in the worker's memory, lags behind it: it is of the same   *)
(* incarnation or an earlier one, and of the same one a deletion is not     *)
(* undone and a finalizer it has lost does not come back.                   *)
Lags(c, o) ==
    /\ c.uid <= o.uid
    /\ c.uid = o.uid /\ c.exists /\ c.deleting => Doomed(o) /\ (o.fin => c.fin)

StaleInv == \A s \in Services : Lags(csvc[s], svc[s]) /\ Lags(w.snap[s], svc[s])

AnnotationInv == StaleInv /\ AnnotatedIsProtected

-----------------------------------------------------------------------------
(* Why PortsAnsweredFor holds *)

Answers(l) == lb[l].exists /\ lb[l].fin

(* The cache of the LBs, as that of the Services. *)
LBCacheInv == \A l \in LBs :
    /\ l \in fresh => clb[l] = lb[l]
    /\ Lags(clb[l], lb[l])
    /\ Healthy(clb[l]) => Answers(l)

(* The worker's copy of the LB: ports are made only for an LB that holds    *)
(* its finalizer, cleanups and the removal of the finalizer only after it   *)
(* was read as terminating. The service handler has no LB at hand.          *)
MemInv ==
    /\ w.req \in LBs => Lags(w.mem, lb[w.req])
    /\ w.pc \in LoopPCs \cup {"lbClient"} => Answers(w.req)
    /\ w.req \in LBs /\ w.pc \in CleanupPCs \cup {"delClient", "lbUnfinalize"}
          => w.mem.exists /\ w.mem.deleting
    /\ w.pc \in HandlerPCs \cup {"svcClient"} => w.req \notin LBs

(* The loop keeps to the Services of the LB's class. *)
ClassInv == w.pc \in LoopPCs =>
    /\ \A s \in w.todo : <<s, w.req>> \in Matches
    /\ w.pc # "loop" => <<w.cur, w.req>> \in Matches

(* A Service with the finalizer is in the cache in its present incarnation, *)
(* and in the list a deletion works through.                                *)
SeenInv == \A s \in Services : Protected(s) =>
    /\ csvc[s].exists /\ csvc[s].uid = svc[s].uid
    /\ w.req \in LBs /\ w.pc \in CleanupPCs
          => w.snap[s].exists /\ w.snap[s].uid = svc[s].uid

(* In a deletion that is to end with the removal of the LB's finalizer, the *)
(* ports of its class that live belong to Services still to be handled.     *)
Pending(p) ==
    \/ p \in abandoned
    \/ w.pc # "lbUnfinalize" /\ ports[p].svc \in w.todo
    \/ w.pc \notin {"delLoop", "lbUnfinalize"} /\ ports[p].svc = w.cur

DeletionInv == w.req \in LBs =>
    /\ w.pc = "unfinalize" => ~w.fail
    /\ (w.pc \in CleanupPCs /\ ~w.requeue) \/ (w.pc = "lbUnfinalize" /\ ~w.fail)
       => \A p \in PortIDs :
             LivePort(p) /\ <<ports[p].svc, w.req>> \in Matches => Pending(p)

AnswerInv ==
    LBCacheInv /\ MemInv /\ ClassInv /\ SeenInv /\ DeletionInv /\ PortsAnsweredFor

-----------------------------------------------------------------------------
(* Why DeletesJustified holds *)

(* A resource's text matches the search of no other Service. Otherwise a    *)
(* cleanup takes the resources of another one for its own.                  *)
DistinctTexts == \A s, t \in Services : <<s, t>> \in Mentions => s = t

(* Every Service is of the class of every LB. Otherwise the deletion of an  *)
(* LB takes on annotated Services of other classes.                         *)
SingleClass == \A s \in Services, l \in LBs : <<s, l>> \in Matches

(* DeletesJustified as far as it holds with several classes: the LB whose   *)
(* deletion is handled may be of another class than the Service             *)
(* (controller, handleDeletion).                                            *)
Grounded(s, id) == Doomed(svc[s]) \/ id \in abandoned \/ LBDoomed

DeletesGrounded ==
    [][w' # w =>
         /\ \A p \in PortIDs : LivePort(p) /\ ~LivePort(p)' => Grounded(ports[p].svc, p)
         /\ \A f \in FipIDs : LiveFip(f) /\ fips[f].svc # None /\ ~LiveFip(f)'
                                  => Grounded(fips[f].svc, f)]_vars

(* Annotations of Service s, and of copies of it, name resources of s, or   *)
(* floating IPs of users.                                                   *)
OwnPort(p, s) == LivePort(p) => ports[p].svc = s
OwnFip(f, s) == LiveFip(f) => fips[f].svc \in {s, None}
Own(c, s) == /\ c.portAnn # None => OwnPort(c.portAnn, s)
             /\ c.fipAnn # None => OwnFip(c.fipAnn, s)

RecordInv == \A s \in Services : Own(svc[s], s) /\ Own(csvc[s], s) /\ Own(w.snap[s], s)

(* A floating IP is attached to a port of its own Service. *)
AttachInv == \A f \in FipIDs :
    LiveFip(f) /\ fips[f].svc # None /\ fips[f].port # None
        => LivePort(fips[f].port) /\ ports[fips[f].port].svc = fips[f].svc

(* What the worker has in hand, if anything, is the Service's, *)
HandInv ==
    /\ w.pc \in {"lbClient", "loop", "svcFinalizer"} => w.pid = None /\ w.fid = None
    /\ w.pc \in {"tagPort", "annotatePort", "fip", "createFip"} => w.pid # None
    /\ w.pc \in EnsurePCs => /\ w.pid # None => OwnPort(w.pid, w.cur)
                             /\ w.fid # None => OwnFip(w.fid, w.cur)

(* and so is what it has listed for deletion. *)
ListsInv ==
    /\ w.pc \in {"delClient", "delLoop", "svcClient"} => w.delP = {} /\ w.delF = {}
    /\ w.pc \in DeletePCs \cup {"list"} => /\ \A p \in w.delP : OwnPort(p, w.cur)
                                           /\ \A f \in w.delF : OwnFip(f, w.cur)

(* The service handler cleans up only what it read as terminating. *)
FinalizeInv == w.pc \in CleanupPCs /\ w.req \notin LBs => w.snap[w.cur].deleting

OwnershipInv == RecordInv /\ AttachInv /\ HandInv /\ ListsInv /\ FinalizeInv

-----------------------------------------------------------------------------
(* Why UserFipsKept holds: a floating IP of a user never gets the           *)
(* operator's tag, not even when it takes the place of one just created.    *)
UserFipInv ==
    /\ \A f \in FipIDs : LiveFip(f) /\ fips[f].svc = None => ~fips[f].tagged
    /\ w.pc = "tagFip" /\ LiveFip(w.fid) => fips[w.fid].svc # None

=============================================================================
