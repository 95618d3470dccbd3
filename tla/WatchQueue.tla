------------------------------ MODULE WatchQueue ------------------------------
(***************************************************************************)
(* SetupWithManager and findOpenStackLBsForService: how changes reach the  *)
(* informer cache and become reconcile requests, the end of a reconcile,   *)
(* and the restart of the operator. The work queue, the informers and the  *)
(* start-up listing are controller-runtime's. The queue is a set: it drops *)
(* duplicates, and the order in which it hands out requests is left open.  *)
(***************************************************************************)
EXTENDS ServiceHandler

ServicePredicate(c) == c.lbType \/ c.fin \/ HasResourceAnnotations(c)

FindOpenStackLBsForService(s, c, lbs) ==
    LET matching == MatchingLBs(s, lbs)
        managed == c.fin \/ HasResourceAnnotations(c) \/ matching # {}
    IN  matching \cup IF managed THEN {s} ELSE {}

(* The versions of a Service handed to the map function when the cache     *)
(* goes from old to new: both of an update, provided the new one passes    *)
(* the predicate; otherwise the created and the deleted object.            *)
Delivered(old, new) ==
    IF old.exists /\ new.exists /\ old.uid = new.uid
    THEN IF ServicePredicate(new) THEN {old, new} ELSE {}
    ELSE {c \in {old, new} : c.exists /\ ServicePredicate(c)}

ServiceEvents(s, old, new, lbs) ==
    UNION {FindOpenStackLBsForService(s, c, lbs) : c \in Delivered(old, new)}

SyncService(s) ==
    /\ s \notin fresh
    /\ csvc' = [csvc EXCEPT ![s] = svc[s]]
    /\ fresh' = fresh \cup {s}
    /\ queue' = queue \cup ServiceEvents(s, csvc[s], svc[s], clb)
    /\ UNCHANGED <<kube, clb, neutron, w, faults, abandoned>>

SyncLB(l) ==
    /\ l \notin fresh
    /\ clb' = [clb EXCEPT ![l] = lb[l]]
    /\ fresh' = fresh \cup {l}
    /\ queue' = queue \cup {l}
    /\ UNCHANGED <<kube, csvc, neutron, w, faults, abandoned>>

(* Reconcile has returned: RequeueAfter and errors bring the request back. *)
Return ==
    /\ w.pc = "return"
    /\ queue' = IF w.requeue THEN queue \cup {w.req} ELSE queue
    /\ w' = IdleWorker
    /\ UNCHANGED <<kube, cache, fresh, neutron, faults, abandoned>>

(* The informers' periodic resync (every ten hours by default). *)
Resync ==
    /\ "resync" \in FaultKinds
    /\ queue' = queue \cup {l \in LBs : clb[l].exists}
                      \cup UNION {ServiceEvents(s, csvc[s], csvc[s], clb) : s \in Services}
    /\ UNCHANGED <<kube, cache, fresh, neutron, w, faults, abandoned>>

(* The operator dies between any two calls and starts again: its memory is *)
(* lost and the first listing produces one event per object.               *)
Restart ==
    /\ Fault("crash")
    /\ w' = IdleWorker
    /\ csvc' = svc /\ clb' = lb /\ fresh' = Requests
    /\ queue' = {l \in LBs : lb[l].exists} \cup
                UNION {ServiceEvents(s, NoService(0), svc[s], lb) : s \in Services}
    /\ UNCHANGED <<kube, neutron, abandoned>>

=============================================================================
