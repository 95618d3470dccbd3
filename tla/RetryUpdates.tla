----------------------------- MODULE RetryUpdates -----------------------------
(***************************************************************************)
(* Writes to Kubernetes objects: the retry helpers of                      *)
(* internal/controller/utils.go and what the API server does with them.    *)
(*                                                                         *)
(* Each helper reads the object from the informer cache, writes it with    *)
(* the cached resourceVersion and, on a conflict, tries again until        *)
(* RetryBackoff is used up. One attempt is one step: it succeeds when the  *)
(* cached version is the current one, a stale cache makes the helper wait  *)
(* for the cache, fault "api" is a spent backoff or an API error, and      *)
(* fault "lostReply" a write that took effect and yet returned an error.   *)
(* done and failed are the worker's states after nil and after an error.   *)
(***************************************************************************)
EXTENDS OperatorState

(* API server: an object marked for deletion goes with its last finalizer. *)
Settle(c) == IF c.deleting /\ ~c.fin /\ ~c.otherFin THEN NoService(c.uid) ELSE c

SettleLB(b) == IF b.deleting /\ ~b.fin THEN NoLB(b.uid) ELSE b

(* A write that changes nothing keeps the resourceVersion. *)
WriteService(s, c) ==
    /\ svc' = [svc EXCEPT ![s] = Settle(c)]
    /\ fresh' = IF Settle(c) = svc[s] THEN fresh ELSE fresh \ {s}

WriteLB(l, b) ==
    /\ lb' = [lb EXCEPT ![l] = SettleLB(b)]
    /\ fresh' = IF SettleLB(b) = lb[l] THEN fresh ELSE fresh \ {l}

(* Update of the main resource: status and deletionTimestamp are the       *)
(* server's; everything else, stale or not, comes from obj. Refused when   *)
(* obj is another incarnation or adds a finalizer to a terminating object. *)
Overwrite(c, obj) == [obj EXCEPT !.ip = c.ip, !.deleting = c.deleting]

Accepts(c, obj) ==
    /\ obj.uid = c.uid
    /\ c.deleting => (obj.fin => c.fin) /\ (obj.otherFin => c.otherFin)

(* A write that took effect: the helper returns nil, or an error when the  *)
(* reply is lost. Only conflicts are tried again.                          *)
Written(done, failed) ==
    \/ w' = done /\ UNCHANGED faults
    \/ w' = failed /\ Fault("lostReply")

-----------------------------------------------------------------------------
(* updateServiceAnnotationWithRetry, updateMultipleServiceAnnotations and  *)
(* updateServiceExternalIPs: c is the cached Service with the field set.   *)
UpdateService(s, c, done, failed) ==
    \/ /\ ~csvc[s].exists
       /\ w' = done
       /\ UNCHANGED <<svc, fresh, faults>>
    \/ /\ csvc[s].exists /\ s \in fresh
       /\ WriteService(s, c)
       /\ Written(done, failed)
    \/ /\ csvc[s].exists /\ Fault("api")
       /\ w' = failed
       /\ UNCHANGED <<svc, fresh>>

(* updateResourceWithRetry on a Service: obj, as the caller read it before, *)
(* is written with the resourceVersion of the Service now in the cache.     *)
UpdateResource(s, obj, done, failed) ==
    \/ /\ ~csvc[s].exists
       /\ w' = done
       /\ UNCHANGED <<svc, fresh, faults>>
    \/ /\ csvc[s].exists /\ s \in fresh /\ Accepts(svc[s], obj)
       /\ WriteService(s, Overwrite(svc[s], obj))
       /\ Written(done, failed)
    \/ /\ csvc[s].exists /\ s \in fresh /\ ~Accepts(svc[s], obj)
       /\ w' = failed
       /\ UNCHANGED <<svc, fresh, faults>>
    \/ /\ csvc[s].exists /\ Fault("api")
       /\ w' = failed
       /\ UNCHANGED <<svc, fresh>>

(* updateResourceWithRetry on the OpenStackLoadBalancer, from the copy      *)
(* Reconcile read: its status is a subresource, so the write carries the    *)
(* finalizer and the spec as they were read.                                *)
UpdateLB(l, hasFin, done, failed) ==
    \/ /\ ~clb[l].exists
       /\ w' = done
       /\ UNCHANGED <<lb, fresh, faults>>
    \/ /\ clb[l].exists /\ l \in fresh
       /\ w.mem.uid = lb[l].uid /\ (lb[l].deleting => (hasFin => lb[l].fin))
       /\ WriteLB(l, [lb[l] EXCEPT !.fin = hasFin, !.fip = w.mem.fip])
       /\ Written(done, failed)
    \/ /\ clb[l].exists /\ l \in fresh
       /\ ~(w.mem.uid = lb[l].uid /\ (lb[l].deleting => (hasFin => lb[l].fin)))
       /\ w' = failed
       /\ UNCHANGED <<lb, fresh, faults>>
    \/ /\ clb[l].exists /\ Fault("api")
       /\ w' = failed
       /\ UNCHANGED <<lb, fresh>>

(* updateStatusWithRetry: the status computed in memory replaces the one of *)
(* the object now in the cache, whichever incarnation that is.              *)
UpdateStatus(l, done, failed) ==
    \/ /\ ~clb[l].exists
       /\ w' = done
       /\ UNCHANGED <<lb, fresh, faults>>
    \/ /\ clb[l].exists /\ l \in fresh
       /\ WriteLB(l, [lb[l] EXCEPT !.net = w.mem.net, !.ready = w.mem.ready,
                                   !.cond = w.mem.cond])
       /\ Written(done, failed)
    \/ /\ clb[l].exists /\ Fault("api")
       /\ w' = failed
       /\ UNCHANGED <<lb, fresh>>

=============================================================================
