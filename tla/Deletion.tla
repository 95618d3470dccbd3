------------------------------- MODULE Deletion -------------------------------
(***************************************************************************)
(* handleDeletion of openstackloadbalancer_controller.go: a terminating    *)
(* OpenStackLoadBalancer cleans up after every Service of its class and    *)
(* after every Service that carries resource annotations.                  *)
(***************************************************************************)
EXTENDS ResourceCleanup

Managed(l, s, c) ==
    c.exists /\ (<<s, l>> \in Matches \/ HasResourceAnnotations(c))

(* Without a client there is no cleanup, and the finalizer goes anyway. *)
StartDeletion ==
    /\ w.pc = "delClient"
    /\ \/ /\ w' = [w EXCEPT !.pc = "delLoop", !.client = NewClient(w.req), !.snap = csvc,
                            !.todo = {s \in Services : Managed(w.req, s, csvc[s])}]
          /\ UNCHANGED faults
       \/ Fault("client") /\ w' = [w EXCEPT !.pc = "lbUnfinalize", !.fail = TRUE]
    /\ UNCHANGED <<kube, cache, fresh, queue, neutron, abandoned>>

(* HandleServiceFinalizationWithForce skips a terminating Service without *)
(* the finalizer.                                                         *)
CleanupService ==
    /\ w.pc = "delLoop"
    /\ \E s \in w.todo :
          w' = IF w.snap[s].deleting /\ ~w.snap[s].fin
               THEN [w EXCEPT !.todo = w.todo \ {s}]
               ELSE [w EXCEPT !.todo = w.todo \ {s}, !.cur = s, !.pc = "list"]
    /\ UNCHANGED <<kube, cache, fresh, queue, neutron, faults, abandoned>>

(* Faulty variant of EndDeletion: an incomplete cleanup is ignored. *)
EndDeletionAnyway ==
    /\ w.pc = "delLoop" /\ w.todo = {}
    /\ w' = [w EXCEPT !.pc = "lbUnfinalize"]
    /\ UNCHANGED <<kube, cache, fresh, queue, neutron, faults, abandoned>>

EndDeletion ==
    /\ w.pc = "delLoop" /\ w.todo = {}
    /\ w' = IF w.requeue THEN ReturnWith(TRUE) ELSE [w EXCEPT !.pc = "lbUnfinalize"]
    /\ UNCHANGED <<kube, cache, fresh, queue, neutron, faults, abandoned>>

RemoveLBFinalizer ==
    /\ w.pc = "lbUnfinalize"
    /\ UpdateLB(w.req, FALSE, ReturnWith(FALSE), ReturnWith(TRUE))
    /\ abandoned' = IF w.fail /\ lb[w.req].fin /\ ~lb'[w.req].fin
                    THEN abandoned \cup {w.req} ELSE abandoned
    /\ UNCHANGED <<svc, cache, queue, neutron>>

=============================================================================
