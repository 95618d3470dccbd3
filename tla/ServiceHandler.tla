---------------------------- MODULE ServiceHandler ----------------------------
(***************************************************************************)
(* service_handler.go: reconcileService, run for the requests named        *)
(* "service-handler-<service>", and the choice of credentials for a        *)
(* terminating Service.                                                    *)
(***************************************************************************)
EXTENDS Deletion

MatchingLBs(s, lbs) == {l \in LBs : lbs[l].exists /\ <<s, l>> \in Matches}

NeedsFinalizer(s, c) ==
    /\ c.lbType /\ ~c.fin
    /\ MatchingLBs(s, clb) # {} \/ HasResourceAnnotations(c)

(* Faulty variant of ServiceBranch: cleanup without a deletionTimestamp. *)
AlwaysFinalize(s, c) ==
    IF s \in HandlerNames \/ ~c.exists THEN "return" ELSE "svcClient"

(* A name that itself contains "service-handler-" splits into three parts  *)
(* and is taken for a request of another kind.                             *)
ServiceBranch(s, c) ==
    CASE s \in HandlerNames \/ ~c.exists -> "return"
      [] s \notin HandlerNames /\ c.exists /\ c.deleting -> "svcClient"
      [] s \notin HandlerNames /\ c.exists /\ ~c.deleting /\ NeedsFinalizer(s, c)
            -> "handlerFinalizer"
      [] OTHER -> "return"

(* The first matching LB of the list, in whatever order the cache lists. *)
ReconcileService(s) ==
    /\ w.pc = "idle" /\ s \in queue
    /\ queue' = queue \ {s}
    /\ \E m \in (IF MatchingLBs(s, clb) = {} THEN {None} ELSE MatchingLBs(s, clb)) :
          w' = [IdleWorker EXCEPT !.pc = ServiceBranch(s, csvc[s]), !.req = s, !.cur = s,
                                  !.snap = [NoSnap EXCEPT ![s] = csvc[s]], !.match = m]
    /\ UNCHANGED <<kube, cache, fresh, neutron, faults, abandoned>>

EnsureServiceFinalizer ==
    /\ w.pc = "handlerFinalizer"
    /\ UpdateResource(w.cur, [w.snap[w.cur] EXCEPT !.fin = TRUE],
           IF w.match = None THEN ReturnWith(FALSE)
                             ELSE [w EXCEPT !.pc = "handlerCredentials"],
           ReturnWith(TRUE))
    /\ UNCHANGED <<lb, cache, queue, neutron, abandoned>>

UpdateServiceWithCredentials ==
    /\ w.pc = "handlerCredentials"
    /\ UpdateService(w.cur, [csvc[w.cur] EXCEPT !.cred = w.match],
                     ReturnWith(FALSE), ReturnWith(TRUE))
    /\ UNCHANGED <<lb, cache, queue, neutron, abandoned>>

-----------------------------------------------------------------------------
(* getOpenStackClientFromService: the credentials annotated on the Service, *)
(* else those of a matching LB, else those of any LB. (An LB whose client   *)
(* cannot be made is passed over: fault "client".)                          *)
CredentialSources(s, c) ==
    IF c.cred # None THEN {c.cred}
    ELSE IF MatchingLBs(s, clb) # {} THEN MatchingLBs(s, clb)
    ELSE {l \in LBs : clb[l].exists}

ClientFor(l) ==
    IF w.snap[w.cur].fin THEN [w EXCEPT !.pc = "list", !.client = NewClient(l)]
                         ELSE ReturnWith(FALSE)

(* No client: the finalizer goes without a cleanup. *)
NoClient ==
    IF w.snap[w.cur].fin THEN [w EXCEPT !.pc = "unfinalize", !.fail = TRUE]
                         ELSE ReturnWith(TRUE)

GetOpenStackClientFromService ==
    LET sources == CredentialSources(w.cur, w.snap[w.cur]) IN
    /\ w.pc = "svcClient"
    /\ \/ \E l \in sources : w' = ClientFor(l) /\ UNCHANGED faults
       \/ /\ Fault("client") /\ w.snap[w.cur].cred = None
          /\ \E l \in LBs : clb[l].exists /\ w' = ClientFor(l)
       \/ sources = {} /\ w' = NoClient /\ UNCHANGED faults
       \/ Fault("client") /\ w' = NoClient
    /\ UNCHANGED <<kube, cache, fresh, queue, neutron, abandoned>>

=============================================================================
