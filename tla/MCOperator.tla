------------------------------ MODULE MCOperator ------------------------------
(***************************************************************************)
(* Small instances of LBOperator for TLC.                                  *)
(***************************************************************************)
EXTENDS CustodyRefinement, TLC

(* Every LB uses one project; every address lies in the same subnet, or all *)
(* but one do.                                                              *)
OneSubnet == [ip \in IPs |-> CHOOSE n \in Subnets : TRUE]
OneOutside == [OneSubnet EXCEPT ![CHOOSE ip \in IPs : TRUE] = None]
OneProject == [l \in LBs |-> CHOOSE p \in Projects : TRUE]

(* Every Service is of the class of every LB. *)
OneClass == Services \X LBs

(* Two LBs of different classes in different projects; every Service is of  *)
(* the class of the first.                                                  *)
FirstLB == CHOOSE l \in LBs : TRUE
FirstClass == Services \X {FirstLB}
TwoTenants ==
    LET p == CHOOSE p \in Projects : TRUE
        q == CHOOSE q \in Projects : q # p
    IN  [l \in LBs |-> IF l = FirstLB THEN p ELSE q]

(* No Service's name occurs in the text written for another one. *)
DistinctNames == {<<s, s>> : s \in Services}

(* One Service's name occurs in the text written for every other one, as   *)
(* "nginx" does in that of "nginx-internal".                               *)
NestedNames ==
    LET short == CHOOSE s \in Services : TRUE
    IN  DistinctNames \cup {<<s, short>> : s \in Services}

(* Nothing tells resource IDs apart, nor Services and their addresses. *)
IDSymmetry == Permutations(PortIDs) \cup Permutations(FipIDs)
Symmetry == IDSymmetry \cup Permutations(Services) \cup Permutations(IPs)

(* A warm start: every LB and every Service exists, has its finalizer, its  *)
(* credentials and its address, and the operator has just started. Init     *)
(* leads there; the runs with two Services begin there.                     *)
WarmService(s, ip) ==
    [NoService(1) EXCEPT !.exists = TRUE, !.fin = TRUE, !.lbType = TRUE, !.ip = ip,
                         !.cred = CHOOSE l \in LBs : <<s, l>> \in Matches]

WarmInit ==
    /\ \E addr \in [Services -> IPs] :
          /\ \A s, t \in Services : s # t => addr[s] # addr[t]
          /\ svc = [s \in Services |-> WarmService(s, addr[s])]
    /\ lb = [l \in LBs |-> [NoLB(1) EXCEPT !.exists = TRUE, !.fin = TRUE,
                                          !.fip = CHOOSE f \in FipChoices : TRUE]]
    /\ csvc = svc /\ clb = lb /\ fresh = Requests /\ queue = Requests
    /\ ports = [p \in PortIDs |-> NoPort] /\ fips = [f \in FipIDs |-> NoFip]
    /\ w = IdleWorker /\ faults = 0 /\ abandoned = {}

WarmSpec == WarmInit /\ [][Next]_vars

=============================================================================
