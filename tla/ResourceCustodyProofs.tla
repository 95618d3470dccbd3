------------------------- MODULE ResourceCustodyProofs -------------------------
(***************************************************************************)
(* What the abstract custody is good for: whoever implements it accounts   *)
(* for every resource.                                                     *)
(***************************************************************************)
EXTENDS ResourceCustody, TLAPS

(* The inductive step, action by action. *)
LEMMA AccountedInductive ==
    ASSUME CustodyTypeOK, Accounted, [Next]_custody
    PROVE  CustodyTypeOK' /\ Accounted'
  <1>1. CASE UNCHANGED custody
    BY <1>1 DEF custody, CustodyTypeOK, Accounted
  <1>2. ASSUME NEW s \in Services, Guard(s)
        PROVE  CustodyTypeOK' /\ Accounted'
    BY <1>2 DEF Guard, CustodyTypeOK, Accounted
  <1>3. ASSUME NEW s \in Services, Release(s)
        PROVE  CustodyTypeOK' /\ Accounted'
    BY <1>3 DEF Release, CustodyTypeOK, Accounted
  <1>4. ASSUME NEW s \in Services, GiveUp(s)
        PROVE  CustodyTypeOK' /\ Accounted'
    BY <1>4 DEF GiveUp, CustodyTypeOK, Accounted
  <1>5. ASSUME NEW s \in Services, NEW r \in Resources, Acquire(s, r)
        PROVE  CustodyTypeOK' /\ Accounted'
    <2>1. CustodyTypeOK'
      BY <1>5 DEF Acquire, CustodyTypeOK
    <2>2. Accounted'
      BY <1>5 DEF Acquire, CustodyTypeOK, Accounted
    <2> QED
      BY <2>1, <2>2
  <1>6. ASSUME NEW s \in Services, NEW r \in Resources, Dispose(s, r)
        PROVE  CustodyTypeOK' /\ Accounted'
    BY <1>6 DEF Dispose, CustodyTypeOK, Accounted
  <1> QED
    BY <1>1, <1>2, <1>3, <1>4, <1>5, <1>6 DEF Next

(* The promise of the custody: a live resource belongs to one Service, and  *)
(* that Service is guarded by the finalizer unless the resource was         *)
(* knowingly given up (what processService and                              *)
(* HandleServiceFinalizationWithForce are there to ensure).                 *)
THEOREM CustodyAccounts == Spec => []Accounted
  <1>1. Init => CustodyTypeOK /\ Accounted
    BY DEF Init, CustodyTypeOK, Accounted
  <1>2. CustodyTypeOK /\ Accounted /\ [Next]_custody => (CustodyTypeOK /\ Accounted)'
    BY AccountedInductive
  <1> QED
    BY <1>1, <1>2, PTL DEF Spec

=============================================================================
