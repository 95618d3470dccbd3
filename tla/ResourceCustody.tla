---------------------------- MODULE ResourceCustody ----------------------------
(***************************************************************************)
(* What the operator promises about OpenStack resources, without caches,   *)
(* annotations, requests or failed calls: a resource is acquired only on   *)
(* behalf of a guarded Service, and the guard (the finalizer) goes only    *)
(* when nothing is left, or when the operator knowingly gives up on the    *)
(* rest. The operator implements this: see CustodyRefinement.              *)
(***************************************************************************)
CONSTANTS Services, Resources

VARIABLES
    guarded,  \* Services that carry the guard
    held,     \* [Services -> SUBSET Resources]: the live resources of each
    lost      \* resources that were given up

custody == <<guarded, held, lost>>

CustodyTypeOK ==
    /\ guarded \subseteq Services
    /\ held \in [Services -> SUBSET Resources]
    /\ lost \subseteq Resources

Init ==
    /\ guarded \in SUBSET Services
    /\ held = [s \in Services |-> {}]
    /\ lost = {}

Guard(s) ==
    /\ guarded' = guarded \cup {s}
    /\ UNCHANGED <<held, lost>>

Acquire(s, r) ==
    /\ s \in guarded
    /\ r \notin lost /\ \A t \in Services : r \notin held[t]
    /\ held' = [held EXCEPT ![s] = held[s] \cup {r}]
    /\ UNCHANGED <<guarded, lost>>

Dispose(s, r) ==
    /\ held' = [held EXCEPT ![s] = held[s] \ {r}]
    /\ UNCHANGED <<guarded, lost>>

Release(s) ==
    /\ held[s] = {}
    /\ guarded' = guarded \ {s}
    /\ UNCHANGED <<held, lost>>

GiveUp(s) ==
    /\ guarded' = guarded \ {s}
    /\ lost' = lost \cup held[s]
    /\ UNCHANGED held

Next ==
    \E s \in Services :
        \/ Guard(s) \/ Release(s) \/ GiveUp(s)
        \/ \E r \in Resources : Acquire(s, r) \/ Dispose(s, r)

Spec == Init /\ [][Next]_custody

(* Every live resource is accounted for, and belongs to one Service.       *)
Accounted ==
    \A s \in Services : \A r \in held[s] :
        /\ s \in guarded \/ r \in lost
        /\ \A t \in Services : r \in held[t] => t = s

=============================================================================
