--------------------------- MODULE CustodyRefinement ---------------------------
(***************************************************************************)
(* The operator keeps custody of its resources as ResourceCustody says: a  *)
(* guard is the finalizer on an existing Service, and what a Service holds *)
(* are the live ports and floating IPs made for it.                        *)
(***************************************************************************)
EXTENDS OperatorInvariants

Resources == PortIDs \cup FipIDs

Guarded == {s \in Services : Protected(s)}

HeldPorts(s) == {p \in PortIDs : LivePort(p) /\ ports[p].svc = s}
HeldFips(s) == {f \in FipIDs : LiveFip(f) /\ fips[f].svc = s}

Held == [s \in Services |-> HeldPorts(s) \cup HeldFips(s)]

Lost == abandoned \cap Resources

Custody == INSTANCE ResourceCustody
    WITH guarded <- Guarded, held <- Held, lost <- Lost

(* Every step of the operator, from whatever stale copy it is taken, is a   *)
(* step of the custody (or none): finalizers, creations and deletions come  *)
(* in an order that never leaves a resource unaccounted for.                *)
ImplementsCustody == Custody!Spec

=============================================================================
