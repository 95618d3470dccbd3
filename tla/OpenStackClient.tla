---------------------------- MODULE OpenStackClient ----------------------------
(***************************************************************************)
(* pkg/openstack: the calls the controller makes on Neutron, and Neutron's *)
(* own rules as the calls rely on them. A client sees only its project.    *)
(* Fault "neutron" is a failed call without effect, "lostReply" a call     *)
(* that took effect and yet returned an error, "tag" and "tagRead" a       *)
(* failed write and a failed read of a resource's tags.                    *)
(***************************************************************************)
EXTENDS RetryUpdates

(* A client made from an LB's secret acts in the secret's project. *)
NewClient(l) == ProjectOf[l]

VisiblePort(p) == LivePort(p) /\ ports[p].proj = w.client
VisibleFip(f) == LiveFip(f) /\ fips[f].proj = w.client

(* The lists are unfiltered: whatever the project holds. *)
GetAllPorts == {p \in PortIDs : VisiblePort(p)}
GetAllFloatingIPs == {f \in FipIDs : VisibleFip(f)}

(* Neutron never hands out an ID twice. An ID that nothing refers to any   *)
(* longer is as good as a new one, so a few IDs make do for any number of  *)
(* creations; none left is an exhausted quota.                             *)
FreePortID(p) ==
    /\ ~LivePort(p) /\ p \notin abandoned
    /\ \A s \in Services : p \notin {svc[s].portAnn, csvc[s].portAnn, w.snap[s].portAnn}

FreeFipID(f) ==
    /\ ~LiveFip(f) /\ f \notin abandoned \cup w.delF \cup {w.fid}
    /\ \A s \in Services : /\ f \notin {svc[s].fipAnn, csvc[s].fipAnn, w.snap[s].fipAnn}
                           /\ f \notin svc[s].ext \cup csvc[s].ext \cup w.snap[s].ext

(* The network is found from the address: the first subnet that holds it. *)
DetectNetworkForIP(ip) == SubnetOf[ip]

(* Neutron takes a fixed IP that lies in the subnet and is not in use. *)
PortAllowed(ip, net) ==
    /\ SubnetOf[ip] = net
    /\ \A p \in PortIDs : LivePort(p) => ports[p].ip # ip

(* CreatePort up to ports.Create; the tags follow in SetPortTags. *)
CreatePort(s, failed) ==
    \/ \E p \in PortIDs :
        /\ FreePortID(p)
        /\ PortAllowed(w.snap[s].ip, w.mem.net)
        /\ ports' = [ports EXCEPT ![p] =
               [live |-> TRUE, svc |-> s, ip |-> w.snap[s].ip, proj |-> w.client,
                tagged |-> FALSE]]
        /\ \/ w' = [w EXCEPT !.pc = "tagPort", !.pid = p] /\ UNCHANGED faults
           \/ w' = failed /\ Fault("lostReply")
    \/ /\ \/ ~PortAllowed(w.snap[s].ip, w.mem.net)
          \/ \A p \in PortIDs : ~FreePortID(p)
       /\ w' = failed
       /\ UNCHANGED <<ports, faults>>
    \/ /\ Fault("neutron")
       /\ w' = failed
       /\ UNCHANGED ports

(* attributestags.ReplaceAll on the new port: an error is only logged. *)
SetPortTags(p, next) ==
    /\ w' = next
    /\ \/ /\ LivePort(p)
          /\ ports' = [ports EXCEPT ![p].tagged = TRUE]
          /\ UNCHANGED faults
       \/ ~LivePort(p) /\ UNCHANGED <<ports, faults>>
       \/ Fault("tag") /\ UNCHANGED ports

GetFloatingIPByPortID(p) == {f \in FipIDs : VisibleFip(f) /\ fips[f].port = p}

(* CreateFloatingIP: a port takes one floating IP. *)
FipAllowed(p) ==
    VisiblePort(p) /\ \A f \in FipIDs : LiveFip(f) => fips[f].port # p

CreateFloatingIP(s, p, failed) ==
    \/ \E f \in FipIDs :
        /\ FreeFipID(f) /\ FipAllowed(p)
        /\ fips' = [fips EXCEPT ![f] =
               [live |-> TRUE, svc |-> s, port |-> p, proj |-> w.client,
                tagged |-> FALSE]]
        /\ \/ w' = [w EXCEPT !.pc = "tagFip", !.fid = f] /\ UNCHANGED faults
           \/ w' = failed /\ Fault("lostReply")
    \/ /\ ~FipAllowed(p) \/ \A f \in FipIDs : ~FreeFipID(f)
       /\ w' = failed
       /\ UNCHANGED <<fips, faults>>
    \/ /\ Fault("neutron")
       /\ w' = failed
       /\ UNCHANGED fips

SetFipTags(f, next) ==
    /\ w' = next
    /\ \/ /\ LiveFip(f)
          /\ fips' = [fips EXCEPT ![f].tagged = TRUE]
          /\ UNCHANGED faults
       \/ ~LiveFip(f) /\ UNCHANGED <<fips, faults>>
       \/ Fault("tag") /\ UNCHANGED fips

-----------------------------------------------------------------------------
(* Neutron: deleting a port detaches its floating IPs. *)
RemovePort(p) ==
    /\ ports' = [ports EXCEPT ![p] = NoPort]
    /\ fips' = [f \in FipIDs |->
           IF fips[f].port = p THEN [fips[f] EXCEPT !.port = None] ELSE fips[f]]

RemoveFip(f) ==
    /\ fips' = [fips EXCEPT ![f] = NoFip]
    /\ UNCHANGED ports

(* Faulty variant of DeleteFloatingIP: the tags are not looked at. *)
DeleteAnyFloatingIP(f, done, failed) ==
    /\ w' = done
    /\ RemoveFip(f)
    /\ UNCHANGED faults

(* deleteResource: a resource already gone counts as deleted, one without *)
(* the operator's tag is refused, one whose tags cannot be read is deleted. *)
DeletePort(p, done, failed) ==
    \/ /\ ~VisiblePort(p)
       /\ w' = done
       /\ UNCHANGED <<neutron, faults>>
    \/ /\ VisiblePort(p) /\ RemovePort(p)
       /\ \/ w' = done /\ ports[p].tagged /\ UNCHANGED faults
          \/ w' = done /\ ~ports[p].tagged /\ Fault("tagRead")
          \/ w' = failed /\ ports[p].tagged /\ Fault("lostReply")
    \/ /\ VisiblePort(p) /\ ~ports[p].tagged
       /\ w' = failed
       /\ UNCHANGED <<neutron, faults>>
    \/ /\ Fault("neutron")
       /\ w' = failed
       /\ UNCHANGED neutron

DeleteFloatingIP(f, done, failed) ==
    \/ /\ ~VisibleFip(f)
       /\ w' = done
       /\ UNCHANGED <<neutron, faults>>
    \/ /\ VisibleFip(f) /\ RemoveFip(f)
       /\ \/ w' = done /\ fips[f].tagged /\ UNCHANGED faults
          \/ w' = done /\ ~fips[f].tagged /\ Fault("tagRead")
          \/ w' = failed /\ fips[f].tagged /\ Fault("lostReply")
    \/ /\ VisibleFip(f) /\ ~fips[f].tagged
       /\ w' = failed
       /\ UNCHANGED <<neutron, faults>>
    \/ /\ Fault("neutron")
       /\ w' = failed
       /\ UNCHANGED neutron

=============================================================================
