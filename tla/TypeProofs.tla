------------------------------ MODULE TypeProofs ------------------------------
(***************************************************************************)
(* Type correctness of the operator, for every value of the constants.     *)
(* TypeOK is not inductive by itself: that a write keeps a Service's type  *)
(* depends on the worker being at work on a Service, with an address, for  *)
(* a load balancer. Control says so, and is carried along.                 *)
(***************************************************************************)
EXTENDS OperatorInvariants, TLAPS

Good(v) == v \in Worker /\ Control(v)

TypeInv == TypeOK /\ ControlInv

-----------------------------------------------------------------------------
(* The program counters by class, so that the sets need not be expanded.   *)

(* No class of program counters contains "idle" or "return". *)
LEMMA PCClasses ==
    /\ LoopPCs \subseteq LBPCs /\ EnsurePCs \subseteq LoopPCs
    /\ LoopPCs \subseteq PCs /\ CleanupPCs \subseteq PCs /\ LBPCs \subseteq PCs
    /\ "delLoop" \notin LoopPCs /\ "idle" \notin LBPCs \cup ServicePCs \cup LoopPCs
    /\ "return" \notin LBPCs \cup ServicePCs \cup LoopPCs
  BY DEF LBPCs, LoopPCs, EnsurePCs, CleanupPCs, DeletePCs, HandlerPCs, ServicePCs, PCs

(* What the type of the worker says about the parts read below. *)
LEMMA WorkerParts ==
    ASSUME NEW v \in Worker
    PROVE  /\ v.pc \in PCs /\ v.req \in Requests \cup {None}
           /\ v.mem \in LoadBalancer /\ v.snap \in [Services -> Service]
           /\ v.todo \subseteq Services /\ v.cur \in Services \cup {None}
           /\ v.match \in LBs \cup {None} /\ v.client \in Projects \cup {None}
           /\ v.pid \in PortIDs \cup {None} /\ v.fid \in FipIDs \cup {None}
           /\ v.delF \subseteq FipIDs /\ v.delP \subseteq PortIDs
           /\ v.fail \in BOOLEAN /\ v.err \in BOOLEAN /\ v.requeue \in BOOLEAN
  BY DEF Worker

(* An OpenStackLoadBalancer that does not exist is well-typed. *)
LEMMA NoLBType ==
    \A u \in Nat : NoLB(u) \in LoadBalancer
  <1>1. [t \in ConditionTypes |-> "Unset"] \in [ConditionTypes -> Reasons]
    BY DEF Reasons
  <1> QED
    BY <1>1 DEF NoLB, LoadBalancer, FipSpecs

(* setCondition keeps the type of the OpenStackLoadBalancer. *)
LEMMA SetConditionType ==
    ASSUME NEW b \in LoadBalancer, NEW type \in ConditionTypes, NEW reason \in Reasons
    PROVE  SetCondition(b, type, reason) \in LoadBalancer
  <1> DEFINE c == [b.cond EXCEPT ![type] = reason]
  <1>1. b.cond \in [ConditionTypes -> Reasons]
    BY DEF LoadBalancer
  <1>2. c \in [ConditionTypes -> Reasons]
    BY <1>1
  <1> HIDE DEF c
  <1>3. [b EXCEPT !.cond = c] \in LoadBalancer
    BY <1>2 DEF LoadBalancer
  <1> QED
    BY <1>3 DEF SetCondition, c

(* The copy of the OpenStackLoadBalancer in memory may change at any point. *)
LEMMA MemGood ==
    ASSUME NEW v, Good(v), NEW m \in LoadBalancer
    PROVE  Good([v EXCEPT !.mem = m])
  <1> DEFINE u == [v EXCEPT !.mem = m]
  <1>1. u \in Worker
    BY DEF Good, Worker
  <1>2. /\ u.pc = v.pc /\ u.req = v.req /\ u.cur = v.cur /\ u.todo = v.todo
        /\ u.snap = v.snap /\ u.fid = v.fid
    BY DEF Good, Worker
  <1> HIDE DEF u
  <1>3. Good(u)
    BY <1>1, <1>2 DEF Good, Control
  <1> QED
    BY <1>3 DEF u

(* The worker between two reconciles is well-typed. *)
LEMMA IdleGood == Good(IdleWorker)
  <1>1. NoLB(0) \in LoadBalancer
    BY NoLBType
  <1>2. NoSnap \in [Services -> Service]
    BY DEF NoSnap, NoService, Service
  <1>3. IdleWorker \in Worker
    BY <1>1, <1>2 DEF IdleWorker, Worker, PCs
  <1>4. IdleWorker.pc = "idle"
    BY DEF IdleWorker
  <1> QED
    BY <1>3, <1>4, PCClasses DEF Good, Control, ServicePCs

(* ReturnWith: any reconcile may return. *)
LEMMA ReturnGood ==
    ASSUME Good(w), w.pc # "idle", NEW rq \in BOOLEAN
    PROVE  Good(ReturnWith(rq))
  <1>1. ReturnWith(rq) \in Worker
    BY DEF ReturnWith, Worker, PCs, Good
  <1>2. ReturnWith(rq).pc = "return" /\ ReturnWith(rq).req = w.req
    BY DEF ReturnWith, Worker, Good
  <1> QED
    BY <1>1, <1>2, PCClasses DEF Good, Control

(* processService returns to the loop with the remaining Services. *)
LEMMA ProcessedGood ==
    ASSUME Good(w), w.pc \in LoopPCs, NEW rq \in BOOLEAN, NEW e \in BOOLEAN
    PROVE  Good(Processed(rq, e))
  <1> DEFINE r == w.requeue \/ rq
             x == w.err \/ e
             v == [w EXCEPT !.pc = "loop", !.cur = None, !.pid = None, !.fid = None,
                            !.requeue = r, !.err = x]
  <1>1. r \in BOOLEAN /\ x \in BOOLEAN
    OBVIOUS
  <1> HIDE DEF r, x
  <1>2. v \in Worker
    BY <1>1 DEF Good, Worker, PCs
  <1>3. v.pc = "loop" /\ v.req = w.req /\ v.todo = w.todo /\ v.snap = w.snap
    BY DEF Good, Worker
  <1>4. Control(v)
    BY <1>3, PCClasses DEF Good, Control, ServicePCs, LoopPCs, EnsurePCs
  <1> QED
    BY <1>2, <1>4 DEF Good, Processed, r, x

(* A step inside the processing of one Service keeps what it relies on. *)
LEMMA EnsureGood ==
    ASSUME Good(w), w.pc \in LoopPCs \ {"loop"}, NEW x \in EnsurePCs,
           NEW p \in PortIDs \cup {None}, NEW f \in FipIDs \cup {None}, NEW m \in LoadBalancer,
           x \in {"tagFip", "annotateFip", "externalIPs"} => f \in FipIDs
    PROVE  Good([w EXCEPT !.pc = x, !.pid = p, !.fid = f, !.mem = m])
  <1> DEFINE v == [w EXCEPT !.pc = x, !.pid = p, !.fid = f, !.mem = m]
  <1>1. v \in Worker
    BY PCClasses DEF Good, Worker
  <1>2. /\ v.pc = x /\ v.req = w.req /\ v.todo = w.todo /\ v.snap = w.snap
        /\ v.cur = w.cur /\ v.fid = f
    BY DEF Good, Worker
  <1>3. w.pc \in ServicePCs /\ w.pc \in LBPCs /\ w.pc # "idle" /\ x \in LoopPCs \ {"loop"}
    BY DEF ServicePCs, LBPCs, LoopPCs, EnsurePCs, CleanupPCs, DeletePCs, HandlerPCs
  <1>4. Control(v)
    BY <1>2, <1>3 DEF Good, Control
  <1> QED
    BY <1>1, <1>4 DEF Good

(* The shorter updates are instances of it. *)
LEMMA EnsureMoves ==
    ASSUME Good(w), w.pc \in LoopPCs \ {"loop"}
    PROVE  /\ \A x \in EnsurePCs \ {"tagFip", "annotateFip", "externalIPs"} :
                 /\ Good([w EXCEPT !.pc = x])
                 /\ \A p \in PortIDs : Good([w EXCEPT !.pc = x, !.pid = p])
                 /\ \A m \in LoadBalancer : Good([w EXCEPT !.pc = x, !.mem = m])
           /\ \A x \in EnsurePCs, f \in FipIDs : Good([w EXCEPT !.pc = x, !.fid = f])
           /\ w.fid \in FipIDs => \A x \in EnsurePCs : Good([w EXCEPT !.pc = x])
  <1> DEFINE V(x, p, f, m) == [w EXCEPT !.pc = x, !.pid = p, !.fid = f, !.mem = m]
  <1>1. w \in Worker
    BY DEF Good
  <1>2. /\ w.pid \in PortIDs \cup {None} /\ w.fid \in FipIDs \cup {None}
        /\ w.mem \in LoadBalancer
    BY <1>1, WorkerParts
  <1>3. ASSUME NEW x
        PROVE  [w EXCEPT !.pc = x] = V(x, w.pid, w.fid, w.mem)
    BY <1>1 DEF Worker
  <1>4. ASSUME NEW x, NEW p
        PROVE  [w EXCEPT !.pc = x, !.pid = p] = V(x, p, w.fid, w.mem)
    BY <1>1 DEF Worker
  <1>5. ASSUME NEW x, NEW m
        PROVE  [w EXCEPT !.pc = x, !.mem = m] = V(x, w.pid, w.fid, m)
    BY <1>1 DEF Worker
  <1>6. ASSUME NEW x, NEW f
        PROVE  [w EXCEPT !.pc = x, !.fid = f] = V(x, w.pid, f, w.mem)
    BY <1>1 DEF Worker
  <1>7. ASSUME NEW x \in EnsurePCs, NEW p \in PortIDs \cup {None},
               NEW f \in FipIDs \cup {None}, NEW m \in LoadBalancer,
               x \in {"tagFip", "annotateFip", "externalIPs"} => f \in FipIDs
        PROVE  Good(V(x, p, f, m))
    BY <1>7, EnsureGood
  <1> HIDE DEF V
  <1>8. ASSUME NEW x \in EnsurePCs,
               x \in {"tagFip", "annotateFip", "externalIPs"} => w.fid \in FipIDs
        PROVE  Good([w EXCEPT !.pc = x])
    BY <1>2, <1>3, <1>7, <1>8
  <1>9. ASSUME NEW x \in EnsurePCs \ {"tagFip", "annotateFip", "externalIPs"},
               NEW p \in PortIDs
        PROVE  Good([w EXCEPT !.pc = x, !.pid = p])
    <2>1. Good(V(x, p, w.fid, w.mem))
      BY <1>2, <1>7
    <2>2. [w EXCEPT !.pc = x, !.pid = p] = V(x, p, w.fid, w.mem)
      BY <1>4
    <2> QED
      BY <2>1, <2>2, Zenon
  <1>10. ASSUME NEW x \in EnsurePCs \ {"tagFip", "annotateFip", "externalIPs"},
                NEW m \in LoadBalancer
         PROVE  Good([w EXCEPT !.pc = x, !.mem = m])
    <2>1. Good(V(x, w.pid, w.fid, m))
      BY <1>2, <1>7
    <2>2. [w EXCEPT !.pc = x, !.mem = m] = V(x, w.pid, w.fid, m)
      BY <1>5
    <2> QED
      BY <2>1, <2>2, Zenon
  <1>11. ASSUME NEW x \in EnsurePCs, NEW f \in FipIDs
         PROVE  Good([w EXCEPT !.pc = x, !.fid = f])
    <2>1. Good(V(x, w.pid, f, w.mem))
      BY <1>2, <1>7
    <2>2. [w EXCEPT !.pc = x, !.fid = f] = V(x, w.pid, f, w.mem)
      BY <1>6
    <2> QED
      BY <2>1, <2>2, Zenon
  <1> QED
    BY <1>8, <1>9, <1>10, <1>11, Zenon

(* WithPort: on to the floating IP, or done with the Service. *)
LEMMA WithPortGood ==
    ASSUME Good(w), w.pc \in LoopPCs \ {"loop"}, NEW p \in PortIDs
    PROVE  Good(WithPort(p))
  BY EnsureMoves, ProcessedGood DEF WithPort, EnsurePCs

-----------------------------------------------------------------------------
(* Cleanup *)

(* A step inside the cleanup of one Service keeps what it relies on. *)
LEMMA CleanupGood ==
    ASSUME Good(w), w.pc \in CleanupPCs \ {"delLoop"}, NEW x \in CleanupPCs \ {"delLoop"},
           NEW df \in SUBSET FipIDs, NEW dp \in SUBSET PortIDs,
           NEW k \in SUBSET {"port", "fip"}, NEW b \in BOOLEAN, NEW c \in Projects \cup {None}
    PROVE  Good([w EXCEPT !.pc = x, !.delF = df, !.delP = dp, !.clr = k, !.fail = b,
                          !.client = c])
  <1> DEFINE v == [w EXCEPT !.pc = x, !.delF = df, !.delP = dp, !.clr = k, !.fail = b,
                            !.client = c]
  <1>1. v \in Worker
    BY PCClasses DEF Good, Worker
  <1>2. v.pc = x /\ v.req = w.req /\ v.cur = w.cur
    BY DEF Good, Worker
  <1>3. /\ w.pc \in ServicePCs /\ w.pc # "idle"
        /\ x \notin LBPCs /\ x \notin LoopPCs
        /\ x \notin {"tagFip", "annotateFip", "externalIPs"}
    BY DEF ServicePCs, LBPCs, LoopPCs, EnsurePCs, CleanupPCs, DeletePCs, HandlerPCs
  <1>4. Control(v)
    BY <1>2, <1>3 DEF Good, Control
  <1> QED
    BY <1>1, <1>4 DEF Good

(* The shorter updates are instances of it. *)
LEMMA CleanupMoves ==
    ASSUME Good(w), w.pc \in CleanupPCs \ {"delLoop"}, NEW x \in CleanupPCs \ {"delLoop"}
    PROVE  /\ Good([w EXCEPT !.pc = x])
           /\ \A b \in BOOLEAN : Good([w EXCEPT !.pc = x, !.fail = b])
           /\ \A c \in Projects : Good([w EXCEPT !.pc = x, !.client = c])
           /\ \A df \in SUBSET FipIDs, dp \in SUBSET PortIDs :
                 Good([w EXCEPT !.pc = x, !.delF = df, !.delP = dp])
  <1> DEFINE V(df, dp, b, c) == [w EXCEPT !.pc = x, !.delF = df, !.delP = dp,
                                          !.clr = w.clr, !.fail = b, !.client = c]
  <1>1. w \in Worker
    BY DEF Good
  <1>2. /\ w.delF \in SUBSET FipIDs /\ w.delP \in SUBSET PortIDs /\ w.fail \in BOOLEAN
        /\ w.clr \in SUBSET {"port", "fip"} /\ w.client \in Projects \cup {None}
    BY <1>1 DEF Worker
  <1>3. ASSUME NEW df \in SUBSET FipIDs, NEW dp \in SUBSET PortIDs,
               NEW b \in BOOLEAN, NEW c \in Projects \cup {None}
        PROVE  Good(V(df, dp, b, c))
    BY <1>2, CleanupGood
  <1>4. Good([w EXCEPT !.pc = x])
    <2>1. [w EXCEPT !.pc = x] = V(w.delF, w.delP, w.fail, w.client)
      BY <1>1 DEF Worker
    <2>2. Good(V(w.delF, w.delP, w.fail, w.client))
      BY <1>2, <1>3
    <2> QED
      BY <2>1, <2>2, Zenon
  <1>5. ASSUME NEW b \in BOOLEAN
        PROVE  Good([w EXCEPT !.pc = x, !.fail = b])
    <2>1. [w EXCEPT !.pc = x, !.fail = b] = V(w.delF, w.delP, b, w.client)
      BY <1>1 DEF Worker
    <2>2. Good(V(w.delF, w.delP, b, w.client))
      BY <1>2, <1>3
    <2> QED
      BY <2>1, <2>2, Zenon
  <1>6. ASSUME NEW c \in Projects
        PROVE  Good([w EXCEPT !.pc = x, !.client = c])
    <2>1. [w EXCEPT !.pc = x, !.client = c] = V(w.delF, w.delP, w.fail, c)
      BY <1>1 DEF Worker
    <2>2. Good(V(w.delF, w.delP, w.fail, c))
      BY <1>2, <1>3
    <2> QED
      BY <2>1, <2>2, Zenon
  <1>7. ASSUME NEW df \in SUBSET FipIDs, NEW dp \in SUBSET PortIDs
        PROVE  Good([w EXCEPT !.pc = x, !.delF = df, !.delP = dp])
    <2>1. [w EXCEPT !.pc = x, !.delF = df, !.delP = dp] = V(df, dp, w.fail, w.client)
      BY <1>1 DEF Worker
    <2>2. Good(V(df, dp, w.fail, w.client))
      BY <1>2, <1>3
    <2> QED
      BY <2>1, <2>2, Zenon
  <1> QED
    BY <1>4, <1>5, <1>6, <1>7, Zenon

(* The updates of one deletion, which keep the program counter. *)
LEMMA DeletedGood ==
    ASSUME Good(w), w.pc \in {"delFips", "delPorts"}
    PROVE  /\ \A f \in FipIDs :
                 Good(FipDeleted(f)) /\ Good([w EXCEPT !.delF = w.delF \ {f}, !.fail = TRUE])
           /\ \A p \in PortIDs :
                 Good(PortDeleted(p)) /\ Good([w EXCEPT !.delP = w.delP \ {p}, !.fail = TRUE])
  <1> DEFINE V(df, dp, k, b) == [w EXCEPT !.pc = w.pc, !.delF = df, !.delP = dp, !.clr = k,
                                          !.fail = b, !.client = w.client]
  <1>1. w \in Worker
    BY DEF Good
  <1>2. /\ w.delF \in SUBSET FipIDs /\ w.delP \in SUBSET PortIDs /\ w.fail \in BOOLEAN
        /\ w.clr \in SUBSET {"port", "fip"} /\ w.client \in Projects \cup {None}
        /\ w.pc \in CleanupPCs \ {"delLoop"}
    BY <1>1 DEF Worker, CleanupPCs, DeletePCs
  <1>3. ASSUME NEW df \in SUBSET FipIDs, NEW dp \in SUBSET PortIDs,
               NEW k \in SUBSET {"port", "fip"}, NEW b \in BOOLEAN
        PROVE  Good(V(df, dp, k, b))
    BY <1>2, CleanupGood
  <1>4. ASSUME NEW f \in FipIDs
        PROVE  Good(FipDeleted(f)) /\ Good([w EXCEPT !.delF = w.delF \ {f}, !.fail = TRUE])
    <2> DEFINE k == IF f = w.snap[w.cur].fipAnn THEN w.clr \cup {"fip"} ELSE w.clr
               df == w.delF \ {f}
    <2>1. k \in SUBSET {"port", "fip"} /\ df \in SUBSET FipIDs
      BY <1>2
    <2> HIDE DEF k, df
    <2>2. [w EXCEPT !.delF = df, !.clr = k] = V(df, w.delP, k, w.fail)
      BY <1>1 DEF Worker
    <2>3. [w EXCEPT !.delF = df, !.fail = TRUE] = V(df, w.delP, w.clr, TRUE)
      BY <1>1 DEF Worker
    <2>4. Good(V(df, w.delP, k, w.fail)) /\ Good(V(df, w.delP, w.clr, TRUE))
      BY <1>2, <1>3, <2>1
    <2> QED
      BY <2>2, <2>3, <2>4, Zenon DEF FipDeleted, k, df
  <1>5. ASSUME NEW p \in PortIDs
        PROVE  Good(PortDeleted(p)) /\ Good([w EXCEPT !.delP = w.delP \ {p}, !.fail = TRUE])
    <2> DEFINE k == IF p = w.snap[w.cur].portAnn THEN w.clr \cup {"port"} ELSE w.clr
               dp == w.delP \ {p}
    <2>1. k \in SUBSET {"port", "fip"} /\ dp \in SUBSET PortIDs
      BY <1>2
    <2> HIDE DEF k, dp
    <2>2. [w EXCEPT !.delP = dp, !.clr = k] = V(w.delF, dp, k, w.fail)
      BY <1>1 DEF Worker
    <2>3. [w EXCEPT !.delP = dp, !.fail = TRUE] = V(w.delF, dp, w.clr, TRUE)
      BY <1>1 DEF Worker
    <2>4. Good(V(w.delF, dp, k, w.fail)) /\ Good(V(w.delF, dp, w.clr, TRUE))
      BY <1>2, <1>3, <2>1
    <2> QED
      BY <2>2, <2>3, <2>4, Zenon DEF PortDeleted, k, dp
  <1> QED
    BY <1>4, <1>5, Zenon

(* ServiceHandled: the next Service of a deletion, or the end. *)
LEMMA ServiceHandledGood ==
    ASSUME Good(w), w.pc \in CleanupPCs, NEW rq \in BOOLEAN
    PROVE  Good(ServiceHandled(rq))
  <1>1. CASE w.req \in LBs
    <2> DEFINE r == w.requeue \/ rq
               v == [w EXCEPT !.pc = "delLoop", !.cur = None, !.delF = {}, !.delP = {},
                              !.clr = {}, !.fail = FALSE, !.requeue = r]
    <2>1. r \in BOOLEAN
      OBVIOUS
    <2> HIDE DEF r
    <2>2. v \in Worker
      BY <2>1 DEF Good, Worker, PCs
    <2>3. v.pc = "delLoop" /\ v.req = w.req
      BY DEF Good, Worker
    <2>4. "delLoop" \notin ServicePCs \cup LoopPCs
      BY DEF ServicePCs, LoopPCs, EnsurePCs
    <2>5. Control(v)
      BY <1>1, <2>3, <2>4 DEF Control, Requests
    <2> QED
      BY <1>1, <2>2, <2>5 DEF Good, ServiceHandled, r
  <1>2. CASE w.req \notin LBs
    <2>1. w.pc # "idle"
      BY DEF CleanupPCs, DeletePCs
    <2> QED
      BY <1>2, <2>1, ReturnGood DEF ServiceHandled
  <1> QED
    BY <1>1, <1>2

(* CleanupReturns: to the removal of the finalizer, or done. *)
LEMMA CleanupReturnsGood ==
    ASSUME Good(w), w.pc \in CleanupPCs \ {"delLoop"}, NEW failed \in BOOLEAN
    PROVE  Good(CleanupReturns(failed))
  <1> DEFINE c == w.snap[w.cur]
             h == failed \/ HasResourceAnnotations(c)
  <1>1. h \in BOOLEAN
    BY DEF HasResourceAnnotations
  <1> HIDE DEF h
  <1>2. Good(ServiceHandled(h)) /\ Good(ServiceHandled(TRUE))
    BY <1>1, ServiceHandledGood
  <1>3. "force" \in CleanupPCs \ {"delLoop"} /\ "unfinalize" \in CleanupPCs \ {"delLoop"}
    BY DEF CleanupPCs, DeletePCs
  <1>4. Good([w EXCEPT !.pc = "force", !.fail = failed]) /\ Good([w EXCEPT !.pc = "unfinalize"])
    BY <1>3, CleanupMoves
  <1> QED
    BY <1>2, <1>4 DEF CleanupReturns, h

(* The client of the service handler, or the lack of one. *)
LEMMA ClientGood ==
    ASSUME Good(w), w.pc = "svcClient"
    PROVE  Good(NoClient) /\ \A l \in LBs : Good(ClientFor(l))
  <1>1. /\ w.pc \in CleanupPCs \ {"delLoop"}
        /\ "list" \in CleanupPCs \ {"delLoop"} /\ "unfinalize" \in CleanupPCs \ {"delLoop"}
    BY DEF CleanupPCs, DeletePCs
  <1>2. Good(ReturnWith(TRUE)) /\ Good(ReturnWith(FALSE))
    BY ReturnGood
  <1>3. Good([w EXCEPT !.pc = "unfinalize", !.fail = TRUE])
    BY <1>1, CleanupMoves
  <1>4. ASSUME NEW l \in LBs
        PROVE  Good(ClientFor(l))
    <2>1. ProjectOf[l] \in Projects
      BY TablesAssumption
    <2>2. Good([w EXCEPT !.pc = "list", !.client = ProjectOf[l]])
      BY <1>1, <2>1, CleanupMoves
    <2> QED
      BY <1>2, <2>2 DEF ClientFor, NewClient
  <1> QED
    BY <1>2, <1>3, <1>4 DEF NoClient


-----------------------------------------------------------------------------
(* Writes to the API server and calls to Neutron *)

(* The fault counter stays within its bound. *)
LEMMA FaultType ==
    ASSUME faults \in 0 .. MaxFaults, NEW k, Fault(k)
    PROVE  faults' \in 0 .. MaxFaults
  BY BoundsAssumption DEF Fault

(* Writing a Service keeps the types. *)
LEMMA WriteServiceType ==
    ASSUME TypeOK, NEW s \in Services, NEW c \in Service, WriteService(s, c)
    PROVE  svc' \in [Services -> Service] /\ fresh' \subseteq Requests
  <1>1. Settle(c) \in Service
    BY DEF Settle, Service, NoService
  <1> QED
    BY <1>1 DEF WriteService, TypeOK

(* Writing an OpenStackLoadBalancer keeps the types. *)
LEMMA WriteLBType ==
    ASSUME TypeOK, NEW l \in LBs, NEW b \in LoadBalancer, WriteLB(l, b)
    PROVE  lb' \in [LBs -> LoadBalancer] /\ fresh' \subseteq Requests
  <1>1. b.uid \in Nat
    BY DEF LoadBalancer
  <1>2. SettleLB(b) \in LoadBalancer
    BY <1>1, NoLBType DEF SettleLB
  <1> QED
    BY <1>2 DEF WriteLB, TypeOK

(* A write that took effect, with or without its reply. *)
LEMMA WrittenType ==
    ASSUME faults \in 0 .. MaxFaults, NEW done, NEW failed, Good(done), Good(failed),
           Written(done, failed)
    PROVE  Good(w') /\ faults' \in 0 .. MaxFaults
  BY FaultType DEF Written

(* The retrying updates of a Service keep the types. *)
LEMMA UpdateServiceType ==
    ASSUME TypeOK, NEW s \in Services, NEW c \in Service, NEW done, NEW failed,
           Good(done), Good(failed), UpdateService(s, c, done, failed)
    PROVE  /\ svc' \in [Services -> Service] /\ fresh' \subseteq Requests
           /\ Good(w') /\ faults' \in 0 .. MaxFaults
  <1>1. faults \in 0 .. MaxFaults /\ svc \in [Services -> Service] /\ fresh \subseteq Requests
    BY DEF TypeOK
  <1> QED
    BY <1>1, WriteServiceType, WrittenType, FaultType DEF UpdateService

(* updateResourceWithRetry on a Service keeps the types. *)
LEMMA UpdateResourceType ==
    ASSUME TypeOK, NEW s \in Services, NEW obj \in Service, NEW done, NEW failed,
           Good(done), Good(failed), UpdateResource(s, obj, done, failed)
    PROVE  /\ svc' \in [Services -> Service] /\ fresh' \subseteq Requests
           /\ Good(w') /\ faults' \in 0 .. MaxFaults
  <1>1. Overwrite(svc[s], obj) \in Service
    BY DEF TypeOK, Overwrite, Service
  <1>2. faults \in 0 .. MaxFaults /\ svc \in [Services -> Service] /\ fresh \subseteq Requests
    BY DEF TypeOK
  <1> QED
    BY <1>1, <1>2, WriteServiceType, WrittenType, FaultType DEF UpdateResource

(* updateResourceWithRetry on an OpenStackLoadBalancer keeps the types. *)
LEMMA UpdateLBType ==
    ASSUME TypeOK, NEW l \in LBs, NEW hasFin \in BOOLEAN, NEW done, NEW failed,
           Good(done), Good(failed), UpdateLB(l, hasFin, done, failed)
    PROVE  /\ lb' \in [LBs -> LoadBalancer] /\ fresh' \subseteq Requests
           /\ Good(w') /\ faults' \in 0 .. MaxFaults
  <1>1. w.mem \in LoadBalancer /\ lb[l] \in LoadBalancer
    BY WorkerParts DEF TypeOK
  <1>2. [lb[l] EXCEPT !.fin = hasFin, !.fip = w.mem.fip] \in LoadBalancer
    BY <1>1 DEF LoadBalancer
  <1>3. faults \in 0 .. MaxFaults /\ lb \in [LBs -> LoadBalancer] /\ fresh \subseteq Requests
    BY DEF TypeOK
  <1> QED
    BY <1>2, <1>3, WriteLBType, WrittenType, FaultType DEF UpdateLB

(* updateStatusWithRetry keeps the types. *)
LEMMA UpdateStatusType ==
    ASSUME TypeOK, NEW l \in LBs, NEW done, NEW failed,
           Good(done), Good(failed), UpdateStatus(l, done, failed)
    PROVE  /\ lb' \in [LBs -> LoadBalancer] /\ fresh' \subseteq Requests
           /\ Good(w') /\ faults' \in 0 .. MaxFaults
  <1>1. w.mem \in LoadBalancer /\ lb[l] \in LoadBalancer
    BY WorkerParts DEF TypeOK
  <1>2. [lb[l] EXCEPT !.net = w.mem.net, !.ready = w.mem.ready, !.cond = w.mem.cond]
            \in LoadBalancer
    BY <1>1 DEF LoadBalancer
  <1>3. faults \in 0 .. MaxFaults /\ lb \in [LBs -> LoadBalancer] /\ fresh \subseteq Requests
    BY DEF TypeOK
  <1> QED
    BY <1>2, <1>3, WriteLBType, WrittenType, FaultType DEF UpdateStatus

(* Removing a port or a floating IP keeps the types. *)
LEMMA RemoveType ==
    ASSUME TypeOK
    PROVE  /\ \A p \in PortIDs : RemovePort(p) =>
                 ports' \in [PortIDs -> Port] /\ fips' \in [FipIDs -> Fip]
           /\ \A f \in FipIDs : RemoveFip(f) =>
                 ports' \in [PortIDs -> Port] /\ fips' \in [FipIDs -> Fip]
  <1>1. NoPort \in Port /\ NoFip \in Fip
    BY DEF NoPort, NoFip, Port, Fip
  <1>2. ASSUME NEW f \in FipIDs
        PROVE  [fips[f] EXCEPT !.port = None] \in Fip
    BY DEF TypeOK, Fip
  <1> QED
    BY <1>1, <1>2 DEF RemovePort, RemoveFip, TypeOK

(* Deleting through the client keeps the types. *)
LEMMA DeleteType ==
    ASSUME TypeOK, NEW done, NEW failed, Good(done), Good(failed),
           \/ \E p \in PortIDs : DeletePort(p, done, failed)
           \/ \E f \in FipIDs : DeleteFloatingIP(f, done, failed)
    PROVE  /\ ports' \in [PortIDs -> Port] /\ fips' \in [FipIDs -> Fip]
           /\ Good(w') /\ faults' \in 0 .. MaxFaults
  <1>1. /\ ports \in [PortIDs -> Port] /\ fips \in [FipIDs -> Fip]
        /\ faults \in 0 .. MaxFaults
    BY DEF TypeOK
  <1>2. ASSUME NEW p \in PortIDs, DeletePort(p, done, failed)
        PROVE  /\ ports' \in [PortIDs -> Port] /\ fips' \in [FipIDs -> Fip]
               /\ Good(w') /\ faults' \in 0 .. MaxFaults
    BY <1>1, <1>2, RemoveType, FaultType DEF DeletePort, neutron
  <1>3. ASSUME NEW f \in FipIDs, DeleteFloatingIP(f, done, failed)
        PROVE  /\ ports' \in [PortIDs -> Port] /\ fips' \in [FipIDs -> Fip]
               /\ Good(w') /\ faults' \in 0 .. MaxFaults
    BY <1>1, <1>3, RemoveType, FaultType DEF DeleteFloatingIP, neutron
  <1> QED
    BY <1>2, <1>3

(* Creating a port keeps the types. *)
LEMMA CreatePortType ==
    ASSUME TypeOK, ControlInv, w.pc = "port", NEW failed, Good(failed),
           CreatePort(w.cur, failed)
    PROVE  ports' \in [PortIDs -> Port] /\ Good(w') /\ faults' \in 0 .. MaxFaults
  <1>1. Good(w) /\ w.pc \in LoopPCs \ {"loop"}
    BY DEF TypeOK, ControlInv, Good, LoopPCs, EnsurePCs
  <1>2. w.cur \in Services
    BY <1>1, PCClasses DEF Good, Control, ServicePCs
  <1>3. w.snap[w.cur].ip \in IPs \cup {None} /\ w.client \in Projects \cup {None}
    BY <1>1, <1>2, WorkerParts DEF Good, Service
  <1>4. [live |-> TRUE, svc |-> w.cur, ip |-> w.snap[w.cur].ip, proj |-> w.client,
         tagged |-> FALSE] \in Port
    BY <1>2, <1>3 DEF Port
  <1>5. ASSUME NEW p \in PortIDs
        PROVE  Good([w EXCEPT !.pc = "tagPort", !.pid = p])
    BY <1>1, EnsureMoves DEF EnsurePCs
  <1> QED
    BY <1>4, <1>5, FaultType DEF CreatePort, TypeOK

(* Creating a floating IP keeps the types. *)
LEMMA CreateFipType ==
    ASSUME TypeOK, ControlInv, w.pc = "createFip", NEW failed, Good(failed),
           CreateFloatingIP(w.cur, w.pid, failed)
    PROVE  fips' \in [FipIDs -> Fip] /\ Good(w') /\ faults' \in 0 .. MaxFaults
  <1>1. Good(w) /\ w.pc \in LoopPCs \ {"loop"}
    BY DEF TypeOK, ControlInv, Good, LoopPCs, EnsurePCs
  <1>2. /\ w.cur \in Services \cup {None} /\ w.pid \in PortIDs \cup {None}
        /\ w.client \in Projects \cup {None}
    BY <1>1, WorkerParts DEF Good
  <1>4. [live |-> TRUE, svc |-> w.cur, port |-> w.pid, proj |-> w.client,
         tagged |-> FALSE] \in Fip
    BY <1>2 DEF Fip
  <1>5. ASSUME NEW f \in FipIDs
        PROVE  Good([w EXCEPT !.pc = "tagFip", !.fid = f])
    BY <1>1, EnsureMoves DEF EnsurePCs
  <1> QED
    BY <1>4, <1>5, FaultType DEF CreateFloatingIP, TypeOK

(* Writing the tags keeps the types. *)
LEMMA TagType ==
    ASSUME TypeOK, NEW next, Good(next)
    PROVE  /\ SetPortTags(w.pid, next) =>
                 ports' \in [PortIDs -> Port] /\ Good(w') /\ faults' \in 0 .. MaxFaults
           /\ SetFipTags(w.fid, next) =>
                 fips' \in [FipIDs -> Fip] /\ Good(w') /\ faults' \in 0 .. MaxFaults
  <1>1. /\ ports \in [PortIDs -> Port] /\ fips \in [FipIDs -> Fip]
        /\ faults \in 0 .. MaxFaults
    BY DEF TypeOK
  <1>2. [ports EXCEPT ![w.pid].tagged = TRUE] \in [PortIDs -> Port]
    BY <1>1 DEF Port
  <1>3. [fips EXCEPT ![w.fid].tagged = TRUE] \in [FipIDs -> Fip]
    BY <1>1 DEF Fip
  <1> QED
    BY <1>1, <1>2, <1>3, FaultType DEF SetPortTags, SetFipTags


-----------------------------------------------------------------------------
(* The actions *)

(* Users and other controllers keep the types; the worker does not move. *)
LEMMA EnvironmentType ==
    ASSUME TypeOK, Good(w), Environment
    PROVE  TypeOK' /\ Good(w')
  <1>1. \A s \in Services : svc[s] \in Service
    BY DEF TypeOK
  <1>2. \A l \in LBs : lb[l] \in LoadBalancer
    BY DEF TypeOK
  <1>3. faults \in 0 .. MaxFaults
    BY DEF TypeOK
  <1>4. ASSUME NEW s \in Services, CreateService(s)
        PROVE  TypeOK' /\ Good(w')
    <2>1. svc[s].uid + 1 \in Nat
      BY <1>1 DEF Service
    <2>2. [NoService(svc[s].uid + 1) EXCEPT !.exists = TRUE, !.lbType = TRUE] \in Service
      BY <2>1 DEF NoService, Service
    <2> QED
      BY <1>4, <2>2, WriteServiceType DEF CreateService, Outside, TypeOK, cache, neutron
  <1>5. ASSUME NEW s \in Services, AssignIP(s)
        PROVE  TypeOK' /\ Good(w')
    <2>1. PICK ip \in IPs : WriteService(s, [svc[s] EXCEPT !.ip = ip])
      BY <1>5 DEF AssignIP
    <2>2. [svc[s] EXCEPT !.ip = ip] \in Service
      BY <1>1 DEF Service
    <2> QED
      BY <1>5, <2>1, <2>2, WriteServiceType DEF AssignIP, Outside, TypeOK, cache, neutron
  <1>6. ASSUME NEW s \in Services, DeleteService(s)
        PROVE  TypeOK' /\ Good(w')
    <2>1. [svc[s] EXCEPT !.deleting = TRUE] \in Service
      BY <1>1 DEF Service
    <2> QED
      BY <1>6, <2>1, WriteServiceType DEF DeleteService, Outside, TypeOK, cache, neutron
  <1>7. ASSUME NEW s \in Services, EditService(s)
        PROVE  TypeOK' /\ Good(w')
    <2>1. [svc[s] EXCEPT !.lbType = FALSE, !.ip = None] \in Service
      BY <1>1 DEF Service
    <2>2. faults' \in 0 .. MaxFaults
      BY <1>3, <1>7, FaultType DEF EditService
    <2> QED
      BY <1>7, <2>1, <2>2, WriteServiceType DEF EditService, Outside, TypeOK, cache, neutron
  <1>8. ASSUME NEW s \in Services, AddOtherFinalizer(s)
        PROVE  TypeOK' /\ Good(w')
    <2>1. [svc[s] EXCEPT !.otherFin = TRUE] \in Service
      BY <1>1 DEF Service
    <2>2. faults' \in 0 .. MaxFaults
      BY <1>3, <1>8, FaultType DEF AddOtherFinalizer
    <2> QED
      BY <1>8, <2>1, <2>2, WriteServiceType
         DEF AddOtherFinalizer, Outside, TypeOK, cache, neutron
  <1>9. ASSUME NEW s \in Services, RemoveOtherFinalizer(s)
        PROVE  TypeOK' /\ Good(w')
    <2>1. [svc[s] EXCEPT !.otherFin = FALSE] \in Service
      BY <1>1 DEF Service
    <2> QED
      BY <1>9, <2>1, WriteServiceType
         DEF RemoveOtherFinalizer, Outside, TypeOK, cache, neutron
  <1>10. ASSUME NEW l \in LBs, CreateLB(l)
         PROVE  TypeOK' /\ Good(w')
    <2>1. PICK f \in FipChoices :
              WriteLB(l, [NoLB(lb[l].uid + 1) EXCEPT !.exists = TRUE, !.fip = f])
      BY <1>10 DEF CreateLB
    <2>2. f \in FipSpecs /\ lb[l].uid + 1 \in Nat
      BY <1>2, BoundsAssumption DEF LoadBalancer
    <2>3. [NoLB(lb[l].uid + 1) EXCEPT !.exists = TRUE, !.fip = f] \in LoadBalancer
      <3>1. NoLB(lb[l].uid + 1) \in LoadBalancer
        BY <2>2, NoLBType
      <3> QED
        BY <2>2, <3>1 DEF LoadBalancer
    <2> QED
      BY <1>10, <2>1, <2>3, WriteLBType DEF CreateLB, Outside, TypeOK, cache, neutron
  <1>11. ASSUME NEW l \in LBs, DeleteLB(l)
         PROVE  TypeOK' /\ Good(w')
    <2>1. [lb[l] EXCEPT !.deleting = TRUE] \in LoadBalancer
      BY <1>2 DEF LoadBalancer
    <2> QED
      BY <1>11, <2>1, WriteLBType DEF DeleteLB, Outside, TypeOK, cache, neutron
  <1>12. ASSUME NEW p \in PortIDs, DeletePortOutside(p)
         PROVE  TypeOK' /\ Good(w')
    <2>1. faults' \in 0 .. MaxFaults
      BY <1>3, <1>12, FaultType DEF DeletePortOutside
    <2> QED
      BY <1>12, <2>1, RemoveType DEF DeletePortOutside, Outside, TypeOK, kube, cache
  <1>13. ASSUME NEW f \in FipIDs, DeleteFipOutside(f)
         PROVE  TypeOK' /\ Good(w')
    <2>1. faults' \in 0 .. MaxFaults
      BY <1>3, <1>13, FaultType DEF DeleteFipOutside
    <2> QED
      BY <1>13, <2>1, RemoveType DEF DeleteFipOutside, Outside, TypeOK, kube, cache
  <1>14. ASSUME NEW p \in PortIDs, AttachUserFip(p)
         PROVE  TypeOK' /\ Good(w')
    <2>1. faults' \in 0 .. MaxFaults
      BY <1>3, <1>14, FaultType DEF AttachUserFip
    <2>2. ports[p].proj \in Projects \cup {None}
      BY DEF TypeOK, Port
    <2>3. [live |-> TRUE, svc |-> None, port |-> p, proj |-> ports[p].proj,
           tagged |-> FALSE] \in Fip
      BY <2>2 DEF Fip
    <2>4. fips' \in [FipIDs -> Fip]
      BY <1>14, <2>3 DEF AttachUserFip, TypeOK
    <2> QED
      BY <1>14, <2>1, <2>4 DEF AttachUserFip, Outside, TypeOK, kube, cache
  <1>15. ASSUME NEW s \in Services, ReassignIP(s)
         PROVE  TypeOK' /\ Good(w')
    <2>1. PICK ip \in IPs : WriteService(s, [svc[s] EXCEPT !.ip = ip])
      BY <1>15 DEF ReassignIP
    <2>2. [svc[s] EXCEPT !.ip = ip] \in Service
      BY <1>1 DEF Service
    <2>3. faults' \in 0 .. MaxFaults
      BY <1>3, <1>15, FaultType DEF ReassignIP
    <2> QED
      BY <1>15, <2>1, <2>2, <2>3, WriteServiceType
         DEF ReassignIP, Outside, TypeOK, cache, neutron
  <1>16. ASSUME NEW l \in LBs, EditLB(l)
         PROVE  TypeOK' /\ Good(w')
    <2>1. PICK f \in FipSpecs : WriteLB(l, [lb[l] EXCEPT !.fip = f])
      BY <1>16 DEF EditLB
    <2>2. [lb[l] EXCEPT !.fip = f] \in LoadBalancer
      BY <1>2 DEF LoadBalancer
    <2>3. faults' \in 0 .. MaxFaults
      BY <1>3, <1>16, FaultType DEF EditLB
    <2> QED
      BY <1>16, <2>1, <2>2, <2>3, WriteLBType DEF EditLB, Outside, TypeOK, cache, neutron
  <1> QED
    BY <1>4, <1>5, <1>6, <1>7, <1>8, <1>9, <1>10, <1>11, <1>12, <1>13, <1>14, <1>15, <1>16
       DEF Environment


(* The steps of processService, up to and including the port. *)
LEMMA ServiceStepsType ==
    ASSUME TypeOK, Good(w), w.pc \in LoopPCs \ {"loop"},
           \/ EnsureServiceHasFinalizer \/ EnsureServiceHasCredentials
           \/ DetectNetworkForLB \/ VerifyPort \/ ClearPortAnnotation
           \/ EnsurePortExists \/ TagPort \/ AnnotatePort
    PROVE  TypeOK' /\ Good(w')
  <1>1. w \in Worker /\ w.cur \in Services /\ w.req \in LBs
    BY PCClasses DEF Good, Control, ServicePCs
  <1>2. /\ w.snap[w.cur] \in Service /\ csvc[w.cur] \in Service /\ w.mem \in LoadBalancer
        /\ w.pid \in PortIDs \cup {None}
    BY <1>1, WorkerParts DEF TypeOK
  <1>3. \A rq, e \in BOOLEAN : Good(Processed(rq, e))
    BY ProcessedGood
  <1>4. Good(Processed(TRUE, TRUE)) /\ Good(Processed(TRUE, FALSE))
    BY <1>3
  <1>5. faults \in 0 .. MaxFaults
    BY DEF TypeOK
  <1>6. CASE EnsureServiceHasFinalizer
    <2>1. [w.snap[w.cur] EXCEPT !.fin = TRUE] \in Service
      BY <1>2 DEF Service
    <2>2. /\ svc' \in [Services -> Service] /\ fresh' \subseteq Requests
          /\ Good(w') /\ faults' \in 0 .. MaxFaults
      BY <1>1, <1>4, <1>6, <2>1, UpdateResourceType DEF EnsureServiceHasFinalizer
    <2> QED
      BY <1>6, <2>2 DEF EnsureServiceHasFinalizer, TypeOK, Good, cache, neutron
  <1>7. CASE EnsureServiceHasCredentials
    <2>1. [csvc[w.cur] EXCEPT !.cred = w.req] \in Service
      BY <1>1, <1>2 DEF Service
    <2>2. AfterCredentials \in EnsurePCs \ {"tagFip", "annotateFip", "externalIPs"}
      BY DEF AfterCredentials, EnsurePCs
    <2>3. Good([w EXCEPT !.pc = AfterCredentials])
      BY <2>2, EnsureMoves
    <2>4. /\ svc' \in [Services -> Service] /\ fresh' \subseteq Requests
          /\ Good(w') /\ faults' \in 0 .. MaxFaults
      BY <1>1, <1>4, <1>7, <2>1, <2>3, UpdateServiceType DEF EnsureServiceHasCredentials
    <2> QED
      BY <1>7, <2>4 DEF EnsureServiceHasCredentials, TypeOK, Good, cache, neutron
  <1>8. CASE DetectNetworkForLB
    <2> DEFINE subnet == SubnetOf[w.snap[w.cur].ip]
    <2>1. w.snap[w.cur].ip \in IPs
      BY <1>2 DEF Good, Control, Service
    <2>2. subnet \in Subnets \cup {None}
      BY <2>1, TablesAssumption
    <2> HIDE DEF subnet
    <2>3. [w.mem EXCEPT !.net = subnet] \in LoadBalancer
      BY <1>2, <2>2 DEF LoadBalancer
    <2> DEFINE found == SetCondition([w.mem EXCEPT !.net = subnet],
                                     "NetworkDetected", "NetworkDetected")
               lost == SetCondition(w.mem, "NetworkDetected", "NetworkDetectionFailed")
    <2>4. found \in LoadBalancer /\ lost \in LoadBalancer
      BY <1>2, <2>3, SetConditionType DEF ConditionTypes, Reasons
    <2> HIDE DEF found, lost
    <2>5. Good([w EXCEPT !.pc = "port", !.mem = found])
      BY <2>4, EnsureMoves DEF EnsurePCs
    <2>6. Good([Processed(TRUE, TRUE) EXCEPT !.mem = lost])
      BY <1>4, <2>4, MemGood
    <2>7. Good(w') /\ faults' \in 0 .. MaxFaults
      BY <1>5, <1>8, <2>5, <2>6, FaultType
         DEF DetectNetworkForLB, DetectNetworkForIP, subnet, found, lost
    <2> QED
      BY <1>8, <2>7 DEF DetectNetworkForLB, TypeOK, Good, kube, cache, neutron
  <1>9. CASE VerifyPort
    <2> DEFINE p == w.snap[w.cur].portAnn
    <2>1. p \in PortIDs
      BY <1>2, <1>9 DEF VerifyPort, Service
    <2> HIDE DEF p
    <2>2. Good(WithPort(p)) /\ Good([w EXCEPT !.pc = "clearPort"])
      BY <2>1, WithPortGood, EnsureMoves DEF EnsurePCs
    <2>3. Good(w') /\ faults' \in 0 .. MaxFaults
      BY <1>4, <1>5, <1>9, <2>2, FaultType DEF VerifyPort, p
    <2> QED
      BY <1>9, <2>3 DEF VerifyPort, TypeOK, Good, kube, cache, neutron
  <1>10. CASE ClearPortAnnotation
    <2>1. [csvc[w.cur] EXCEPT !.portAnn = None] \in Service
      BY <1>2 DEF Service
    <2>2. /\ svc' \in [Services -> Service] /\ fresh' \subseteq Requests
          /\ Good(w') /\ faults' \in 0 .. MaxFaults
      BY <1>1, <1>4, <1>10, <2>1, UpdateServiceType DEF ClearPortAnnotation
    <2> QED
      BY <1>10, <2>2 DEF ClearPortAnnotation, TypeOK, Good, cache, neutron
  <1>11. CASE EnsurePortExists
    BY <1>4, <1>11, CreatePortType
       DEF EnsurePortExists, TypeOK, Good, ControlInv, kube, cache
  <1>12. CASE TagPort
    <2>1. Good([w EXCEPT !.pc = "annotatePort"])
      BY EnsureMoves DEF EnsurePCs
    <2>2. ports' \in [PortIDs -> Port] /\ Good(w') /\ faults' \in 0 .. MaxFaults
      BY <1>12, <2>1, TagType DEF TagPort
    <2> QED
      BY <1>12, <2>2 DEF TagPort, TypeOK, Good, kube, cache
  <1>13. CASE AnnotatePort
    <2>1. [csvc[w.cur] EXCEPT !.portAnn = w.pid] \in Service
      BY <1>2 DEF Service
    <2>2. Good(WithPort(w.pid))
      <3>1. "fip" \in EnsurePCs \ {"tagFip", "annotateFip", "externalIPs"}
        BY DEF EnsurePCs
      <3>2. [w EXCEPT !.pc = "fip", !.pid = w.pid] = [w EXCEPT !.pc = "fip"]
        BY <1>1 DEF Worker
      <3>3. Good([w EXCEPT !.pc = "fip"])
        BY <3>1, EnsureMoves
      <3>4. Good([w EXCEPT !.pc = "fip", !.pid = w.pid])
        BY <3>2, <3>3, Zenon
      <3> QED
        BY <1>3, <3>4 DEF WithPort
    <2>3. /\ svc' \in [Services -> Service] /\ fresh' \subseteq Requests
          /\ Good(w') /\ faults' \in 0 .. MaxFaults
      BY <1>1, <1>4, <1>13, <2>1, <2>2, UpdateServiceType DEF AnnotatePort
    <2> QED
      BY <1>13, <2>3 DEF AnnotatePort, TypeOK, Good, cache, neutron
  <1> QED
    BY <1>6, <1>7, <1>8, <1>9, <1>10, <1>11, <1>12, <1>13

(* The steps of handleFloatingIP. *)
LEMMA FloatingIPStepsType ==
    ASSUME TypeOK, Good(w), w.pc \in LoopPCs \ {"loop"},
           \/ VerifyFloatingIP \/ ClearFipAnnotation \/ FindFloatingIP
           \/ CreateNewFloatingIP \/ TagFip \/ AnnotateFip \/ UpdateServiceExternalIPs
    PROVE  TypeOK' /\ Good(w')
  <1>1. w \in Worker /\ w.cur \in Services /\ w.req \in LBs
    BY PCClasses DEF Good, Control, ServicePCs
  <1>2. w.snap[w.cur] \in Service /\ csvc[w.cur] \in Service
    BY <1>1, WorkerParts DEF TypeOK
  <1>3. /\ Good(Processed(TRUE, TRUE)) /\ Good(Processed(TRUE, FALSE))
        /\ Good(Processed(FALSE, FALSE))
    BY ProcessedGood
  <1>4. faults \in 0 .. MaxFaults
    BY DEF TypeOK
  <1>5. CASE VerifyFloatingIP
    <2> DEFINE f == w.snap[w.cur].fipAnn
    <2>1. f \in FipIDs
      BY <1>2, <1>5 DEF VerifyFloatingIP, Service
    <2> HIDE DEF f
    <2>2. Good([w EXCEPT !.pc = "externalIPs", !.fid = f]) /\ Good([w EXCEPT !.pc = "clearFip"])
      BY <2>1, EnsureMoves DEF EnsurePCs
    <2>3. Good(w') /\ faults' \in 0 .. MaxFaults
      BY <1>3, <1>4, <1>5, <2>2, FaultType DEF VerifyFloatingIP, f
    <2> QED
      BY <1>5, <2>3 DEF VerifyFloatingIP, TypeOK, Good, kube, cache, neutron
  <1>6. CASE ClearFipAnnotation
    <2>1. [csvc[w.cur] EXCEPT !.fipAnn = None] \in Service
      BY <1>2 DEF Service
    <2>2. /\ svc' \in [Services -> Service] /\ fresh' \subseteq Requests
          /\ Good(w') /\ faults' \in 0 .. MaxFaults
      BY <1>1, <1>3, <1>6, <2>1, UpdateServiceType DEF ClearFipAnnotation
    <2> QED
      BY <1>6, <2>2 DEF ClearFipAnnotation, TypeOK, Good, cache, neutron
  <1>7. CASE FindFloatingIP
    <2>1. \A f \in FipIDs : Good([w EXCEPT !.pc = "annotateFip", !.fid = f])
      BY EnsureMoves DEF EnsurePCs
    <2>2. Good([w EXCEPT !.pc = "createFip"])
      BY EnsureMoves DEF EnsurePCs
    <2>3. Good(w') /\ faults' \in 0 .. MaxFaults
      BY <1>3, <1>4, <1>7, <2>1, <2>2, FaultType DEF FindFloatingIP, GetFloatingIPByPortID
    <2> QED
      BY <1>7, <2>3 DEF FindFloatingIP, TypeOK, Good, kube, cache, neutron
  <1>8. CASE CreateNewFloatingIP
    BY <1>3, <1>8, CreateFipType
       DEF CreateNewFloatingIP, TypeOK, Good, ControlInv, kube, cache
  <1>9. CASE TagFip
    <2>1. w.fid \in FipIDs
      BY <1>9 DEF TagFip, Good, Control
    <2>2. Good([w EXCEPT !.pc = "annotateFip"])
      BY <2>1, EnsureMoves DEF EnsurePCs
    <2>3. fips' \in [FipIDs -> Fip] /\ Good(w') /\ faults' \in 0 .. MaxFaults
      BY <1>9, <2>2, TagType DEF TagFip
    <2> QED
      BY <1>9, <2>3 DEF TagFip, TypeOK, Good, kube, cache
  <1>10. CASE AnnotateFip
    <2>1. w.fid \in FipIDs
      BY <1>10 DEF AnnotateFip, Good, Control
    <2>2. Good([w EXCEPT !.pc = "externalIPs"])
      BY <2>1, EnsureMoves DEF EnsurePCs
    <2>3. [csvc[w.cur] EXCEPT !.fipAnn = w.fid] \in Service
      BY <1>2, <2>1 DEF Service
    <2>4. /\ svc' \in [Services -> Service] /\ fresh' \subseteq Requests
          /\ Good(w') /\ faults' \in 0 .. MaxFaults
      BY <1>1, <1>3, <1>10, <2>2, <2>3, UpdateServiceType DEF AnnotateFip
    <2> QED
      BY <1>10, <2>4 DEF AnnotateFip, TypeOK, Good, cache, neutron
  <1>11. CASE UpdateServiceExternalIPs
    <2> DEFINE e == csvc[w.cur].ext \cup {w.fid}
    <2>1. w.fid \in FipIDs
      BY <1>11 DEF UpdateServiceExternalIPs, Good, Control
    <2>2. e \in SUBSET FipIDs
      BY <1>2, <2>1 DEF Service
    <2> HIDE DEF e
    <2>3. [csvc[w.cur] EXCEPT !.ext = e] \in Service
      BY <1>2, <2>2 DEF Service
    <2>4. CASE UpdateService(w.cur, [csvc[w.cur] EXCEPT !.ext = e],
                             Processed(FALSE, FALSE), Processed(TRUE, TRUE))
      <3>1. /\ svc' \in [Services -> Service] /\ fresh' \subseteq Requests
            /\ Good(w') /\ faults' \in 0 .. MaxFaults
        BY <1>1, <1>3, <2>3, <2>4, UpdateServiceType
      <3> QED
        BY <1>11, <3>1 DEF UpdateServiceExternalIPs, TypeOK, Good, cache, neutron
    <2>5. CASE w' = Processed(FALSE, FALSE) /\ UNCHANGED <<svc, fresh, faults>>
      BY <1>3, <1>11, <2>5 DEF UpdateServiceExternalIPs, TypeOK, Good, cache, neutron
    <2> QED
      BY <1>11, <2>4, <2>5 DEF UpdateServiceExternalIPs, e
  <1> QED
    BY <1>5, <1>6, <1>7, <1>8, <1>9, <1>10, <1>11


(* Reconcile of a load balancer around its loop over the Services. *)
LEMMA LoopType ==
    ASSUME TypeOK, Good(w),
           AddLBFinalizer \/ ListServices \/ ProcessService \/ EndLoop \/ WriteStatus
    PROVE  TypeOK' /\ Good(w')
  <1>1. w \in Worker /\ w.pc # "idle" /\ w.req \in LBs /\ w.mem \in LoadBalancer
    <2>1. w.pc \in {"lbFinalizer", "lbClient", "loop", "status"}
      BY DEF AddLBFinalizer, ListServices, ProcessService, EndLoop, WriteStatus
    <2>2. w.pc \in LBPCs
      BY <2>1 DEF LBPCs, LoopPCs
    <2> QED
      BY <2>2, PCClasses, WorkerParts DEF Good, Control
  <1>2. Good(ReturnWith(TRUE)) /\ Good(ReturnWith(FALSE)) /\ Good(ReturnWith(w.requeue))
    BY <1>1, WorkerParts, ReturnGood
  <1>3. faults \in 0 .. MaxFaults
    BY DEF TypeOK
  <1>4. ASSUME NEW m \in LoadBalancer
        PROVE  Good([w EXCEPT !.pc = "status", !.mem = m])
    <2> DEFINE v == [w EXCEPT !.pc = "status", !.mem = m]
    <2>1. v \in Worker
      BY <1>1 DEF Worker, PCs
    <2>2. v.pc = "status" /\ v.req = w.req
      BY <1>1 DEF Worker
    <2>3. "status" \notin ServicePCs \cup LoopPCs
      BY DEF ServicePCs, LoopPCs, EnsurePCs, CleanupPCs, DeletePCs, HandlerPCs
    <2>4. Control(v)
      BY <1>1, <2>2, <2>3 DEF Control, Requests
    <2> QED
      BY <2>1, <2>4 DEF Good
  <1>5. CASE AddLBFinalizer
    <2>1. /\ lb' \in [LBs -> LoadBalancer] /\ fresh' \subseteq Requests
          /\ Good(w') /\ faults' \in 0 .. MaxFaults
      BY <1>1, <1>2, <1>5, UpdateLBType DEF AddLBFinalizer
    <2> QED
      BY <1>5, <2>1 DEF AddLBFinalizer, TypeOK, Good, cache, neutron
  <1>6. CASE ListServices
    <2> DEFINE T == {s \in Services : Eligible(w.req, s, csvc[s])}
               v == [w EXCEPT !.pc = "loop", !.client = ProjectOf[w.req], !.snap = csvc,
                              !.todo = T]
    <2>1. T \in SUBSET Services /\ \A s \in T : csvc[s].ip # None
      BY DEF Eligible
    <2>2. ProjectOf[w.req] \in Projects
      BY <1>1, TablesAssumption
    <2> HIDE DEF T
    <2>3. v \in Worker
      BY <1>1, <2>1, <2>2 DEF Worker, PCs, TypeOK
    <2>4. v.pc = "loop" /\ v.req = w.req /\ v.todo = T /\ v.snap = csvc
      BY <1>1 DEF Worker
    <2>5. "loop" \notin ServicePCs
      BY DEF ServicePCs
    <2>6. Good(v)
      BY <1>1, <2>1, <2>3, <2>4, <2>5 DEF Good, Control, Requests
    <2>7. SetCondition(w.mem, "Ready", "OpenStackClientError") \in LoadBalancer
      BY <1>1, SetConditionType DEF ConditionTypes, Reasons
    <2>8. Good([w EXCEPT !.pc = "status",
                         !.mem = SetCondition(w.mem, "Ready", "OpenStackClientError")])
      BY <1>4, <2>7
    <2>9. Good(w') /\ faults' \in 0 .. MaxFaults
      BY <1>3, <1>6, <2>6, <2>8, FaultType DEF ListServices, NewClient, T
    <2> QED
      BY <1>6, <2>9 DEF ListServices, TypeOK, Good, kube, cache, neutron
  <1>7. CASE ProcessService
    <2>1. PICK s \in w.todo :
              w' = [w EXCEPT !.todo = w.todo \ {s}, !.cur = s, !.pc = FirstStep(w.snap[s])]
      BY <1>7 DEF ProcessService
    <2> DEFINE x == FirstStep(w.snap[s])
    <2>2. x \in {"svcFinalizer", "credentials", "network", "port"}
      BY DEF FirstStep, AfterFinalizer, AfterCredentials
    <2>3. s \in Services /\ w.pc = "loop" /\ w.snap[s].ip # None
      BY <1>1, <1>7, WorkerParts DEF ProcessService, Good, Control, LoopPCs
    <2> HIDE DEF x
    <2>4. w' \in Worker
      BY <1>1, <2>1, <2>2, <2>3 DEF Worker, PCs, x
    <2>5. /\ w'.pc = x /\ w'.req = w.req /\ w'.cur = s /\ w'.snap = w.snap
          /\ w'.todo = w.todo \ {s}
      BY <1>1, <2>1 DEF Worker, x
    <2>6. \A t \in w.todo : w.snap[t].ip # None
      BY <2>3 DEF Good, Control, LoopPCs
    <2>7. Control(w')
      BY <1>1, <2>2, <2>3, <2>5, <2>6 DEF Control, Requests
    <2> QED
      BY <1>7, <2>4, <2>7 DEF ProcessService, TypeOK, Good, kube, cache, neutron
  <1>8. CASE EndLoop
    <2>1. Verdict \in LoadBalancer
      <3>1. [w.mem EXCEPT !.ready = TRUE] \in LoadBalancer
        BY <1>1 DEF LoadBalancer
      <3> QED
        BY <1>1, <3>1, SetConditionType DEF Verdict, ConditionTypes, Reasons
    <2>2. Good(w')
      BY <1>4, <1>8, <2>1 DEF EndLoop
    <2> QED
      BY <1>8, <2>2 DEF EndLoop, TypeOK, Good, kube, cache, neutron
  <1>9. CASE WriteStatus
    <2>1. /\ lb' \in [LBs -> LoadBalancer] /\ fresh' \subseteq Requests
          /\ Good(w') /\ faults' \in 0 .. MaxFaults
      BY <1>1, <1>2, <1>9, UpdateStatusType DEF WriteStatus
    <2> QED
      BY <1>9, <2>1 DEF WriteStatus, TypeOK, Good, cache, neutron
  <1> QED
    BY <1>5, <1>6, <1>7, <1>8, <1>9

(* The cleanup of one Service keeps the types. *)
LEMMA CleanupType ==
    ASSUME TypeOK, Good(w), Cleanup
    PROVE  TypeOK' /\ Good(w')
  <1>1. w.pc \in CleanupPCs \ {"delLoop"}
    BY DEF Cleanup, ListResources, DeleteFips, FipsDone, DeletePorts, PortsDone,
           ClearAnnotations, RemoveServiceFinalizer, ForceFinalizerRemoval,
           CleanupPCs, DeletePCs
  <1>2. w \in Worker /\ w.cur \in Services
    BY <1>1 DEF Good, Control, ServicePCs, LoopPCs, EnsurePCs, CleanupPCs, DeletePCs
  <1>3. /\ w.snap[w.cur] \in Service /\ csvc[w.cur] \in Service /\ svc[w.cur] \in Service
        /\ w.fail \in BOOLEAN /\ w.delF \subseteq FipIDs /\ w.delP \subseteq PortIDs
    BY <1>2, WorkerParts DEF TypeOK
  <1>4. Good(CleanupReturns(TRUE)) /\ Good(CleanupReturns(w.fail))
    BY <1>1, <1>3, CleanupReturnsGood
  <1>5. Good(ServiceHandled(TRUE)) /\ Good(ServiceHandled(FALSE))
    BY <1>1, ServiceHandledGood
  <1>6. faults \in 0 .. MaxFaults
    BY DEF TypeOK
  <1>7. LeftBehind(w.cur) \subseteq Abandonable
    BY DEF LeftBehind, TypeOK, Abandonable
  <1>8. CASE ListResources
    <2> DEFINE df == FloatingIPsToDelete(w.cur, w.snap[w.cur])
               dp == PortsToDelete(w.cur, w.snap[w.cur])
    <2>1. df \in SUBSET FipIDs /\ dp \in SUBSET PortIDs
      BY DEF FloatingIPsToDelete, PortsToDelete, GetAllFloatingIPs, GetAllPorts
    <2> HIDE DEF df, dp
    <2>2. "delFips" \in CleanupPCs \ {"delLoop"}
      BY DEF CleanupPCs, DeletePCs
    <2>3. Good([w EXCEPT !.pc = "delFips", !.delF = df, !.delP = dp])
      BY <1>1, <2>1, <2>2, CleanupMoves
    <2>4. Good(w') /\ faults' \in 0 .. MaxFaults
      BY <1>4, <1>6, <1>8, <2>3, FaultType DEF ListResources, df, dp
    <2> QED
      BY <1>8, <2>4 DEF ListResources, TypeOK, Good, kube, cache, neutron
  <1>9. CASE DeleteFips
    <2>1. PICK f \in w.delF :
              DeleteFloatingIP(f, FipDeleted(f), [w EXCEPT !.delF = w.delF \ {f}, !.fail = TRUE])
      BY <1>9 DEF DeleteFips
    <2>2. f \in FipIDs
      BY <1>3
    <2>3. Good(FipDeleted(f)) /\ Good([w EXCEPT !.delF = w.delF \ {f}, !.fail = TRUE])
      BY <1>9, <2>2, DeletedGood DEF DeleteFips
    <2>4. /\ ports' \in [PortIDs -> Port] /\ fips' \in [FipIDs -> Fip]
          /\ Good(w') /\ faults' \in 0 .. MaxFaults
      BY <2>1, <2>2, <2>3, DeleteType
    <2> QED
      BY <1>9, <2>4 DEF DeleteFips, TypeOK, Good, kube, cache
  <1>10. CASE FipsDone
    <2>1. "delPorts" \in CleanupPCs \ {"delLoop"}
      BY DEF CleanupPCs, DeletePCs
    <2>2. Good(w')
      BY <1>1, <1>10, <2>1, CleanupMoves DEF FipsDone
    <2> QED
      BY <1>10, <2>2 DEF FipsDone, TypeOK, Good, kube, cache, neutron
  <1>11. CASE DeletePorts
    <2>1. PICK p \in w.delP :
              DeletePort(p, PortDeleted(p), [w EXCEPT !.delP = w.delP \ {p}, !.fail = TRUE])
      BY <1>11 DEF DeletePorts
    <2>2. p \in PortIDs
      BY <1>3
    <2>3. Good(PortDeleted(p)) /\ Good([w EXCEPT !.delP = w.delP \ {p}, !.fail = TRUE])
      BY <1>11, <2>2, DeletedGood DEF DeletePorts
    <2>4. /\ ports' \in [PortIDs -> Port] /\ fips' \in [FipIDs -> Fip]
          /\ Good(w') /\ faults' \in 0 .. MaxFaults
      BY <2>1, <2>2, <2>3, DeleteType
    <2> QED
      BY <1>11, <2>4 DEF DeletePorts, TypeOK, Good, kube, cache
  <1>12. CASE PortsDone
    <2>1. "clearAnnotations" \in CleanupPCs \ {"delLoop"}
      BY DEF CleanupPCs, DeletePCs
    <2>2. Good([w EXCEPT !.pc = "clearAnnotations"])
      BY <1>1, <2>1, CleanupMoves
    <2>3. Good(w')
      BY <1>4, <1>12, <2>2 DEF PortsDone
    <2> QED
      BY <1>12, <2>3 DEF PortsDone, TypeOK, Good, kube, cache, neutron
  <1>13. CASE ClearAnnotations
    <2> DEFINE pa == IF "port" \in w.clr THEN None ELSE csvc[w.cur].portAnn
               fa == IF "fip" \in w.clr THEN None ELSE csvc[w.cur].fipAnn
    <2>1. pa \in PortIDs \cup {None} /\ fa \in FipIDs \cup {None}
      BY <1>3 DEF Service
    <2> HIDE DEF pa, fa
    <2>2. [csvc[w.cur] EXCEPT !.portAnn = pa, !.fipAnn = fa] \in Service
      BY <1>3, <2>1 DEF Service
    <2>3. UpdateService(w.cur, [csvc[w.cur] EXCEPT !.portAnn = pa, !.fipAnn = fa],
                        CleanupReturns(w.fail), CleanupReturns(TRUE))
      BY <1>13 DEF ClearAnnotations, pa, fa
    <2>4. /\ svc' \in [Services -> Service] /\ fresh' \subseteq Requests
          /\ Good(w') /\ faults' \in 0 .. MaxFaults
      BY <1>2, <1>4, <2>2, <2>3, UpdateServiceType
    <2> QED
      BY <1>13, <2>4 DEF ClearAnnotations, TypeOK, Good, cache, neutron
  <1>14. CASE RemoveServiceFinalizer
    <2>1. [w.snap[w.cur] EXCEPT !.fin = FALSE] \in Service
      BY <1>3 DEF Service
    <2>2. "force" \in CleanupPCs \ {"delLoop"}
      BY DEF CleanupPCs, DeletePCs
    <2>3. Good([w EXCEPT !.pc = "force"])
      BY <1>1, <2>2, CleanupMoves
    <2>4. /\ svc' \in [Services -> Service] /\ fresh' \subseteq Requests
          /\ Good(w') /\ faults' \in 0 .. MaxFaults
      BY <1>2, <1>5, <1>14, <2>1, <2>3, UpdateResourceType DEF RemoveServiceFinalizer
    <2>5. abandoned' \subseteq Abandonable
      BY <1>7, <1>14 DEF RemoveServiceFinalizer, TypeOK
    <2> QED
      BY <1>14, <2>4, <2>5 DEF RemoveServiceFinalizer, TypeOK, Good, cache, neutron
  <1>15. CASE ForceFinalizerRemoval
    <2>1. [svc[w.cur] EXCEPT !.fin = FALSE, !.otherFin = FALSE] \in Service
      BY <1>3 DEF Service
    <2>2. svc' \in [Services -> Service] /\ fresh' \subseteq Requests
      BY <1>2, <1>15, <2>1, WriteServiceType DEF ForceFinalizerRemoval, TypeOK
    <2>3. Good(w') /\ faults' \in 0 .. MaxFaults /\ abandoned' \subseteq Abandonable
      BY <1>5, <1>6, <1>7, <1>15, FaultType, WrittenType DEF ForceFinalizerRemoval, TypeOK
    <2> QED
      BY <1>15, <2>2, <2>3 DEF ForceFinalizerRemoval, TypeOK, Good, cache, neutron
  <1> QED
    BY <1>8, <1>9, <1>10, <1>11, <1>12, <1>13, <1>14, <1>15 DEF Cleanup


(* The deletion of a load balancer keeps the types. *)
LEMMA DeletionType ==
    ASSUME TypeOK, Good(w), Delete
    PROVE  TypeOK' /\ Good(w')
  <1>1. w.pc \in {"delClient", "delLoop", "lbUnfinalize"}
    BY DEF Delete, StartDeletion, CleanupService, EndDeletion, RemoveLBFinalizer
  <1>2. w \in Worker /\ w.req \in LBs
    BY <1>1 DEF Good, Control, LBPCs
  <1>3. Good(ReturnWith(TRUE)) /\ Good(ReturnWith(FALSE))
    BY <1>1, ReturnGood
  <1>4. faults \in 0 .. MaxFaults
    BY DEF TypeOK
  <1>5. /\ "lbUnfinalize" \notin ServicePCs \cup LoopPCs
        /\ "delLoop" \notin ServicePCs \cup LoopPCs
        /\ "list" \notin LBPCs \cup LoopPCs
    BY DEF ServicePCs, LBPCs, LoopPCs, EnsurePCs, CleanupPCs, DeletePCs, HandlerPCs
  <1>6. ASSUME NEW b \in BOOLEAN
        PROVE  Good([w EXCEPT !.pc = "lbUnfinalize", !.fail = b])
    <2> DEFINE v == [w EXCEPT !.pc = "lbUnfinalize", !.fail = b]
    <2>1. v \in Worker
      BY <1>2 DEF Worker, PCs
    <2>2. v.pc = "lbUnfinalize" /\ v.req = w.req
      BY <1>2 DEF Worker
    <2> QED
      BY <1>2, <1>5, <2>1, <2>2 DEF Good, Control, Requests
  <1>7. CASE StartDeletion
    <2> DEFINE T == {s \in Services : Managed(w.req, s, csvc[s])}
               v == [w EXCEPT !.pc = "delLoop", !.client = ProjectOf[w.req], !.snap = csvc,
                              !.todo = T]
    <2>1. T \in SUBSET Services /\ ProjectOf[w.req] \in Projects
      BY <1>2, TablesAssumption
    <2> HIDE DEF T
    <2>2. v \in Worker
      BY <1>2, <2>1 DEF Worker, PCs, TypeOK
    <2>3. v.pc = "delLoop" /\ v.req = w.req
      BY <1>2 DEF Worker
    <2>4. Good(v)
      BY <1>2, <1>5, <2>2, <2>3 DEF Good, Control, Requests
    <2>5. Good(w') /\ faults' \in 0 .. MaxFaults
      BY <1>4, <1>6, <1>7, <2>4, FaultType DEF StartDeletion, NewClient, T
    <2> QED
      BY <1>7, <2>5 DEF StartDeletion, TypeOK, Good, kube, cache, neutron
  <1>8. CASE CleanupService
    <2>1. PICK s \in w.todo :
              w' = IF w.snap[s].deleting /\ ~w.snap[s].fin
                   THEN [w EXCEPT !.todo = w.todo \ {s}]
                   ELSE [w EXCEPT !.todo = w.todo \ {s}, !.cur = s, !.pc = "list"]
      BY <1>8 DEF CleanupService
    <2>2. s \in Services /\ w.todo \ {s} \in SUBSET Services /\ w.pc = "delLoop"
      BY <1>2, <1>8, WorkerParts DEF CleanupService
    <2>3. Good([w EXCEPT !.todo = w.todo \ {s}])
      <3> DEFINE v == [w EXCEPT !.todo = w.todo \ {s}]
      <3>1. v \in Worker
        BY <1>2, <2>2 DEF Worker
      <3>2. v.pc = "delLoop" /\ v.req = w.req
        BY <1>2, <2>2 DEF Worker
      <3> QED
        BY <1>2, <1>5, <3>1, <3>2 DEF Good, Control, Requests
    <2>4. Good([w EXCEPT !.todo = w.todo \ {s}, !.cur = s, !.pc = "list"])
      <3> DEFINE v == [w EXCEPT !.todo = w.todo \ {s}, !.cur = s, !.pc = "list"]
      <3>1. v \in Worker
        BY <1>2, <2>2 DEF Worker, PCs
      <3>2. v.pc = "list" /\ v.req = w.req /\ v.cur = s
        BY <1>2 DEF Worker
      <3> QED
        BY <1>2, <1>5, <2>2, <3>1, <3>2 DEF Good, Control, Requests
    <2>5. Good(w')
      BY <2>1, <2>3, <2>4
    <2> QED
      BY <1>8, <2>5 DEF CleanupService, TypeOK, Good, kube, cache, neutron
  <1>9. CASE EndDeletion
    <2>1. Good([w EXCEPT !.pc = "lbUnfinalize"])
      <3>1. w.fail \in BOOLEAN
        BY <1>2, WorkerParts
      <3>2. [w EXCEPT !.pc = "lbUnfinalize", !.fail = w.fail] = [w EXCEPT !.pc = "lbUnfinalize"]
        BY <1>2 DEF Worker
      <3>3. Good([w EXCEPT !.pc = "lbUnfinalize", !.fail = w.fail])
        BY <1>6, <3>1
      <3> QED
        BY <3>2, <3>3, Zenon
    <2>2. Good(w')
      BY <1>3, <1>9, <2>1 DEF EndDeletion
    <2> QED
      BY <1>9, <2>2 DEF EndDeletion, TypeOK, Good, kube, cache, neutron
  <1>10. CASE RemoveLBFinalizer
    <2>1. /\ lb' \in [LBs -> LoadBalancer] /\ fresh' \subseteq Requests
          /\ Good(w') /\ faults' \in 0 .. MaxFaults
      BY <1>2, <1>3, <1>10, UpdateLBType DEF RemoveLBFinalizer
    <2>2. abandoned' \subseteq Abandonable
      BY <1>2, <1>10 DEF RemoveLBFinalizer, TypeOK, Abandonable
    <2> QED
      BY <1>10, <2>1, <2>2 DEF RemoveLBFinalizer, TypeOK, Good, cache, neutron
  <1> QED
    BY <1>7, <1>8, <1>9, <1>10 DEF Delete

(* The service handler keeps the types. *)
LEMMA HandleType ==
    ASSUME TypeOK, Good(w), Handle
    PROVE  TypeOK' /\ Good(w')
  <1>1. w.pc \in HandlerPCs \cup {"svcClient"} /\ w.pc # "idle"
    BY DEF Handle, EnsureServiceFinalizer, UpdateServiceWithCredentials,
           GetOpenStackClientFromService, HandlerPCs
  <1>2. w \in Worker /\ w.cur \in Services /\ w.req \in Requests
    BY <1>1 DEF Good, Control, ServicePCs, HandlerPCs, CleanupPCs
  <1>3. /\ w.snap[w.cur] \in Service /\ csvc[w.cur] \in Service
        /\ w.match \in LBs \cup {None}
    BY <1>2, WorkerParts DEF TypeOK
  <1>4. Good(ReturnWith(TRUE)) /\ Good(ReturnWith(FALSE))
    BY <1>1, ReturnGood
  <1>5. faults \in 0 .. MaxFaults
    BY DEF TypeOK
  <1>6. CASE EnsureServiceFinalizer
    <2>1. [w.snap[w.cur] EXCEPT !.fin = TRUE] \in Service
      BY <1>3 DEF Service
    <2>2. Good([w EXCEPT !.pc = "handlerCredentials"])
      <3> DEFINE v == [w EXCEPT !.pc = "handlerCredentials"]
      <3>1. v \in Worker
        BY <1>2 DEF Worker, PCs
      <3>2. v.pc = "handlerCredentials" /\ v.req = w.req /\ v.cur = w.cur
        BY <1>2 DEF Worker
      <3>3. "handlerCredentials" \notin LBPCs \cup LoopPCs
        BY DEF LBPCs, LoopPCs, EnsurePCs
      <3> QED
        BY <1>2, <3>1, <3>2, <3>3 DEF Good, Control
    <2> DEFINE done == IF w.match = None THEN ReturnWith(FALSE)
                                         ELSE [w EXCEPT !.pc = "handlerCredentials"]
    <2>3. Good(done)
      BY <1>4, <2>2
    <2> HIDE DEF done
    <2>4. UpdateResource(w.cur, [w.snap[w.cur] EXCEPT !.fin = TRUE], done, ReturnWith(TRUE))
      BY <1>6 DEF EnsureServiceFinalizer, done
    <2>5. /\ svc' \in [Services -> Service] /\ fresh' \subseteq Requests
          /\ Good(w') /\ faults' \in 0 .. MaxFaults
      BY <1>2, <1>4, <2>1, <2>3, <2>4, UpdateResourceType
    <2> QED
      BY <1>6, <2>5 DEF EnsureServiceFinalizer, TypeOK, Good, cache, neutron
  <1>7. CASE UpdateServiceWithCredentials
    <2>1. [csvc[w.cur] EXCEPT !.cred = w.match] \in Service
      BY <1>3 DEF Service
    <2>2. /\ svc' \in [Services -> Service] /\ fresh' \subseteq Requests
          /\ Good(w') /\ faults' \in 0 .. MaxFaults
      BY <1>2, <1>4, <1>7, <2>1, UpdateServiceType DEF UpdateServiceWithCredentials
    <2> QED
      BY <1>7, <2>2 DEF UpdateServiceWithCredentials, TypeOK, Good, cache, neutron
  <1>8. CASE GetOpenStackClientFromService
    <2>1. w.pc = "svcClient"
      BY <1>8 DEF GetOpenStackClientFromService
    <2>2. CredentialSources(w.cur, w.snap[w.cur]) \subseteq LBs
      BY <1>3 DEF CredentialSources, MatchingLBs, Service
    <2>3. Good(NoClient) /\ \A l \in LBs : Good(ClientFor(l))
      BY <2>1, ClientGood
    <2>4. Good(w') /\ faults' \in 0 .. MaxFaults
      BY <1>5, <1>8, <2>2, <2>3, FaultType DEF GetOpenStackClientFromService
    <2> QED
      BY <1>8, <2>4 DEF GetOpenStackClientFromService, TypeOK, Good, kube, cache, neutron
  <1> QED
    BY <1>6, <1>7, <1>8 DEF Handle

(* The map function names requests only. *)
LEMMA EventsAreRequests ==
    ASSUME NEW s \in Services, NEW old, NEW new, NEW lbs
    PROVE  ServiceEvents(s, old, new, lbs) \subseteq Requests
  BY DEF ServiceEvents, FindOpenStackLBsForService, MatchingLBs, Requests

(* The queue, the informers and a restart keep the types. *)
LEMMA QueueType ==
    ASSUME TypeOK, Good(w),
           \/ Return \/ Resync \/ Restart
           \/ \E r \in Requests : Dequeue(r) \/ Sync(r)
    PROVE  TypeOK' /\ Good(w')
  <1>1. CASE Return
    <2>1. w.req \in Requests
      BY <1>1 DEF Return, Good, Control
    <2>2. queue' \subseteq Requests
      BY <1>1, <2>1 DEF Return, TypeOK
    <2> QED
      BY <1>1, <2>2, IdleGood DEF Return, TypeOK, Good, kube, cache, neutron
  <1>2. CASE Resync
    <2>1. UNION {ServiceEvents(s, csvc[s], csvc[s], clb) : s \in Services} \subseteq Requests
      BY EventsAreRequests
    <2>2. queue' \subseteq Requests
      BY <1>2, <2>1 DEF Resync, TypeOK, Requests
    <2> QED
      BY <1>2, <2>2 DEF Resync, TypeOK, kube, cache, neutron
  <1>3. CASE Restart
    <2>1. UNION {ServiceEvents(s, NoService(0), svc[s], lb) : s \in Services} \subseteq Requests
      BY EventsAreRequests
    <2>2. queue' \subseteq Requests
      BY <1>3, <2>1 DEF Restart, Requests
    <2>3. faults' \in 0 .. MaxFaults
      BY <1>3, FaultType DEF Restart, TypeOK
    <2> QED
      BY <1>3, <2>2, <2>3, IdleGood DEF Restart, TypeOK, Good, kube, neutron
  <1>4. ASSUME NEW l \in LBs, Reconcile(l)
        PROVE  TypeOK' /\ Good(w')
    <2> DEFINE v == [IdleWorker EXCEPT !.pc = Branch(clb[l]), !.req = l, !.mem = clb[l]]
               x == Branch(clb[l])
    <2>1. x \in {"return", "delClient", "lbClient", "lbFinalizer"}
      BY DEF Branch
    <2>2. IdleWorker \in Worker /\ clb[l] \in LoadBalancer /\ l \in Requests
      BY IdleGood DEF Good, TypeOK, Requests
    <2> HIDE DEF x
    <2>3. v \in Worker
      BY <2>1, <2>2 DEF Worker, PCs, x
    <2>4. v.pc = x /\ v.req = l
      BY <2>2 DEF Worker, x
    <2>5. x \notin ServicePCs \cup LoopPCs
      BY <2>1 DEF ServicePCs, LoopPCs, EnsurePCs, CleanupPCs, DeletePCs, HandlerPCs
    <2>6. Control(v)
      BY <2>1, <2>2, <2>4, <2>5 DEF Control
    <2> QED
      BY <1>4, <2>3, <2>6 DEF Reconcile, TypeOK, Good, kube, cache, neutron
  <1>5. ASSUME NEW s \in Services, ReconcileService(s)
        PROVE  TypeOK' /\ Good(w')
    <2> DEFINE x == ServiceBranch(s, csvc[s])
               n == [NoSnap EXCEPT ![s] = csvc[s]]
    <2>1. PICK m \in LBs \cup {None} :
              w' = [IdleWorker EXCEPT !.pc = x, !.req = s, !.cur = s, !.snap = n, !.match = m]
      BY <1>5 DEF ReconcileService, MatchingLBs
    <2>2. x \in {"return", "svcClient", "handlerFinalizer"}
      BY DEF ServiceBranch
    <2>3. IdleWorker \in Worker /\ n \in [Services -> Service] /\ s \in Requests
      BY IdleGood DEF Good, TypeOK, Requests, NoSnap, NoService, Service
    <2> HIDE DEF x, n
    <2>4. w' \in Worker
      BY <2>1, <2>2, <2>3 DEF Worker, PCs
    <2>5. w'.pc = x /\ w'.req = s /\ w'.cur = s
      BY <2>1, <2>3 DEF Worker
    <2>6. x \notin LBPCs \cup LoopPCs
      BY <2>2 DEF LBPCs, LoopPCs, EnsurePCs
    <2>7. Control(w')
      BY <2>2, <2>3, <2>5, <2>6 DEF Control
    <2> QED
      BY <1>5, <2>4, <2>7 DEF ReconcileService, TypeOK, Good, kube, cache, neutron
  <1>6. ASSUME NEW l \in LBs, SyncLB(l)
        PROVE  TypeOK' /\ Good(w')
    BY <1>6 DEF SyncLB, TypeOK, Requests, kube, neutron
  <1>7. ASSUME NEW s \in Services, SyncService(s)
        PROVE  TypeOK' /\ Good(w')
    <2>1. ServiceEvents(s, csvc[s], svc[s], clb) \subseteq Requests
      BY EventsAreRequests
    <2> QED
      BY <1>7, <2>1 DEF SyncService, TypeOK, Requests, kube, neutron
  <1> QED
    BY <1>1, <1>2, <1>3, <1>4, <1>5, <1>6, <1>7 DEF Dequeue, Sync

-----------------------------------------------------------------------------
(* Every step of the worker inside a reconcile keeps the types. *)
LEMMA ProvisionType ==
    ASSUME TypeOK, Good(w), Provision
    PROVE  TypeOK' /\ Good(w')
  <1>1. CASE AddLBFinalizer \/ ListServices \/ ProcessService \/ EndLoop \/ WriteStatus
    BY <1>1, LoopType
  <1>2. CASE \/ EnsureServiceHasFinalizer \/ EnsureServiceHasCredentials
             \/ DetectNetworkForLB \/ VerifyPort \/ ClearPortAnnotation
             \/ EnsurePortExists \/ TagPort \/ AnnotatePort
    <2>1. w.pc \in LoopPCs \ {"loop"}
      BY <1>2 DEF EnsureServiceHasFinalizer, EnsureServiceHasCredentials,
             DetectNetworkForLB, VerifyPort, ClearPortAnnotation, EnsurePortExists,
             TagPort, AnnotatePort, LoopPCs, EnsurePCs
    <2> QED
      BY <1>2, <2>1, ServiceStepsType
  <1>3. CASE \/ VerifyFloatingIP \/ ClearFipAnnotation \/ FindFloatingIP
             \/ CreateNewFloatingIP \/ TagFip \/ AnnotateFip \/ UpdateServiceExternalIPs
    <2>1. w.pc \in LoopPCs \ {"loop"}
      BY <1>3 DEF VerifyFloatingIP, ClearFipAnnotation, FindFloatingIP,
             CreateNewFloatingIP, TagFip, AnnotateFip, UpdateServiceExternalIPs,
             LoopPCs, EnsurePCs
    <2> QED
      BY <1>3, <2>1, FloatingIPStepsType
  <1> QED
    BY <1>1, <1>2, <1>3 DEF Provision

(* Init establishes the types and Next keeps them. *)
LEMMA TypeInductive ==
    (Init => TypeInv) /\ (TypeInv /\ [Next]_vars => TypeInv')
  <1>1. ASSUME Init
        PROVE  TypeInv
    <2>1. \A u \in Nat : NoService(u) \in Service /\ NoLB(u) \in LoadBalancer
      BY NoLBType DEF NoService, Service
    <2>2. NoPort \in Port /\ NoFip \in Fip
      BY DEF NoPort, NoFip, Port, Fip
    <2>3. faults \in 0 .. MaxFaults
      BY <1>1, BoundsAssumption DEF Init
    <2> QED
      BY <1>1, <2>1, <2>2, <2>3, IdleGood DEF Init, TypeInv, TypeOK, ControlInv, Good
  <1>2. ASSUME TypeInv, [Next]_vars
        PROVE  TypeInv'
    <2>1. TypeOK /\ Good(w)
      BY <1>2 DEF TypeInv, TypeOK, ControlInv, Good
    <2>2. CASE UNCHANGED vars
      BY <1>2, <2>2 DEF vars, TypeInv, TypeOK, ControlInv, Control
    <2>3. CASE Next
      <3>1. TypeOK' /\ Good(w')
        BY <2>1, <2>3, EnvironmentType, ProvisionType, CleanupType, DeletionType,
           HandleType, QueueType DEF Next, Work
      <3> QED
        BY <3>1 DEF TypeInv, ControlInv, Good, Control
    <2> QED
      BY <1>2, <2>2, <2>3
  <1> QED
    BY <1>1, <1>2

(* Type correctness, for any Services, load balancers, resources and faults: *)
(* no sequence of reconciles, retries, stale reads, failures, restarts and   *)
(* outside changes puts a value of the wrong kind into a Service's           *)
(* annotations, the cache, Neutron's records or the worker's variables, and  *)
(* the worker never looks for a Service, an address or a floating IP it does *)
(* not have at hand.                                                         *)
THEOREM TypeCorrect == Spec => [](TypeOK /\ ControlInv)
  <1>1. Spec => []TypeInv
    BY TypeInductive, PTL DEF Spec
  <1>2. TypeInv => TypeOK /\ ControlInv
    BY DEF TypeInv
  <1> QED
    BY <1>1, <1>2, PTL


=============================================================================
