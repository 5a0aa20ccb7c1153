------------------------- MODULE SupportingObjects -------------------------
(***************************************************************************)
(* What stands around the pods of a HumioCluster: a service for each node  *)
(* pool, config maps with files that the pods mount (of the pool, and of   *)
(* the cluster), a disruption budget for each pool, and ingresses.  Each   *)
(* reconcile makes or updates them before the pods, and removes what is of *)
(* no use once all pods are ready.                                         *)
(*                                                                         *)
(* Files, labels, ports, budgets and hostnames are numbers, 0 is none.  A  *)
(* pool has one pod; two ingresses stand for the four, of the two          *)
(* hostnames, and one file of the cluster for the two.                     *)
(***************************************************************************)
EXTENDS Integers, FiniteSets

CONSTANTS
  Pools, Main,          \* node pools, and the one of the cluster's own spec
  Editable,             \* what the user edits
  PodsWait,             \* may pods stay that do not match (OnDelete, minReadySeconds)?
  MaxEdits, MaxFaults, MaxHurts

PoolsAssumption == Main \in Pools

VARIABLES
  spec,
  services,      \* of each pool: labels and port
  maps, perms,   \* the file of each pool, and of the cluster
  budgets,
  ingresses,     \* the hostname each was made for
  pods,          \* of each pool: the files as they were when it started
  proc, edits, faults, hurts

vars == <<spec, services, maps, perms, budgets, ingresses, pods, proc, edits, faults, hurts>>

Version == 0..2
Idle == [pc |-> "idle"]
NoService == [labels |-> 0, port |-> 0]
NoPod == [kafka |-> -1, perms |-> -1]
Hostnames == {"api", "es"}

PoolSpecs == [listed : BOOLEAN, nodes : 0..1, kafka : Version, labels : {1, 2}, port : {1, 2}, budget : Version]

TypeOK ==
  /\ spec \in [perms : Version, ingress : BOOLEAN, host : [Hostnames -> Version], pools : [Pools -> PoolSpecs]]
  /\ services \in [Pools -> [labels : {1, 2}, port : {1, 2}] \cup {NoService}]
  /\ maps \in [Pools -> Version] /\ perms \in Version
  /\ budgets \in [Pools -> Version]
  /\ ingresses \in [Hostnames -> Version]
  /\ pods \in [Pools -> [kafka : Version, perms : Version] \cup {NoPod}]

Init ==
  /\ spec = [perms |-> 0, ingress |-> FALSE, host |-> [h \in Hostnames |-> IF h = "api" THEN 1 ELSE 0],
             pools |-> [p \in Pools |-> [listed |-> TRUE, nodes |-> 1, kafka |-> 1, labels |-> 1, port |-> 1, budget |-> 1]]]
  /\ services = [p \in Pools |-> NoService]
  /\ maps = [p \in Pools |-> 0] /\ perms = 0
  /\ budgets = [p \in Pools |-> 0]
  /\ ingresses = [h \in Hostnames |-> 0]
  /\ pods = [p \in Pools |-> NoPod]
  /\ proc = Idle /\ edits = 0 /\ faults = 0 /\ hurts = 0

Objects == <<services, maps, perms, budgets, ingresses>>

(***************************************************************************)
(* A reconcile                                                             *)
(***************************************************************************)
Alone == UNCHANGED <<spec, edits, faults, hurts>>
Goto(pc) == proc' = [proc EXCEPT !.pc = pc]

\* The pools of the spec that s holds, and those of them with nodes.
Listed(s) == {p \in Pools : s.pools[p].listed}
WithNodes(s) == {p \in Listed(s) : s.pools[p].nodes > 0}

StartReconcile ==
  /\ proc = Idle
  /\ proc' = [pc |-> "mismatched", spec |-> spec, todo |-> WithNodes(spec)]
  /\ UNCHANGED <<Objects, pods>> /\ Alone

\* What a pod mounts counts when it is compared, what is in the files does not.
Mounts(s, p) == [kafka |-> s.pools[p].kafka # 0, perms |-> s.perms # 0]

\* Mutant: the file of the cluster is not compared.
Mismatched_Kafka(s) == {p \in Listed(s) : pods[p] # NoPod /\ (pods[p].kafka # 0) # Mounts(s, p).kafka}

Mismatched(s) ==
  {p \in Listed(s) : pods[p] # NoPod /\ [kafka |-> pods[p].kafka # 0, perms |-> pods[p].perms # 0] # Mounts(s, p)}

\* Pools take turns; what is deleted is replaced in this reconcile if its pool is to have nodes.
DeleteMismatchedPods ==
  /\ proc.pc = "mismatched"
  /\ LET M == Mismatched(proc.spec)
     IN \E S \in SUBSET M :
          /\ S # {} \/ M = {} \/ PodsWait
          /\ pods' = [p \in Pools |-> IF p \in S THEN NoPod ELSE pods[p]]
  /\ Goto("ingress")
  /\ UNCHANGED Objects /\ Alone

\* An ingress is for the cluster's own pool only, and for at least one hostname.
IngressValid(s) == s.ingress => Listed(s) = {Main} /\ \E h \in Hostnames : s.host[h] # 0

EnsureIngress ==
  /\ proc.pc = "ingress"
  /\ IF IngressValid(proc.spec)
     THEN /\ ingresses' = [h \in Hostnames |-> IF proc.spec.ingress THEN proc.spec.host[h] ELSE 0]
          /\ Goto("service")
     ELSE proc' = Idle /\ UNCHANGED ingresses
  /\ UNCHANGED <<services, maps, perms, budgets, pods>> /\ Alone

\* The service of a pool: its type and ports are those it was made with.
EnsureService ==
  /\ proc.pc = "service"
  /\ \/ proc.todo = {} /\ Goto("pods") /\ UNCHANGED services
     \/ \E p \in proc.todo :
          LET s == proc.spec.pools[p]
          IN /\ services' = [services EXCEPT ![p] =
                  IF @ = NoService THEN [labels |-> s.labels, port |-> s.port] ELSE [@ EXCEPT !.labels = s.labels]]
             /\ proc' = [pc |-> "maps", spec |-> proc.spec, todo |-> proc.todo \ {p}, pool |-> p]
  /\ UNCHANGED <<maps, perms, budgets, ingresses, pods>> /\ Alone

\* Files are made and updated here, and removed in the clean-up only.
EnsureConfigMaps ==
  /\ proc.pc = "maps"
  /\ LET s == proc.spec
     IN /\ maps' = [maps EXCEPT ![proc.pool] = IF s.pools[proc.pool].kafka = 0 THEN @ ELSE s.pools[proc.pool].kafka]
        /\ perms' = IF s.perms = 0 THEN perms ELSE s.perms
  /\ Goto("budget")
  /\ UNCHANGED <<services, budgets, ingresses, pods>> /\ Alone

\* A budget is made once the cluster has pods, and what is there is not changed.
ReconcileSinglePDB ==
  /\ proc.pc = "budget"
  /\ LET b == proc.spec.pools[proc.pool].budget
     IN budgets' = [budgets EXCEPT ![proc.pool] =
          IF b = 0 THEN 0 ELSE IF @ # 0 \/ (\A p \in Pools : pods[p] = NoPod) THEN @ ELSE b]
  /\ Goto("service")
  /\ UNCHANGED <<services, maps, perms, ingresses, pods>> /\ Alone

\* A pod reads its pool's file when it starts, and sees the cluster's as it was then.
EnsurePodsExist ==
  /\ proc.pc = "pods"
  /\ LET s == proc.spec
         W == {p \in WithNodes(s) : pods[p] = NoPod}
     IN \/ W = {} /\ Goto("clean maps") /\ UNCHANGED pods
        \/ \E p \in W :
             /\ pods' = [pods EXCEPT ![p] = [kafka |-> IF Mounts(s, p).kafka THEN maps[p] ELSE 0,
                                            perms |-> IF Mounts(s, p).perms THEN perms ELSE 0]]
             /\ proc' = Idle
  /\ UNCHANGED Objects /\ Alone

\* With all pods there, files that the spec does not have any more go,
CleanupMaps ==
  /\ proc.pc = "clean maps"
  /\ maps' = [p \in Pools |-> IF p \in Listed(proc.spec) /\ proc.spec.pools[p].kafka = 0 THEN 0 ELSE maps[p]]
  /\ Goto("clean perms")
  /\ UNCHANGED <<services, perms, budgets, ingresses, pods>> /\ Alone

CleanupPermissions ==
  /\ proc.pc = "clean perms"
  /\ perms' = IF proc.spec.perms = 0 THEN 0 ELSE perms
  /\ Goto("clean services")
  /\ UNCHANGED <<services, maps, budgets, ingresses, pods>> /\ Alone

\* and the services of pools that are to have no nodes.
CleanupServices ==
  /\ proc.pc = "clean services"
  /\ services' = [p \in Pools |-> IF p \in Listed(proc.spec) \ WithNodes(proc.spec) THEN NoService ELSE services[p]]
  /\ proc' = Idle
  /\ UNCHANGED <<maps, perms, budgets, ingresses, pods>> /\ Alone

Work ==
  \/ DeleteMismatchedPods \/ EnsureIngress \/ EnsureService \/ EnsureConfigMaps \/ ReconcileSinglePDB
  \/ EnsurePodsExist \/ CleanupMaps \/ CleanupPermissions \/ CleanupServices

(***************************************************************************)
(* Failures and others                                                     *)
(***************************************************************************)
\* A call fails, pods are not ready, or the operator is restarted.
Fault ==
  /\ proc # Idle
  /\ faults < MaxFaults /\ faults' = faults + 1
  /\ proc' = Idle
  /\ UNCHANGED <<spec, Objects, pods, edits, hurts>>

Edit(what) ==
  /\ what \in Editable
  /\ edits < MaxEdits /\ edits' = edits + 1
  /\ UNCHANGED <<Objects, pods, proc, faults, hurts>>

EditPool(p) ==
  \/ Edit("nodes") /\ spec' = [spec EXCEPT !.pools[p].nodes = 1 - @]
  \/ Edit("listed") /\ p # Main /\ spec' = [spec EXCEPT !.pools[p].listed = ~@]
  \/ \E v \in Version : Edit("kafka") /\ spec' = [spec EXCEPT !.pools[p].kafka = v]
  \/ \E v \in Version : Edit("budget") /\ spec' = [spec EXCEPT !.pools[p].budget = v]
  \/ Edit("labels") /\ spec' = [spec EXCEPT !.pools[p].labels = 3 - @]
  \/ Edit("port") /\ spec' = [spec EXCEPT !.pools[p].port = 3 - @]
EditCluster ==
  \/ \E v \in Version : Edit("perms") /\ spec' = [spec EXCEPT !.perms = v]
  \/ Edit("ingress") /\ spec' = [spec EXCEPT !.ingress = ~@]
  \/ \E h \in Hostnames, v \in Version : Edit("host") /\ spec' = [spec EXCEPT !.host[h] = v]

\* Somebody deletes a pod, a service or a budget.
Lose(p) ==
  /\ hurts < MaxHurts /\ hurts' = hurts + 1
  /\ \/ pods[p] # NoPod /\ pods' = [pods EXCEPT ![p] = NoPod] /\ UNCHANGED <<services, budgets>>
     \/ services[p] # NoService /\ services' = [services EXCEPT ![p] = NoService] /\ UNCHANGED <<pods, budgets>>
     \/ budgets[p] # 0 /\ budgets' = [budgets EXCEPT ![p] = 0] /\ UNCHANGED <<pods, services>>
  /\ UNCHANGED <<spec, maps, perms, ingresses, proc, edits, faults>>

Next ==
  \/ StartReconcile \/ Work \/ Fault \/ EditCluster
  \/ \E p \in Pools : EditPool(p) \/ Lose(p)

\* The queue goes on: changes of the spec and of what the operator owns start a reconcile.
Spec == Init /\ [][Next]_vars /\ WF_vars(StartReconcile) /\ WF_vars(Work)

(***************************************************************************)
(* Properties                                                              *)
(***************************************************************************)
(* The clean-up, which goes by the spec its reconcile started with, takes no file away that a pod
   mounts: neither that of its pool nor that of the cluster, which pods of several pools mount. (All pools keep their
   nodes, and a change of what pods mount is rolled out.) *)
MapsKept ==
  \A p \in Pools :
    /\ pods'[p].kafka > 0 => maps'[p] # 0
    /\ pods'[p].perms > 0 => perms' # 0

(* Once the spec stays the same, and as long as its ingress is one the operator accepts, services,
   files, budgets and ingresses come to be those it asks for and no more, of all its pools: whatever
   was edited while a reconcile was under way, wherever it was cut short, and whatever was deleted. *)
Settled ==
  IngressValid(spec) =>
    /\ \A h \in Hostnames : ingresses[h] = IF spec.ingress THEN spec.host[h] ELSE 0
    /\ perms = spec.perms \/ WithNodes(spec) = {}
    /\ \A p \in WithNodes(spec) :
         /\ pods[p] # NoPod
         /\ services[p].labels = spec.pools[p].labels
         /\ maps[p] = spec.pools[p].kafka
         /\ budgets[p] = 0 <=> spec.pools[p].budget = 0
    /\ \A p \in Listed(spec) \ WithNodes(spec) : services[p] = NoService
=============================================================================
