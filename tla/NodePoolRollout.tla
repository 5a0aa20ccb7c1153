--------------------------- MODULE NodePoolRollout ---------------------------
(***************************************************************************)
(* How the HumioCluster controller replaces the pods of a cluster's node   *)
(* pools: HumioClusterReconciler.Reconcile and what it calls to decide     *)
(* which pods no longer match (ensureMismatchedPodsAreDeleted), to restart *)
(* pods after a service account change, to provision volumes, to create    *)
(* missing pods (ensurePodsExist) and to wait for them.                    *)
(*                                                                         *)
(* One action is one API write of the handler, with the reads and the      *)
(* decisions that lead to it; the process may crash between two of them.   *)
(* The pods are read through the informer's cache, which may lag behind    *)
(* the API server.  The users edit the spec, and Kubernetes schedules,     *)
(* starts, fails and removes pods, at any time.                            *)
(***************************************************************************)
EXTENDS Integers, FiniteSets, FiniteSetsExt

CONSTANTS
  PoolCount,        \* pools 1..PoolCount, in the order getHumioNodePoolManagers lists them
  MaxPods,          \* bound: pod names 1..MaxPods per pool, in the order of their names
  Zones, NoZone,    \* availability zones, and "no nodeName / no zone pinned"
  Templates,        \* pod templates [img, cfg, src, url, ok] the users write
  Counts,           \* node counts the users write
  Strategies,       \* update strategy types a pool may have
  LatestImages,     \* images whose version is "latest"
  PatchPairs,       \* pairs of images that differ in the patch version only
  MaxUnavailable,   \* spec.updateStrategy.maxUnavailable,
  UnavailableIsPercent,  \* read as a percentage of the node count or as a number
  ZoneAware,        \* spec.updateStrategy.enableZoneAwareness
  MinReady,         \* spec.updateStrategy.minReadySeconds > 0
  CacheLag,         \* whether the informer's cache of pods may lag
  FaultKinds, MaxFaults,  \* which failures may happen, and a bound on how many
  MaxEdits,         \* bound on the users' edits
  Settled           \* start from a settled cluster instead of a new one

Pools == 1..PoolCount
Slots == 1..MaxPods
StrategyTypes ==
  {"OnDelete", "RollingUpdate", "ReplaceAllOnUpdate", "RollingUpdateBestEffort"}

ASSUME PoolCountAssumption == PoolCount \in Nat \ {0}
ASSUME MaxPodsAssumption == MaxPods \in Nat
ASSUME CountsAssumption == Counts \subseteq Nat /\ Counts # {}
ASSUME ZonesAssumption == NoZone \notin Zones
ASSUME StrategiesAssumption == Strategies \subseteq StrategyTypes /\ Strategies # {}
ASSUME TemplatesAssumption == Templates # {}
ASSUME UnavailableAssumption == MaxUnavailable \in Nat
ASSUME BoundsAssumption == MaxFaults \in Nat /\ MaxEdits \in Nat
ASSUME FlagsAssumption ==
  {UnavailableIsPercent, ZoneAware, MinReady, CacheLag, Settled} \subseteq BOOLEAN

VARIABLES
  spec,      \* HumioCluster.spec, per pool: [tmpl, count, strategy]
  saStale,   \* per pool: the ServiceAccount lacks the annotations the spec asks for
  state,     \* HumioCluster.status.state
  status,    \* HumioCluster.status.nodePoolStatus, per pool
  pods,      \* the pods in the API server, per pool and name
  cache,     \* the operator's cached copy of them
  pc,        \* the operator: where in Reconcile it is
  pi,        \* the pool the current loop is at
  mem,       \* the HumioNodePool managers built when the reconcile began
  doomed,    \* pods the current deletion loop has left to delete
  requeue,   \* whether it ends the reconcile once they are deleted
  left,      \* pods the current creation loop has left to create
  expect,    \* pods with the desired hash waitForNewPods waits to see
  chosen,    \* history: the pods of doomed that were seen ready when they were chosen
  lost,      \* history: how many of those it deleted since the pool was last full
  faults,    \* failures so far
  edits      \* edits so far

inputs == <<spec, saStale>>
objects == <<pods, cache, lost>>
operator == <<pc, pi, mem, doomed, chosen, requeue, left, expect>>
budgets == <<faults, edits>>
vars == <<inputs, state, status, objects, operator, budgets>>

(***************************************************************************)
(* Values                                                                  *)
(***************************************************************************)
\* PodHashMinusManagedFields, with the bootstrap token hash saved beside it. What
\* environmentVariablesSource refers to (src) is only in an annotation of the pod.
PodHash(t) == <<t.img, t.cfg, t.url>>
NoHash == <<>>
Hashes == {PodHash(t) : t \in Templates} \cup {NoHash}

States == {"", "Running", "ConfigError", "Pending", "Upgrading", "Restarting"}
Replacing == {"Upgrading", "Restarting"}

Entry == [state : States, rev : Nat, hash : Hashes, zone : Zones \cup {NoZone}]
NoEntry == [state |-> "", rev |-> 0, hash |-> NoHash, zone |-> NoZone]

PoolSpec == [tmpl : Templates, count : Counts, strategy : Strategies]
Manager == [entry : Entry, pool : PoolSpec]

\* "warm": ready, but not yet for minReadySeconds; "bad": unschedulable or a failing
\* container; "evicted": evicted, or stuck on the volume of a node that is gone.
PodPhases == {"pending", "warm", "ready", "bad", "evicted"}
Pod == [rev : Nat, tmpl : Templates, zone : Zones \cup {NoZone},
        phase : PodPhases, deleting : BOOLEAN]
NoPod == [rev |-> 0]

Stages == {"idle", "mismatch", "delete", "provision", "annotated", "creating"}

PodsOf == [Pools -> [Slots -> Pod \cup {NoPod}]]

InputsOK == spec \in [Pools -> PoolSpec] /\ saStale \in [Pools -> BOOLEAN]
StatusOK == state \in States /\ status \in [Pools -> Entry]
ObjectsOK == pods \in PodsOf /\ cache \in PodsOf /\ lost \in [Pools -> Nat]
OperatorOK ==
  /\ pc \in Stages
  /\ pi \in Pools
  /\ mem \in [Pools -> Manager]
  /\ doomed \subseteq Slots
  /\ chosen \subseteq Slots
  /\ requeue \in BOOLEAN
  /\ left \in Nat
  /\ expect \in Nat
BudgetsOK == faults \in 0..MaxFaults /\ edits \in 0..MaxEdits

(* Every variable has its type: in particular the operator's counts of pods never go
   below zero and its status names only revisions, hashes and zones there are. *)
TypeOK == InputsOK /\ StatusOK /\ ObjectsOK /\ OperatorOK /\ BudgetsOK

(***************************************************************************)
(* The pods there are                                                      *)
(***************************************************************************)
Exists(p, s) == pods[p][s] # NoPod
Alive(p, s) == Exists(p, s) /\ ~pods[p][s].deleting
ReadyPods(p) == {s \in Slots : Alive(p, s) /\ pods[p][s].phase = "ready"}
Full(p) == Cardinality(ReadyPods(p)) >= spec[p].count

\* The ready pods a full pool has lost are counted until it is full again.
Recount == lost' = [p \in Pools |-> IF Full(p)' THEN 0 ELSE lost[p]]

(***************************************************************************)
(* What the handler sees of a pool's pods: getPodsStatus                   *)
(***************************************************************************)
View(p) == IF CacheLag THEN cache[p] ELSE pods[p]
Listed(p) == {s \in Slots : View(p)[s] # NoPod}
In(p, phase) ==
  {s \in Listed(p) : View(p)[s].phase = phase /\ ~View(p)[s].deleting}

\* Mutant: a pool that lacks a pod is not waited for.
WaitingForListed(p) ==
  /\ Cardinality(Listed(p)) > Cardinality(In(p, "ready"))
  /\ In(p, "bad") = {}
  /\ In(p, "evicted") = {}

Waiting(p) ==
  LET ready == Cardinality(In(p, "ready"))
  IN /\ ready < mem[p].pool.count \/ Cardinality(Listed(p)) > ready
     /\ In(p, "bad") = {}
     /\ In(p, "evicted") = {}

AllAtRevision(p) ==
  /\ Cardinality(Listed(p)) = mem[p].pool.count
  /\ \A s \in Listed(p) : View(p)[s].rev = mem[p].entry.rev

ScaledMaxUnavailable(count) ==
  LET scaled == IF UnavailableIsPercent
                THEN (MaxUnavailable * count) \div 100 ELSE MaxUnavailable
  IN IF scaled < 1 THEN 1 ELSE scaled

DeletionBudget(p) ==
  LET budget == ScaledMaxUnavailable(mem[p].pool.count) - Cardinality(In(p, "warm"))
  IN IF budget < 0 THEN 0 ELSE budget

(***************************************************************************)
(* How the pods differ from the template: getPodDesiredLifecycleState      *)
(***************************************************************************)
\* Failing pods are looked at first: then the others are not even compared.
Compared(p) == IF In(p, "bad") # {} THEN In(p, "bad") ELSE Listed(p)

Mismatched(p) ==
  {s \in Compared(p) :
     /\ ~View(p)[s].deleting
     /\ View(p)[s].rev # mem[p].entry.rev \/ View(p)[s].tmpl # mem[p].pool.tmpl}

WrongVersion(p) ==
  {s \in Mismatched(p) : View(p)[s].tmpl.img # mem[p].pool.tmpl.img}

\* Mutant: the zone that is pinned is not compared.
ToBeReplacedAnywhere(p) == {s \in Mismatched(p) : View(p)[s].zone # NoZone}

ToBeReplaced(p) ==
  {s \in Mismatched(p) :
     \/ ~ZoneAware
     \/ In(p, "bad") \cup In(p, "evicted") # {}
     \/ /\ View(p)[s].zone # NoZone
        /\ mem[p].entry.zone \in {NoZone, View(p)[s].zone}}

ManualDeletions(p) == mem[p].pool.strategy = "OnDelete"
DifferenceDetected(p) == Mismatched(p) # {} /\ ~ManualDeletions(p)

\* ShouldRollingRestart. The version compared is the one of the last pod that has
\* another version, and whether EXTERNAL_URL differs is what the last pod says.
ShouldRollingRestart(p) ==
  LET from == View(p)[Max(WrongVersion(p))].tmpl.img
      to == mem[p].pool.tmpl.img
  IN /\ WrongVersion(p) # {} => {from, to} \cap LatestImages = {}
     /\ Mismatched(p) # {} =>
          View(p)[Max(Mismatched(p))].tmpl.url = mem[p].pool.tmpl.url
     /\ \/ mem[p].pool.strategy = "RollingUpdate"
        \/ /\ mem[p].pool.strategy = "RollingUpdateBestEffort"
           /\ WrongVersion(p) # {}
           /\ <<from, to>> \in PatchPairs

\* FilterPodsExcludePodsWithPodRevisionOrPodHash
NotAtDesired(p) ==
  {s \in Listed(p) : \/ View(p)[s].rev # mem[p].entry.rev
                     \/ PodHash(View(p)[s].tmpl) # mem[p].entry.hash}

\* The loop over the pods sorted by name that stops after k of them.
FirstOf(S, k) == {s \in S : Cardinality({t \in S : t < s}) < k}

(***************************************************************************)
(* Status writes                                                           *)
(***************************************************************************)
HasNodes(p) == mem[p].pool.count > 0
InMaintenance(p) == status[p] # NoEntry /\ status[p].state # "Running"
\* Mutants: a pool does not look at the others; any pool in maintenance stops all.
AllowsAnyMaintenance(p) == TRUE
AllowsNoMaintenance(p) == \A q \in Pools : ~InMaintenance(q)

AllowsMaintenance(p) ==
  (\E q \in Pools : InMaintenance(q)) => InMaintenance(p)

\* stateOption.Apply: an entry carries the state of the cluster with it.
WriteEntry(p, st, rev, hash, zone) ==
  /\ status' = [status EXCEPT ![p] =
                  [state |-> st, rev |-> rev, hash |-> hash, zone |-> zone]]
  /\ state' = IF st = "" THEN state ELSE st

\* Write p's entry as the manager has it, but for the state and the zone.
WriteState(p, st, zone) ==
  WriteEntry(p, st, mem[p].entry.rev, mem[p].entry.hash, zone)

Goto(stage, p) ==
  /\ pc' = stage
  /\ pi' = p
  /\ doomed' = {}
  /\ chosen' = {}
  /\ requeue' = FALSE
  /\ left' = 0
  /\ expect' = 0

NoManagers ==
  [p \in Pools |-> [entry |-> NoEntry, pool |-> CHOOSE x \in PoolSpec : TRUE]]

\* Return from Reconcile; its result or a watch starts it again.
Return == Goto("idle", 1) /\ mem' = NoManagers

NextPool ==
  /\ IF pi < PoolCount THEN Goto("mismatch", pi + 1) ELSE Goto("provision", 1)
  /\ UNCHANGED mem

Fault(kind) ==
  /\ kind \in FaultKinds
  /\ faults < MaxFaults
  /\ faults' = faults + 1
  /\ UNCHANGED edits

(***************************************************************************)
(* The reconcile begins: verification, first state, unused status entries  *)
(***************************************************************************)
Init ==
  /\ spec \in [Pools -> PoolSpec]
  /\ \A p \in Pools : spec[p].tmpl.ok
  /\ saStale = [p \in Pools |-> FALSE]
  /\ IF Settled
     THEN /\ state = "Running"
          /\ status = [p \in Pools |->
               IF spec[p].count = 0 THEN NoEntry
               ELSE [state |-> "Running", rev |-> 1,
                     hash |-> PodHash(spec[p].tmpl), zone |-> NoZone]]
          /\ \E place \in [Slots -> Zones] :
               pods = [p \in Pools |-> [s \in Slots |->
                 IF s > spec[p].count THEN NoPod
                 ELSE [rev |-> 1, tmpl |-> spec[p].tmpl, zone |-> place[s],
                       phase |-> "ready", deleting |-> FALSE]]]
     ELSE /\ state = ""
          /\ status = [p \in Pools |-> NoEntry]
          /\ pods = [p \in Pools |-> [s \in Slots |-> NoPod]]
  /\ cache = pods
  /\ pc = "idle" /\ pi = 1 /\ mem = NoManagers
  /\ doomed = {} /\ requeue = FALSE /\ left = 0 /\ expect = 0
  /\ chosen = {}
  /\ lost = [p \in Pools |-> 0]
  /\ faults = 0 /\ edits = 0

Snapshot == [p \in Pools |-> [entry |-> status[p], pool |-> spec[p]]]

Invalid == {p \in Pools : spec[p].count > 0 /\ ~spec[p].tmpl.ok}

\* Mutant: the revision is left out of the entry.
RejectPoolAnew ==
  /\ pc = "idle"
  /\ Invalid # {}
  /\ LET p == Min(Invalid)
     IN WriteEntry(p, "ConfigError", 0, status[p].hash, status[p].zone)
  /\ UNCHANGED <<inputs, objects, operator, budgets>>

\* verifyHumioClusterConfigurationIsValid stops at the first pool that is not valid.
RejectPool ==
  /\ pc = "idle"
  /\ Invalid # {}
  /\ LET p == Min(Invalid)
     IN WriteEntry(p, "ConfigError", status[p].rev, status[p].hash, status[p].zone)
  /\ UNCHANGED <<inputs, objects, operator, budgets>>

\* A cluster-wide check fails: license, CA secret, services, service accounts.
RejectCluster ==
  /\ pc = "idle"
  /\ Fault("config")
  /\ state' = "ConfigError"
  /\ UNCHANGED <<inputs, objects, operator, status>>

Unused == {p \in Pools : spec[p].count = 0 /\ status[p] # NoEntry}

\* The managers are built first, so they keep what is then removed from the status.
Begin ==
  /\ pc = "idle"
  /\ Invalid = {}
  /\ mem' = Snapshot
  /\ Goto("mismatch", 1)
  /\ state' = IF state = "" THEN "Running" ELSE state
  /\ IF Unused = {}
     THEN UNCHANGED status
     ELSE \E p \in Unused : status' = [status EXCEPT ![p] = NoEntry]
  /\ UNCHANGED <<inputs, objects, budgets>>

(***************************************************************************)
(* ensureMismatchedPodsAreDeleted                                          *)
(***************************************************************************)
\* Mutant: a revision is saved before the first pods only.
UnsavedAtFirst(p) ==
  mem[p].entry.rev = 0 /\ PodHash(mem[p].pool.tmpl) # mem[p].entry.hash

\* The template is another one than the status has a revision for.
Unsaved(p) ==
  /\ mem[p].entry.rev = 0 \/ state \in Replacing
  /\ PodHash(mem[p].pool.tmpl) # mem[p].entry.hash

\* What it comes to for pool p, in the order of its early returns.
Verdict(p) ==
  IF ~AllowsMaintenance(p) THEN "skip"
  ELSE IF state \in {"Running", "ConfigError"} /\ Mismatched(p) # {} THEN "mark"
  ELSE IF /\ mem[p].entry.state # "Running"
          /\ AllAtRevision(p)
          /\ Listed(p) = In(p, "ready")
          /\ ~Waiting(p)
          /\ Mismatched(p) = {}
  THEN "settle"
  ELSE IF Unsaved(p) THEN "revise"
  ELSE IF In(p, "evicted") # {} THEN "evict"
  ELSE IF /\ ZoneAware /\ mem[p].entry.zone = NoZone
          /\ \E s \in NotAtDesired(p) : View(p)[s].zone # NoZone
  THEN "pin"
  ELSE IF /\ ZoneAware /\ mem[p].entry.zone # NoZone
          /\ \A s \in NotAtDesired(p) : View(p)[s].zone # mem[p].entry.zone
  THEN "unpin"
  ELSE IF ~DifferenceDetected(p) THEN "skip"
  ELSE IF state \in Replacing /\ Waiting(p) /\ ShouldRollingRestart(p) THEN "wait"
  ELSE "delete"

Examine(verdict) == pc = "mismatch" /\ Verdict(pi) = verdict

SkipPool ==
  /\ Examine("skip")
  /\ NextPool
  /\ UNCHANGED <<inputs, state, status, objects, budgets>>

MarkMaintenance ==
  /\ Examine("mark")
  /\ WriteState(pi, IF WrongVersion(pi) # {} THEN "Upgrading" ELSE "Restarting", NoZone)
  /\ Return
  /\ UNCHANGED <<inputs, objects, budgets>>

\* Mutant: a pool has settled when its pods are ready.
MarkRunningWhenReady ==
  /\ pc = "mismatch"
  /\ mem[pi].entry.state # "Running"
  /\ ~Waiting(pi)
  /\ WriteState(pi, "Running", NoZone)
  /\ Return
  /\ UNCHANGED <<inputs, objects, budgets>>

MarkRunning ==
  /\ Examine("settle")
  /\ WriteState(pi, "Running", NoZone)
  /\ Return
  /\ UNCHANGED <<inputs, objects, budgets>>

SaveRevision ==
  /\ Examine("revise")
  /\ WriteEntry(pi, state, mem[pi].entry.rev + 1, PodHash(mem[pi].pool.tmpl), NoZone)
  /\ Return
  /\ UNCHANGED <<inputs, objects, budgets>>

\* r.Delete only marks the pod: it goes once its containers have stopped.
Deleted(p, s) == [pods EXCEPT ![p][s].deleting = TRUE]

DeleteEvicted ==
  /\ Examine("evict")
  /\ LET s == Min(In(pi, "evicted"))
     IN IF Exists(pi, s)
        THEN pods' = Deleted(pi, s) /\ Return
        ELSE UNCHANGED pods /\ NextPool
  /\ UNCHANGED <<inputs, state, status, cache, lost, budgets>>

PinZone ==
  /\ Examine("pin")
  /\ LET s == Min({t \in NotAtDesired(pi) : View(pi)[t].zone # NoZone})
     IN WriteState(pi, mem[pi].entry.state, View(pi)[s].zone)
  /\ Return
  /\ UNCHANGED <<inputs, objects, budgets>>

\* Mutant: the revision is left out when the zone is cleared.
UnpinZoneAnew ==
  /\ Examine("unpin")
  /\ WriteEntry(pi, mem[pi].entry.state, 0, mem[pi].entry.hash, NoZone)
  /\ Return
  /\ UNCHANGED <<inputs, objects, budgets>>

\* Mutant: the reconcile goes on after the write.
UnpinZoneAndGoOn ==
  /\ Examine("unpin")
  /\ WriteState(pi, mem[pi].entry.state, NoZone)
  /\ NextPool
  /\ UNCHANGED <<inputs, objects, budgets>>

UnpinZone ==
  /\ Examine("unpin")
  /\ WriteState(pi, mem[pi].entry.state, NoZone)
  /\ Return
  /\ UNCHANGED <<inputs, objects, budgets>>

\* Mutant: waiting ends the reconcile.
WaitAndReturn ==
  /\ Examine("wait")
  /\ Return
  /\ UNCHANGED <<inputs, state, status, objects, budgets>>

\* Only a message is written, so the reconcile goes on and creates missing pods.
WaitForOtherPods ==
  /\ Examine("wait")
  /\ NextPool
  /\ UNCHANGED <<inputs, state, status, objects, budgets>>

StartDeleting ==
  /\ Examine("delete")
  /\ pc' = "delete"
  /\ doomed' = FirstOf(ToBeReplaced(pi), DeletionBudget(pi))
  /\ chosen' = doomed' \cap In(pi, "ready")
  /\ requeue' = (state = "Upgrading" /\ ~ShouldRollingRestart(pi))
  /\ UNCHANGED <<inputs, state, status, objects, budgets, pi, mem, left, expect>>

DeletePod ==
  /\ pc = "delete"
  /\ doomed # {}
  /\ LET s == Min(doomed)
     IN /\ Exists(pi, s)
        /\ pods' = Deleted(pi, s)
        /\ lost' = [lost EXCEPT ![pi] =
                      IF /\ s \in chosen \cap ReadyPods(pi)
                         /\ Cardinality(ReadyPods(pi)) <= spec[pi].count
                      THEN @ + 1 ELSE @]
        /\ doomed' = doomed \ {s}
  /\ UNCHANGED <<inputs, state, status, cache, budgets,
                 pc, pi, mem, chosen, requeue, left, expect>>

\* The pod is gone already: only a message is written, the other pods are left for
\* later and the reconcile goes on.
PodIsGone ==
  /\ pc = "delete"
  /\ doomed # {}
  /\ ~Exists(pi, Min(doomed))
  /\ NextPool
  /\ UNCHANGED <<inputs, state, status, objects, budgets>>

\* The same when the API call fails for another reason.
DeletePodFails ==
  /\ pc = "delete"
  /\ doomed # {}
  /\ Fault("delete")
  /\ NextPool
  /\ UNCHANGED <<inputs, state, status, objects>>

\* Mutant: the reconcile goes on to create pods while old ones are left.
EndDeletingAndGoOn ==
  /\ pc = "delete"
  /\ doomed = {}
  /\ NextPool
  /\ UNCHANGED <<inputs, state, status, objects, budgets>>

EndDeleting ==
  /\ pc = "delete"
  /\ doomed = {}
  /\ IF requeue THEN Return ELSE NextPool
  /\ UNCHANGED <<inputs, state, status, objects, budgets>>

(***************************************************************************)
(* What comes after the deletions, each step once the ones before it have  *)
(* nothing to do: service account annotations, volumes, missing pods, and  *)
(* waiting for the pods and the license.                                   *)
(***************************************************************************)
Unannotated == {p \in Pools : HasNodes(p) /\ saStale[p]}

UpdateServiceAccount ==
  /\ pc = "provision"
  /\ Unannotated # {}
  /\ saStale' = [saStale EXCEPT ![Min(Unannotated)] = FALSE]
  /\ Goto("annotated", Min(Unannotated))
  /\ UNCHANGED <<spec, state, status, objects, budgets, mem>>

\* The status write that makes every pod of the pool out of date.
BumpRevision ==
  /\ pc = "annotated"
  /\ WriteEntry(pi, state, mem[pi].entry.rev + 1, mem[pi].entry.hash, NoZone)
  /\ Return
  /\ UNCHANGED <<inputs, objects, budgets>>

\* On an error the same write is made, with the revision there was.
ServiceAccountFails ==
  /\ pc = "provision"
  /\ Fault("account")
  /\ \E p \in Pools : HasNodes(p) /\ WriteState(p, state, NoZone)
  /\ Return
  /\ UNCHANGED <<inputs, objects>>

Annotated == pc = "provision" /\ Unannotated = {}

VolumesFail ==
  /\ Annotated
  /\ Fault("volume")
  /\ \E p \in Pools :
       /\ HasNodes(p)
       /\ IF state \in Replacing
          THEN UNCHANGED <<state, status>>
          ELSE WriteState(p, "Pending", mem[p].entry.zone)
  /\ Return
  /\ UNCHANGED <<inputs, objects>>

Short ==
  {p \in Pools : /\ HasNodes(p) /\ AllowsMaintenance(p)
                  /\ Cardinality(Listed(p)) < mem[p].pool.count}

\* waitForNewPods tells the new pods from the old by their hash.
WithNewHash(p) ==
  Cardinality({s \in Listed(p) : PodHash(View(p)[s].tmpl) = PodHash(mem[p].pool.tmpl)})

StartCreating ==
  /\ Annotated
  /\ Short # {}
  /\ LET p == Min(Short)
     IN /\ pi' = p
        /\ left' = mem[p].pool.count - Cardinality(Listed(p))
        /\ expect' = WithNewHash(p)
  /\ pc' = "creating"
  /\ UNCHANGED <<inputs, state, status, objects, budgets, mem, doomed, chosen, requeue>>

\* Mutant: one pod too many.
CreatePodOffByOne ==
  /\ pc = "creating"
  /\ left >= 0
  /\ \E s \in Slots \ Listed(pi) :
       /\ ~Exists(pi, s)
       /\ pods' = [pods EXCEPT ![pi][s] =
                     [rev |-> mem[pi].entry.rev, tmpl |-> mem[pi].pool.tmpl,
                      zone |-> NoZone, phase |-> "pending", deleting |-> FALSE]]
  /\ left' = left - 1
  /\ expect' = expect + 1
  /\ UNCHANGED <<inputs, state, status, cache, lost, budgets,
                 pc, pi, mem, doomed, chosen, requeue>>

\* The name ends in random letters: it is none that the operator has ever seen.
CreatePod ==
  /\ pc = "creating"
  /\ left > 0
  /\ \E s \in Slots \ Listed(pi) :
       /\ ~Exists(pi, s)
       /\ pods' = [pods EXCEPT ![pi][s] =
                     [rev |-> mem[pi].entry.rev, tmpl |-> mem[pi].pool.tmpl,
                      zone |-> NoZone, phase |-> "pending", deleting |-> FALSE]]
  /\ left' = left - 1
  /\ expect' = expect + 1
  /\ UNCHANGED <<inputs, state, status, cache, lost, budgets,
                 pc, pi, mem, doomed, chosen, requeue>>

CreatePodFails ==
  /\ pc = "creating"
  /\ left > 0
  /\ Fault("create")
  /\ Return
  /\ UNCHANGED <<inputs, state, status, objects>>

\* Mutant: the next reconcile does not wait for the pods to be listed.
SeesNoPods ==
  /\ pc = "creating"
  /\ left = 0
  /\ Return
  /\ UNCHANGED <<inputs, state, status, objects, budgets>>

SeesNewPods ==
  /\ pc = "creating"
  /\ left = 0
  /\ WithNewHash(pi) >= expect
  /\ Return
  /\ UNCHANGED <<inputs, state, status, objects, budgets>>

\* Pods it waits for were removed by others meanwhile: it can only time out.
WaitForNewPodsTimesOut ==
  /\ pc = "creating"
  /\ left = 0
  /\ View(pi) = pods[pi]
  /\ WithNewHash(pi) < expect
  /\ Return
  /\ UNCHANGED <<inputs, state, status, objects, budgets>>

Created == Annotated /\ Short = {}
PodsAwaited == \E p \in Pools : HasNodes(p) /\ Waiting(p)

AwaitPods ==
  /\ Created
  /\ PodsAwaited
  /\ Return
  /\ UNCHANGED <<inputs, state, status, objects, budgets>>

\* With no pool in maintenance the license is read, which ends a ConfigError.
Finish ==
  /\ Created
  /\ ~PodsAwaited
  /\ state' = IF /\ state = "ConfigError"
                 /\ \A p \in Pools : HasNodes(p) => ~InMaintenance(p)
              THEN "Running" ELSE state
  /\ Return
  /\ UNCHANGED <<inputs, status, objects, budgets>>

\* No license secret, or no admin token to build a client with.
FinishFails ==
  /\ Created
  /\ ~PodsAwaited
  /\ Fault("config")
  /\ state' = "ConfigError"
  /\ Return
  /\ UNCHANGED <<inputs, status, objects>>

\* The operator's process dies, or an API call it makes returns an error; a restarted
\* process lists the pods anew.
Crash ==
  /\ pc # "idle"
  /\ Fault("crash")
  /\ cache' = pods
  /\ Return
  /\ UNCHANGED <<inputs, state, status, pods, lost>>

Reconcile ==
  \/ RejectPool \/ Begin
  \/ SkipPool \/ MarkMaintenance \/ MarkRunning \/ SaveRevision \/ DeleteEvicted
  \/ PinZone \/ UnpinZone \/ WaitForOtherPods
  \/ StartDeleting \/ DeletePod \/ PodIsGone \/ EndDeleting
  \/ UpdateServiceAccount \/ BumpRevision
  \/ StartCreating \/ CreatePod \/ SeesNewPods \/ WaitForNewPodsTimesOut
  \/ AwaitPods \/ Finish

ReconcileFails ==
  \/ RejectCluster \/ DeletePodFails \/ ServiceAccountFails \/ VolumesFail
  \/ CreatePodFails \/ FinishFails \/ Crash

(***************************************************************************)
(* Kubernetes and the users                                                *)
(***************************************************************************)
CacheSync(p) ==
  /\ CacheLag
  /\ cache[p] # pods[p]
  /\ cache' = [cache EXCEPT ![p] = pods[p]]
  /\ UNCHANGED <<inputs, state, status, pods, lost, operator, budgets>>

PodMoves(p, s, from, to) ==
  /\ Alive(p, s)
  /\ pods[p][s].phase = from
  /\ pods' = [pods EXCEPT ![p][s].phase = to]
  /\ UNCHANGED <<inputs, state, status, cache, operator>>
  /\ Recount

Schedule(p, s) ==
  /\ Alive(p, s)
  /\ pods[p][s].zone = NoZone
  /\ \E z \in Zones : pods' = [pods EXCEPT ![p][s].zone = z, ![p][s].phase = "pending"]
  /\ UNCHANGED <<inputs, state, status, cache, lost, operator, budgets>>

BecomeReady(p, s) ==
  /\ pods[p][s] # NoPod => pods[p][s].zone # NoZone
  /\ PodMoves(p, s, "pending", IF MinReady THEN "warm" ELSE "ready")
  /\ UNCHANGED budgets

MinReadySecondsPass(p, s) == PodMoves(p, s, "warm", "ready") /\ UNCHANGED budgets

\* A failing container is restarted, with the delay of the back-off.
Recover(p, s) == PodMoves(p, s, "bad", "pending") /\ UNCHANGED budgets

\* A pod that cannot be scheduled, a container that fails, a probe that fails, an
\* eviction by the node: what may happen to a pod that is running or starting.
Fail(p, s) ==
  \/ Fault("bad") /\ \E from \in {"pending", "ready"} : PodMoves(p, s, from, "bad")
  \/ Fault("unready") /\ PodMoves(p, s, "ready", "pending")
  \/ Fault("evicted") /\ \E from \in {"pending", "ready"} : PodMoves(p, s, from, "evicted")

Terminated(p, s) ==
  /\ Exists(p, s)
  /\ pods[p][s].deleting
  /\ pods' = [pods EXCEPT ![p][s] = NoPod]
  /\ UNCHANGED <<inputs, state, status, cache, lost, operator, budgets>>

\* Someone else deletes the pod: a user, a node drain.
DeleteByOthers(p, s) ==
  /\ Fault("delete_by_others")
  /\ Alive(p, s)
  /\ pods' = Deleted(p, s)
  /\ UNCHANGED <<inputs, state, status, cache, lost, operator>>

\* With OnDelete it is the users who replace the pods.
ReplaceByHand(p, s) ==
  /\ spec[p].strategy = "OnDelete"
  /\ Alive(p, s)
  /\ pods[p][s].tmpl # spec[p].tmpl \/ pods[p][s].rev # status[p].rev
  /\ pods' = Deleted(p, s)
  /\ UNCHANGED <<inputs, state, status, cache, lost, operator, budgets>>

Edit ==
  /\ edits < MaxEdits
  /\ edits' = edits + 1
  /\ UNCHANGED <<state, status, pods, cache, operator, faults>>

EditTemplate(p) ==
  /\ Edit
  /\ \E t \in Templates \ {spec[p].tmpl} : spec' = [spec EXCEPT ![p].tmpl = t]
  /\ UNCHANGED <<saStale, lost>>

EditCount(p) ==
  /\ Edit
  /\ \E n \in Counts \ {spec[p].count} : spec' = [spec EXCEPT ![p].count = n]
  /\ UNCHANGED saStale
  /\ Recount

EditAnnotations(p) ==
  /\ "account" \in FaultKinds
  /\ Edit
  /\ saStale' = [saStale EXCEPT ![p] = TRUE]
  /\ UNCHANGED <<spec, lost>>

Environment ==
  \E p \in Pools :
    \/ CacheSync(p)
    \/ EditTemplate(p) \/ EditCount(p) \/ EditAnnotations(p)
    \/ \E s \in Slots :
         \/ Schedule(p, s) \/ BecomeReady(p, s) \/ MinReadySecondsPass(p, s)
         \/ Recover(p, s) \/ Fail(p, s) \/ Terminated(p, s)
         \/ DeleteByOthers(p, s) \/ ReplaceByHand(p, s)

(***************************************************************************)
(* The specification                                                       *)
(***************************************************************************)
Next == Reconcile \/ ReconcileFails \/ Environment

\* controller-runtime runs the reconcile again after an error, the RequeueAfter it
\* returned, a watch event or, at last, a resync; the cluster starts and ends pods.
Fairness ==
  /\ WF_vars(Reconcile)
  /\ \A p \in Pools :
       /\ WF_vars(CacheSync(p))
       /\ \A s \in Slots :
            /\ WF_vars(Schedule(p, s))
            /\ WF_vars(BecomeReady(p, s))
            /\ WF_vars(MinReadySecondsPass(p, s))
            /\ WF_vars(Recover(p, s))
            /\ WF_vars(Terminated(p, s))
            /\ WF_vars(ReplaceByHand(p, s))

Spec == Init /\ [][Next]_vars
FairSpec == Spec /\ Fairness

(***************************************************************************)
(* Properties                                                              *)
(***************************************************************************)
Rolling(p) == spec[p].strategy = "RollingUpdate"

(* A rolling replacement takes down at most maxUnavailable ready pods before the
   pool is complete again, although the same reconcile may be cut short and start over
   and its list of pods may be old: the gate on waitingOnPods and the sorted list of
   victims in ensureMismatchedPodsAreDeleted.  (Where the list stays old while the
   template is edited a second time the victims are others, and more are taken down.) *)
RollingBudget ==
  [][\A p \in Pools :
       Rolling(p) /\ state \in Replacing /\ lost'[p] > lost[p] =>
         lost'[p] <= ScaledMaxUnavailable(mem[p].pool.count)]_vars

(* With zone awareness a ready pod is replaced only while its zone is the one pinned
   in the status: the pods of one zone before those of the next, across reconciles
   that each see another list of pods and restart from the status alone. *)
PinnedZone ==
  [][\A p \in Pools, s \in Slots :
       ZoneAware /\ pc = "delete" /\ pi = p /\ s \in chosen
         /\ Alive(p, s) /\ pods'[p][s].deleting =>
         status[p].zone = pods[p][s].zone]_vars

(* While a reconcile works with the entries it read when it began, the status still has
   them, or has none for the pool: every write of an entry ends the reconcile, so that
   none is ever written from a stale copy. *)
ManagersFresh ==
  pc # "idle" => \A p \in Pools : mem[p].entry = status[p] \/ status[p] = NoEntry

(* The revision of a pool goes down only when its status entry is removed, although
   most writes of the entry copy what the managers read when the reconcile began. *)
RevisionMonotone ==
  [][\A p \in Pools : status'[p].rev >= status[p].rev \/ status'[p] = NoEntry]_vars

(* No pod carries a revision its pool has not reached: the revision is saved before
   the first pod with it is created, also when the operator dies in between. *)
PodsNotAhead ==
  \A p \in Pools, s \in Slots :
    Exists(p, s) /\ status[p] # NoEntry => pods[p][s].rev <= status[p].rev

(* A pod that is made while pods are replaced has the revision and the hash the status
   gives its pool: a new template gets a new revision, and is saved, before any pod is
   made from it, whatever is edited and wherever the operator dies in between. *)
NewPodsAsSaved ==
  [][\A p \in Pools, s \in Slots :
       state \in Replacing /\ ~Exists(p, s) /\ pods'[p][s] # NoPod =>
         /\ pods'[p][s].rev = status[p].rev
         /\ PodHash(pods'[p][s].tmpl) = status[p].hash]_vars

(* A pool leaves Upgrading or Restarting only when no live pod is of another
   revision, although the list it is decided on may be old. *)
SettledIsUniform ==
  [][\A p \in Pools :
       status[p].state \in Replacing /\ status'[p].state = "Running" =>
         \A s \in Slots : Alive(p, s) => pods[p][s].rev = status'[p].rev]_vars

(* ensurePodsExist never makes more pods than the pool has nodes: it counts on
   waitForNewPods to see its own pods before the next reconcile counts again. *)
NoSurplus ==
  \A p \in Pools : Cardinality({s \in Slots : Exists(p, s)}) <= Max(Counts)

(* An upgrade with ReplaceAllOnUpdate starts no pod of one version while a pod of
   another version is running in the pool. *)
UpgradeReplacesAll ==
  [][\A p \in Pools, s \in Slots :
       state = "Upgrading" /\ spec[p].strategy = "ReplaceAllOnUpdate"
         /\ ~Exists(p, s) /\ pods'[p][s] # NoPod =>
         \A t \in Slots :
           Alive(p, t) => pods[p][t].tmpl.img = pods'[p][s].tmpl.img]_vars

(* At most one pool at a time is being replaced: what the tests that update two
   pools expect of the status, and nodePoolAllowsMaintenanceOperations is for. *)
OnePoolInMaintenance ==
  Cardinality({p \in Pools : status[p].state \in Replacing}) <= 1

Converged ==
  /\ state = "Running"
  /\ \A p \in Pools :
       /\ status[p].state = "Running"
       /\ Cardinality(ReadyPods(p)) = spec[p].count
       /\ \A s \in Slots : Exists(p, s) =>
            /\ Alive(p, s)
            /\ pods[p][s].tmpl = spec[p].tmpl
            /\ pods[p][s].rev = status[p].rev

(* Once the edits and the failures stop the cluster comes to rest: every pool has its
   nodes, all ready and made from the template the users wrote last, and the operator
   changes nothing any more. *)
Converges == <>[]Converged
=============================================================================
