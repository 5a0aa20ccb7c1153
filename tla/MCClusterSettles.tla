-------------------------- MODULE MCClusterSettles --------------------------
(***************************************************************************)
(* What a cluster comes to in the end, for each of the parts that its      *)
(* resources have. A behaviour is one of BootstrapToken, the host of this  *)
(* module, or of one other part, whose variables v1, v2, ... stand for, in *)
(* the order of its vars; all others rest meanwhile, so that the states of *)
(* the parts add up and do not multiply.                                   *)
(***************************************************************************)
EXTENDS BootstrapToken, MCValues

CONSTANT Parts  \* the parts that a run has

VARIABLES
  part,  \* which of them a behaviour is about; never changes
  v1, v2, v3, v4, v5, v6, v7, v8, v9, v10, v11, v12, v13, v14

others == <<v1, v2, v3, v4, v5, v6, v7, v8, v9, v10, v11, v12, v13, v14>>
all == <<part, vars, others>>

Is(p) == part = p

\* The last variables, which a part has no use for.
Free1 == v14 = 0
Free3 == v12 = 0 /\ v13 = 0 /\ Free1
Free4 == v11 = 0 /\ Free3
Free5 == v10 = 0 /\ Free4
Free6 == v9 = 0 /\ Free5
Free14 == v1 = 0 /\ v2 = 0 /\ v3 = 0 /\ v4 = 0 /\ v5 = 0 /\ v6 = 0 /\ v7 = 0 /\ v8 = 0 /\ Free6

Late == INSTANCE BootstrapToken WITH
  spec <- v1, hbt <- v2, secret <- v3, seen <- v4, pod <- v5, core <- v6, op <- v7, faults <- v8,
  edits <- v9, Ids <- 1..7, Specs <- {Plain}, Lag <- TRUE,
  FaultKinds <- {"call", "stop", "pod_lost"}, MaxFaults <- 1, MaxEdits <- 1
LateStep(A) == Is("late token") /\ A /\ UNCHANGED <<part, vars, v10, v11, v12, v13, v14>>

Claims == INSTANCE VolumeClaims WITH
  node <- v1, claim <- v2, pod <- v3, unseen <- v4, podStatus <- v5, op <- v6, hurts <- v7,
  faults <- v8, Nodes <- {"n1", "n2"}, Names <- {"p", "q"}, NodeCount <- 1, MaxClaims <- 3,
  OnNodeDelete <- TRUE, TLS <- TRUE, Local <- TRUE, CacheLag <- FALSE,
  Hurts <- {"cordon", "delete pod"}, MaxHurts <- 2, MaxFaults <- 0
ClaimsStep(A) == Is("claims") /\ A /\ UNCHANGED <<part, vars, v9, v10, v11, v12, v13, v14>>

Admin == INSTANCE AdminToken WITH
  wanted <- v1, license <- v2, shown <- v3, state <- v4, user <- v5, works <- v6, made <- v7,
  secret <- v8, seen <- v9, away <- v10, op <- v11, edits <- v12, faults <- v13,
  Licenses <- {"l", "m"}, CacheLag <- TRUE, Outages <- TRUE, MaxTokens <- 9, MaxEdits <- 3,
  MaxFaults <- 2
AdminStep(A) == Is("admin") /\ A /\ UNCHANGED <<part, vars, v14>>

Certs == INSTANCE NodeCertificates WITH
  tls <- v1, hosts <- v2, ca <- v3, made <- v4, issuer <- v5, certs <- v6, seen <- v7,
  secrets <- v8, pods <- v9, plain <- v10, proc <- v11, edits <- v12, faults <- v13, hurts <- v14,
  Nodes <- 1, Names <- {"a", "b", "c"}, FirstPool <- TRUE, CacheLags <- FALSE, PodsWait <- FALSE,
  CertsGo <- FALSE, CAGoes <- FALSE, MaxEdits <- 2, MaxFaults <- 1, MaxHurts <- 1
CertsStep(A) == Is("certs") /\ A /\ UNCHANGED <<part, vars>>

Objects == INSTANCE SupportingObjects WITH
  spec <- v1, services <- v2, maps <- v3, perms <- v4, budgets <- v5, ingresses <- v6, pods <- v7,
  proc <- v8, edits <- v9, faults <- v10, hurts <- v11, Pools <- {"main", "extra"},
  Main <- "main",
  Editable <- {"nodes", "listed", "kafka", "perms", "budget", "labels", "ingress", "host"},
  PodsWait <- TRUE, MaxEdits <- 1, MaxFaults <- 1, MaxHurts <- 1
ObjectsStep(A) == Is("objects") /\ A /\ UNCHANGED <<part, vars, v12, v13, v14>>

Clients == INSTANCE HumioClients WITH
  tls <- v1, authority <- v2, token <- v3, secret <- v4, slots <- v5, proc <- v6, worked <- v7,
  state <- v8, edits <- v9, faults <- v10, Resources <- Callers, NameOf <- OwnNames,
  ClusterOf <- Called, Clusters <- {"ext", "managed"}, Ext <- "ext", Watcher <- "watcher",
  Slash <- TRUE, SecretGoes <- FALSE, MaxEdits <- 2, MaxFaults <- 1
ClientsStep(A) == Is("clients") /\ A /\ UNCHANGED <<part, vars, v11, v12, v13, v14>>

Accounts == INSTANCE ServiceAccounts WITH
  annotations <- v1, account <- v2, revision <- v3, pods <- v4, proc <- v5, edits <- v6,
  faults <- v7, hurts <- v8, Pods <- {"a", "b", "c"}, Managed <- TRUE, AccountGoes <- TRUE,
  MaxEdits <- 2, MaxFaults <- 1, MaxHurts <- 2
AccountsStep(A) == Is("accounts") /\ A /\ UNCHANGED <<part, vars, v9, v10, v11, v12, v13, v14>>

KeptAccounts == INSTANCE ServiceAccounts WITH
  annotations <- v1, account <- v2, revision <- v3, pods <- v4, proc <- v5, edits <- v6,
  faults <- v7, hurts <- v8, Pods <- {"a", "b", "c"}, Managed <- TRUE, AccountGoes <- FALSE,
  MaxEdits <- 3, MaxFaults <- 0, MaxHurts <- 2
KeptAccountsStep(A) == Is("kept accounts") /\ A /\ UNCHANGED <<part, vars, v9, v10, v11, v12, v13, v14>>

ASSUME PartsAssumption ==
  /\ Late!BootstrapAssumption
  /\ Claims!ClaimsAssumption
  /\ Admin!AdminTokenAssumption
  /\ Certs!NodesAssumption
  /\ Objects!PoolsAssumption
  /\ Clients!ClustersAssumption
  /\ Accounts!PodsAssumption
  /\ KeptAccounts!PodsAssumption

\* The root token rests where it starts when the behaviour is about another part.
MCInit ==
  /\ part \in Parts
  /\ Init
  /\ Is("root token") \/ (spec = Plain)
  /\ \/ Is("root token") /\ Free14
     \/ Is("late token") /\ Late!Init /\ Free5
     \/ Is("claims") /\ Claims!Init /\ Free6
     \/ Is("admin") /\ Admin!Init /\ Free1
     \/ Is("certs") /\ Certs!Init
     \/ Is("objects") /\ Objects!Init /\ Free3
     \/ Is("clients") /\ Clients!Init /\ Free4
     \/ Is("accounts") /\ Accounts!Init /\ Free6
     \/ Is("kept accounts") /\ KeptAccounts!Init /\ Free6

MCNext ==
  \/ Is("root token") /\ Next /\ UNCHANGED <<part, others>>
  \/ LateStep(Late!Next)
  \/ ClaimsStep(Claims!Next)
  \/ AdminStep(Admin!Next)
  \/ CertsStep(Certs!Next)
  \/ ObjectsStep(Objects!Next)
  \/ ClientsStep(Clients!Next)
  \/ AccountsStep(Accounts!Next)
  \/ KeptAccountsStep(KeptAccounts!Next)

\* A queue goes on, and so do Kubernetes, the certificate manager and the cache of each part.
MCFairness ==
  /\ WF_all(\/ LateStep(Late!Reconcile) \/ ClaimsStep(Claims!Reconcile) \/ AdminStep(Admin!Reconcile)
            \/ CertsStep(Certs!StartReconcile) \/ ObjectsStep(Objects!StartReconcile)
            \/ AccountsStep(Accounts!StartReconcile) \/ KeptAccountsStep(KeptAccounts!StartReconcile))
  /\ WF_all(\/ CertsStep(Certs!Work) \/ ObjectsStep(Objects!Work)
            \/ AccountsStep(Accounts!Work) \/ KeptAccountsStep(KeptAccounts!Work))
  /\ WF_all(\/ LateStep(Late!CacheCatchesUp) \/ AdminStep(Admin!CacheCatchesUp) \/ CertsStep(Certs!CatchUp))
  /\ WF_all(LateStep(Late!EnsureBootstrapToken)) /\ WF_all(LateStep(Late!CreateCore))
  /\ WF_all(LateStep(Late!ReplaceCore)) /\ WF_all(LateStep(Late!StartCore))
  /\ WF_all(LateStep(Late!PodRuns)) /\ WF_all(LateStep(Late!PodEnds)) /\ WF_all(LateStep(Late!CollectGarbage))
  /\ \A p \in {"p", "q"} :
       /\ WF_all(ClaimsStep(Claims!Schedule(p))) /\ WF_all(ClaimsStep(Claims!Unschedulable(p)))
       /\ WF_all(ClaimsStep(Claims!Start(p))) /\ WF_all(ClaimsStep(Claims!LosePod(p)))
       /\ WF_all(ClaimsStep(Claims!CollectPod(p))) /\ WF_all(ClaimsStep(Claims!ShowPod(p)))
  /\ \A c \in 1..3 : WF_all(ClaimsStep(Claims!RemoveClaim(c)))
  /\ WF_all(AdminStep(Admin!ComeBack))
  /\ \A n \in {"a", "b", "c", Certs!Cluster} : WF_all(CertsStep(Certs!Issue(n)))
  /\ \A r \in Callers : WF_all(ClientsStep(Clients!Work(r)))

MCSpec == MCInit /\ [][MCNext]_all /\ MCFairness

(***************************************************************************)
(* Properties                                                              *)
(***************************************************************************)
(* In the end the parts of a cluster are as its resource asks for, whatever is edited, lost or
   cut short: the root token works with pods that were started with it, also with a cache that
   lags; the nodes asked for run with the claims they need; the admin token in the secret works
   and the license is the one asked for; all pods serve with their certificates and none is left
   over; services, config maps, budgets and ingresses follow the spec; clients of all clusters
   reach them, and the state of an external one says so; and every pod was restarted for the
   annotations of its service account. *)
ClusterSettles == <>[](
  /\ Is("late token") => Late!Settled
  /\ Is("claims") => Claims!Settled
  /\ Is("admin") => Admin!Settled
  /\ Is("certs") => Certs!Settled /\ Certs!Clean
  /\ Is("objects") => Objects!Settled
  /\ Is("clients") => Clients!Reached /\ Clients!StateFollows
  /\ Is("accounts") => Accounts!Restarted
  /\ Is("kept accounts") => KeptAccounts!AnnotationsReached)
=============================================================================
