---------------------------- MODULE MCComponents ----------------------------
(***************************************************************************)
(* An instance of Components for TLC, and second instances of some of its  *)
(* components: claims whose list may miss a new pod, certificates and an   *)
(* authority that others delete, and roles that are not of views.          *)
(***************************************************************************)
EXTENDS Components, MCValues

LateClaims == INSTANCE VolumeClaims WITH
  Names <- VolumePods, Local <- LocalVolumes, NodeCount <- 1, MaxClaims <- 2, CacheLag <- TRUE, MaxHurts <- 2, MaxFaults <- 1

LostCerts == INSTANCE NodeCertificates WITH
  Nodes <- 1, Names <- {"a", "b"}, PodsWait <- TRUE, CertsGo <- TRUE, CAGoes <- TRUE,
  MaxEdits <- 1, MaxFaults <- 1, MaxHurts <- 1

SystemRoles == INSTANCE RoleAssignments WITH
  OtherRoles <- {"c"}, Views <- {0}, ViewRoles <- FALSE, SpecsOf <- Whole,
  MaxEdits <- 2, MaxFaults <- 1

ASSUME SecondAssumption ==
  /\ LateClaims!ClaimsAssumption
  /\ LostCerts!NodesAssumption
  /\ SystemRoles!RoleAssumption

SecondInit ==
  /\ part \in Parts
  /\ NoSearches
  /\ \/ Is("late claims") /\ LateClaims!Init
     \/ Is("lost certs") /\ LostCerts!Init
     \/ Is("system roles") /\ SystemRoles!Init
  /\ Blank

MCInit == PartsInit \/ SecondInit

MCNext ==
  \/ PartsNext
  \/ Step("late claims", LateClaims!Next)
  \/ Step("lost certs", LostCerts!Next)
  \/ Step("system roles", SystemRoles!Next)

MCSpec == MCInit /\ [][MCNext]_all

(* With these constants too the clean-ups take no claim of a node that is up and no certificate
   that a pod uses, and groups keep their roles. *)
SecondKept ==
  [][/\ Is("late claims") => LateClaims!LiveKept
     /\ Is("lost certs") => LostCerts!ServingKept
     /\ Is("system roles") => SystemRoles!NotInterrupted]_all
=============================================================================
