------------------------------- MODULE Packages -------------------------------
(***************************************************************************)
(* A HumioPackage, which the operator downloads from a registry and        *)
(* installs in a number of views, and the HumioPackageRegistry it names.   *)
(*                                                                         *)
(* One action is one call of the package's controller, with the reads that *)
(* lead to it; the views of a resource are checked in one action.  A       *)
(* reconcile of the registry writes at most once and is one action.  The   *)
(* views are numbered in the order in which a resource lists them.         *)
(***************************************************************************)
EXTENDS FiniteSets, Integers

CONSTANTS
  Views,      \* the views that may exist
  Versions,   \* the versions of the package
  Policy,     \* conflictPolicy of the resource: "overwrite" or "error"
  ByRef,      \* are the views named by reference to HumioView resources?
  FaultKinds, MaxFaults,  \* which failures may happen, and a bound on how many
  EditKinds, MaxEdits     \* the same for changes by users

ASSUME PackagesAssumption ==
  /\ Views \subseteq Nat /\ IsFiniteSet(Views) /\ Views # {}
  /\ Versions \subseteq Nat \ {0} /\ Versions # {}
  /\ Policy \in {"overwrite", "error"} /\ ByRef \in BOOLEAN
  /\ MaxFaults \in Nat /\ MaxEdits \in Nat

VARIABLES
  hp,         \* the HumioPackage; named: its status has the name found in the manifest
  registry,   \* the HumioPackageRegistry; up: what it stands for answers
  views,      \* the views there are
  installed,  \* the version in each view, 0 for none
  op,         \* the reconcile: where it is, what it has read and done
  faults, edits

vars == <<hp, registry, views, installed, op, faults, edits>>

States == {"", "Installed", "FailedInstall", "PartialInstall", "NotFound", "ConfigError"}
Package == [there : BOOLEAN, deleting : BOOLEAN, finalizer : BOOLEAN, gen : Nat,
            version : Versions, targets : SUBSET Views, state : States, named : BOOLEAN]
Registry == [there : BOOLEAN, deleting : BOOLEAN, finalizer : BOOLEAN,
             enabled : BOOLEAN, up : BOOLEAN, state : {"", "Disabled", "ConfigError", "Active"}]
Stages == {"idle", "finalizer", "targets", "uninstall", "release",
           "resolve", "confirm", "exists", "download", "validate", "install", "publish"}
Op == [pc : Stages, hp : Package, left : SUBSET Views, failed : SUBSET Views, state : States]

(* Every variable has its type. *)
TypeOK ==
  /\ hp \in Package /\ registry \in Registry
  /\ views \in SUBSET Views /\ installed \in [Views -> Versions \cup {0}]
  /\ op \in Op
  /\ faults \in 0..MaxFaults /\ edits \in 0..MaxEdits

Fault(f) == f \in FaultKinds /\ faults < MaxFaults /\ faults' = faults + 1 /\ UNCHANGED edits
Edit(k) == k \in EditKinds /\ edits < MaxEdits /\ edits' = edits + 1 /\ UNCHANGED faults
Quiet == UNCHANGED <<faults, edits>>

NewPackage(version, targets) ==
  [there |-> TRUE, deleting |-> FALSE, finalizer |-> FALSE, gen |-> 0,
   version |-> version, targets |-> targets, state |-> "", named |-> FALSE]

Init ==
  /\ \E version \in Versions, targets \in (SUBSET Views) \ {{}} : hp = NewPackage(version, targets)
  /\ registry = [there |-> TRUE, deleting |-> FALSE, finalizer |-> FALSE,
                 enabled |-> TRUE, up |-> TRUE, state |-> ""]
  /\ views = Views
  /\ installed = [v \in Views |-> 0]
  /\ op = [pc |-> "idle", hp |-> hp, left |-> {}, failed |-> {}, state |-> ""]
  /\ faults = 0 /\ edits = 0

IsFirst(v, S) == v \in S /\ \A w \in S : v <= w

At(stage) == op.pc = stage
Goto(stage) == op' = [op EXCEPT !.pc = stage]
Conclude(state) == op' = [op EXCEPT !.pc = "publish", !.state = state]

\* ResolveInstallTargets.
Resolvable(targets) == ByRef => targets \subseteq views

(***************************************************************************)
(* The controller of HumioPackage                                          *)
(***************************************************************************)
Begin ==
  /\ At("idle") /\ hp.there
  /\ hp.deleting => hp.finalizer
  /\ op' = [pc |-> IF hp.deleting THEN "targets" ELSE IF hp.finalizer THEN "resolve" ELSE "finalizer",
            hp |-> hp, left |-> {}, failed |-> {}, state |-> ""]
  /\ UNCHANGED <<hp, registry, views, installed>> /\ Quiet

\* A write is refused if the resource has changed since it was read.
Unchanged == hp = op.hp

AddFinalizer ==
  /\ At("finalizer")
  /\ hp' = IF Unchanged THEN [hp EXCEPT !.finalizer = TRUE] ELSE hp
  /\ Goto("idle")
  /\ UNCHANGED <<registry, views, installed>> /\ Quiet

\* finalize: without a name in the status nothing is uninstalled.
FinalizeTargets ==
  /\ At("targets")
  /\ op' = IF op.hp.named /\ Resolvable(op.hp.targets)
           THEN [op EXCEPT !.pc = "uninstall", !.left = op.hp.targets]
           ELSE [op EXCEPT !.pc = "release"]
  /\ UNCHANGED <<hp, registry, views, installed>> /\ Quiet

\* By the name, whatever the version; a package that is not there is no error.
UninstallPackage ==
  /\ At("uninstall")
  /\ \/ /\ op.left = {} /\ Goto("release") /\ UNCHANGED installed
     \/ \E v \in Views :
          /\ IsFirst(v, op.left)
          /\ installed' = [installed EXCEPT ![v] = 0]
          /\ op' = [op EXCEPT !.left = @ \ {v}]
  /\ UNCHANGED <<hp, registry, views>> /\ Quiet

\* Mutant: the finalizer is removed by a patch, which is never refused.
RemoveFinalizer_Patch ==
  /\ At("release")
  /\ hp' = [hp EXCEPT !.finalizer = FALSE, !.there = FALSE]
  /\ Goto("idle")
  /\ UNCHANGED <<registry, views, installed>> /\ Quiet

RemoveFinalizer ==
  /\ At("release")
  /\ hp' = IF Unchanged THEN [hp EXCEPT !.finalizer = FALSE, !.there = FALSE] ELSE hp
  /\ Goto("idle")
  /\ UNCHANGED <<registry, views, installed>> /\ Quiet

\* getPackageRegistryClient, which refuses a disabled registry, and the views.
ResolveInstallTargets ==
  /\ At("resolve")
  /\ IF registry.there /\ registry.enabled /\ Resolvable(op.hp.targets)
     THEN Goto("confirm") ELSE Conclude("ConfigError")
  /\ UNCHANGED <<hp, registry, views, installed>> /\ Quiet

Holds(v) == v \in views /\ installed[v] = op.hp.version

\* CheckPackage: confirmed in all views, the reconcile is over; the state stays as it is.
ConfirmInstalled ==
  /\ At("confirm")
  /\ IF op.hp.named /\ \A v \in op.hp.targets : Holds(v) THEN Goto("idle") ELSE Goto("exists")
  /\ UNCHANGED <<hp, registry, views, installed>> /\ Quiet

CheckPackageExists ==
  /\ At("exists")
  /\ IF registry.up THEN Goto("download") ELSE Conclude("NotFound")
  /\ UNCHANGED <<hp, registry, views, installed>> /\ Quiet

DownloadPackage ==
  /\ At("download")
  /\ IF registry.up THEN Goto("validate") ELSE Conclude("ConfigError")
  /\ UNCHANGED <<hp, registry, views, installed>> /\ Quiet

\* AnalyzePackageFromZip asks the first view; with the policy "error" no version may be there.
Accepts(v) == v \in views /\ (Policy = "error" => installed[v] = 0)

Validate ==
  /\ At("validate")
  /\ op' = IF \A v \in Views : IsFirst(v, op.hp.targets) => Accepts(v)
           THEN [op EXCEPT !.pc = "install", !.left = op.hp.targets]
           ELSE [op EXCEPT !.pc = "publish", !.state = "ConfigError"]
  /\ UNCHANGED <<hp, registry, views, installed>> /\ Quiet

\* The same version conflicts with itself unless it may be overwritten.
Conflict(v) == Policy = "error" /\ installed[v] = op.hp.version

\* InstallPackageFromZip for the next view.
InstallPackage ==
  /\ At("install")
  /\ \E v \in Views :
       /\ IsFirst(v, op.left)
       /\ IF v \in views /\ ~Conflict(v)
          THEN /\ installed' = [installed EXCEPT ![v] = op.hp.version]
               /\ op' = [op EXCEPT !.left = @ \ {v}]
          ELSE /\ UNCHANGED installed
               /\ op' = [op EXCEPT !.left = @ \ {v}, !.failed = @ \cup {v}]
  /\ UNCHANGED <<hp, registry, views>> /\ Quiet

\* installPackage is over.
CountFailures ==
  /\ At("install") /\ op.left = {}
  /\ Conclude(IF op.failed = {} THEN "Installed"
              ELSE IF op.failed = op.hp.targets THEN "FailedInstall" ELSE "PartialInstall")
  /\ UNCHANGED <<hp, registry, views, installed>> /\ Quiet

\* setState: the name comes with the first success and stays.
SetState ==
  /\ At("publish")
  /\ hp' = IF Unchanged THEN [hp EXCEPT !.state = op.state, !.named = @ \/ op.state = "Installed"]
           ELSE hp
  /\ Goto("idle")
  /\ UNCHANGED <<registry, views, installed>> /\ Quiet

Reconcile ==
  \/ Begin \/ AddFinalizer \/ FinalizeTargets \/ UninstallPackage \/ RemoveFinalizer
  \/ ResolveInstallTargets \/ ConfirmInstalled \/ CheckPackageExists \/ DownloadPackage
  \/ Validate \/ InstallPackage \/ CountFailures \/ SetState

\* A call of Humio or of the registry fails, or is refused; one to uninstall after three tries.
CallFails ==
  /\ Fault("call")
  /\ \/ At("confirm") /\ Goto("exists")
     \/ At("exists") /\ Conclude("NotFound")
     \/ op.pc \in {"download", "validate"} /\ Conclude("ConfigError")
     \/ \E v \in Views :
          /\ op.pc \in {"uninstall", "install"} /\ IsFirst(v, op.left)
          /\ op' = [op EXCEPT !.left = @ \ {v}, !.failed = @ \cup {v}]
  /\ UNCHANGED <<hp, registry, views, installed>>

\* The operator dies, or a write to the resource fails.
Stop ==
  /\ ~At("idle")
  /\ Fault("stop")
  /\ Goto("idle")
  /\ UNCHANGED <<hp, registry, views, installed>>

RegistryState ==
  IF ~registry.enabled THEN "Disabled" ELSE IF registry.up THEN "Active" ELSE "ConfigError"

ReconcileRegistry ==
  /\ registry.there
  /\ registry' =
       IF registry.deleting THEN [registry EXCEPT !.there = FALSE, !.finalizer = FALSE]
       ELSE IF ~registry.finalizer THEN [registry EXCEPT !.finalizer = TRUE]
       ELSE [registry EXCEPT !.state = RegistryState]
  /\ UNCHANGED <<hp, views, installed, op>> /\ Quiet

(***************************************************************************)
(* The users                                                               *)
(***************************************************************************)
EditPackage ==
  /\ Edit("package") /\ hp.there
  /\ \E version \in Versions, targets \in (SUBSET Views) \ {{}} :
       hp' = [hp EXCEPT !.gen = edits + 1, !.version = version, !.targets = targets]
  /\ UNCHANGED <<registry, views, installed, op>>

DeletePackage ==
  /\ Edit("delete") /\ hp.there /\ ~hp.deleting
  /\ hp' = [hp EXCEPT !.deleting = TRUE, !.there = hp.finalizer]
  /\ UNCHANGED <<registry, views, installed, op>>

ChangeRegistry ==
  /\ Edit("registry") /\ registry.there
  /\ \/ registry' = [registry EXCEPT !.enabled = ~@]
     \/ registry' = [registry EXCEPT !.up = ~@]
     \/ ~registry.deleting /\ registry' = [registry EXCEPT !.deleting = TRUE, !.there = registry.finalizer]
  /\ UNCHANGED <<hp, views, installed, op>>

ChangeView ==
  /\ Edit("view")
  /\ \E v \in Views :
       IF v \in views THEN views' = views \ {v} /\ installed' = [installed EXCEPT ![v] = 0]
       ELSE views' = views \cup {v} /\ UNCHANGED installed
  /\ UNCHANGED <<hp, registry, op>>

Next ==
  \/ Reconcile \/ ReconcileRegistry \/ CallFails \/ Stop
  \/ EditPackage \/ DeletePackage \/ ChangeRegistry \/ ChangeView

\* A reconcile comes again: after an error, after some seconds, with the next resync.
Fairness == WF_vars(Reconcile) /\ WF_vars(ReconcileRegistry)

Spec == Init /\ [][Next]_vars /\ Fairness

(***************************************************************************)
(* Properties                                                              *)
(***************************************************************************)
(* A resource becomes Installed when its version is in all its views, also when it is
   edited while the package is being installed (while the views stay). *)
InstalledIsTrue ==
  [][hp'.there /\ hp'.state = "Installed" /\ hp.state # "Installed" =>
       \A v \in hp'.targets : installed'[v] = hp'.version]_vars

(* A resource that was installed once and goes leaves no version in its views, also when
   the operator dies on the way or the resource is edited in the meantime (while the views
   stay and no call fails three times). *)
NothingIsLeft ==
  [][hp.there /\ hp.named /\ ~hp'.there => \A v \in hp.targets : installed'[v] = 0]_vars

Good ==
  /\ hp.there /\ ~hp.deleting /\ hp.targets \subseteq views
  /\ registry.there /\ registry.enabled /\ registry.up

AllInstalled == \A v \in hp.targets : installed[v] = hp.version

(* When failures and edits are over, the version of the resource is in all its views, if
   the views and an enabled registry that answers are there. *)
Installs == Good => AllInstalled

RegistryShows ==
  /\ registry.state = "Active" <=> registry.enabled /\ registry.up
  /\ registry.state = "Disabled" <=> ~registry.enabled

(* A deleted package or registry goes, and what a registry shows is how it is. *)
Settled ==
  /\ hp.deleting => ~hp.there
  /\ registry.deleting => ~registry.there
  /\ registry.there => RegistryShows
=============================================================================
