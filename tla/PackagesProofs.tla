---------------------------- MODULE PackagesProofs ----------------------------
(***************************************************************************)
(* What holds of Packages for every set of views and versions, both        *)
(* conflict policies, and any number of failures and edits.                *)
(***************************************************************************)
EXTENDS Packages, TLAPS

(***************************************************************************)
(* Types                                                                   *)
(***************************************************************************)
LEMMA QuietType ==
  ASSUME TypeOK, Quiet
  PROVE  faults' \in 0..MaxFaults /\ edits' \in 0..MaxEdits
BY DEF TypeOK, Quiet

LEMMA FaultType ==
  ASSUME TypeOK, NEW f, Fault(f)
  PROVE  faults' \in 0..MaxFaults /\ edits' \in 0..MaxEdits
<1>1. faults' = faults + 1 /\ faults < MaxFaults /\ faults \in 0..MaxFaults /\ MaxFaults \in Nat
  BY PackagesAssumption DEF TypeOK, Fault
<1>2. edits' \in 0..MaxEdits
  BY DEF TypeOK, Fault
<1> QED BY <1>1, <1>2

LEMMA EditType ==
  ASSUME TypeOK, NEW k, Edit(k)
  PROVE  faults' \in 0..MaxFaults /\ edits' \in 0..MaxEdits
<1>1. edits' = edits + 1 /\ edits < MaxEdits /\ edits \in 0..MaxEdits /\ MaxEdits \in Nat
  BY PackagesAssumption DEF TypeOK, Edit
<1>2. faults' \in 0..MaxFaults
  BY DEF TypeOK, Edit
<1> QED BY <1>1, <1>2

LEMMA GotoType ==
  ASSUME TypeOK, NEW s \in Stages, Goto(s)
  PROVE  op' \in Op
BY DEF TypeOK, Op, Goto

LEMMA ConcludeType ==
  ASSUME TypeOK, NEW s \in States, Conclude(s)
  PROVE  op' \in Op
BY DEF TypeOK, Op, Conclude, Stages

(* In the initial states every variable has its type. *)
LEMMA InitType == Init => TypeOK
<1> SUFFICES ASSUME Init PROVE TypeOK
  OBVIOUS
<1>1. hp \in Package
  <2>1. PICK version \in Versions, targets \in (SUBSET Views) \ {{}} : hp = NewPackage(version, targets)
    BY DEF Init
  <2> QED BY <2>1 DEF NewPackage, Package, States
<1>2. registry \in Registry
  BY DEF Init, Registry
<1>3. op \in Op
  BY <1>1 DEF Init, Op, Stages, States
<1>4. faults \in 0..MaxFaults /\ edits \in 0..MaxEdits
  <2>1. faults = 0 /\ edits = 0
    BY DEF Init
  <2> QED BY <2>1, PackagesAssumption
<1>5. views \in SUBSET Views /\ installed \in [Views -> Versions \cup {0}]
  BY DEF Init
<1> QED BY <1>1, <1>2, <1>3, <1>4, <1>5 DEF TypeOK

(* Every step keeps the types. *)
LEMMA NextType == TypeOK /\ [Next]_vars => TypeOK'
<1> SUFFICES ASSUME TypeOK, [Next]_vars PROVE TypeOK'
  OBVIOUS
<1>0. /\ hp \in Package /\ registry \in Registry /\ op \in Op
      /\ views \in SUBSET Views /\ installed \in [Views -> Versions \cup {0}]
      /\ op.hp \in Package /\ op.hp.version \in Versions /\ op.hp.targets \in SUBSET Views
      /\ op.left \in SUBSET Views /\ op.failed \in SUBSET Views /\ op.state \in States
  BY DEF TypeOK, Op, Package
<1>1. CASE Begin
  <2>1. op' \in Op
    BY <1>0, <1>1 DEF Begin, Op, Stages, States
  <2> QED BY <2>1, <1>0, <1>1, QuietType DEF Begin, TypeOK
<1>2. CASE AddFinalizer
  <2>1. hp' \in Package
    BY <1>0, <1>2 DEF AddFinalizer, Package
  <2>2. op' \in Op
    BY <1>2, GotoType DEF AddFinalizer, Stages
  <2> QED BY <2>1, <2>2, <1>0, <1>2, QuietType DEF AddFinalizer, TypeOK
<1>3. CASE FinalizeTargets
  <2>1. op' \in Op
    BY <1>0, <1>3 DEF FinalizeTargets, Op, Stages
  <2> QED BY <2>1, <1>0, <1>3, QuietType DEF FinalizeTargets, TypeOK
<1>4. CASE UninstallPackage
  <2>1. op' \in Op
    BY <1>0, <1>4, GotoType DEF UninstallPackage, Op, Stages
  <2>2. installed' \in [Views -> Versions \cup {0}]
    BY <1>0, <1>4 DEF UninstallPackage
  <2> QED BY <2>1, <2>2, <1>0, <1>4, QuietType DEF UninstallPackage, TypeOK
<1>5. CASE RemoveFinalizer
  <2>1. hp' \in Package
    BY <1>0, <1>5 DEF RemoveFinalizer, Package
  <2>2. op' \in Op
    BY <1>5, GotoType DEF RemoveFinalizer, Stages
  <2> QED BY <2>1, <2>2, <1>0, <1>5, QuietType DEF RemoveFinalizer, TypeOK
<1>6. CASE ResolveInstallTargets
  <2>1. op' \in Op
    BY <1>6, GotoType, ConcludeType DEF ResolveInstallTargets, Stages, States
  <2> QED BY <2>1, <1>0, <1>6, QuietType DEF ResolveInstallTargets, TypeOK
<1>7. CASE ConfirmInstalled
  <2>1. op' \in Op
    BY <1>7, GotoType DEF ConfirmInstalled, Stages
  <2> QED BY <2>1, <1>0, <1>7, QuietType DEF ConfirmInstalled, TypeOK
<1>8. CASE CheckPackageExists
  <2>1. op' \in Op
    BY <1>8, GotoType, ConcludeType DEF CheckPackageExists, Stages, States
  <2> QED BY <2>1, <1>0, <1>8, QuietType DEF CheckPackageExists, TypeOK
<1>9. CASE DownloadPackage
  <2>1. op' \in Op
    BY <1>9, GotoType, ConcludeType DEF DownloadPackage, Stages, States
  <2> QED BY <2>1, <1>0, <1>9, QuietType DEF DownloadPackage, TypeOK
<1>10. CASE Validate
  <2>1. op' \in Op
    BY <1>0, <1>10 DEF Validate, Op, Stages, States
  <2> QED BY <2>1, <1>0, <1>10, QuietType DEF Validate, TypeOK
<1>11. CASE InstallPackage
  <2>1. op' \in Op
    <3>1. PICK v \in Views : \/ op' = [op EXCEPT !.left = @ \ {v}]
                            \/ op' = [op EXCEPT !.left = @ \ {v}, !.failed = @ \cup {v}]
      BY <1>11 DEF InstallPackage
    <3>2. op.left \ {v} \in SUBSET Views /\ op.failed \cup {v} \in SUBSET Views
      BY <1>0
    <3> QED BY <3>1, <3>2, <1>0 DEF Op
  <2>2. installed' \in [Views -> Versions \cup {0}]
    BY <1>0, <1>11 DEF InstallPackage
  <2> QED BY <2>1, <2>2, <1>0, <1>11, QuietType DEF InstallPackage, TypeOK
<1>12. CASE CountFailures
  <2>1. op' \in Op
    BY <1>12, ConcludeType DEF CountFailures, States
  <2> QED BY <2>1, <1>0, <1>12, QuietType DEF CountFailures, TypeOK
<1>13. CASE SetState
  <2>1. hp' \in Package
    BY <1>0, <1>13 DEF SetState, Package
  <2>2. op' \in Op
    BY <1>13, GotoType DEF SetState, Stages
  <2> QED BY <2>1, <2>2, <1>0, <1>13, QuietType DEF SetState, TypeOK
<1>14. CASE CallFails
  <2>1. op' \in Op
    <3>1. ASSUME Goto("exists") PROVE op' \in Op
      BY <3>1, GotoType DEF Stages
    <3>2. ASSUME Conclude("NotFound") \/ Conclude("ConfigError") PROVE op' \in Op
      BY <3>2, ConcludeType DEF States
    <3>3. ASSUME NEW v \in Views, op' = [op EXCEPT !.left = @ \ {v}, !.failed = @ \cup {v}]
          PROVE  op' \in Op
      <4>1. op.left \ {v} \in SUBSET Views /\ op.failed \cup {v} \in SUBSET Views
        BY <1>0
      <4> QED BY <3>3, <4>1, <1>0 DEF Op
    <3> QED BY <1>14, <3>1, <3>2, <3>3 DEF CallFails
  <2> QED BY <2>1, <1>0, <1>14, FaultType DEF CallFails, TypeOK
<1>15. CASE Stop
  <2>1. op' \in Op
    BY <1>15, GotoType DEF Stop, Stages
  <2> QED BY <2>1, <1>0, <1>15, FaultType DEF Stop, TypeOK
<1>16. CASE ReconcileRegistry
  <2>1. RegistryState \in {"Disabled", "ConfigError", "Active"}
    BY DEF RegistryState
  <2>2. registry' \in Registry
    BY <2>1, <1>0, <1>16 DEF ReconcileRegistry, Registry
  <2> QED BY <2>2, <1>0, <1>16, QuietType DEF ReconcileRegistry, TypeOK
<1>17. CASE EditPackage
  <2>1. edits \in Nat
    BY PackagesAssumption DEF TypeOK
  <2>2. hp' \in Package
    <3>1. PICK version \in Versions, targets \in (SUBSET Views) \ {{}} :
            hp' = [hp EXCEPT !.gen = edits + 1, !.version = version, !.targets = targets]
      BY <1>17 DEF EditPackage
    <3>2. edits + 1 \in Nat /\ targets \in SUBSET Views
      BY <2>1
    <3> QED BY <3>1, <3>2, <1>0 DEF Package
  <2> QED BY <2>2, <1>0, <1>17, EditType DEF EditPackage, TypeOK
<1>18. CASE DeletePackage
  <2>1. hp' \in Package
    BY <1>0, <1>18 DEF DeletePackage, Package
  <2> QED BY <2>1, <1>0, <1>18, EditType DEF DeletePackage, TypeOK
<1>19. CASE ChangeRegistry
  <2>1. registry' \in Registry
    BY <1>0, <1>19 DEF ChangeRegistry, Registry
  <2> QED BY <2>1, <1>0, <1>19, EditType DEF ChangeRegistry, TypeOK
<1>20. CASE ChangeView
  <2>1. views' \in SUBSET Views /\ installed' \in [Views -> Versions \cup {0}]
    BY <1>0, <1>20 DEF ChangeView
  <2> QED BY <2>1, <1>0, <1>20, EditType DEF ChangeView, TypeOK
<1>21. CASE UNCHANGED vars
  BY <1>21 DEF vars, TypeOK
<1> QED BY <1>1, <1>2, <1>3, <1>4, <1>5, <1>6, <1>7, <1>8, <1>9, <1>10, <1>11, <1>12, <1>13, <1>14,
           <1>15, <1>16, <1>17, <1>18, <1>19, <1>20, <1>21 DEF Next, Reconcile

(* Every variable keeps its type: what the controller writes to the resources, the views
   and its own working state stays within the values the code uses. *)
THEOREM PackagesTypeCorrect == Spec => []TypeOK
BY InitType, NextType, PTL DEF Spec

(***************************************************************************)
(* Installed is true                                                       *)
(***************************************************************************)
(* A resource whose package was installed has the finalizer, and so had every copy that an
   installation works on. *)
HasFinalizer ==
  /\ hp.there /\ hp.named => hp.finalizer
  /\ op.pc \in {"resolve", "confirm", "exists", "download", "validate", "install", "publish"}
       => op.hp.finalizer

(* What the reconcile has installed so far is there, all of it when it says Installed. *)
SoFarInstalled ==
  /\ At("install") => \A v \in op.hp.targets \ (op.left \cup op.failed) : installed[v] = op.hp.version
  /\ At("publish") /\ op.state = "Installed" =>
       \A v \in op.hp.targets : installed[v] = op.hp.version

(* What finalize has uninstalled so far is gone, all of it when the finalizer goes. *)
SoFarGone ==
  /\ views = Views
  /\ At("uninstall") => \A v \in op.hp.targets \ op.left : installed[v] = 0
  /\ At("release") /\ op.hp.named => \A v \in op.hp.targets : installed[v] = 0

LEMMA IdleAtFirst == Init => op.pc = "idle"
<1> SUFFICES ASSUME Init PROVE op.pc = "idle"
  OBVIOUS
<1>1. op = [pc |-> "idle", hp |-> hp, left |-> {}, failed |-> {}, state |-> ""]
  BY DEF Init
<1> QED BY <1>1

LEMMA FinalizerInit == Init => HasFinalizer
<1>1. ASSUME Init PROVE ~hp.named
  <2>1. PICK version \in Versions, targets \in (SUBSET Views) \ {{}} : hp = NewPackage(version, targets)
    BY <1>1 DEF Init
  <2> QED BY <2>1 DEF NewPackage
<1> QED BY <1>1, IdleAtFirst DEF HasFinalizer

LEMMA FinalizerStep == TypeOK /\ HasFinalizer /\ [Next]_vars => HasFinalizer'
<1> SUFFICES ASSUME TypeOK, HasFinalizer, [Next]_vars PROVE HasFinalizer'
  OBVIOUS
<1>0. hp \in Package /\ op \in Op
  BY DEF TypeOK
<1>1. CASE Begin
  BY <1>0, <1>1 DEF Begin, HasFinalizer
<1>2. CASE AddFinalizer
  BY <1>0, <1>2 DEF AddFinalizer, HasFinalizer, Goto, At, Package, Op
<1>3. CASE RemoveFinalizer
  BY <1>0, <1>3 DEF RemoveFinalizer, HasFinalizer, Goto, At, Package, Op
<1>4. CASE SetState
  BY <1>0, <1>4 DEF SetState, HasFinalizer, Goto, At, Unchanged, Package, Op
<1>5. CASE FinalizeTargets \/ UninstallPackage
  BY <1>0, <1>5 DEF FinalizeTargets, UninstallPackage, HasFinalizer, Goto, At, Op
<1>6. CASE ResolveInstallTargets \/ ConfirmInstalled \/ CheckPackageExists \/ DownloadPackage
  BY <1>0, <1>6 DEF ResolveInstallTargets, ConfirmInstalled, CheckPackageExists, DownloadPackage,
                    HasFinalizer, Goto, Conclude, At, Op
<1>7. CASE Validate \/ InstallPackage \/ CountFailures
  BY <1>0, <1>7 DEF Validate, InstallPackage, CountFailures, HasFinalizer, Conclude, At, Op
<1>8. CASE CallFails
  BY <1>0, <1>8 DEF CallFails, HasFinalizer, Goto, Conclude, At, Op
<1>9. CASE Stop
  BY <1>0, <1>9 DEF Stop, HasFinalizer, Goto, Op
<1>10. CASE EditPackage \/ DeletePackage
  BY <1>0, <1>10 DEF EditPackage, DeletePackage, HasFinalizer, At, Package
<1>11. CASE ReconcileRegistry \/ ChangeRegistry \/ ChangeView \/ UNCHANGED vars
  BY <1>11 DEF ReconcileRegistry, ChangeRegistry, ChangeView, vars, HasFinalizer, At
<1> QED BY <1>1, <1>2, <1>3, <1>4, <1>5, <1>6, <1>7, <1>8, <1>9, <1>10, <1>11 DEF Next, Reconcile

LEMMA InstalledInit == Init => SoFarInstalled
BY IdleAtFirst DEF SoFarInstalled, At

LEMMA InstalledStep ==
  ASSUME "view" \notin EditKinds
  PROVE  TypeOK /\ SoFarInstalled /\ [Next]_vars => SoFarInstalled'
<1> SUFFICES ASSUME TypeOK, SoFarInstalled, [Next]_vars PROVE SoFarInstalled'
  OBVIOUS
<1>0. op \in Op /\ installed \in [Views -> Versions \cup {0}] /\ op.hp.targets \in SUBSET Views
  BY DEF TypeOK, Op, Package
<1>1. CASE Begin
  BY <1>0, <1>1 DEF Begin, SoFarInstalled, At
<1>2. CASE AddFinalizer \/ RemoveFinalizer \/ SetState
  BY <1>0, <1>2 DEF AddFinalizer, RemoveFinalizer, SetState, SoFarInstalled, Goto, At, Op
<1>3. CASE FinalizeTargets
  BY <1>0, <1>3 DEF FinalizeTargets, SoFarInstalled, At, Op
<1>4. CASE UninstallPackage
  BY <1>0, <1>4 DEF UninstallPackage, SoFarInstalled, Goto, At, Op
<1>5. CASE ResolveInstallTargets \/ ConfirmInstalled \/ CheckPackageExists \/ DownloadPackage
  BY <1>0, <1>5 DEF ResolveInstallTargets, ConfirmInstalled, CheckPackageExists, DownloadPackage,
                    SoFarInstalled, Goto, Conclude, At, Op
<1>6. CASE Validate
  BY <1>0, <1>6 DEF Validate, SoFarInstalled, At, Op
<1>7. CASE InstallPackage
  <2>1. PICK v \in Views :
          \/ /\ installed' = [installed EXCEPT ![v] = op.hp.version]
             /\ op' = [op EXCEPT !.left = @ \ {v}]
          \/ /\ UNCHANGED installed
             /\ op' = [op EXCEPT !.left = @ \ {v}, !.failed = @ \cup {v}]
    BY <1>7 DEF InstallPackage
  <2>2. op.pc = "install" /\ op'.pc = "install" /\ op'.hp = op.hp /\ op'.left = op.left \ {v}
    BY <2>1, <1>0, <1>7 DEF InstallPackage, At, Op
  <2>3. \A w \in op.hp.targets \ (op.left \cup op.failed) : installed[w] = op.hp.version
    BY <2>2 DEF SoFarInstalled, At
  <2>4. CASE /\ installed' = [installed EXCEPT ![v] = op.hp.version]
             /\ op' = [op EXCEPT !.left = @ \ {v}]
    <3>1. op'.failed = op.failed /\ \A w \in Views : installed'[w] = IF w = v THEN op.hp.version ELSE installed[w]
      BY <2>4, <1>0 DEF Op
    <3> QED BY <3>1, <2>2, <2>3, <1>0 DEF SoFarInstalled, At
  <2>5. CASE /\ UNCHANGED installed
             /\ op' = [op EXCEPT !.left = @ \ {v}, !.failed = @ \cup {v}]
    <3>1. op'.failed = op.failed \cup {v}
      BY <2>5, <1>0 DEF Op
    <3> QED BY <3>1, <2>2, <2>3, <2>5, <1>0 DEF SoFarInstalled, At
  <2> QED BY <2>1, <2>4, <2>5
<1>8. CASE CountFailures
  BY <1>0, <1>8 DEF CountFailures, SoFarInstalled, Conclude, At, Op
<1>9. CASE CallFails
  BY <1>0, <1>9 DEF CallFails, SoFarInstalled, Goto, Conclude, At, Op
<1>10. CASE Stop
  BY <1>0, <1>10 DEF Stop, SoFarInstalled, Goto, At, Op
<1>11. CASE ChangeView
  BY <1>11 DEF ChangeView, Edit
<1>12. CASE EditPackage \/ DeletePackage \/ ReconcileRegistry \/ ChangeRegistry \/ UNCHANGED vars
  BY <1>12 DEF EditPackage, DeletePackage, ReconcileRegistry, ChangeRegistry, vars, SoFarInstalled, At
<1> QED BY <1>1, <1>2, <1>3, <1>4, <1>5, <1>6, <1>7, <1>8, <1>9, <1>10, <1>11, <1>12 DEF Next, Reconcile

(* The step that makes a resource Installed finds its version in all its views. *)
LEMMA InstalledAction ==
  TypeOK /\ SoFarInstalled /\ [Next]_vars =>
    (hp'.there /\ hp'.state = "Installed" /\ hp.state # "Installed" =>
       \A v \in hp'.targets : installed'[v] = hp'.version)
<1> SUFFICES ASSUME TypeOK, SoFarInstalled, [Next]_vars, hp'.state = "Installed", hp.state # "Installed"
             PROVE  \A v \in hp'.targets : installed'[v] = hp'.version
  OBVIOUS
<1>0. hp \in Package
  BY DEF TypeOK
<1>1. CASE SetState
  BY <1>0, <1>1 DEF SetState, SoFarInstalled, Unchanged, Package
<1>2. CASE AddFinalizer \/ RemoveFinalizer \/ EditPackage \/ DeletePackage
  BY <1>0, <1>2 DEF AddFinalizer, RemoveFinalizer, EditPackage, DeletePackage, Package
<1>3. CASE UNCHANGED hp
  BY <1>3
<1> QED BY <1>1, <1>2, <1>3
    DEF Next, Reconcile, Begin, FinalizeTargets, UninstallPackage, ResolveInstallTargets, ConfirmInstalled,
        CheckPackageExists, DownloadPackage, Validate, InstallPackage, CountFailures, CallFails, Stop,
        ReconcileRegistry, ChangeRegistry, ChangeView, vars

(* While the views stay, a resource becomes Installed only when its own version is in all
   the views that it lists then: an edit during the installation makes the write fail. *)
THEOREM InstalledTellsTheTruth ==
  ASSUME "view" \notin EditKinds
  PROVE  Spec => InstalledIsTrue
<1>1. TypeOK /\ SoFarInstalled /\ [Next]_vars => SoFarInstalled'
  BY InstalledStep
<1> QED BY <1>1, InstalledInit, InstalledAction, PackagesTypeCorrect, PTL DEF Spec, InstalledIsTrue

(***************************************************************************)
(* Nothing is left                                                         *)
(***************************************************************************)
LEMMA GoneInit == Init => SoFarGone
<1>1. Init => views = Views
  BY DEF Init
<1> QED BY <1>1, IdleAtFirst DEF SoFarGone, At

LEMMA GoneStep ==
  ASSUME "view" \notin EditKinds, "call" \notin FaultKinds
  PROVE  TypeOK /\ SoFarGone /\ [Next]_vars => SoFarGone'
<1> SUFFICES ASSUME TypeOK, SoFarGone, [Next]_vars PROVE SoFarGone'
  OBVIOUS
<1>0. op \in Op /\ installed \in [Views -> Versions \cup {0}] /\ op.hp.targets \in SUBSET Views
  BY DEF TypeOK, Op, Package
<1>1. CASE Begin
  BY <1>0, <1>1 DEF Begin, SoFarGone, At
<1>2. CASE AddFinalizer \/ RemoveFinalizer \/ SetState
  BY <1>0, <1>2 DEF AddFinalizer, RemoveFinalizer, SetState, SoFarGone, Goto, At, Op
<1>3. CASE FinalizeTargets
  BY <1>0, <1>3 DEF FinalizeTargets, Resolvable, SoFarGone, At, Op
<1>4. CASE UninstallPackage
  BY <1>0, <1>4 DEF UninstallPackage, SoFarGone, Goto, At, Op
<1>5. CASE ResolveInstallTargets \/ ConfirmInstalled \/ CheckPackageExists \/ DownloadPackage
  BY <1>0, <1>5 DEF ResolveInstallTargets, ConfirmInstalled, CheckPackageExists, DownloadPackage,
                    SoFarGone, Goto, Conclude, At, Op
<1>6. CASE Validate \/ InstallPackage \/ CountFailures
  BY <1>0, <1>6 DEF Validate, InstallPackage, CountFailures, SoFarGone, Conclude, At, Op
<1>7. CASE CallFails
  BY <1>7 DEF CallFails, Fault
<1>8. CASE Stop
  BY <1>0, <1>8 DEF Stop, SoFarGone, Goto, At, Op
<1>9. CASE ChangeView
  BY <1>9 DEF ChangeView, Edit
<1>10. CASE EditPackage \/ DeletePackage \/ ReconcileRegistry \/ ChangeRegistry \/ UNCHANGED vars
  BY <1>10 DEF EditPackage, DeletePackage, ReconcileRegistry, ChangeRegistry, vars, SoFarGone, At
<1> QED BY <1>1, <1>2, <1>3, <1>4, <1>5, <1>6, <1>7, <1>8, <1>9, <1>10 DEF Next, Reconcile

(* The step with which a resource goes finds none of its versions. *)
LEMMA GoneAction ==
  TypeOK /\ HasFinalizer /\ SoFarGone /\ [Next]_vars =>
    (hp.there /\ hp.named /\ ~hp'.there => \A v \in hp.targets : installed'[v] = 0)
<1> SUFFICES ASSUME TypeOK, HasFinalizer, SoFarGone, [Next]_vars, hp.there, hp.named, ~hp'.there
             PROVE  \A v \in hp.targets : installed'[v] = 0
  OBVIOUS
<1>0. hp \in Package /\ hp.finalizer
  BY DEF TypeOK, HasFinalizer
<1>1. CASE RemoveFinalizer
  BY <1>0, <1>1 DEF RemoveFinalizer, SoFarGone, Unchanged, Package
<1>2. CASE AddFinalizer \/ SetState \/ EditPackage \/ DeletePackage
  BY <1>0, <1>2 DEF AddFinalizer, SetState, EditPackage, DeletePackage, Package
<1>3. CASE UNCHANGED hp
  BY <1>3
<1> QED BY <1>1, <1>2, <1>3
    DEF Next, Reconcile, Begin, FinalizeTargets, UninstallPackage, ResolveInstallTargets, ConfirmInstalled,
        CheckPackageExists, DownloadPackage, Validate, InstallPackage, CountFailures, CallFails, Stop,
        ReconcileRegistry, ChangeRegistry, ChangeView, vars

(* While the views stay and no call of Humio fails, a resource that was installed leaves
   nothing in the views it lists when it goes, whenever it is edited and the operator dies. *)
THEOREM UninstallIsComplete ==
  ASSUME "view" \notin EditKinds, "call" \notin FaultKinds
  PROVE  Spec => NothingIsLeft
<1>1. TypeOK /\ SoFarGone /\ [Next]_vars => SoFarGone'
  BY GoneStep
<1> QED BY <1>1, GoneInit, FinalizerInit, FinalizerStep, GoneAction, PackagesTypeCorrect, PTL
        DEF Spec, NothingIsLeft
=============================================================================
