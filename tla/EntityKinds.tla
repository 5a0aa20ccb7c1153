---------------------------- MODULE EntityKinds ----------------------------
(***************************************************************************)
(* The kinds of resources that stand for an object in Humio, told apart by *)
(* what their reconciles do differently.  EntityController is about a CR   *)
(* of any of them.                                                         *)
(***************************************************************************)
Common ==
  [hides   |-> FALSE,  \* looking it up says that it is missing whatever went wrong
   flag    |-> FALSE,  \* there is nothing to update; the finalizer is added last
   byId    |-> FALSE,  \* the ID in the status is looked up first; names are not unique
   stops   |-> FALSE,  \* the reconcile ends after it has added the finalizer
   reports |-> FALSE,  \* the deferred report runs whatever the reconcile did
   checks  |-> FALSE,  \* the spec may be found not to be valid
   placed  |-> FALSE,  \* it is in a view or repository, whose name may be edited
   guards  |-> FALSE,  \* deleting it needs spec.allowDataDeletion
   unsure  |-> "Unknown"]  \* the state that is reported when looking it up failed

HumioUser == Common
HumioSystemPermissionRole == Common
HumioOrganizationPermissionRole == Common
HumioViewPermissionRole == Common
HumioGroup == [Common EXCEPT !.hides = TRUE, !.unsure = "NotFound"]
HumioRepository == [HumioGroup EXCEPT !.guards = TRUE]
HumioView == [HumioGroup EXCEPT !.stops = TRUE]
HumioMultiClusterSearchView == HumioView
HumioParser == [Common EXCEPT !.placed = TRUE]
HumioAlert == [Common EXCEPT !.placed = TRUE, !.stops = TRUE, !.reports = TRUE]
HumioScheduledSearch == HumioAlert
HumioAction == [HumioAlert EXCEPT !.checks = TRUE]
HumioFilterAlert == HumioAction
HumioAggregateAlert == [HumioAction EXCEPT !.unsure = "ConfigError"]
HumioIPFilter == [Common EXCEPT !.byId = TRUE]
HumioFeatureFlag == [Common EXCEPT !.flag = TRUE, !.hides = TRUE, !.reports = TRUE]
=============================================================================
