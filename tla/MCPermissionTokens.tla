------------------------- MODULE MCPermissionTokens -------------------------
(***************************************************************************)
(* Two token resources for TLC, whose secrets have one name or two.  A     *)
(* behaviour has two of these: a cache that falls behind, once or twice, a *)
(* failure, an edit.  Names and permissions may be exchanged, so that the  *)
(* first resource has the first of each.                                   *)
(***************************************************************************)
EXTENDS PermissionTokens

CONSTANTS a, b, n1, n2, p, q

MCInit == Init /\ cr[a].name = n1 /\ cr[a].perms = p
MCNext == Next /\ lags' + faults' + edits' <= 2
MCSpec == MCInit /\ [][MCNext]_vars /\ Fairness
=============================================================================
