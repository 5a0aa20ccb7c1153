------------------------- MODULE MCEntityController -------------------------
(* Instances of EntityController for TLC: the kinds whose reconciles never lose sight of what
   they made. Looking up a group, repository, view or feature flag hides errors. *)
EXTENDS EntityController

Seeing == {HumioUser, HumioParser, HumioAlert, HumioAction, HumioAggregateAlert, HumioIPFilter}

\* Two IP filters of one name could take each other's ID after a crash, and an object is only
\* looked for in the place that the spec names now.
MCInit == Init /\ (kind = HumioIPFilter => \A c, d \in Crs : cr[c].name = cr[d].name => c = d)
MCNext == Next /\ \A c \in Crs : cr'[c].place = cr[c].place
MCSpec == MCInit /\ [][MCNext]_vars
=============================================================================
