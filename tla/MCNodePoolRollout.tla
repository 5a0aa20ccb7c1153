-------------------------- MODULE MCNodePoolRollout --------------------------
(***************************************************************************)
(* The templates the runs of NodePoolRollout choose the users' edits from. *)
(***************************************************************************)
EXTENDS NodePoolRollout

Base == [img |-> 1, cfg |-> 1, src |-> 1, url |-> 1, ok |-> TRUE]

\* Going from image 1 to image 2 is a patch release, going back is not.
PatchUpgrades == {<<1, 2>>}

ConfigEdits == {Base, [Base EXCEPT !.cfg = 2]}
ImageEdits == {Base, [Base EXCEPT !.img = 2]}
AllEdits == {Base, [Base EXCEPT !.img = 2], [Base EXCEPT !.cfg = 2, !.ok = FALSE]}
=============================================================================
