---------------------------- MODULE MCEviction ----------------------------
(***************************************************************************)
(* Instances of Eviction for TLC: pods in two zones.  A behaviour has a    *)
(* cache and a status that lag, or has not and then has more failures and  *)
(* edits, and somebody else who deletes pods.                              *)
(***************************************************************************)
EXTENDS Eviction

CONSTANTS p1, p2, p3, p4, za, zb

FourPods == {p1, p2, p3, p4}
FourZones == [p \in FourPods |-> IF p \in {p1, p2} THEN za ELSE zb]

MCInit == Init /\ (lagging => count > 1)
MCNext ==
  /\ Next
  /\ lagging => /\ count' > 1 /\ faults' <= 1 /\ edits' <= 1
                /\ \A p \in Pods : ~DeleteByOthers(p)
MCSpec == MCInit /\ [][MCNext]_vars /\ Fairness

(* In the end there are as many pods as there should be, none is being evicted and Humio knows no
   node without a pod, also with a cache and a status that lag; if somebody else deletes a pod its
   node may stay known for ever. *)
ScalesDown == <>[](lagging => Downscaled)
=============================================================================
