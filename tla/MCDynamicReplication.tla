------------------------ MODULE MCDynamicReplication ------------------------
(* Small instances of DynamicReplication, with N = 3 and the quorums and *)
(* bounds of k8s/statefulset.yaml. *)
EXTENDS DynamicReplication, TLC

Budget(puts, adjustments, discoveries) ==
  [puts |-> puts, adjustments |-> adjustments, discoveries |-> discoveries]

TwoPutsOrDiscovery == {Budget(2, 1, 0), Budget(1, 1, 1)}
OneAdjustment == {Budget(1, 1, 0)}
OneDiscovery == {Budget(1, 0, 1)}
Deployed == {[r |-> 2, w |-> 2]}
\* The properties are about Gets that begin after some Put was acknowledged.
GetsFollowPuts == \A g \in Get : pc[g] # "idle" => before[g] # {}
Symmetry == Permutations(Node) \cup Permutations(Put)
=============================================================================
