---------------------------- MODULE QuorumSteps ----------------------------
(***************************************************************************)
(* What the quorum sizes of a cluster may do when ADAPTIVE_ENABLED is set: *)
(* every node has its own R and W and moves one unit from one to the other *)
(* whenever it likes, within its bounds.  AdaptiveQuorum adds when and why *)
(* a node moves and implements this specification; DynamicReplication      *)
(* takes its steps next to those of the requests.                          *)
(***************************************************************************)
EXTENDS Integers

CONSTANTS
  Node,                    \* the nodes of the cluster
  N,                       \* the cluster size of the configuration
  InitialQuorums,          \* configurations [r |-> ..., w |-> ...]
  MinR, MaxR, MinW, MaxW   \* bounds of the configuration

VARIABLE quorum            \* quorum[n]: currentR and currentW of n

Quorum == [r : Int, w : Int]

\* R + W > N: every read quorum meets every write quorum of these sizes.
Intersecting(q) == q.r + q.w > N

InBounds(q) == q.r \in MinR .. MaxR /\ q.w \in MinW .. MaxW

\* Faulty: the bounds are not tested.
ValidateWithoutBounds(q) == Intersecting(q)

\* AdaptiveQuorum.Validate, and the same tests in SetQuorum.
Validate(q) == Intersecting(q) /\ InBounds(q)

\* Faulty: W shrinks and R does not grow.
RelaxOnlyW(q) == [r |-> q.r, w |-> q.w - 1]

\* The two adjustments of Adjuster.adjustQuorum.
Relax(q)   == [r |-> q.r + 1, w |-> q.w - 1]
Tighten(q) == [r |-> q.r - 1, w |-> q.w + 1]

Init == \E q \in InitialQuorums : quorum = [n \in Node |-> q]

\* AdaptiveQuorum.SetQuorum at n succeeds.
SetQuorum(n, q) ==
  /\ Validate(q)
  /\ quorum' = [quorum EXCEPT ![n] = q]

Next ==
  \E n \in Node :
    SetQuorum(n, Relax(quorum[n])) \/ SetQuorum(n, Tighten(quorum[n]))

Spec == Init /\ [][Next]_quorum
=============================================================================
