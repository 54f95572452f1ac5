--------------------------- MODULE AdaptiveQuorum ---------------------------
(***************************************************************************)
(* The adaptive quorums of a cluster: on every node an Adjuster goroutine  *)
(* takes a consistency confidence score at each tick of its ticker,        *)
(* smooths it over a MetricsWindow and moves one unit between R and W when *)
(* the average crosses a threshold, at most once per lockout.              *)
(*                                                                         *)
(* The score of a cycle, which ComputeCCS derives from the node's metrics, *)
(* is an input from the set Scores, in percent.  The time since the last   *)
(* adjustment stops counting at Lockout, where nothing can tell it apart.  *)
(***************************************************************************)
EXTENDS Integers, Cluster, Functions

CONSTANTS
  N, InitialQuorums, MinR, MaxR, MinW, MaxW,
  RelaxThreshold, TightenThreshold,  \* CCS_RELAX_, CCS_TIGHTEN_THRESHOLD
  Scores,                            \* scores a cycle may compute
  WindowSize,                        \* samples in the window (10)
  Lockout                            \* lockoutDuration

VARIABLES
  quorum,   \* quorum[n]: currentR and currentW of n
  since,    \* since[n]: time since lastAdjustTime, up to Lockout
  samples,  \* samples[n]: the buffer of n's ccsHistory
  index,    \* index[n]: where the next sample goes
  count,    \* count[n]: how many samples the buffer has
  quiet,    \* history: time since n's R and W last changed, up to Lockout
  early     \* history: R and W of n have changed twice within Lockout

vars == <<quorum, since, samples, index, count, quiet, early>>

Q == INSTANCE QuorumSteps

ASSUME ConfigAssumption ==
  /\ N \in Nat
  /\ InitialQuorums \subseteq Q!Quorum
  /\ \A q \in InitialQuorums : Q!Intersecting(q)
  /\ MinR \in Int /\ MaxR \in Int /\ MinW \in Int /\ MaxW \in Int
  /\ RelaxThreshold \in Int /\ TightenThreshold \in Int
  /\ Scores \subseteq Int
  /\ WindowSize \in Nat \ {0}
  /\ Lockout \in Nat \ {0}

Slot == 0 .. WindowSize - 1

\* NewAdaptiveQuorum leaves lastAdjustTime at the zero time: no lockout yet.
Init ==
  /\ Q!Init
  /\ since = [n \in Node |-> Lockout]
  /\ samples = [n \in Node |-> [i \in Slot |-> 0]]
  /\ index = [n \in Node |-> 0]
  /\ count = [n \in Node |-> 0]
  /\ quiet = [n \in Node |-> Lockout]
  /\ early = [n \in Node |-> FALSE]

\* MetricsWindow.Add: the newest sample takes the place of the oldest.
Add(n, score) ==
  /\ samples' = [samples EXCEPT ![n][index[n]] = score]
  /\ index' = [index EXCEPT ![n] = (@ + 1) % WindowSize]
  /\ count' = [count EXCEPT ![n] = IF @ < WindowSize THEN @ + 1 ELSE @]

\* MetricsWindow.GetAverage against a threshold, without dividing.
Total(buffer, c) ==
  FoldFunctionOnSet(LAMBDA a, b : a + b, 0, buffer, 0 .. c - 1)
AverageBelow(buffer, c, threshold) == Total(buffer, c) < threshold * c
AverageAbove(buffer, c, threshold) == Total(buffer, c) > threshold * c

\* Faulty: two units at once.
WantedTwoSteps(q, buffer, c) ==
  IF AverageBelow(buffer, c, RelaxThreshold) THEN Q!Relax(Q!Relax(q))
  ELSE IF AverageAbove(buffer, c, TightenThreshold) THEN Q!Tighten(q)
  ELSE q

\* Faulty: the thresholds are swapped.
WantedSwapped(q, buffer, c) ==
  IF AverageBelow(buffer, c, TightenThreshold) THEN Q!Tighten(q)
  ELSE IF AverageAbove(buffer, c, RelaxThreshold) THEN Q!Relax(q)
  ELSE q

\* The adjustment the smoothed score calls for, from quorum q.
Wanted(q, buffer, c) ==
  IF AverageBelow(buffer, c, RelaxThreshold) THEN Q!Relax(q)
  ELSE IF AverageAbove(buffer, c, TightenThreshold) THEN Q!Tighten(q)
  ELSE q

\* Faulty: the lockout never runs out.
SinceStuck(t, d) == t

\* time.Since, counted up to the lockout.
Since(t, d) == IF t + d < Lockout THEN t + d ELSE Lockout

\* Faulty: lastAdjustTime is not set.
MarkNothing(n) == UNCHANGED since

\* SetQuorum sets lastAdjustTime.
MarkAdjusted(n) == since' = [since EXCEPT ![n] = 0]

\* One cycle of Adjuster.adjustQuorum at n, a time d after the previous one:
\* the sample is added in any case, then lockout, thresholds and Validate
\* decide.
AdjustQuorum(n, score, d) ==
  LET elapsed == Since(since[n], d)
      q       == Wanted(quorum[n], samples'[n], count'[n])
      adjust  == elapsed >= Lockout /\ q # quorum[n] /\ Q!Validate(q)
  IN  /\ Add(n, score)
      /\ \/ /\ adjust
            /\ Q!SetQuorum(n, q)
            /\ MarkAdjusted(n)
            /\ quiet' = [quiet EXCEPT ![n] = 0]
            /\ early' = [early EXCEPT ![n] = @ \/ Since(quiet[n], d) < Lockout]
         \/ /\ ~ adjust
            /\ since' = [since EXCEPT ![n] = elapsed]
            /\ quiet' = [quiet EXCEPT ![n] = Since(@, d)]
            /\ UNCHANGED <<quorum, early>>

Cycle(n) == \E score \in Scores, d \in 1 .. Lockout : AdjustQuorum(n, score, d)

Next == \E n \in Node : Cycle(n)

Spec == Init /\ [][Next]_vars

\* The ticker of every node keeps firing.
FairSpec == Spec /\ \A n \in Node : WF_vars(Cycle(n))

-----------------------------------------------------------------------------
\* Every variable has its type.
TypeOK ==
  /\ quorum \in [Node -> Q!Quorum]
  /\ since \in [Node -> 0 .. Lockout]
  /\ samples \in [Node -> [Slot -> Scores \cup {0}]]
  /\ index \in [Node -> Slot]
  /\ count \in [Node -> 0 .. WindowSize]
  /\ quiet \in [Node -> 0 .. Lockout]
  /\ early \in [Node -> BOOLEAN]

\* However often the nodes relax and tighten, R + W is on every node what the
\* configuration made it, and so above N: adjustQuorum only moves units
\* between R and W.
SumIsKept ==
  \E q \in InitialQuorums : \A n \in Node :
    /\ quorum[n].r + quorum[n].w = q.r + q.w
    /\ Q!Intersecting(quorum[n])

\* From a configuration within the bounds no sequence of adjustments leaves
\* them, for R or for W, although each adjustment changes both.
BoundsAreKept ==
  (\A q \in InitialQuorums : Q!InBounds(q)) =>
    \A n \in Node : Q!InBounds(quorum[n])

\* Two changes of R and W on one node are at least the lockout apart, however
\* the ticks of the adjuster fall.
AdjustmentsAreApart == \A n \in Node : ~ early[n]

\* The adjusters implement QuorumSteps: seen from outside, a node moves at
\* most one unit between R and W at a time, and no two nodes move together.
ImplementsQuorumSteps == Q!Spec

Healthy(n) ==
  \A i \in 0 .. count[n] - 1 : samples[n][i] > TightenThreshold
Unhealthy(n) ==
  \A i \in 0 .. count[n] - 1 : samples[n][i] < RelaxThreshold

\* On a node whose scores stay above the upper threshold, W grows at R's
\* expense until a bound stops it, and stays there.
HealthyTightens ==
  \A n \in Node :
    <>[]Healthy(n) => <>[](~ Q!Validate(Q!Tighten(quorum[n])))

\* On a node whose scores stay below the lower threshold, R grows at W's
\* expense until a bound stops it, and stays there.
UnhealthyRelaxes ==
  \A n \in Node :
    <>[]Unhealthy(n) => <>[](~ Q!Validate(Q!Relax(quorum[n])))
=============================================================================
