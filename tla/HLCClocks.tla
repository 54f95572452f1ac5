----------------------------- MODULE HLCClocks -----------------------------
(***************************************************************************)
(* The clocks of a cluster: one hlc.Clock per node, advanced by the        *)
(* server's handlers.  Put and HealthCheck issue a timestamp (Clock.Now);  *)
(* Replicate, and HealthCheck when the request carries a timestamp, feed a *)
(* received one to Clock.Update.  Each of these calls holds the clock's    *)
(* mutex for its whole length and is one action; a handler that makes two  *)
(* of them, as HealthCheck does, is two steps here.                        *)
(*                                                                         *)
(* The machine's time is an environment variable that may run ahead, stop  *)
(* or step back on each node separately.  Any issued timestamp may reach   *)
(* any node at any time, any number of times, in any order.                *)
(***************************************************************************)
EXTENDS HLC, Cluster, FiniteSets

CONSTANTS
  MaxDrift,    \* HLC_MAX_DRIFT, in units of the machine's time
  MaxTime,     \* bound on the machine's time
  MaxLogical,  \* bound on logical counters
  MaxIssued    \* bound on the number of timestamps issued

ASSUME BoundsAssumption ==
  /\ MaxDrift \in Nat
  /\ MaxTime \in Nat
  /\ MaxLogical \in Nat
  /\ MaxIssued \in Nat

VARIABLES
  wall,      \* wall[n]: what time.Now() returns at n
  clock,     \* clock[n]: the state of n's hlc.Clock
  highWall,  \* history: the highest value wall[n] has had
  past,      \* history: timestamps in the causal past of n's process
  cause      \* history: for each issued timestamp, its causal past

clockVars == <<wall, clock, highWall, past, cause>>

Time == 0 .. MaxTime
Clock == [physical : Nat, logical : Nat]
Timestamp == [physical : Nat, logical : Nat, nodeID : Node]
issued == DOMAIN cause

ClockInit ==
  /\ wall \in [Node -> Time]
  /\ clock = [n \in Node |-> NewClock(wall[n])]
  /\ highWall = wall
  /\ past = [n \in Node |-> {}]
  /\ cause = [t \in {} |-> {}]

\* Clock.Now at n, called by Put and HealthCheck: a timestamp leaves the node.
Now(n) ==
  LET c  == Tick(clock[n], wall[n])
      ts == Stamp(c, n)
  IN  /\ Cardinality(issued) < MaxIssued
      /\ c.logical <= MaxLogical
      /\ clock' = [clock EXCEPT ![n] = c]
      /\ cause' = [t \in issued \cup {ts} |->
                     IF t = ts THEN past[n] ELSE cause[t]]
      /\ past' = [past EXCEPT ![n] = @ \cup {ts}]
      /\ UNCHANGED <<wall, highWall>>

\* Clock.Update at n accepts ts: n's process now causally follows it.
Accept(n, ts) ==
  LET c == Update(clock[n], ts, wall[n], MaxDrift)
  IN  /\ ~ DriftTooLarge(ts, wall[n], MaxDrift)
      /\ c.logical <= MaxLogical
      /\ clock' = [clock EXCEPT ![n] = c]
      /\ past' = [past EXCEPT ![n] = @ \cup {ts} \cup cause[ts]]
      /\ UNCHANGED <<wall, highWall, cause>>

\* Clock.Update at n returns its drift error; the handlers log it and go on.
Refuse(n, ts) ==
  /\ DriftTooLarge(ts, wall[n], MaxDrift)
  /\ clock' = [clock EXCEPT ![n] = Update(@, ts, wall[n], MaxDrift)]
  /\ UNCHANGED <<wall, highWall, past, cause>>

\* The process at n dies and starts again: nothing about the clock is saved.
Restart(n) ==
  /\ clock' = [clock EXCEPT ![n] = NewClock(wall[n])]
  /\ past' = [past EXCEPT ![n] = {}]
  /\ UNCHANGED <<wall, highWall, cause>>

\* The machine's time at n moves, forward or back.
WallStep(n, t) ==
  /\ wall' = [wall EXCEPT ![n] = t]
  /\ highWall' = [highWall EXCEPT ![n] = IF t > @ THEN t ELSE @]
  /\ UNCHANGED <<clock, past, cause>>

ClockNext ==
  \E n \in Node :
    \/ Now(n)
    \/ \E ts \in issued : Accept(n, ts) \/ Refuse(n, ts)
    \/ Restart(n)
    \/ \E t \in Time : WallStep(n, t)

ClockSpec == ClockInit /\ [][ClockNext]_clockVars

-----------------------------------------------------------------------------
\* Every variable has its type; the causal past of a timestamp is made of
\* issued timestamps.
ClockTypeOK ==
  /\ wall \in [Node -> Nat]
  /\ clock \in [Node -> Clock]
  /\ highWall \in [Node -> Nat]
  /\ issued \subseteq Timestamp
  /\ cause \in [issued -> SUBSET issued]
  /\ past \in [Node -> SUBSET issued]

\* A timestamp happens after every timestamp in its causal past: the earlier
\* ones of the same process, those Clock.Update accepted there, and in turn
\* what those followed, however the machines' times jump.  In particular no
\* process issues a timestamp twice.
CausalOrder ==
  \A t \in issued : \A s \in cause[t] : HappensBefore(s, t)

\* However far ahead other nodes run, accepting their timestamps never takes a
\* clock more than the configured drift beyond the highest time its own
\* machine has shown: the drift check in Clock.Update compares with the
\* machine's time, so the excess cannot accumulate from message to message.
AheadIsBounded ==
  \A n \in Node : clock[n].physical <= highWall[n] + MaxDrift

\* Clock.Update refuses a timestamp of the cluster only when some machine has
\* really been more than the configured drift ahead of the refusing one: the
\* timestamps themselves never run ahead of every machine.
RefusalNeedsSkew ==
  \A n \in Node : \A t \in issued :
    DriftTooLarge(t, wall[n], MaxDrift) =>
      \E m \in Node : highWall[m] - wall[n] > MaxDrift

\* A clock moves back only when its process restarts; time stepping back,
\* late timestamps and refused ones leave it where it was or move it on.
ClockNeverRegresses ==
  [][\A n \in Node : HappensBefore(clock'[n], clock[n]) => Restart(n)]_clockVars
=============================================================================
