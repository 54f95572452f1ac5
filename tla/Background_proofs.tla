-------------------------- MODULE Background_proofs --------------------------
(***************************************************************************)
(* Proofs about what a node keeps beside its requests: its hybrid logical  *)
(* clock, for any set of nodes, any drift limit and any bounds; the health *)
(* probe, for any number of peers, goroutines and rounds of discovery; and *)
(* the adjuster of the quorum sizes, for any cluster, any accepted         *)
(* configuration and any scores.                                           *)
(***************************************************************************)
EXTENDS HLCClocks, HealthProbe, AdaptiveQuorum, TLAPS, FiniteSetTheorems

-----------------------------------------------------------------------------
(* The hybrid logical clocks *)

\* Comparing timestamps and clock states (hlc.HappensBefore): only the
\* numbers matter.
Stamped == [physical : Nat, logical : Nat] \cup
           [physical : Nat, logical : Nat, nodeID : Node]

\* HappensBefore is transitive, also when one of the two comparisons is the
\* weak one (not after).
LEMMA HappensBeforeTrans ==
  ASSUME NEW a \in Stamped, NEW b \in Stamped, NEW c \in Stamped,
         ~ HappensBefore(b, a), HappensBefore(b, c)
  PROVE  HappensBefore(a, c)
BY DEF Stamped, HappensBefore

\* Clock.Now moves the clock strictly on, whatever the machine's time is, and
\* never beyond both the clock and the machine's time.
LEMMA TickAdvances ==
  ASSUME NEW c \in Clock, NEW now \in Nat
  PROVE  /\ Tick(c, now) \in Clock
         /\ HappensBefore(c, Tick(c, now))
         /\ Tick(c, now).physical \in {c.physical, now}
BY DEF Tick, Bump, NewClock, HappensBefore, Clock

\* Clock.Update, when it accepts, moves the clock strictly beyond both its old
\* state and the received timestamp; its physical part is the clock's, the
\* remote's or the machine's.
LEMMA UpdateAdvances ==
  ASSUME NEW c \in Clock, NEW ts \in Timestamp, NEW now \in Nat,
         ~ DriftTooLarge(ts, now, MaxDrift)
  PROVE  LET u == Update(c, ts, now, MaxDrift)
         IN  /\ u \in Clock
             /\ HappensBefore(c, u)
             /\ HappensBefore(ts, u)
             /\ u.physical \in {c.physical, ts.physical, now}
<1> DEFINE m == Merge(c, ts)
<1>1. /\ m \in Clock
      /\ HappensBefore(c, m)
      /\ HappensBefore(ts, m)
      /\ m.physical \in {c.physical, ts.physical}
  BY DEF Merge, Bump, HappensBefore, Clock, Timestamp
<1>2. /\ CatchUp(m, now) \in Clock
      /\ HappensBefore(c, CatchUp(m, now))
      /\ HappensBefore(ts, CatchUp(m, now))
      /\ CatchUp(m, now).physical \in {m.physical, now}
  <2> HIDE DEF m
  <2> QED BY <1>1 DEF CatchUp, NewClock, HappensBefore, Clock, Timestamp
<1>3. Update(c, ts, now, MaxDrift) = CatchUp(m, now)
  BY DEF Update
<1> QED BY <1>1, <1>2, <1>3

-----------------------------------------------------------------------------
\* Type correctness of the cluster's clocks (every call of Clock.Now,
\* Clock.Update and NewClock keeps the fields in range).
THEOREM ClockTypeCorrect == ClockSpec => []ClockTypeOK
<1>1. ClockInit => ClockTypeOK
  BY BoundsAssumption DEF ClockInit, ClockTypeOK, Time, Clock, NewClock, issued
<1>2. ClockTypeOK /\ [ClockNext]_clockVars => ClockTypeOK'
  <2> SUFFICES ASSUME ClockTypeOK, [ClockNext]_clockVars PROVE ClockTypeOK'
    OBVIOUS
  <2>1. ASSUME NEW n \in Node, Now(n) PROVE ClockTypeOK'
    <3> DEFINE c == Tick(clock[n], wall[n])
               ts == Stamp(c, n)
    <3>1. c \in Clock
      BY TickAdvances DEF ClockTypeOK
    <3>2. ts \in Timestamp
      BY <3>1 DEF Stamp, Timestamp, Clock
    <3> HIDE DEF c, ts
    <3>3. /\ clock' = [clock EXCEPT ![n] = c]
          /\ cause' = [t \in issued \cup {ts} |->
                         IF t = ts THEN past[n] ELSE cause[t]]
          /\ past' = [past EXCEPT ![n] = @ \cup {ts}]
          /\ UNCHANGED <<wall, highWall>>
      BY <2>1 DEF Now, c, ts
    <3>4. issued' = issued \cup {ts}
      BY <3>3 DEF issued
    <3>5. cause' \in [issued' -> SUBSET issued']
      BY <3>3, <3>4 DEF ClockTypeOK
    <3>6. past' \in [Node -> SUBSET issued']
      BY <3>3, <3>4 DEF ClockTypeOK
    <3> QED BY <3>1, <3>2, <3>3, <3>4, <3>5, <3>6 DEF ClockTypeOK
  <2>2. ASSUME NEW n \in Node, NEW ts \in issued, Accept(n, ts) PROVE ClockTypeOK'
    <3>1. Update(clock[n], ts, wall[n], MaxDrift) \in Clock
      BY <2>2, UpdateAdvances DEF Accept, ClockTypeOK
    <3> QED BY <2>2, <3>1 DEF Accept, ClockTypeOK, issued
  <2>3. ASSUME NEW n \in Node, NEW ts \in issued, Refuse(n, ts) PROVE ClockTypeOK'
    BY <2>3 DEF Refuse, Update, ClockTypeOK, issued
  <2>4. ASSUME NEW n \in Node, Restart(n) PROVE ClockTypeOK'
    BY <2>4 DEF Restart, NewClock, Clock, ClockTypeOK, issued
  <2>5. ASSUME NEW n \in Node, NEW t \in Time, WallStep(n, t) PROVE ClockTypeOK'
    BY <2>5, BoundsAssumption DEF WallStep, Time, ClockTypeOK, issued
  <2>6. CASE UNCHANGED clockVars
    BY <2>6 DEF clockVars, ClockTypeOK, issued
  <2> QED BY <2>1, <2>2, <2>3, <2>4, <2>5, <2>6 DEF ClockNext
<1> QED BY <1>1, <1>2, PTL DEF ClockSpec

-----------------------------------------------------------------------------
\* Why CausalOrder holds: a clock is never before anything in its process's
\* causal past, so the next timestamp is after all of it.
CausalInv ==
  /\ ClockTypeOK
  /\ \A n \in Node : \A s \in past[n] : ~ HappensBefore(clock[n], s)
  /\ CausalOrder

\* Every timestamp of the cluster happens after its causal past, whatever the
\* machines' times do and however timestamps are delayed, repeated or
\* reordered on their way to Clock.Update.
THEOREM CausalOrderHolds == ClockSpec => []CausalOrder
<1>1. ClockInit => CausalInv
  <2> SUFFICES ASSUME ClockInit PROVE CausalInv
    OBVIOUS
  <2>1. ClockTypeOK
    BY BoundsAssumption DEF ClockInit, ClockTypeOK, Time, Clock, NewClock, issued
  <2> QED BY <2>1 DEF ClockInit, CausalInv, CausalOrder, issued
<1>2. CausalInv /\ ClockTypeOK' /\ [ClockNext]_clockVars => CausalInv'
  <2> SUFFICES ASSUME CausalInv, ClockTypeOK', [ClockNext]_clockVars PROVE CausalInv'
    OBVIOUS
  <2> USE DEF CausalInv
  <2>0. /\ \A n \in Node : clock[n] \in Clock /\ clock[n] \in Stamped
        /\ \A n \in Node : wall[n] \in Nat
        /\ \A t \in issued : t \in Timestamp /\ t \in Stamped
        /\ \A n \in Node : past[n] \subseteq issued
        /\ \A t \in issued : cause[t] \subseteq issued
    BY DEF ClockTypeOK, Stamped, Clock, Timestamp
  <2>1. ASSUME NEW n \in Node, Now(n) PROVE CausalInv'
    <3> DEFINE c == Tick(clock[n], wall[n])
               ts == Stamp(c, n)
    <3>1. /\ c \in Clock
          /\ HappensBefore(clock[n], c)
      BY <2>0, TickAdvances
    <3>2. /\ ts \in Timestamp
          /\ \A h : HappensBefore(h, c) <=> HappensBefore(h, ts)
          /\ ~ HappensBefore(c, ts)
      BY <3>1 DEF Stamp, Timestamp, Clock, HappensBefore
    <3>3. /\ clock' = [clock EXCEPT ![n] = c]
          /\ cause' = [t \in issued \cup {ts} |->
                         IF t = ts THEN past[n] ELSE cause[t]]
          /\ past' = [past EXCEPT ![n] = @ \cup {ts}]
      BY <2>1 DEF Now
    <3> HIDE DEF c, ts
    <3>4. issued' = issued \cup {ts}
      BY <3>3 DEF issued
    <3>5. \A s \in past[n] : HappensBefore(s, c)
      <4> TAKE s \in past[n]
      <4>1. s \in Stamped /\ c \in Stamped /\ ~ HappensBefore(clock[n], s)
        BY <2>0, <3>1 DEF Stamped, Clock
      <4> QED BY <2>0, <3>1, <4>1, HappensBeforeTrans
    <3>6. CausalOrder'
      BY <3>2, <3>3, <3>4, <3>5 DEF CausalOrder
    <3>7. \A s \in past[n] : ~ HappensBefore(c, s)
      BY <2>0, <3>1, <3>5 DEF HappensBefore, Clock, Timestamp
    <3>8. \A m \in Node : \A s \in past'[m] : ~ HappensBefore(clock'[m], s)
      BY <3>2, <3>3, <3>7 DEF ClockTypeOK
    <3> QED BY <3>6, <3>8
  <2>2. ASSUME NEW n \in Node, NEW ts \in issued, Accept(n, ts)
        PROVE  CausalInv'
    <3> DEFINE c == Update(clock[n], ts, wall[n], MaxDrift)
    <3>1. /\ c \in Clock
          /\ HappensBefore(clock[n], c)
          /\ HappensBefore(ts, c)
      BY <2>0, <2>2, UpdateAdvances DEF Accept
    <3>2. /\ clock' = [clock EXCEPT ![n] = c]
          /\ past' = [past EXCEPT ![n] = @ \cup {ts} \cup cause[ts]]
          /\ cause' = cause
      BY <2>2 DEF Accept
    <3> HIDE DEF c
    <3>3. \A s \in past[n] \cup {ts} \cup cause[ts] : ~ HappensBefore(c, s)
      <4> TAKE s \in past[n] \cup {ts} \cup cause[ts]
      <4>1. s \in Timestamp
        BY <2>0
      <4>2. CASE s \in past[n]
        BY <2>0, <3>1, <4>1, <4>2 DEF HappensBefore, Clock, Timestamp
      <4>3. CASE s = ts
        BY <2>0, <3>1, <4>3 DEF HappensBefore, Clock, Timestamp
      <4>4. CASE s \in cause[ts]
        <5>1. HappensBefore(s, ts)
          BY <4>4 DEF CausalOrder
        <5> QED BY <2>0, <3>1, <4>1, <5>1 DEF HappensBefore, Clock, Timestamp
      <4> QED BY <4>2, <4>3, <4>4
    <3>4. CausalOrder'
      BY <3>2 DEF CausalOrder, issued
    <3>5. \A m \in Node : \A s \in past'[m] : ~ HappensBefore(clock'[m], s)
      BY <3>2, <3>3 DEF ClockTypeOK
    <3> QED BY <3>4, <3>5
  <2>3. ASSUME NEW n \in Node, NEW ts \in issued, Refuse(n, ts)
        PROVE  CausalInv'
    <3>1. clock' = clock /\ past' = past /\ cause' = cause
      BY <2>3 DEF Refuse, Update, ClockTypeOK
    <3> QED BY <3>1 DEF CausalOrder, issued
  <2>4. ASSUME NEW n \in Node, Restart(n) PROVE CausalInv'
    BY <2>4 DEF Restart, CausalOrder, ClockTypeOK, issued
  <2>5. ASSUME NEW n \in Node, NEW t \in Time, WallStep(n, t) PROVE CausalInv'
    BY <2>5 DEF WallStep, CausalOrder, issued
  <2>6. CASE UNCHANGED clockVars
    BY <2>6 DEF clockVars, CausalOrder, issued
  <2> QED BY <2>1, <2>2, <2>3, <2>4, <2>5, <2>6 DEF ClockNext
<1>3. CausalInv => CausalOrder
  BY DEF CausalInv
<1> QED BY <1>1, <1>2, <1>3, ClockTypeCorrect, PTL DEF ClockSpec

-----------------------------------------------------------------------------
\* Why the two skew properties hold: a clock is bounded by its own machine's
\* highest time plus the drift, and, like every timestamp, by the highest time
\* of some machine, because Clock.Update only ever copies physical parts.
SkewInv ==
  /\ ClockTypeOK
  /\ \A n \in Node : wall[n] <= highWall[n]
  /\ AheadIsBounded
  /\ \A n \in Node : \E m \in Node : clock[n].physical <= highWall[m]
  /\ \A t \in issued : \E m \in Node : t.physical <= highWall[m]

\* Both bounds of SkewInv on what Clock.Update accepts hold in every state.
LEMMA SkewInvariant == ClockSpec => []SkewInv
<1>1. ClockInit => SkewInv
  <2> SUFFICES ASSUME ClockInit PROVE SkewInv
    OBVIOUS
  <2>1. ClockTypeOK
    BY BoundsAssumption DEF ClockInit, ClockTypeOK, Time, Clock, NewClock, issued
  <2> QED
    BY <2>1, BoundsAssumption
    DEF ClockInit, SkewInv, AheadIsBounded, NewClock, Time, ClockTypeOK, issued
<1>2. SkewInv /\ ClockTypeOK' /\ [ClockNext]_clockVars => SkewInv'
  <2> SUFFICES ASSUME SkewInv, ClockTypeOK', [ClockNext]_clockVars PROVE SkewInv'
    OBVIOUS
  <2> USE BoundsAssumption DEF SkewInv, AheadIsBounded
  <2>0. /\ \A n \in Node : clock[n] \in Clock
        /\ \A n \in Node : clock[n].physical \in Nat
        /\ \A n \in Node : wall[n] \in Nat /\ highWall[n] \in Nat
        /\ \A t \in issued : t \in Timestamp /\ t.physical \in Nat
    BY DEF ClockTypeOK, Clock, Timestamp
  <2>1. ASSUME NEW n \in Node, Now(n) PROVE SkewInv'
    <3> DEFINE c == Tick(clock[n], wall[n])
               ts == Stamp(c, n)
    <3>1. /\ c.physical \in {clock[n].physical, wall[n]}
          /\ ts.physical = c.physical
      BY <2>0, TickAdvances DEF Stamp
    <3>2. /\ clock' = [clock EXCEPT ![n] = c]
          /\ issued' = issued \cup {ts}
          /\ wall' = wall /\ highWall' = highWall
      BY <2>1 DEF Now, issued
    <3> HIDE DEF c, ts
    <3>3. /\ c.physical <= highWall[n] + MaxDrift
          /\ \E m \in Node : c.physical <= highWall[m]
      BY <2>0, <3>1
    <3> QED BY Zenon, <2>0, <3>1, <3>2, <3>3 DEF ClockTypeOK
  <2>2. ASSUME NEW n \in Node, NEW ts \in issued, Accept(n, ts)
        PROVE  SkewInv'
    <3> DEFINE c == Update(clock[n], ts, wall[n], MaxDrift)
    <3>1. c.physical \in {clock[n].physical, ts.physical, wall[n]}
      BY <2>0, <2>2, UpdateAdvances DEF Accept
    <3>2. ts.physical <= wall[n] + MaxDrift
      BY <2>0, <2>2 DEF Accept, DriftTooLarge
    <3>3. /\ clock' = [clock EXCEPT ![n] = c]
          /\ issued' = issued
          /\ wall' = wall /\ highWall' = highWall
      BY <2>2 DEF Accept, issued
    <3> HIDE DEF c
    <3>4. /\ c.physical <= highWall[n] + MaxDrift
          /\ \E m \in Node : c.physical <= highWall[m]
      BY <2>0, <3>1, <3>2
    <3> QED BY Zenon, <3>3, <3>4 DEF ClockTypeOK
  <2>3. ASSUME NEW n \in Node, NEW ts \in issued, Refuse(n, ts)
        PROVE  SkewInv'
    <3>1. clock' = clock /\ wall' = wall /\ highWall' = highWall
      BY <2>3 DEF Refuse, Update, ClockTypeOK
    <3> QED BY <2>3, <3>1 DEF Refuse, issued
  <2>4. ASSUME NEW n \in Node, Restart(n) PROVE SkewInv'
    <3> DEFINE c == NewClock(wall[n])
    <3>1. c.physical = wall[n]
      BY DEF NewClock
    <3>2. /\ clock' = [clock EXCEPT ![n] = c]
          /\ issued' = issued
          /\ wall' = wall /\ highWall' = highWall
      BY <2>4 DEF Restart, issued
    <3> HIDE DEF c
    <3>3. /\ c.physical <= highWall[n] + MaxDrift
          /\ \E m \in Node : c.physical <= highWall[m]
      BY <2>0, <3>1
    <3> QED BY <3>2, <3>3 DEF ClockTypeOK
  <2>5. ASSUME NEW n \in Node, NEW t \in Time, WallStep(n, t) PROVE SkewInv'
    <3>1. /\ wall' = [wall EXCEPT ![n] = t]
          /\ highWall' = [highWall EXCEPT ![n] = IF t > @ THEN t ELSE @]
          /\ clock' = clock /\ issued' = issued
          /\ t \in Nat
      BY <2>5 DEF WallStep, Time, issued
    <3>2. \A m \in Node : highWall'[m] \in Nat /\ highWall[m] <= highWall'[m]
      BY <2>0, <3>1 DEF ClockTypeOK
    <3>3. \A m \in Node : wall'[m] <= highWall'[m]
      BY <2>0, <3>1 DEF ClockTypeOK
    <3> QED BY <2>0, <3>1, <3>2, <3>3
  <2>6. CASE UNCHANGED clockVars
    BY <2>6 DEF clockVars, issued
  <2> QED BY Zenon, <2>1, <2>2, <2>3, <2>4, <2>5, <2>6 DEF ClockNext
<1> QED BY <1>1, <1>2, ClockTypeCorrect, PTL DEF ClockSpec

\* A clock never runs more than MaxDrift ahead of the highest time its own
\* machine has shown, whatever timestamps Clock.Update is given.
THEOREM AheadIsBoundedHolds == ClockSpec => []AheadIsBounded
<1>1. SkewInv => AheadIsBounded
  BY DEF SkewInv
<1> QED BY <1>1, SkewInvariant, PTL

\* Clock.Update refuses a timestamp of the cluster only if some machine has
\* been more than MaxDrift ahead of the refusing machine.
THEOREM RefusalNeedsSkewHolds == ClockSpec => []RefusalNeedsSkew
<1>1. SkewInv => RefusalNeedsSkew
  <2> SUFFICES ASSUME SkewInv, NEW n \in Node, NEW t \in issued,
                      DriftTooLarge(t, wall[n], MaxDrift)
               PROVE  \E m \in Node : highWall[m] - wall[n] > MaxDrift
    BY DEF RefusalNeedsSkew
  <2>1. PICK m \in Node : t.physical <= highWall[m]
    BY DEF SkewInv
  <2>2. /\ t.physical \in Nat /\ highWall[m] \in Nat /\ wall[n] \in Nat
        /\ MaxDrift \in Nat
    BY BoundsAssumption DEF SkewInv, ClockTypeOK, Timestamp
  <2> QED BY <2>1, <2>2 DEF DriftTooLarge
<1> QED BY <1>1, SkewInvariant, PTL

\* A clock moves back only when its process restarts.
THEOREM ClockNeverRegressesHolds == ClockSpec => ClockNeverRegresses
<1> DEFINE Regress == \A n \in Node :
                        HappensBefore(clock'[n], clock[n]) => Restart(n)
<1>1. ClockTypeOK /\ [ClockNext]_clockVars => [Regress]_clockVars
  <2> SUFFICES ASSUME ClockTypeOK, ClockNext, NEW n \in Node, ~ Restart(n)
               PROVE  ~ HappensBefore(clock'[n], clock[n])
    OBVIOUS
  <2>0. \A m \in Node : clock[m] \in Clock /\ wall[m] \in Nat
    BY DEF ClockTypeOK
  <2>1. ASSUME NEW a \in Clock, NEW b \in Clock, HappensBefore(a, b) \/ a = b
        PROVE  ~ HappensBefore(b, a)
    BY <2>1 DEF HappensBefore, Clock
  <2>2. CASE clock'[n] = clock[n]
    BY <2>0, <2>1, <2>2
  <2>3. CASE Now(n)
    <3>1. clock'[n] = Tick(clock[n], wall[n])
      BY <2>3 DEF Now, ClockTypeOK
    <3> QED BY <2>0, <2>1, <3>1, TickAdvances
  <2>4. ASSUME NEW ts \in issued, Accept(n, ts)
        PROVE  ~ HappensBefore(clock'[n], clock[n])
    <3>1. clock'[n] = Update(clock[n], ts, wall[n], MaxDrift)
      BY <2>4 DEF Accept, ClockTypeOK
    <3>2. ts \in Timestamp /\ ~ DriftTooLarge(ts, wall[n], MaxDrift)
      BY <2>4 DEF Accept, ClockTypeOK
    <3> QED BY <2>0, <2>1, <3>1, <3>2, UpdateAdvances
  <2>5. \/ clock'[n] = clock[n]
        \/ Now(n)
        \/ \E ts \in issued : Accept(n, ts)
    <3>1. ASSUME NEW m \in Node, m # n, Now(m) PROVE clock'[n] = clock[n]
      BY <3>1 DEF Now, ClockTypeOK
    <3>2. ASSUME NEW m \in Node, m # n, NEW ts \in issued, Accept(m, ts)
          PROVE  clock'[n] = clock[n]
      BY <3>2 DEF Accept, ClockTypeOK
    <3>3. ASSUME NEW m \in Node, NEW ts \in issued, Refuse(m, ts)
          PROVE  clock'[n] = clock[n]
      BY <3>3 DEF Refuse, Update, ClockTypeOK
    <3>4. ASSUME NEW m \in Node, m # n, Restart(m) PROVE clock'[n] = clock[n]
      BY <3>4 DEF Restart, ClockTypeOK
    <3>5. ASSUME NEW m \in Node, NEW t \in Time, WallStep(m, t)
          PROVE  clock'[n] = clock[n]
      BY <3>5 DEF WallStep
    <3> QED BY <3>1, <3>2, <3>3, <3>4, <3>5 DEF ClockNext
  <2> QED BY <2>2, <2>3, <2>4, <2>5
<1> QED BY <1>1, ClockTypeCorrect, PTL DEF ClockSpec, ClockNeverRegresses

-----------------------------------------------------------------------------
(* The health probe *)

\* The goroutines ever started.
Started == {i \in Id : gor[i] # Nil}

\* A registered cancel function belongs to a goroutine of its peer, and only
\* goroutines that were started are canceled.
Registered ==
  /\ \A a \in Peer : probes[a] # Nil =>
       probes[a] \in Started /\ gor[probes[a]].peer = a
  /\ canceled \subseteq Started

\* A goroutine that checks peer a and that nothing has told to end.
Checks(i, a) ==
  /\ i \in Started \ canceled
  /\ gor[i].peer = a
  /\ gor[i].pc \notin {"leaving", "gone"}

\* What makes PeerIsProbed inductive.
ProbedInv ==
  /\ ProbeTypeOK
  /\ Registered
  /\ \A a \in peers : \E i \in Id : Checks(i, a)

\* Whatever goroutine i does, it stays the same goroutine of the same peer.
LEMMA GotoKeeps ==
  ASSUME ProbeTypeOK, NEW i \in Id, gor[i] # Nil,
         NEW label \in {"spawned", "wait", "check", "fail", "up", "heal",
                        "leaving", "gone"},
         Goto(i, label)
  PROVE  /\ gor' \in [Id -> {Nil} \cup GoroutineState]
         /\ Started' = Started
         /\ \A j \in Started : gor'[j].peer = gor[j].peer
         /\ \A j \in Id \ {i} : gor'[j] = gor[j]
         /\ gor'[i].pc = label
<1>1. gor \in [Id -> {Nil} \cup GoroutineState]
  BY DEF ProbeTypeOK
<1>2. gor[i] \in GoroutineState
  BY <1>1
<1> DEFINE g == Goroutine(gor[i].peer, gor[i].kind, label)
<1>3. g \in GoroutineState /\ g.peer = gor[i].peer /\ g.pc = label
  BY <1>2 DEF GoroutineState, Goroutine
<1>4. gor' = [gor EXCEPT ![i] = g]
  BY DEF Goto, Goroutine
<1>5. g # Nil
  BY <1>3, ProbeAssumption
<1> HIDE DEF g
<1>6. gor' \in [Id -> {Nil} \cup GoroutineState]
  BY <1>1, <1>3, <1>4
<1>7. /\ \A j \in Id \ {i} : gor'[j] = gor[j]
      /\ gor'[i] = g
  BY <1>1, <1>4
<1>8. Started' = Started
  BY <1>5, <1>7 DEF Started
<1>9. \A j \in Started : gor'[j].peer = gor[j].peer
  BY <1>3, <1>7 DEF Started
<1> QED BY <1>3, <1>6, <1>7, <1>8, <1>9

\* What a step of goroutine i changes beside its own state.
LEMMA StepEffect ==
  ASSUME ProbeTypeOK, NEW i \in Id, Step(i)
  PROVE  /\ UNCHANGED <<peers, canceled, discVars, envVars, removed>>
         /\ \E label \in {"spawned", "wait", "check", "fail", "up", "heal",
                          "leaving", "gone"} :
              /\ Goto(i, label)
              /\ label \in {"leaving", "gone"} =>
                   \/ gor[i].peer \notin peers
                   \/ i \in canceled
                   \/ gor[i].pc = "leaving"
         /\ \/ UNCHANGED probes
            \/ probes' = [probes EXCEPT ![gor[i].peer] = i]
            \/ probes' = [probes EXCEPT ![gor[i].peer] = Nil]
<1>1. CASE Register(i)
  BY <1>1 DEF Register, discVars, envVars, histVars
<1>2. CASE TickerFires(i)
  BY <1>2 DEF TickerFires, End, PeerGone, discVars, envVars, histVars
<1>3. CASE Canceled(i)
  BY <1>3 DEF Canceled, End, discVars, envVars, histVars
<1>4. CASE Leave(i)
  BY <1>4 DEF Leave, discVars, envVars, histVars
<1>5. ASSUME NEW ok \in BOOLEAN, CheckEnds(i, ok)
      PROVE  /\ UNCHANGED <<peers, canceled, discVars, envVars, removed, probes>>
             /\ \/ Goto(i, "fail") \/ Goto(i, "up") \/ Goto(i, "heal")
  BY <1>5 DEF CheckEnds, discVars, envVars
<1>6. CASE MarkDown(i)
  BY <1>6 DEF MarkDown, discVars, envVars, histVars
<1>7. CASE MarkUp(i)
  BY <1>7 DEF MarkUp, discVars, envVars
<1> QED BY <1>1, <1>2, <1>3, <1>4, <1>5, <1>6, <1>7 DEF Step

\* Discovery starts one goroutine with an id never used.
LEMMA AddEffect ==
  ASSUME ProbeTypeOK, NEW a \in Peer, AddPeer(a)
  PROVE  \E i \in Id :
           /\ gor[i] = Nil
           /\ gor' \in [Id -> {Nil} \cup GoroutineState]
           /\ gor'[i] = Goroutine(a, "dynamic", "spawned")
           /\ \A j \in Id \ {i} : gor'[j] = gor[j]
           /\ Started' = Started \cup {i}
<1>1. PICK i \in Id : /\ gor[i] = Nil
                      /\ gor' = [gor EXCEPT ![i] = Goroutine(a, "dynamic", "spawned")]
  BY DEF AddPeer
<1>2. gor \in [Id -> {Nil} \cup GoroutineState]
  BY DEF ProbeTypeOK
<1>3. Goroutine(a, "dynamic", "spawned") \in GoroutineState
  BY DEF Goroutine, GoroutineState
<1>4. Goroutine(a, "dynamic", "spawned") # Nil
  BY <1>3, ProbeAssumption
<1>5. /\ gor' \in [Id -> {Nil} \cup GoroutineState]
      /\ gor'[i] = Goroutine(a, "dynamic", "spawned")
      /\ \A j \in Id \ {i} : gor'[j] = gor[j]
  BY <1>1, <1>2, <1>3
<1>6. Started' = Started \cup {i}
  BY <1>4, <1>5 DEF Started
<1> QED BY <1>1, <1>5, <1>6

\* The probe's variables keep their types.
LEMMA ProbeTypeStep == ProbeTypeOK /\ [ProbeNext]_probeVars => ProbeTypeOK'
<1> SUFFICES ASSUME ProbeTypeOK, [ProbeNext]_probeVars PROVE ProbeTypeOK'
  OBVIOUS
<1>1. ASSUME NEW i \in Id, Step(i) PROVE ProbeTypeOK'
  <2>1. gor[i] # Nil /\ gor[i] \in GoroutineState /\ gor[i].peer \in Peer
    BY <1>1 DEF Step, ProbeTypeOK, GoroutineState
  <2>2. gor' \in [Id -> {Nil} \cup GoroutineState]
    BY <1>1, <2>1, StepEffect, GotoKeeps
  <2>3. probes' \in [Peer -> Id \cup {Nil}]
    BY <1>1, <2>1, StepEffect DEF ProbeTypeOK
  <2>4. UNCHANGED <<peers, canceled, discVars, envVars, removed>>
    BY <1>1, StepEffect
  <2>5. /\ closed' \in [Id -> BOOLEAN]
        /\ peerStatus' \in [Peer -> BOOLEAN]
        /\ failed' \in [Peer -> BOOLEAN]
        /\ notified' \in [Peer -> 0 .. 1]
    <3>1. CASE UNCHANGED <<closed, peerStatus, failed, notified>>
      BY <3>1 DEF ProbeTypeOK
    <3>2. CASE TickerFires(i)
      BY <3>2 DEF TickerFires, histVars, ProbeTypeOK
    <3>3. CASE \E ok \in BOOLEAN : CheckEnds(i, ok)
      BY <2>1, <3>3 DEF CheckEnds, ProbeTypeOK
    <3>4. CASE MarkDown(i)
      BY <2>1, <3>4 DEF MarkDown, SetStatus, histVars, ProbeTypeOK
    <3>5. CASE MarkUp(i)
      <4>1. /\ peerStatus' \in [Peer -> BOOLEAN]
            /\ failed' \in [Peer -> BOOLEAN]
            /\ closed' \in [Id -> BOOLEAN]
        BY <2>1, <3>5 DEF MarkUp, SetStatus, ProbeTypeOK
      <4>2. notified' \in [Peer -> 0 .. 1]
        BY <2>1, <3>5 DEF MarkUp, ProbeTypeOK
      <4> QED BY <4>1, <4>2
    <3> QED BY <1>1, <3>1, <3>2, <3>3, <3>4, <3>5
            DEF Step, Register, Canceled, Leave, histVars
  <2> QED BY <2>2, <2>3, <2>4, <2>5 DEF ProbeTypeOK, discVars, envVars
<1>2. ASSUME NEW S \in SUBSET Peer, Discover(S) PROVE ProbeTypeOK'
  BY <1>2, ProbeAssumption DEF Discover, ProbeTypeOK, envVars, histVars
<1>3. ASSUME NEW a \in Peer, RemovePeer(a) PROVE ProbeTypeOK'
  BY <1>3 DEF RemovePeer, Cancel, ProbeTypeOK, discVars, envVars
<1>4. ASSUME NEW a \in Peer, AddPeer(a) PROVE ProbeTypeOK'
  BY <1>4, AddEffect DEF AddPeer, ProbeTypeOK, discVars, envVars, histVars
<1>5. ASSUME NEW a \in Peer, Flip(a) PROVE ProbeTypeOK'
  BY <1>5, ProbeAssumption DEF Flip, ProbeTypeOK, discVars, histVars
<1>6. CASE StartAdding
  BY <1>6 DEF StartAdding, ProbeTypeOK, envVars, histVars
<1>7. CASE EndRound
  BY <1>7 DEF EndRound, ProbeTypeOK, envVars, histVars
<1>8. CASE UNCHANGED probeVars
  BY <1>8 DEF probeVars, ProbeTypeOK, discVars, envVars, histVars
<1> QED BY <1>1, <1>2, <1>3, <1>4, <1>5, <1>6, <1>7, <1>8 DEF ProbeNext

\* A goroutine that checks a peer goes on, unless it is told to end or the peer
\* is removed.
LEMMA ProbedStep ==
  ASSUME ProbedInv, [ProbeNext]_probeVars
  PROVE  ProbedInv'
<1>1. ProbeTypeOK /\ Registered /\ ProbeTypeOK'
  BY ProbeTypeStep DEF ProbedInv
<1>2. SUFFICES /\ Registered'
               /\ \A a \in peers' : \E i \in Id : Checks(i, a)'
  BY <1>1 DEF ProbedInv
<1>3. Started \subseteq Id /\ DOMAIN probes = Peer /\ peers \subseteq Peer
  BY <1>1 DEF Started, ProbeTypeOK
<1>4. ASSUME NEW i \in Id, Step(i)
      PROVE  /\ Registered'
             /\ \A a \in peers' : \E j \in Id : Checks(j, a)'
  <2>1. gor[i] # Nil /\ gor[i].peer \in Peer /\ i \in Started
    BY <1>1, <1>4 DEF Step, ProbeTypeOK, GoroutineState, Started
  <2>2. PICK label \in {"spawned", "wait", "check", "fail", "up", "heal",
                        "leaving", "gone"} :
          /\ Goto(i, label)
          /\ label \in {"leaving", "gone"} =>
               gor[i].peer \notin peers \/ i \in canceled \/ gor[i].pc = "leaving"
    BY <1>1, <1>4, StepEffect
  <2>3. /\ Started' = Started
        /\ \A j \in Started : gor'[j].peer = gor[j].peer
        /\ \A j \in Id \ {i} : gor'[j] = gor[j]
        /\ gor'[i].pc = label
    BY <1>1, <2>1, <2>2, GotoKeeps
  <2>4. UNCHANGED <<peers, canceled>>
    BY <1>1, <1>4, StepEffect
  <2>5. \/ UNCHANGED probes
        \/ probes' = [probes EXCEPT ![gor[i].peer] = i]
        \/ probes' = [probes EXCEPT ![gor[i].peer] = Nil]
    BY <1>1, <1>4, StepEffect
  <2>6. Registered'
    BY <1>1, <1>3, <2>1, <2>3, <2>4, <2>5 DEF Registered
  <2>7. ASSUME NEW a \in peers PROVE \E j \in Id : Checks(j, a)'
    <3>1. PICK j \in Id : Checks(j, a)
      BY DEF ProbedInv
    <3>2. Checks(j, a)'
      BY <2>2, <2>3, <2>4, <3>1 DEF Checks
    <3> QED BY <3>2
  <2> QED BY <2>4, <2>6, <2>7
<1>5. ASSUME NEW a \in Peer, RemovePeer(a)
      PROVE  /\ Registered'
             /\ \A b \in peers' : \E j \in Id : Checks(j, b)'
  <2>1. /\ UNCHANGED gor /\ peers' = peers \ {a}
        /\ canceled' = canceled \cup ({probes[a]} \ {Nil})
        /\ probes' = [probes EXCEPT ![a] = Nil]
    BY <1>5 DEF RemovePeer, Cancel
  <2>2. Started' = Started
    BY <2>1 DEF Started
  <2>3. Registered'
    BY <1>1, <1>3, <2>1, <2>2 DEF Registered
  <2>4. ASSUME NEW b \in peers \ {a} PROVE \E j \in Id : Checks(j, b)'
    <3>1. PICK j \in Id : Checks(j, b)
      BY DEF ProbedInv
    <3>2. j \notin canceled'
      BY <1>1, <2>1, <3>1 DEF Checks, Registered
    <3> QED BY <2>1, <2>2, <3>1, <3>2 DEF Checks
  <2> QED BY <2>1, <2>3, <2>4
<1>6. ASSUME NEW a \in Peer, AddPeer(a)
      PROVE  /\ Registered'
             /\ \A b \in peers' : \E j \in Id : Checks(j, b)'
  <2>1. PICK i \in Id :
          /\ gor[i] = Nil
          /\ gor'[i] = Goroutine(a, "dynamic", "spawned")
          /\ \A j \in Id \ {i} : gor'[j] = gor[j]
          /\ Started' = Started \cup {i}
    BY <1>1, <1>6, AddEffect
  <2>2. UNCHANGED <<probes, canceled>> /\ peers' = peers \cup {a}
    BY <1>6 DEF AddPeer
  <2>3. i \notin Started
    BY <2>1 DEF Started
  <2>4. \A j \in Started : gor'[j] = gor[j]
    BY <1>3, <2>1, <2>3
  <2>5. Registered'
    <3>1. canceled' \subseteq Started'
      BY <1>1, <2>1, <2>2 DEF Registered
    <3>2. ASSUME NEW b \in Peer, probes'[b] # Nil
          PROVE  probes'[b] \in Started' /\ gor'[probes'[b]].peer = b
      <4>1. probes[b] \in Started /\ gor[probes[b]].peer = b /\ probes'[b] = probes[b]
        BY <1>1, <2>2, <3>2 DEF Registered
      <4> QED BY <2>1, <2>4, <4>1
    <3> QED BY Zenon, <3>1, <3>2 DEF Registered
  <2>6. Checks(i, a)'
    BY <1>1, <2>1, <2>2, <2>3 DEF Checks, Registered, Goroutine
  <2>7. ASSUME NEW b \in peers PROVE \E j \in Id : Checks(j, b)'
    <3>1. PICK j \in Id : Checks(j, b)
      BY DEF ProbedInv
    <3> QED BY <2>1, <2>2, <2>4, <3>1 DEF Checks
  <2> QED BY <2>2, <2>5, <2>6, <2>7
<1>7. ASSUME UNCHANGED <<peers, probes, gor, canceled>>
      PROVE  /\ Registered'
             /\ \A a \in peers' : \E j \in Id : Checks(j, a)'
  BY <1>1, <1>7 DEF ProbedInv, Registered, Checks, Started
<1>8. ASSUME NEW S \in SUBSET Peer, Discover(S)
      PROVE  UNCHANGED <<peers, probes, gor, canceled>>
  BY <1>8 DEF Discover
<1>9. ASSUME NEW a \in Peer, Flip(a)
      PROVE  UNCHANGED <<peers, probes, gor, canceled>>
  BY <1>9 DEF Flip
<1>10. CASE StartAdding \/ EndRound \/ UNCHANGED probeVars
  BY <1>7, <1>10 DEF StartAdding, EndRound, probeVars
<1> QED BY <1>4, <1>5, <1>6, <1>7, <1>8, <1>9, <1>10 DEF ProbeNext

\* Probe.Start has exactly one goroutine for each configured peer.
LEMMA ProbeStarts ==
  ASSUME ProbeInit
  PROVE  /\ ProbeTypeOK
         /\ \A a \in peers : \E i \in Started : gor[i].peer = a
         /\ \A i, j \in Started : gor[i].peer = gor[j].peer => i = j
         /\ \A i \in Started : gor[i].peer \in peers /\ gor[i].pc = "wait"
<1>1. peers \subseteq Peer
  BY ProbeAssumption DEF ProbeInit
<1>2. \A a \in peers : Goroutine(a, "legacy", "wait") \in GoroutineState
  BY <1>1 DEF Goroutine, GoroutineState
<1>3. gor \in [Id -> {Nil} \cup GoroutineState]
  BY <1>2 DEF ProbeInit
<1>4. ProbeTypeOK
  <2>1. 0 \in 0 .. MaxChanges /\ 0 \in 0 .. MaxFlips /\ 0 \in 0 .. 1
    BY ProbeAssumption
  <2> QED BY <1>1, <1>3, <2>1 DEF ProbeInit, ProbeTypeOK
<1>5. \A i \in Started : \E a \in peers : gor[i] = Goroutine(a, "legacy", "wait")
  BY DEF ProbeInit, Started
<1>6. ASSUME NEW i \in Started PROVE gor[i].peer \in peers /\ gor[i].pc = "wait"
  <2>1. PICK a \in peers : gor[i] = Goroutine(a, "legacy", "wait")
    BY <1>5
  <2> QED BY <2>1 DEF Goroutine
<1>7. Live = Started
  BY <1>6 DEF Live, Started
<1>8. ASSUME NEW a \in peers
      PROVE  \E i : {j \in Started : gor[j].peer = a} = {i}
  <2> DEFINE S == {j \in Started : gor[j].peer = a}
  <2>1. IsFiniteSet(Id)
    BY FS_Interval, ProbeAssumption DEF Id
  <2>2. IsFiniteSet(S)
    BY <2>1, FS_Subset DEF Started
  <2>3. Cardinality(S) = 1
    BY <1>7 DEF ProbeInit
  <2> HIDE DEF S
  <2>4. \E i : S = {i}
    BY <2>2, <2>3, FS_Singleton
  <2> QED BY <2>4 DEF S
<1>9. \A a \in peers : \E i \in Started : gor[i].peer = a
  BY <1>8
<1>10. ASSUME NEW i \in Started, NEW j \in Started, gor[i].peer = gor[j].peer
       PROVE  i = j
  <2>1. gor[i].peer \in peers
    BY <1>6
  <2>2. PICK k : {l \in Started : gor[l].peer = gor[i].peer} = {k}
    BY <1>8, <2>1
  <2> QED BY <1>10, <2>2
<1> QED BY <1>4, <1>6, <1>9, <1>10

\* The probe's variables have their types.
THEOREM ProbeTypeCorrect == ProbeSpec => []ProbeTypeOK
BY ProbeStarts, ProbeTypeStep, PTL DEF ProbeSpec

\* Every connected peer always has a goroutine that checks it and that nothing
\* has told to end, for any peers, however their removals and returns and the
\* registrations of cancel functions interleave (reconcilePeers, probePeer).
THEOREM PeerIsProbedHolds == ProbeSpec => []PeerIsProbed
<1>1. ASSUME ProbeInit PROVE ProbedInv
  <2>1. Registered /\ canceled = {}
    BY <1>1 DEF ProbeInit, Registered
  <2>2. ASSUME NEW a \in peers PROVE \E i \in Id : Checks(i, a)
    <3>1. PICK i \in Started : gor[i].peer = a /\ gor[i].pc = "wait"
      BY <1>1, ProbeStarts
    <3>2. i \in Id /\ Checks(i, a)
      BY <2>1, <3>1 DEF Checks, Started
    <3> QED BY <3>2
  <2> QED BY <1>1, <2>1, <2>2, ProbeStarts DEF ProbedInv
<1>2. ProbedInv => PeerIsProbed
  BY DEF ProbedInv, PeerIsProbed, Checks, Started, Live
<1>3. ProbedInv /\ [ProbeNext]_probeVars => ProbedInv'
  BY ProbedStep
<1> QED BY <1>1, <1>2, <1>3, PTL DEF ProbeSpec

\* What is true of a peer that discovery has never removed: it has at most one
\* goroutine, and an event is due only after a failed check.
NeverRemoved(a) ==
  /\ \A i, j \in Started : gor[i].peer = a /\ gor[j].peer = a => i = j
  /\ \A i \in Started : gor[i].peer = a => a \in peers
  /\ ~ peerStatus[a] => failed[a]
  /\ \A i \in Started :
       gor[i].peer = a /\ gor[i].pc \in {"fail", "heal"} => failed[a]

\* What makes EventsAreSeparated an invariant of steps.
SeparatedInv == ProbeTypeOK /\ \A a \in Peer \ removed : NeverRemoved(a)

\* A goroutine's check reads the status, and only then sets it; a peer with one
\* goroutine is not touched in between.
LEMMA SeparatedStep ==
  ASSUME SeparatedInv, [ProbeNext]_probeVars
  PROVE  SeparatedInv'
<1>1. ProbeTypeOK /\ ProbeTypeOK'
  BY ProbeTypeStep DEF SeparatedInv
<1>2. removed \subseteq removed'
  BY DEF ProbeNext, Step, Register, TickerFires, Canceled, Leave, CheckEnds,
         MarkDown, MarkUp, Discover, RemovePeer, StartAdding, AddPeer, EndRound,
         Flip, probeVars, histVars
<1>3. SUFFICES ASSUME NEW a \in Peer \ removed' PROVE NeverRemoved(a)'
  BY <1>1 DEF SeparatedInv
<1>4. NeverRemoved(a) /\ a \in Peer
  BY <1>2 DEF SeparatedInv
<1>5. DOMAIN peerStatus = Peer /\ DOMAIN failed = Peer
  BY <1>1 DEF ProbeTypeOK
<1>6. ASSUME NEW i \in Id, Step(i) PROVE NeverRemoved(a)'
  <2>1. gor[i] # Nil /\ i \in Started /\ gor[i].peer \in Peer
    BY <1>1, <1>6 DEF Step, Started, ProbeTypeOK, GoroutineState
  <2>2. PICK label \in {"spawned", "wait", "check", "fail", "up", "heal",
                        "leaving", "gone"} : Goto(i, label)
    BY <1>1, <1>6, StepEffect
  <2>3. /\ Started' = Started
        /\ \A j \in Started : gor'[j].peer = gor[j].peer
        /\ \A j \in Id \ {i} : gor'[j] = gor[j]
        /\ gor'[i].pc = label
    BY <1>1, <2>1, <2>2, GotoKeeps
  <2>4. peers' = peers
    BY <1>1, <1>6, StepEffect
  <2>5. /\ \A j, k \in Started' : gor'[j].peer = a /\ gor'[k].peer = a => j = k
        /\ \A j \in Started' : gor'[j].peer = a => a \in peers'
    <3>1. /\ \A j, k \in Started : gor[j].peer = a /\ gor[k].peer = a => j = k
          /\ \A j \in Started : gor[j].peer = a => a \in peers
      BY <1>4 DEF NeverRemoved
    <3>2. \A j \in Started' : j \in Started /\ gor'[j].peer = gor[j].peer
      BY <2>3
    <3>3. ASSUME NEW j \in Started', gor'[j].peer = a PROVE a \in peers'
      BY <2>4, <3>1, <3>2, <3>3
    <3>4. ASSUME NEW j \in Started', NEW k \in Started', gor'[j].peer = a,
                 gor'[k].peer = a
          PROVE  j = k
      BY <3>1, <3>2, <3>4
    <3> QED BY <3>3, <3>4
  <2>6. Started \subseteq Id
    BY DEF Started
  <2>7. CASE gor[i].peer # a
    <3>1. peerStatus'[a] = peerStatus[a] /\ failed'[a] = failed[a]
      BY <1>4, <1>5, <1>6, <2>7
      DEF Step, Register, TickerFires, Canceled, Leave, CheckEnds, MarkDown,
          MarkUp, SetStatus, histVars
    <3>2. \A j \in Started' : gor'[j].peer = a => gor'[j] = gor[j]
      BY <2>3, <2>6, <2>7
    <3> QED BY <1>4, <2>3, <2>5, <3>1, <3>2 DEF NeverRemoved
  <2>8. CASE gor[i].peer = a
    <3>1. \A j \in Started' : gor'[j].peer = a => j = i
      BY <1>4, <2>1, <2>3, <2>8 DEF NeverRemoved
    <3>2. SUFFICES /\ ~ peerStatus'[a] => failed'[a]
                   /\ label \in {"fail", "heal"} => failed'[a]
      BY <2>3, <2>5, <3>1 DEF NeverRemoved
    <3>3. /\ ~ peerStatus[a] => failed[a]
          /\ gor[i].pc \in {"fail", "heal"} => failed[a]
      BY <1>4, <2>1, <2>8 DEF NeverRemoved
    <3>4. ASSUME UNCHANGED <<peerStatus, failed>>, gor'[i].pc \notin {"fail", "heal"}
          PROVE  /\ ~ peerStatus'[a] => failed'[a]
                 /\ label \in {"fail", "heal"} => failed'[a]
      BY <2>3, <3>3, <3>4
    <3>5. ASSUME NEW l, Goto(i, l) PROVE gor'[i].pc = l
      <4>1. DOMAIN gor = Id
        BY <1>1 DEF ProbeTypeOK
      <4>2. gor'[i] = Goroutine(gor[i].peer, gor[i].kind, l)
        BY <3>5, <4>1 DEF Goto
      <4> QED BY <4>2 DEF Goroutine
    <3>6. CASE Register(i) \/ TickerFires(i) \/ Canceled(i) \/ Leave(i)
      <4>1. UNCHANGED <<peerStatus, failed>> /\ gor'[i].pc \notin {"fail", "heal"}
        BY <3>5, <3>6 DEF Register, TickerFires, Canceled, Leave, End, histVars
      <4> QED BY <3>4, <4>1
    <3>7. ASSUME NEW ok \in BOOLEAN, CheckEnds(i, ok)
          PROVE  /\ ~ peerStatus'[a] => failed'[a]
                 /\ label \in {"fail", "heal"} => failed'[a]
      <4>1. UNCHANGED peerStatus /\ failed'[a] = (failed[a] \/ ~ ok)
        BY <1>4, <1>5, <2>8, <3>7 DEF CheckEnds
      <4>2. label = IF ~ ok THEN "fail" ELSE IF peerStatus[a] THEN "up" ELSE "heal"
        BY <2>3, <2>8, <3>5, <3>7 DEF CheckEnds
      <4> QED BY <3>3, <4>1, <4>2
    <3>8. CASE MarkDown(i)
      <4>1. failed' = failed /\ gor[i].pc = "fail" /\ gor'[i].pc = "wait"
        BY <3>5, <3>8 DEF MarkDown, histVars
      <4> QED BY <2>3, <3>3, <4>1
    <3>9. CASE MarkUp(i)
      <4>1. peerStatus'[a] = TRUE /\ gor'[i].pc = "wait"
        BY <1>4, <1>5, <2>8, <3>5, <3>9 DEF MarkUp, SetStatus
      <4> QED BY <2>3, <4>1
    <3> QED BY <1>6, <3>6, <3>7, <3>8, <3>9 DEF Step
  <2> QED BY <2>7, <2>8
<1>7. ASSUME NEW b \in Peer, RemovePeer(b) PROVE NeverRemoved(a)'
  <2>1. UNCHANGED <<gor, peerStatus, failed>> /\ peers' = peers \ {b} /\ a # b
    BY <1>7 DEF RemovePeer
  <2> QED BY <1>4, <2>1 DEF NeverRemoved, Started
<1>8. ASSUME NEW b \in Peer, AddPeer(b) PROVE NeverRemoved(a)'
  <2>1. PICK i \in Id :
          /\ gor[i] = Nil
          /\ gor'[i] = Goroutine(b, "dynamic", "spawned")
          /\ \A j \in Id \ {i} : gor'[j] = gor[j]
          /\ Started' = Started \cup {i}
    BY <1>1, <1>8, AddEffect
  <2>2. /\ UNCHANGED <<peerStatus, failed>> /\ peers' = peers \cup {b}
        /\ b \notin peers
    BY <1>8 DEF AddPeer, histVars
  <2>3. \A j \in Started : gor'[j] = gor[j]
    BY <2>1 DEF Started
  <2>4. gor'[i].peer = b /\ gor'[i].pc = "spawned"
    BY <2>1 DEF Goroutine
  <2>5. /\ \A j, k \in Started : gor[j].peer = a /\ gor[k].peer = a => j = k
        /\ \A j \in Started : gor[j].peer = a => a \in peers
        /\ ~ peerStatus[a] => failed[a]
        /\ \A j \in Started :
             gor[j].peer = a /\ gor[j].pc \in {"fail", "heal"} => failed[a]
    BY <1>4 DEF NeverRemoved
  <2>6. ASSUME NEW j \in Started', gor'[j].peer = a
        PROVE  /\ a \in peers'
               /\ gor'[j].pc \in {"fail", "heal"} => failed'[a]
               /\ \A k \in Started' : gor'[k].peer = a => k = j
    <3>1. CASE j = i
      <4>1. a = b
        BY <2>4, <2>6, <3>1
      <4>2. \A k \in Started : gor[k].peer # a
        BY <2>2, <2>5, <4>1
      <4> QED BY <2>1, <2>2, <2>3, <2>4, <3>1, <4>1, <4>2
    <3>2. CASE j # i
      <4>1. j \in Started /\ gor'[j] = gor[j] /\ gor[j].peer = a
        BY <2>1, <2>3, <2>6, <3>2
      <4>2. a \in peers /\ a # b
        BY <2>2, <2>5, <4>1
      <4>3. \A k \in Started' : gor'[k].peer = a => k \in Started
        BY <2>1, <2>4, <4>2
      <4>4. gor'[j].pc \in {"fail", "heal"} => failed'[a]
        BY <2>2, <2>5, <4>1
      <4>5. ASSUME NEW k \in Started', gor'[k].peer = a PROVE k = j
        BY <2>3, <2>5, <4>1, <4>3, <4>5
      <4> QED BY <2>2, <4>2, <4>4, <4>5
    <3> QED BY <3>1, <3>2
  <2>7. ~ peerStatus'[a] => failed'[a]
    BY <2>2, <2>5
  <2> QED BY <2>6, <2>7 DEF NeverRemoved
<1>9. ASSUME UNCHANGED <<gor, peers, peerStatus, failed>> PROVE NeverRemoved(a)'
  BY <1>4, <1>9 DEF NeverRemoved, Started
<1>10. ASSUME NEW S \in SUBSET Peer, Discover(S) PROVE NeverRemoved(a)'
  BY <1>9, <1>10 DEF Discover, histVars
<1>11. ASSUME NEW b \in Peer, Flip(b) PROVE NeverRemoved(a)'
  BY <1>9, <1>11 DEF Flip, histVars
<1>12. CASE StartAdding \/ EndRound \/ UNCHANGED probeVars
  BY <1>9, <1>12 DEF StartAdding, EndRound, probeVars, histVars
<1> QED BY <1>6, <1>7, <1>8, <1>10, <1>11, <1>12 DEF ProbeNext

\* Between two healing events of a peer that was never removed a check of it
\* has failed, whatever the other goroutines and discovery do (checkPeer).
THEOREM EventsAreSeparatedHolds == ProbeSpec => EventsAreSeparated
<1>1. ASSUME ProbeInit PROVE SeparatedInv
  <2>1. /\ ProbeTypeOK
        /\ \A i, j \in Started : gor[i].peer = gor[j].peer => i = j
        /\ \A i \in Started : gor[i].peer \in peers /\ gor[i].pc = "wait"
    BY <1>1, ProbeStarts
  <2>2. \A a \in Peer : failed[a]
    BY <1>1 DEF ProbeInit
  <2>3. ASSUME NEW a \in Peer PROVE NeverRemoved(a)
    BY <2>1, <2>2 DEF NeverRemoved
  <2> QED BY <2>1, <2>3 DEF SeparatedInv
<1>2. SeparatedInv /\ [ProbeNext]_probeVars => SeparatedInv'
  BY SeparatedStep
<1>3. ASSUME SeparatedInv, [ProbeNext]_probeVars, NEW a \in Peer \ removed,
             notified'[a] # notified[a]
      PROVE  failed[a]
  <2>1. ProbeTypeOK /\ NeverRemoved(a)
    BY <1>3 DEF SeparatedInv
  <2>2. PICK i \in Id : MarkUp(i) /\ gor[i] # Nil
    BY <1>3 DEF ProbeNext, Step, Register, TickerFires, Canceled, Leave,
                CheckEnds, MarkDown, Discover, RemovePeer, StartAdding, AddPeer,
                EndRound, Flip, probeVars
  <2>3. gor[i].peer = a /\ gor[i].pc = "heal"
    BY <1>3, <2>1, <2>2 DEF MarkUp, ProbeTypeOK
  <2> QED BY <2>1, <2>2, <2>3 DEF NeverRemoved, Started
<1>4. SeparatedInv /\ [ProbeNext]_probeVars =>
        [\A a \in Peer \ removed : notified'[a] # notified[a] => failed[a]]_probeVars
  BY <1>3
<1> QED BY <1>1, <1>2, <1>4, PTL DEF ProbeSpec, EventsAreSeparated

-----------------------------------------------------------------------------
(* The adjuster *)

\* What the smoothed score calls for is one of the two adjustments, or none.
LEMMA WantedIsAStep ==
  ASSUME NEW q \in Q!Quorum, NEW buffer, NEW c
  PROVE  /\ Wanted(q, buffer, c) \in {q, Q!Relax(q), Q!Tighten(q)}
         /\ Wanted(q, buffer, c) \in Q!Quorum
<1>1. Q!Relax(q) \in Q!Quorum /\ Q!Tighten(q) \in Q!Quorum
  BY DEF Q!Relax, Q!Tighten, Q!Quorum
<1>2. Wanted(q, buffer, c) \in {q, Q!Relax(q), Q!Tighten(q)}
  BY DEF Wanted
<1> QED BY <1>1, <1>2

\* Both adjustments keep R + W.
LEMMA AdjustmentKeepsSum ==
  ASSUME NEW q \in Q!Quorum, NEW a \in {q, Q!Relax(q), Q!Tighten(q)}
  PROVE  a.r + a.w = q.r + q.w
BY DEF Q!Relax, Q!Tighten, Q!Quorum

\* A cycle of the adjuster either leaves the quorums alone or moves one node
\* to a validated neighbour of its quorum, which only happens after the
\* lockout.
LEMMA CycleStep ==
  ASSUME TypeOK, NEW n \in Node, Cycle(n)
  PROVE  \/ quorum' = quorum
         \/ \E q \in {Q!Relax(quorum[n]), Q!Tighten(quorum[n])} :
              q \in Q!Quorum /\ Q!SetQuorum(n, q)
<1>1. PICK score \in Scores, d \in 1 .. Lockout : AdjustQuorum(n, score, d)
  BY DEF Cycle
<1> DEFINE q == Wanted(quorum[n], samples'[n], count'[n])
<1>2. /\ q \in {quorum[n], Q!Relax(quorum[n]), Q!Tighten(quorum[n])}
      /\ q \in Q!Quorum
  <2>1. quorum[n] \in Q!Quorum
    BY DEF TypeOK
  <2> QED BY <2>1, WantedIsAStep
<1>3. \/ quorum' = quorum
      \/ q # quorum[n] /\ Q!SetQuorum(n, q)
  BY <1>1 DEF AdjustQuorum
<1> HIDE DEF q
<1> QED BY <1>2, <1>3

-----------------------------------------------------------------------------
\* Type correctness of the adjusters, their windows and their quorums.
THEOREM TypeCorrect == Spec => []TypeOK
<1>1. Init => TypeOK
  BY ConfigAssumption DEF Init, Q!Init, TypeOK, Slot
<1>2. TypeOK /\ [Next]_vars => TypeOK'
  <2> SUFFICES ASSUME TypeOK, [Next]_vars PROVE TypeOK'
    OBVIOUS
  <2>1. ASSUME NEW n \in Node, Cycle(n) PROVE TypeOK'
    <3>1. PICK score \in Scores, d \in 1 .. Lockout : AdjustQuorum(n, score, d)
      BY <2>1 DEF Cycle
    <3>2. quorum' \in [Node -> Q!Quorum]
      BY <2>1, CycleStep DEF TypeOK, Q!SetQuorum
    <3>3. /\ samples' \in [Node -> [Slot -> Scores \cup {0}]]
          /\ index' \in [Node -> Slot]
          /\ count' \in [Node -> 0 .. WindowSize]
      <4>1. Add(n, score)
        BY <3>1 DEF AdjustQuorum
      <4>2. index[n] \in Int /\ (index[n] + 1) % WindowSize \in Slot
        BY ConfigAssumption DEF TypeOK, Slot
      <4>3. samples' \in [Node -> [Slot -> Scores \cup {0}]]
        BY <4>1 DEF Add, TypeOK
      <4>4. index' \in [Node -> Slot]
        BY <4>1, <4>2 DEF Add, TypeOK
      <4>5. count' \in [Node -> 0 .. WindowSize]
        BY <4>1, ConfigAssumption DEF Add, TypeOK
      <4> QED BY <4>3, <4>4, <4>5
    <3>4. \A t \in 0 .. Lockout : Since(t, d) \in 0 .. Lockout
      BY ConfigAssumption DEF Since
    <3>5. /\ since' \in [Node -> 0 .. Lockout]
          /\ quiet' \in [Node -> 0 .. Lockout]
      <4>1. /\ \E t \in {0, Since(since[n], d)} :
                 since' = [since EXCEPT ![n] = t]
            /\ \E t \in {0, Since(quiet[n], d)} :
                 quiet' = [quiet EXCEPT ![n] = t]
        BY <3>1, Zenon DEF AdjustQuorum, MarkAdjusted
      <4>2. 0 \in 0 .. Lockout
        BY ConfigAssumption
      <4> QED BY <3>4, <4>1, <4>2 DEF TypeOK
    <3>6. early' \in [Node -> BOOLEAN]
      <4>1. \/ early' = early
            \/ early' = [early EXCEPT ![n] =
                           early[n] \/ Since(quiet[n], d) < Lockout]
        BY <3>1, Zenon DEF AdjustQuorum, MarkAdjusted
      <4> QED BY Zenon, <4>1 DEF TypeOK
    <3> QED BY <3>2, <3>3, <3>5, <3>6 DEF TypeOK
  <2>2. CASE UNCHANGED vars
    BY <2>2 DEF vars, TypeOK
  <2> QED BY <2>1, <2>2 DEF Next
<1> QED BY <1>1, <1>2, PTL DEF Spec

\* On every node R + W is for ever what the configuration made it, and above
\* N.
THEOREM SumIsKeptHolds == Spec => []SumIsKept
<1>1. Init => SumIsKept
  BY ConfigAssumption DEF Init, Q!Init, SumIsKept
<1>2. TypeOK /\ SumIsKept /\ [Next]_vars => SumIsKept'
  <2> SUFFICES ASSUME TypeOK, SumIsKept, [Next]_vars PROVE SumIsKept'
    OBVIOUS
  <2>1. PICK q0 \in InitialQuorums : \A n \in Node :
          /\ quorum[n].r + quorum[n].w = q0.r + q0.w
          /\ Q!Intersecting(quorum[n])
    BY DEF SumIsKept
  <2>2. CASE quorum' = quorum
    BY <2>2 DEF SumIsKept
  <2>3. ASSUME NEW n \in Node,
               NEW q \in {Q!Relax(quorum[n]), Q!Tighten(quorum[n])},
               Q!SetQuorum(n, q)
        PROVE  SumIsKept'
    <3>1. quorum[n] \in Q!Quorum
      BY DEF TypeOK
    <3>2. q.r + q.w = q0.r + q0.w
      BY <2>1, <3>1, AdjustmentKeepsSum
    <3>3. quorum' = [quorum EXCEPT ![n] = q] /\ Q!Intersecting(q)
      BY <2>3 DEF Q!SetQuorum, Q!Validate
    <3>4. \A m \in Node : /\ quorum'[m].r + quorum'[m].w = q0.r + q0.w
                          /\ Q!Intersecting(quorum'[m])
      BY <2>1, <3>2, <3>3 DEF TypeOK
    <3> QED BY <3>4 DEF SumIsKept, Q!Intersecting
  <2> QED BY <2>2, <2>3, CycleStep DEF Next, vars
<1> QED BY <1>1, <1>2, TypeCorrect, PTL DEF Spec

\* A configuration within its bounds stays within them.
THEOREM BoundsAreKeptHolds == Spec => []BoundsAreKept
<1>1. Init => BoundsAreKept
  BY DEF Init, Q!Init, BoundsAreKept
<1>2. TypeOK /\ BoundsAreKept /\ [Next]_vars => BoundsAreKept'
  <2> SUFFICES ASSUME TypeOK, BoundsAreKept, [Next]_vars,
                      \A q \in InitialQuorums : Q!InBounds(q),
                      NEW m \in Node
               PROVE  Q!InBounds(quorum'[m])
    BY DEF BoundsAreKept, Q!InBounds
  <2>1. Q!InBounds(quorum[m])
    BY DEF BoundsAreKept
  <2>2. CASE quorum' = quorum
    BY <2>1, <2>2
  <2>3. ASSUME NEW n \in Node, NEW q, Q!SetQuorum(n, q)
        PROVE  Q!InBounds(quorum'[m])
    <3>1. quorum' = [quorum EXCEPT ![n] = q] /\ Q!InBounds(q)
      BY <2>3 DEF Q!SetQuorum, Q!Validate
    <3> QED BY <2>1, <3>1 DEF TypeOK
  <2> QED BY <2>2, <2>3, CycleStep DEF Next, vars
<1> QED BY <1>1, <1>2, TypeCorrect, PTL DEF Spec

\* Changes of R and W on one node are at least the lockout apart: the time the
\* code counts from lastAdjustTime is the time since the last change.
THEOREM AdjustmentsAreApartHolds == Spec => []AdjustmentsAreApart
<1> DEFINE Inv == AdjustmentsAreApart /\ since = quiet
<1>1. Init => Inv
  BY DEF Init, AdjustmentsAreApart
<1>2. TypeOK /\ Inv /\ [Next]_vars => Inv'
  <2> SUFFICES ASSUME TypeOK, Inv, [Next]_vars PROVE Inv'
    OBVIOUS
  <2>1. ASSUME NEW n \in Node, Cycle(n) PROVE Inv'
    <3>1. PICK score \in Scores, d \in 1 .. Lockout : AdjustQuorum(n, score, d)
      BY <2>1 DEF Cycle
    <3>2. CASE /\ Since(since[n], d) >= Lockout
               /\ since' = [since EXCEPT ![n] = 0]
               /\ quiet' = [quiet EXCEPT ![n] = 0]
               /\ early' = [early EXCEPT ![n] =
                              early[n] \/ Since(quiet[n], d) < Lockout]
      <4>1. ~ (Since(quiet[n], d) < Lockout)
        <5>1. since[n] \in Int /\ d \in Int /\ Lockout \in Int
          BY ConfigAssumption DEF TypeOK
        <5> QED BY <3>2, <5>1 DEF Since
      <4>2. early' = [early EXCEPT ![n] = early[n]]
        BY Zenon, <3>2, <4>1 DEF TypeOK
      <4> QED BY <3>2, <4>2 DEF AdjustmentsAreApart, TypeOK
    <3>3. CASE /\ since' = [since EXCEPT ![n] = Since(since[n], d)]
               /\ quiet' = [quiet EXCEPT ![n] = Since(quiet[n], d)]
               /\ early' = early
      BY <3>3 DEF AdjustmentsAreApart
    <3> QED BY <3>1, <3>2, <3>3, Zenon DEF AdjustQuorum, MarkAdjusted
  <2>2. CASE UNCHANGED vars
    BY <2>2 DEF vars, AdjustmentsAreApart
  <2> QED BY <2>1, <2>2 DEF Next
<1>3. Inv => AdjustmentsAreApart
  OBVIOUS
<1> QED BY <1>1, <1>2, <1>3, TypeCorrect, PTL DEF Spec

\* Windows, thresholds and lockout implement QuorumSteps.
THEOREM Refinement == Spec => ImplementsQuorumSteps
<1>1. Init => Q!Init
  BY DEF Init
<1>2. TypeOK /\ [Next]_vars => [Q!Next]_quorum
  <2> SUFFICES ASSUME TypeOK, [Next]_vars PROVE [Q!Next]_quorum
    OBVIOUS
  <2>1. ASSUME NEW n \in Node, Cycle(n) PROVE [Q!Next]_quorum
    BY <2>1, CycleStep DEF Q!Next
  <2> QED BY <2>1 DEF Next, vars
<1> QED BY <1>1, <1>2, TypeCorrect, PTL DEF Spec, ImplementsQuorumSteps, Q!Spec
=============================================================================
