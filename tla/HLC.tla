-------------------------------- MODULE HLC --------------------------------
(***************************************************************************)
(* Hybrid logical clock timestamps and the two steps of a clock            *)
(* (internal/hlc).  A timestamp is a record with fields physical, logical  *)
(* and nodeID; the state of a Clock is a record with fields physical and   *)
(* logical.  The comparisons read only these two fields, so they apply to  *)
(* timestamps and to clock states alike.                                   *)
(*                                                                         *)
(* time.Now() is not an operator here: every step that reads the machine's *)
(* time takes the reading as its parameter now.                            *)
(***************************************************************************)
EXTENDS Integers

HappensBefore(h, other) ==
  \/ h.physical < other.physical
  \/ h.physical = other.physical /\ h.logical < other.logical

HappensAfter(h, other) == HappensBefore(other, h)

Equal(h, other) == h.physical = other.physical /\ h.logical = other.logical

\* Age of a timestamp at the reading now; a timestamp in the future has age 0.
Age(h, now) == IF now > h.physical THEN now - h.physical ELSE 0

-----------------------------------------------------------------------------
\* NewClock: the clock starts at the machine's time.
NewClock(now) == [physical |-> now, logical |-> 0]

\* The clock keeps its physical part and counts on from the given logical one.
Bump(c, logical) == [physical |-> c.physical, logical |-> logical + 1]

\* A faulty variant of a definition stands before it: an operator with the same
\* parameters and a bug the code might have had, against which a property is
\* tried.  Here: the clock follows the machine's time back.
TickFollowsWall(c, now) ==
  IF now # c.physical THEN NewClock(now) ELSE Bump(c, c.logical)

\* Clock.Now without its result: the state after the step is also the
\* timestamp it issues.
Tick(c, now) ==
  IF now > c.physical THEN NewClock(now) ELSE Bump(c, c.logical)

\* The guard of Clock.Update: the remote timestamp is too far ahead of the
\* machine's time (not of the clock).
DriftTooLarge(remote, now, maxDrift) == remote.physical - now > maxDrift

\* Faulty: the remote logical part is not carried over.
MergeIgnoringLogical(c, remote) ==
  IF remote.physical > c.physical
  THEN [physical |-> remote.physical, logical |-> 0]
  ELSE Bump(c, c.logical)

\* Faulty: the clock jumps a unit of time beyond the remote timestamp.
MergeBeyond(c, remote) ==
  IF remote.physical >= c.physical
  THEN NewClock(remote.physical + 1)
  ELSE Bump(c, c.logical)

\* First half of Clock.Update: the clock moves past the remote timestamp.
Merge(c, remote) ==
  IF remote.physical > c.physical
  THEN [physical |-> remote.physical, logical |-> remote.logical + 1]
  ELSE IF remote.physical = c.physical /\ remote.logical > c.logical
       THEN Bump(c, remote.logical)
       ELSE Bump(c, c.logical)

\* Second half of Clock.Update: jump to the machine's time if it is ahead.
CatchUp(c, now) == IF now > c.physical THEN NewClock(now) ELSE c

\* Faulty: the drift is measured from the clock, not from the machine's time.
UpdateDriftAgainstClock(c, remote, now, maxDrift) ==
  IF DriftTooLarge(remote, c.physical, maxDrift)
  THEN c
  ELSE CatchUp(Merge(c, remote), now)

\* Clock.Update: a timestamp refused for drift leaves the clock alone.
Update(c, remote, now, maxDrift) ==
  IF DriftTooLarge(remote, now, maxDrift)
  THEN c
  ELSE CatchUp(Merge(c, remote), now)

\* The timestamp a clock state stands for when node issues it.
Stamp(c, node) ==
  [physical |-> c.physical, logical |-> c.logical, nodeID |-> node]
=============================================================================
