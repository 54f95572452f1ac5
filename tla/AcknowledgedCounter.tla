------------------------ MODULE AcknowledgedCounter ------------------------
(***************************************************************************)
(* generator.AcknowledgedCounter: Next hands out increasing ids, Last      *)
(* reports the end of the prefix of ids whose Acknowledge has been called. *)
(*                                                                         *)
(* Acknowledge reads and writes window, a slice of bools, without a lock   *)
(* or an atomic, so every access is a step of its own here; limit, counter *)
(* and the spin lock are atomics.  Only the holder of the lock clears      *)
(* slots and moves limit.  A bool is written and read whole, and the       *)
(* compare-and-swap that follows the write of a slot orders it before the  *)
(* scan, so the race has no outcome but the interleavings of these steps.  *)
(***************************************************************************)
EXTENDS Integers

CONSTANTS
  Thread,      \* goroutines that use the counter
  WindowSize,  \* slots of the window, a power of two (2^20 in the code)
  Start,       \* the first id: core.recordCount
  MaxIssued,   \* bound on the ids handed out
  None         \* no goroutine, no id

\* core.Create replaces a record count of 0 by MaxInt32.
ASSUME CounterAssumption ==
  /\ WindowSize \in Nat \ {0}
  /\ Start \in Nat \ {0}
  /\ MaxIssued \in Nat
  /\ None \notin Thread \cup Int

VARIABLES
  counter,  \* the next id
  limit,    \* the last id reported
  window,   \* window[s]: the id of slot s has been acknowledged
  holder,   \* the goroutine that holds the spin lock
  apc,      \* apc[t]: where t stands between Next and the end of Acknowledge
  id,       \* id[t]: the id t has taken
  index,    \* index[t]: the id the scan of t looks at
  acked,    \* history: ids whose slot has been set
  overrun,  \* history: an id came to Acknowledge a window ahead of
            \* one that had not been acknowledged
  missed    \* history: a TryLock failed

ackVars == <<counter, limit, window, holder, apc, id, index, acked, overrun,
             missed>>

\* value & WindowMask.
Slot(v) == v % WindowSize

\* NewAcknowledgedCounter(Start).
AckInit ==
  /\ counter = Start
  /\ limit = Start - 1
  /\ window = [s \in 0 .. WindowSize - 1 |-> FALSE]
  /\ holder = None
  /\ apc = [t \in Thread |-> "idle"]
  /\ id = [t \in Thread |-> Start]
  /\ index = [t \in Thread |-> Start]
  /\ acked = {}
  /\ overrun = FALSE
  /\ missed = FALSE

\* Counter.Next.
NextID(t) ==
  /\ apc[t] = "idle"
  /\ counter < Start + MaxIssued
  /\ counter' = counter + 1
  /\ id' = [id EXCEPT ![t] = counter]
  /\ apc' = [apc EXCEPT ![t] = "held"]
  /\ UNCHANGED <<limit, window, holder, index, acked, overrun, missed>>

\* Faulty: the number handed out last, acknowledged or not (Counter.Last).
LastIssued == counter - 1

\* AcknowledgedCounter.Last.
Last == limit

\* Acknowledge begins: it panics if the slot is still set.
SlotIsFree(t) == ~ window[Slot(id[t])]
Check(t) ==
  /\ apc[t] = "held"
  /\ apc' = [apc EXCEPT ![t] = IF SlotIsFree(t) THEN "mark" ELSE "panic"]
  /\ overrun' = (overrun \/ ~ (Start .. id[t] - WindowSize \subseteq acked))
  /\ UNCHANGED <<counter, limit, window, holder, id, index, acked, missed>>

\* Acknowledge sets the slot.
Mark(t) ==
  /\ apc[t] = "mark"
  /\ window' = [window EXCEPT ![Slot(id[t])] = TRUE]
  /\ acked' = acked \cup {id[t]}
  /\ apc' = [apc EXCEPT ![t] = "try"]
  /\ UNCHANGED <<counter, limit, holder, id, index, overrun, missed>>

\* SpinLock.TryLock, and the load of limit by the goroutine that got the lock.
TryLock(t) ==
  /\ apc[t] = "try"
  /\ \/ /\ holder = None
        /\ holder' = t
        /\ index' = [index EXCEPT ![t] = limit + 1]
        /\ apc' = [apc EXCEPT ![t] = "sweep"]
        /\ UNCHANGED missed
     \/ /\ holder # None
        /\ apc' = [apc EXCEPT ![t] = "idle"]
        /\ missed' = TRUE
        /\ UNCHANGED <<holder, index>>
  /\ UNCHANGED <<counter, limit, window, id, acked, overrun>>

\* Faulty: the scan does not look whether the slot is set.
AlwaysContiguous(t) == index[t] < counter

\* The loop's condition: beforeFirstSlot is the slot of limit, which nobody
\* else moves.
Contiguous(t) == index[t] # Slot(limit) /\ window[Slot(index[t])]

\* One round of the loop: the slot's id joins the prefix.
Sweep(t) ==
  /\ apc[t] = "sweep"
  /\ Contiguous(t)
  /\ window' = [window EXCEPT ![Slot(index[t])] = FALSE]
  /\ index' = [index EXCEPT ![t] = @ + 1]
  /\ UNCHANGED <<counter, limit, holder, apc, id, acked, overrun, missed>>

\* Faulty: the limit falls one short.
StoreShort(t) ==
  /\ apc[t] = "sweep"
  /\ ~ Contiguous(t)
  /\ limit' = index[t] - 2
  /\ apc' = [apc EXCEPT ![t] = "unlock"]
  /\ UNCHANGED <<counter, window, holder, id, index, acked, overrun, missed>>

\* The loop ends: the new limit is stored.
Store(t) ==
  /\ apc[t] = "sweep"
  /\ ~ Contiguous(t)
  /\ limit' = index[t] - 1
  /\ apc' = [apc EXCEPT ![t] = "unlock"]
  /\ UNCHANGED <<counter, window, holder, id, index, acked, overrun, missed>>

\* The deferred Unlock.
Unlock(t) ==
  /\ apc[t] = "unlock"
  /\ holder' = None
  /\ apc' = [apc EXCEPT ![t] = "idle"]
  /\ UNCHANGED <<counter, limit, window, id, index, acked, overrun, missed>>

Acknowledge(t) ==
  Check(t) \/ Mark(t) \/ TryLock(t) \/ Sweep(t) \/ Store(t) \/ Unlock(t)

AckNext == \E t \in Thread : NextID(t) \/ Acknowledge(t)

\* Goroutines that take ids and acknowledge them, in any order.
AckSpec == AckInit /\ [][AckNext]_ackVars

-----------------------------------------------------------------------------
AckTypeOK ==
  /\ counter \in Nat
  /\ limit \in Int
  /\ window \in [0 .. WindowSize - 1 -> BOOLEAN]
  /\ holder \in Thread \cup {None}
  /\ apc \in [Thread -> {"idle", "held", "mark", "try", "sweep", "unlock",
                         "panic"}]
  /\ id \in [Thread -> Int]
  /\ index \in [Thread -> Int]
  /\ acked \subseteq Int
  /\ overrun \in BOOLEAN
  /\ missed \in BOOLEAN

\* Last reports an id only after every id up to it has been acknowledged,
\* unless some id came WindowSize or more ahead of one that had not: the panic of Acknowledge finds a slot that is still set, not one whose
\* earlier id is missing.
LastIsAcknowledged == ~ overrun => Start .. limit \subseteq acked

\* No goroutine is inside Acknowledge.
AtRest == \A t \in Thread : apc[t] \in {"idle", "held"}

\* An acknowledged id that Last could report and does not is there only
\* because an Acknowledge found the lock taken and left its id to a holder
\* whose scan was past it; nothing reports it until the next Acknowledge.
UnreportedOnlyIfMissed ==
  AtRest /\ ~ missed /\ ~ overrun => limit + 1 \notin acked
=============================================================================
