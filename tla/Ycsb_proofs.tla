---------------------------- MODULE Ycsb_proofs ----------------------------
(***************************************************************************)
(* Proofs about Ycsb and the AcknowledgedCounter its workers share, for    *)
(* any number of workers, any configurations, any window and any first id. *)
(*                                                                         *)
(* The counter: the scan has a frontier, below which every id is           *)
(* acknowledged; unless an id has run a window ahead of one that is        *)
(* missing, the slots stand one to one for the WindowSize ids from the     *)
(* frontier on, and a slot is set exactly when its id is acknowledged.     *)
(*                                                                         *)
(* The runs: the workers use the counter as it is specified, so its        *)
(* theorems hold of every run; with single insertions the key choosers     *)
(* that follow Last only choose keys whose insertion has returned; and the *)
(* end of the warm-up loses each worker at most one measurement.           *)
(***************************************************************************)
EXTENDS Ycsb, TLAPS

-----------------------------------------------------------------------------
(* The acknowledged counter *)

\* Division with remainder: what Slot's mask leaves of an id.
LEMMA DivMod ==
  ASSUME NEW W \in Nat \ {0}, NEW a \in Int
  PROVE  /\ a \div W \in Int
         /\ a % W \in 0 .. W - 1
         /\ a = W * (a \div W) + (a % W)
  OBVIOUS

\* A positive multiple of the window size is at least the window size.
LEMMA Multiple ==
  ASSUME NEW W \in Nat \ {0}, NEW d \in Int, W * d > 0
  PROVE  W * d >= W
<1>1. d >= 1
  OBVIOUS
<1>2. W * (d - 1) >= 0
  BY <1>1
<1>. QED
  BY <1>2

\* Every id has a slot (value & WindowMask is an index of the window).
LEMMA SlotRange ==
  ASSUME NEW a \in Int
  PROVE  Slot(a) \in 0 .. WindowSize - 1
  BY DivMod, CounterAssumption DEF Slot

\* Two ids that share a slot are a window apart.
LEMMA SlotsApart ==
  ASSUME NEW a \in Int, NEW b \in Int, Slot(a) = Slot(b), a < b
  PROVE  b - a >= WindowSize
<1>. DEFINE W == WindowSize
            p == a \div W
            q == b \div W
<1>0. W \in Nat \ {0} /\ a % W = b % W
  BY CounterAssumption DEF Slot
<1>. HIDE DEF W
<1>1. p \in Int /\ q \in Int /\ a % W \in Int
  BY <1>0, DivMod
<1>2. a = W * p + (a % W)
  BY <1>0, DivMod
<1>3. b = W * q + (b % W)
  BY <1>0, DivMod
<1>. HIDE DEF p, q
<1>4. W * p \in Int /\ W * q \in Int /\ W * (q - p) = W * q - W * p
  BY <1>0, <1>1
<1>5. b - a = W * (q - p)
  BY <1>0, <1>1, <1>2, <1>3, <1>4
<1>6. b - a >= W
  BY <1>0, <1>1, <1>5, Multiple
<1>. QED
  BY <1>6 DEF W

\* An id and the one a window after it share a slot.
LEMMA SlotWraps ==
  ASSUME NEW a \in Int, NEW b \in Int, b = a + WindowSize
  PROVE  Slot(b) = Slot(a)
<1>. DEFINE W == WindowSize
            p == a \div W
            q == b \div W
            r == a % W
            s == b % W
<1>0. W \in Nat \ {0} /\ b = a + W
  BY CounterAssumption
<1>. SUFFICES r = s
  BY DEF Slot
<1>. HIDE DEF W
<1>1. /\ p \in Int /\ r \in 0 .. W - 1
      /\ a = W * p + r
  BY <1>0, DivMod
<1>2. /\ q \in Int /\ s \in 0 .. W - 1
      /\ b = W * q + s
  BY <1>0, DivMod
<1>. HIDE DEF p, q, r, s
<1>3. /\ W * p \in Int /\ W * q \in Int
      /\ W * (q - p - 1) = W * q - W * p - W
      /\ W * (p + 1 - q) = W * p + W - W * q
  BY <1>0, <1>1, <1>2
<1>4. W * (q - p - 1) = r - s
  BY <1>0, <1>1, <1>2, <1>3
<1>5. W * (p + 1 - q) = s - r
  BY <1>0, <1>1, <1>2, <1>3
<1>6. CASE r > s
  <2>1. q - p - 1 \in Int /\ W * (q - p - 1) > 0
    BY <1>1, <1>2, <1>4, <1>6
  <2>2. W * (q - p - 1) >= W
    BY <1>0, <2>1, Multiple
  <2>. QED
    BY <1>0, <1>1, <1>2, <1>4, <2>2
<1>7. CASE s > r
  <2>1. p + 1 - q \in Int /\ W * (p + 1 - q) > 0
    BY <1>1, <1>2, <1>5, <1>7
  <2>2. W * (p + 1 - q) >= W
    BY <1>0, <2>1, Multiple
  <2>. QED
    BY <1>0, <1>1, <1>2, <1>5, <2>2
<1>. QED
  BY <1>0, <1>1, <1>2, <1>6, <1>7

\* The slot of an id is not beyond it.
LEMMA SlotBelow ==
  ASSUME NEW a \in Nat
  PROVE  Slot(a) <= a
  BY CounterAssumption DEF Slot

-----------------------------------------------------------------------------
\* The first id that the prefix does not have: the holder of the lock is moving
\* it, or limit is before it.
Frontier ==
  IF holder # None /\ apc[holder] = "sweep" THEN index[holder] ELSE limit + 1

\* The goroutines that have an id they have not acknowledged.
Owns(t) == apc[t] \in {"held", "mark"}

OneHolder == \A t \in Thread : apc[t] \in {"sweep", "unlock"} <=> holder = t

OwnIds ==
  /\ Start <= counter
  /\ acked \subseteq Start .. counter - 1
  /\ \A t \in Thread : Owns(t) => id[t] \in Start .. counter - 1 /\ id[t] \notin acked
  /\ \A t, u \in Thread : Owns(t) /\ Owns(u) /\ t # u => id[t] # id[u]

Limits == Start - 1 <= limit /\ limit < Frontier

\* What holds as long as no id has run a window ahead.
Prefix == \A v \in Start .. Frontier - 1 : v \in acked
InWindow == \A t \in Thread : apc[t] = "mark" => id[t] < Frontier + WindowSize
SlotsAreAcked ==
  \A v \in Frontier .. Frontier + WindowSize - 1 : window[Slot(v)] => v \in acked
AckedHaveSlots ==
  \A v \in acked : v >= Frontier => v < Frontier + WindowSize /\ window[Slot(v)]
SomeoneScans ==
  ~ missed /\ Frontier \in acked => \E t \in Thread : apc[t] \in {"try", "sweep"}

Ordered == ~ overrun => Prefix /\ InWindow /\ SlotsAreAcked /\ AckedHaveSlots /\ SomeoneScans

IInv == AckTypeOK /\ OneHolder /\ OwnIds /\ Limits /\ Ordered

\* The frontier is a number.
LEMMA FrontierInt ==
  ASSUME AckTypeOK
  PROVE  Frontier \in Int
  BY CounterAssumption DEF AckTypeOK, Frontier

\* The invariant holds when NewAcknowledgedCounter returns.
LEMMA InitInv == AckInit => IInv
<1>. SUFFICES ASSUME AckInit PROVE IInv
  OBVIOUS
<1>. USE CounterAssumption
<1>1. AckTypeOK
  <2>1. window \in [0 .. WindowSize - 1 -> BOOLEAN] /\ overrun \in BOOLEAN /\ missed \in BOOLEAN
    BY Zenon DEF AckInit
  <2>2. counter \in Nat /\ limit \in Int /\ id \in [Thread -> Int] /\ index \in [Thread -> Int]
    BY DEF AckInit
  <2>. QED
    BY <2>1, <2>2 DEF AckInit, AckTypeOK
<1>2. Frontier = Start
  BY DEF AckInit, Frontier
<1>3. OneHolder
  BY DEF AckInit, OneHolder
<1>4. OwnIds
  BY DEF AckInit, OwnIds, Owns
<1>5. Limits
  BY <1>2 DEF AckInit, Limits
<1>6. Prefix /\ InWindow /\ AckedHaveSlots /\ SomeoneScans
  BY <1>2 DEF AckInit, Prefix, InWindow, AckedHaveSlots, SomeoneScans
<1>7. SlotsAreAcked
  BY <1>2, SlotRange DEF AckInit, SlotsAreAcked
<1>. QED
  BY <1>1, <1>3, <1>4, <1>5, <1>6, <1>7 DEF IInv, Ordered

\* Next takes an id that nobody has.
LEMMA NextIDStep ==
  ASSUME IInv, NEW t \in Thread, NextID(t)
  PROVE  IInv'
<1>. USE CounterAssumption
<1>0. AckTypeOK /\ OneHolder /\ OwnIds /\ Limits /\ Ordered
  BY DEF IInv
<1>1. AckTypeOK'
  BY <1>0 DEF AckTypeOK, NextID
<1>2. holder # t
  BY <1>0 DEF OneHolder, NextID
<1>3. Frontier' = Frontier /\ Frontier \in Int
  BY <1>0, <1>2, FrontierInt DEF AckTypeOK, OneHolder, NextID, Frontier
<1>4. OneHolder'
  BY <1>0, <1>2 DEF AckTypeOK, OneHolder, NextID
<1>5. OwnIds'
  <2>1. \A u \in Thread : Owns(u)' => u = t \/ Owns(u)
    BY <1>0 DEF AckTypeOK, Owns, NextID
  <2>2. /\ \A u \in Thread : id'[u] = IF u = t THEN counter ELSE id[u]
        /\ counter' = counter + 1 /\ acked' = acked /\ counter \in Int
    BY <1>0 DEF AckTypeOK, NextID
  <2>3. counter \notin acked /\ Start <= counter
    BY <1>0, <2>2, FrontierInt DEF AckTypeOK, OwnIds, NextID
  <2>. QED
    BY <1>0, <2>1, <2>2, <2>3 DEF OwnIds
<1>6. Limits'
  BY <1>0, <1>3 DEF Limits, NextID
<1>7. Ordered'
  <2>. SUFFICES ASSUME ~ overrun PROVE (Prefix /\ InWindow /\ SlotsAreAcked /\ AckedHaveSlots /\ SomeoneScans)'
    BY DEF Ordered, NextID
  <2>1. Prefix' /\ SlotsAreAcked' /\ AckedHaveSlots'
    BY <1>0, <1>3 DEF Ordered, Prefix, SlotsAreAcked, AckedHaveSlots, NextID
  <2>2. InWindow'
    BY <1>0, <1>3 DEF AckTypeOK, Ordered, InWindow, NextID
  <2>3. SomeoneScans'
    BY <1>0, <1>3 DEF AckTypeOK, Ordered, SomeoneScans, NextID
  <2>. QED
    BY <2>1, <2>2, <2>3
<1>. QED
  BY <1>1, <1>4, <1>5, <1>6, <1>7 DEF IInv

\* Acknowledge looks at its slot.  If it is free, then the id that had the slot
\* before is below the frontier, so the new one is in the window.
LEMMA CheckStep ==
  ASSUME IInv, NEW t \in Thread, Check(t)
  PROVE  IInv'
<1>. USE CounterAssumption
<1>0. AckTypeOK /\ OneHolder /\ OwnIds /\ Limits /\ Ordered
  BY DEF IInv
<1>1. AckTypeOK'
  BY <1>0 DEF AckTypeOK, Check
<1>2. holder # t
  BY <1>0 DEF OneHolder, Check
<1>3. Frontier' = Frontier /\ Frontier \in Int
  BY <1>0, <1>2, FrontierInt DEF AckTypeOK, OneHolder, Check, Frontier
<1>4. OneHolder'
  BY <1>0, <1>2 DEF AckTypeOK, OneHolder, Check
<1>5. OwnIds'
  BY <1>0 DEF AckTypeOK, OwnIds, Owns, Check
<1>6. Limits'
  BY <1>0, <1>3 DEF Limits, Check
<1>7. Ordered'
  <2>. SUFFICES ASSUME ~ overrun' PROVE (Prefix /\ InWindow /\ SlotsAreAcked /\ AckedHaveSlots /\ SomeoneScans)'
    BY DEF Ordered
  <2>0. ~ overrun /\ Start .. id[t] - WindowSize \subseteq acked
    BY DEF Check
  <2>1. Prefix' /\ SlotsAreAcked' /\ AckedHaveSlots'
    BY <1>0, <1>3, <2>0 DEF Ordered, Prefix, SlotsAreAcked, AckedHaveSlots, Check
  <2>2. ASSUME apc'[t] = "mark" PROVE id[t] < Frontier + WindowSize
    <3>. SUFFICES ASSUME id[t] >= Frontier + WindowSize PROVE FALSE
      BY <1>0, <1>3 DEF AckTypeOK
    <3>. DEFINE v == id[t] - WindowSize
    <3>1. v \in Int /\ id[t] \in Int /\ id[t] = v + WindowSize /\ v >= Frontier
      BY <1>0, <1>3 DEF AckTypeOK
    <3>2. v >= Start
      BY <1>0, <1>3, <3>1 DEF Limits, AckTypeOK
    <3>. HIDE DEF v
    <3>3. v \in acked
      BY <2>0, <3>1, <3>2
    <3>4. window[Slot(v)]
      BY <1>0, <2>0, <3>1, <3>3 DEF Ordered, AckedHaveSlots
    <3>5. Slot(id[t]) = Slot(v)
      BY <3>1, SlotWraps
    <3>. QED
      BY <1>0, <2>2, <3>4, <3>5 DEF Check, SlotIsFree, AckTypeOK
  <2>3. InWindow'
    BY <1>0, <1>3, <2>0, <2>2 DEF AckTypeOK, Ordered, InWindow, Check
  <2>4. SomeoneScans'
    BY <1>0, <1>3, <2>0 DEF AckTypeOK, Ordered, SomeoneScans, Check
  <2>. QED
    BY <2>1, <2>3, <2>4
<1>. QED
  BY <1>1, <1>4, <1>5, <1>6, <1>7 DEF IInv

\* Acknowledge sets its slot.  The ids that share the slot are a window away, so
\* none of them is in the window, and nobody else has the id.
LEMMA MarkStep ==
  ASSUME IInv, NEW t \in Thread, Mark(t)
  PROVE  IInv'
<1>. USE CounterAssumption
<1>0. AckTypeOK /\ OneHolder /\ OwnIds /\ Limits /\ Ordered
  BY DEF IInv
<1>1. id[t] \in Start .. counter - 1 /\ id[t] \notin acked /\ id[t] \in Int
  BY <1>0 DEF OwnIds, Owns, Mark, AckTypeOK
<1>2. AckTypeOK'
  <2>1. window' \in [0 .. WindowSize - 1 -> BOOLEAN]
    BY <1>0 DEF AckTypeOK, Mark
  <2>. QED
    BY <1>0, <1>1, <2>1 DEF AckTypeOK, Mark
<1>3. holder # t
  BY <1>0 DEF OneHolder, Mark
<1>4. Frontier' = Frontier /\ Frontier \in Int
  BY <1>0, <1>3, FrontierInt DEF AckTypeOK, OneHolder, Mark, Frontier
<1>5. OneHolder'
  BY <1>0, <1>3 DEF AckTypeOK, OneHolder, Mark
<1>6. OwnIds'
  <2>1. \A u \in Thread : Owns(u)' => u # t /\ Owns(u)
    BY <1>0 DEF AckTypeOK, Owns, Mark
  <2>2. acked' = acked \cup {id[t]} /\ id' = id /\ counter' = counter
    BY DEF Mark
  <2>3. Owns(t)
    BY DEF Owns, Mark
  <2>. QED
    BY <1>0, <1>1, <2>1, <2>2, <2>3 DEF OwnIds
<1>7. Limits'
  BY <1>0, <1>4 DEF Limits, Mark
<1>8. Ordered'
  <2>. SUFFICES ASSUME ~ overrun PROVE (Prefix /\ InWindow /\ SlotsAreAcked /\ AckedHaveSlots /\ SomeoneScans)'
    BY DEF Ordered, Mark
  <2>0. Prefix /\ InWindow /\ SlotsAreAcked /\ AckedHaveSlots /\ SomeoneScans
    BY <1>0 DEF Ordered
  <2>1. acked' = acked \cup {id[t]}
    BY DEF Mark
  <2>2. id[t] >= Frontier /\ id[t] < Frontier + WindowSize
    BY <1>1, <1>4, <2>0 DEF Prefix, InWindow, Mark
  <2>3. \A v \in Int : window'[Slot(v)] <=> (Slot(v) = Slot(id[t]) \/ window[Slot(v)])
    BY <1>0, <1>1, SlotRange DEF Mark, AckTypeOK
  <2>4. \A v \in Frontier .. Frontier + WindowSize - 1 : Slot(v) = Slot(id[t]) => v = id[t]
    <3>. TAKE v \in Frontier .. Frontier + WindowSize - 1
    <3>. HAVE Slot(v) = Slot(id[t])
    <3>1. v \in Int
      BY <1>4
    <3>2. CASE v < id[t]
      BY <1>1, <1>4, <2>2, <3>1, <3>2, SlotsApart
    <3>3. CASE v > id[t]
      BY <1>1, <1>4, <2>2, <3>1, <3>3, SlotsApart
    <3>. QED
      BY <1>1, <3>1, <3>2, <3>3
  <2>5. Prefix'
    BY <1>4, <2>0, <2>1 DEF Prefix
  <2>6. InWindow'
    BY <1>0, <1>4, <2>0 DEF AckTypeOK, InWindow, Mark
  <2>7. SlotsAreAcked'
    BY <1>4, <2>0, <2>1, <2>3, <2>4 DEF SlotsAreAcked
  <2>8. AckedHaveSlots'
    <3>. SUFFICES ASSUME NEW v \in acked', v >= Frontier
                  PROVE  v < Frontier + WindowSize /\ window'[Slot(v)]
      BY <1>4 DEF AckedHaveSlots
    <3>1. CASE v = id[t]
      BY <1>1, <2>2, <2>3, <3>1
    <3>2. CASE v \in acked
      <4>1. v \in Int
        BY <1>0, <3>2 DEF AckTypeOK
      <4>. QED
        BY <2>0, <2>3, <3>2, <4>1 DEF AckedHaveSlots
    <3>. QED
      BY <2>1, <3>1, <3>2
  <2>9. SomeoneScans'
    BY <1>0 DEF AckTypeOK, SomeoneScans, Mark
  <2>. QED
    BY <2>5, <2>6, <2>7, <2>8, <2>9
<1>. QED
  BY <1>2, <1>5, <1>6, <1>7, <1>8 DEF IInv

\* TryLock: the goroutine that gets the lock begins where limit ends; one that
\* does not leaves, and that is noted.
LEMMA TryLockStep ==
  ASSUME IInv, NEW t \in Thread, TryLock(t)
  PROVE  IInv'
<1>. USE CounterAssumption
<1>0. AckTypeOK /\ OneHolder /\ OwnIds /\ Limits /\ Ordered
  BY DEF IInv
<1>1. AckTypeOK'
  <2>1. missed' \in BOOLEAN
    BY <1>0, Zenon DEF AckTypeOK, TryLock
  <2>2. holder' \in Thread \cup {None} /\ index' \in [Thread -> Int]
    BY <1>0 DEF AckTypeOK, TryLock
  <2>3. apc' \in [Thread -> {"idle", "held", "mark", "try", "sweep", "unlock", "panic"}]
    BY <1>0 DEF AckTypeOK, TryLock
  <2>. QED
    BY <1>0, <2>1, <2>2, <2>3 DEF AckTypeOK, TryLock
<1>2. holder # t
  BY <1>0 DEF OneHolder, TryLock
<1>3. Frontier' = Frontier /\ Frontier \in Int
  BY <1>0, <1>2, FrontierInt DEF AckTypeOK, OneHolder, TryLock, Frontier
<1>4. OneHolder'
  BY <1>0, <1>2 DEF AckTypeOK, OneHolder, TryLock
<1>5. OwnIds'
  <2>1. \A u \in Thread : Owns(u)' => Owns(u)
    BY <1>0 DEF AckTypeOK, Owns, TryLock
  <2>2. acked' = acked /\ id' = id /\ counter' = counter
    BY DEF TryLock
  <2>. QED
    BY <1>0, <2>1, <2>2 DEF OwnIds
<1>6. Limits'
  BY <1>0, <1>3 DEF Limits, TryLock
<1>7. Ordered'
  <2>. SUFFICES ASSUME ~ overrun PROVE (Prefix /\ InWindow /\ SlotsAreAcked /\ AckedHaveSlots /\ SomeoneScans)'
    BY DEF Ordered, TryLock
  <2>1. Prefix' /\ SlotsAreAcked' /\ AckedHaveSlots'
    BY <1>0, <1>3 DEF Ordered, Prefix, SlotsAreAcked, AckedHaveSlots, TryLock
  <2>2. InWindow'
    BY <1>0, <1>3 DEF AckTypeOK, Ordered, InWindow, TryLock
  <2>3. SomeoneScans'
    BY <1>0, <1>3 DEF AckTypeOK, Ordered, SomeoneScans, TryLock
  <2>. QED
    BY <2>1, <2>2, <2>3
<1>. QED
  BY <1>1, <1>4, <1>5, <1>6, <1>7 DEF IInv

\* The id of a goroutine that is scanning is the frontier, and it is beyond
\* beforeFirstSlot: that end of the loop is never the one taken.
LEMMA ScanIsFrontier ==
  ASSUME IInv, NEW t \in Thread, apc[t] = "sweep"
  PROVE  /\ holder = t /\ Frontier = index[t] /\ Frontier \in Int
         /\ Frontier >= Start
         /\ Frontier # Slot(limit)
<1>. USE CounterAssumption
<1>0. AckTypeOK /\ OneHolder /\ Limits
  BY DEF IInv
<1>1. holder = t
  BY <1>0 DEF OneHolder
<1>2. Frontier = index[t] /\ Frontier \in Int
  BY <1>0, <1>1 DEF Frontier, AckTypeOK
<1>3. limit \in Nat /\ limit < Frontier /\ Start - 1 <= limit
  BY <1>0 DEF Limits, AckTypeOK
<1>4. Slot(limit) <= limit /\ Slot(limit) \in Int
  BY <1>3, SlotBelow, SlotRange
<1>. QED
  BY <1>1, <1>2, <1>3, <1>4

\* The scan moves the frontier over a set slot and clears it for the id a
\* window later.
LEMMA SweepStep ==
  ASSUME IInv, NEW t \in Thread, Sweep(t)
  PROVE  IInv'
<1>. USE CounterAssumption
<1>0. AckTypeOK /\ OneHolder /\ OwnIds /\ Limits /\ Ordered
  BY DEF IInv
<1>1. /\ holder = t /\ Frontier = index[t] /\ Frontier \in Int
      /\ Frontier >= Start
      /\ apc[t] = "sweep" /\ window[Slot(Frontier)]
  BY ScanIsFrontier DEF Sweep, Contiguous
<1>2. AckTypeOK'
  <2>1. window' \in [0 .. WindowSize - 1 -> BOOLEAN]
    BY <1>0 DEF AckTypeOK, Sweep
  <2>. QED
    BY <1>0, <2>1 DEF AckTypeOK, Sweep
<1>3. Frontier' = Frontier + 1
  BY <1>0, <1>1 DEF AckTypeOK, Sweep, Frontier
<1>4. OneHolder'
  BY <1>0 DEF OneHolder, Sweep
<1>5. OwnIds'
  BY <1>0 DEF OwnIds, Owns, Sweep
<1>6. Limits'
  BY <1>0, <1>1, <1>3 DEF AckTypeOK, Limits, Sweep
<1>7. Ordered'
  <2>. SUFFICES ASSUME ~ overrun PROVE (Prefix /\ InWindow /\ SlotsAreAcked /\ AckedHaveSlots /\ SomeoneScans)'
    BY DEF Ordered, Sweep
  <2>0. Prefix /\ InWindow /\ SlotsAreAcked /\ AckedHaveSlots /\ SomeoneScans
    BY <1>0 DEF Ordered
  <2>1. acked' = acked /\ apc' = apc /\ id' = id
    BY DEF Sweep
  <2>2. \A v \in Int : window'[Slot(v)] <=> (Slot(v) # Slot(Frontier) /\ window[Slot(v)])
    BY <1>0, <1>1, SlotRange DEF Sweep, AckTypeOK
  <2>3. Frontier \in acked
    BY <1>1, <2>0 DEF SlotsAreAcked
  <2>4. Prefix'
    BY <1>1, <1>3, <2>0, <2>1, <2>3 DEF Prefix
  <2>5. InWindow'
    <3>1. WindowSize \in Int /\ \A u \in Thread : apc[u] = "mark" => id[u] \in Int
      BY <1>0 DEF OwnIds, Owns
    <3>. QED
      BY <1>1, <1>3, <2>0, <2>1, <3>1 DEF InWindow
  <2>6. SlotsAreAcked'
    <3>. SUFFICES ASSUME NEW v \in Frontier + 1 .. Frontier + WindowSize, window'[Slot(v)]
                  PROVE  v \in acked
      BY <1>1, <1>3, <2>1 DEF SlotsAreAcked
    <3>1. v \in Int /\ Slot(v) # Slot(Frontier) /\ window[Slot(v)]
      BY <1>1, <2>2
    <3>2. v # Frontier + WindowSize
      BY <1>1, <3>1, SlotWraps
    <3>. QED
      BY <1>1, <2>0, <3>1, <3>2 DEF SlotsAreAcked
  <2>7. AckedHaveSlots'
    <3>. SUFFICES ASSUME NEW v \in acked, v >= Frontier + 1
                  PROVE  v < Frontier + 1 + WindowSize /\ window'[Slot(v)]
      BY <1>3, <2>1 DEF AckedHaveSlots
    <3>1. v \in Int
      BY <1>0 DEF AckTypeOK
    <3>2. v < Frontier + WindowSize /\ window[Slot(v)]
      BY <1>1, <2>0, <3>1 DEF AckedHaveSlots
    <3>3. Slot(v) # Slot(Frontier)
      BY <1>1, <3>1, <3>2, SlotsApart
    <3>. QED
      BY <1>1, <2>2, <3>1, <3>2, <3>3
  <2>8. SomeoneScans'
    BY <1>1, <2>1 DEF SomeoneScans
  <2>. QED
    BY <2>4, <2>5, <2>6, <2>7, <2>8
<1>. QED
  BY <1>2, <1>4, <1>5, <1>6, <1>7 DEF IInv

\* The scan stops at a slot that is not set, whose id is not acknowledged, and
\* limit takes the frontier over.
LEMMA StoreStep ==
  ASSUME IInv, NEW t \in Thread, Store(t)
  PROVE  IInv'
<1>. USE CounterAssumption
<1>0. AckTypeOK /\ OneHolder /\ OwnIds /\ Limits /\ Ordered
  BY DEF IInv
<1>1. /\ holder = t /\ Frontier = index[t] /\ Frontier \in Int
      /\ Frontier >= Start
      /\ apc[t] = "sweep" /\ ~ window[Slot(Frontier)]
  BY ScanIsFrontier DEF Store, Contiguous
<1>2. AckTypeOK'
  BY <1>0 DEF AckTypeOK, Store
<1>3. Frontier' = Frontier
  <2>1. holder' = t /\ t # None /\ apc'[t] = "unlock" /\ limit' = index[t] - 1
    BY <1>0, <1>1 DEF AckTypeOK, Store
  <2>2. index[t] \in Int
    BY <1>1
  <2>3. Frontier' = limit' + 1
    BY <2>1 DEF Frontier
  <2>. QED
    BY <1>1, <2>1, <2>2, <2>3
<1>4. OneHolder'
  BY <1>0, <1>1 DEF AckTypeOK, OneHolder, Store
<1>5. OwnIds'
  <2>1. \A u \in Thread : Owns(u)' => Owns(u)
    BY <1>0 DEF AckTypeOK, Owns, Store
  <2>2. acked' = acked /\ id' = id /\ counter' = counter
    BY DEF Store
  <2>. QED
    BY <1>0, <2>1, <2>2 DEF OwnIds
<1>6. Limits'
  BY <1>0, <1>1, <1>3 DEF AckTypeOK, Limits, Store
<1>7. Ordered'
  <2>. SUFFICES ASSUME ~ overrun PROVE (Prefix /\ InWindow /\ SlotsAreAcked /\ AckedHaveSlots /\ SomeoneScans)'
    BY DEF Ordered, Store
  <2>1. Prefix' /\ SlotsAreAcked' /\ AckedHaveSlots'
    BY <1>0, <1>3 DEF Ordered, Prefix, SlotsAreAcked, AckedHaveSlots, Store
  <2>2. InWindow'
    BY <1>0, <1>3 DEF AckTypeOK, Ordered, InWindow, Store
  <2>3. Frontier \notin acked
    BY <1>0, <1>1 DEF Ordered, AckedHaveSlots
  <2>4. SomeoneScans'
    BY <1>3, <2>3 DEF SomeoneScans, Store
  <2>. QED
    BY <2>1, <2>2, <2>4
<1>. QED
  BY <1>2, <1>4, <1>5, <1>6, <1>7 DEF IInv

\* Unlock lets the next goroutine scan.
LEMMA UnlockStep ==
  ASSUME IInv, NEW t \in Thread, Unlock(t)
  PROVE  IInv'
<1>. USE CounterAssumption
<1>0. AckTypeOK /\ OneHolder /\ OwnIds /\ Limits /\ Ordered
  BY DEF IInv
<1>1. holder = t
  BY <1>0 DEF OneHolder, Unlock
<1>2. AckTypeOK'
  BY <1>0 DEF AckTypeOK, Unlock
<1>3. Frontier' = Frontier /\ Frontier \in Int
  BY <1>0, <1>1, FrontierInt DEF AckTypeOK, Unlock, Frontier
<1>4. OneHolder'
  BY <1>0, <1>1 DEF AckTypeOK, OneHolder, Unlock
<1>5. OwnIds'
  <2>1. \A u \in Thread : Owns(u)' => Owns(u)
    BY <1>0 DEF AckTypeOK, Owns, Unlock
  <2>2. acked' = acked /\ id' = id /\ counter' = counter
    BY DEF Unlock
  <2>. QED
    BY <1>0, <2>1, <2>2 DEF OwnIds
<1>6. Limits'
  BY <1>0, <1>3 DEF Limits, Unlock
<1>7. Ordered'
  <2>. SUFFICES ASSUME ~ overrun PROVE (Prefix /\ InWindow /\ SlotsAreAcked /\ AckedHaveSlots /\ SomeoneScans)'
    BY DEF Ordered, Unlock
  <2>1. Prefix' /\ SlotsAreAcked' /\ AckedHaveSlots'
    BY <1>0, <1>3 DEF Ordered, Prefix, SlotsAreAcked, AckedHaveSlots, Unlock
  <2>2. InWindow'
    BY <1>0, <1>3 DEF AckTypeOK, Ordered, InWindow, Unlock
  <2>3. SomeoneScans'
    BY <1>0, <1>3 DEF AckTypeOK, Ordered, SomeoneScans, Unlock
  <2>. QED
    BY <2>1, <2>2, <2>3
<1>. QED
  BY <1>2, <1>4, <1>5, <1>6, <1>7 DEF IInv

\* A step of something else leaves the counter's invariant alone.
LEMMA StutterStep ==
  ASSUME IInv, UNCHANGED ackVars
  PROVE  IInv'
<1>. USE DEF ackVars
<1>1. AckTypeOK' /\ Frontier' = Frontier
  BY DEF IInv, AckTypeOK, Frontier
<1>2. OneHolder' /\ OwnIds' /\ Limits'
  BY <1>1 DEF IInv, OneHolder, OwnIds, Owns, Limits
<1>3. Ordered'
  BY <1>1 DEF IInv, Ordered, Prefix, InWindow, SlotsAreAcked, AckedHaveSlots, SomeoneScans
<1>. QED
  BY <1>1, <1>2, <1>3 DEF IInv

-----------------------------------------------------------------------------
\* Every step of AcknowledgedCounter keeps the invariant.
THEOREM AckInvariant == AckSpec => []IInv
<1>1. ASSUME IInv, [AckNext]_ackVars PROVE IInv'
  BY <1>1, NextIDStep, CheckStep, MarkStep, TryLockStep, SweepStep, StoreStep, UnlockStep,
     StutterStep DEF AckNext, Acknowledge
<1>. QED
  BY <1>1, InitInv, PTL DEF AckSpec

\* The invariant gives both properties of Last.
LEMMA InvImplies == IInv => LastIsAcknowledged /\ UnreportedOnlyIfMissed
<1>. SUFFICES ASSUME IInv PROVE LastIsAcknowledged /\ UnreportedOnlyIfMissed
  OBVIOUS
<1>. USE CounterAssumption
<1>0. AckTypeOK /\ OneHolder /\ Limits /\ Ordered
  BY DEF IInv
<1>1. LastIsAcknowledged
  BY <1>0, FrontierInt DEF LastIsAcknowledged, Ordered, Prefix, Limits, AckTypeOK
<1>2. AtRest => Frontier = limit + 1
  BY <1>0 DEF AtRest, OneHolder, Frontier, AckTypeOK
<1>3. UnreportedOnlyIfMissed
  BY <1>0, <1>2 DEF UnreportedOnlyIfMissed, AtRest, Ordered, SomeoneScans
<1>. QED
  BY <1>1, <1>3

\* AcknowledgedCounter.Last never reports an id before every id up to it has
\* been acknowledged, however many goroutines use the counter.
THEOREM LastIsAcknowledgedHolds == AckSpec => []LastIsAcknowledged
  BY AckInvariant, InvImplies, PTL

\* Only a failed TryLock leaves an acknowledged id unreported.
THEOREM UnreportedOnlyIfMissedHolds == AckSpec => []UnreportedOnlyIfMissed
  BY AckInvariant, InvImplies, PTL

-----------------------------------------------------------------------------
(* The runs of go-ycsb *)

\* A worker's step takes an id, is a step of Acknowledge, or leaves the counter
\* alone.
LEMMA WorkCounts ==
  ASSUME NEW t \in Thread, Work(t)
  PROVE  AckNext \/ UNCHANGED ackVars
<1>1. CASE NewWorker(t)
  BY <1>1 DEF NewWorker, Exit
<1>2. CASE TakeKey(t)
  BY <1>2 DEF TakeKey
<1>3. CASE \E o \in OperationChooser : Choose(t, o)
  BY <1>3 DEF Choose
<1>4. CASE TakeID(t)
  BY <1>4 DEF TakeID, AckNext
<1>5. CASE AcknowledgeID(t)
  BY <1>5 DEF AcknowledgeID, AckNext
<1>6. CASE PanicOnScan(t) \/ PanicOnSlot(t)
  BY <1>6 DEF PanicOnScan, PanicOnSlot, Exit
<1>7. CASE Count(t)
  BY <1>7 DEF Count
<1>. QED
  BY <1>1, <1>2, <1>3, <1>4, <1>5, <1>6, <1>7 DEF Work

\* So is every step of go-ycsb.
LEMMA StepCounts ==
  ASSUME [Next]_vars
  PROVE  [AckNext]_ackVars
<1>1. CASE \E t \in Thread : Work(t)
  BY <1>1, WorkCounts
<1>2. CASE \E t \in Thread, ok \in BOOLEAN : Call(t, ok)
  BY <1>2 DEF Call
<1>3. CASE \E t \in Thread : CallUpdate(t)
  BY <1>3 DEF CallUpdate
<1>4. CASE WarmUpEnds \/ MeasureEnds
  BY <1>4 DEF WarmUpEnds, MeasureEnds
<1>5. CASE WorkersDone \/ RunReturns \/ MainEnds
  BY <1>5 DEF WorkersDone, RunReturns, MainEnds
<1>6. CASE Signal \/ ForceExit
  BY <1>6 DEF Signal, ForceExit, Exit
<1>7. CASE UNCHANGED vars
  BY <1>7 DEF vars
<1>. QED
  BY <1>1, <1>2, <1>3, <1>4, <1>5, <1>6, <1>7 DEF Next, Over

\* Runs of go-ycsb use the counter as AcknowledgedCounter specifies.
THEOREM UsesCounter == Spec => AckSpec
<1>1. Init => AckInit
  BY DEF Init
<1>. QED
  BY <1>1, StepCounts, PTL DEF Spec, AckSpec

\* In every run Last reports acknowledged ids only, and only a failed TryLock
\* leaves one unreported.
THEOREM RunReportsAcknowledged == Spec => [](LastIsAcknowledged /\ UnreportedOnlyIfMissed)
  BY UsesCounter, AckInvariant, InvImplies, PTL

-----------------------------------------------------------------------------
(* The keys that requests go to *)

\* The keys of the load and the keys whose insertion has been tried.
Known == (0 .. Start - 1) \cup tried

Shape == DOMAIN wpc = Thread /\ DOMAIN op = Thread /\ DOMAIN keys = Thread

\* Between Next and the end of Acknowledge a worker inserts the id it has, and
\* Acknowledge begins when the insertion has returned.
Worker(t) ==
  /\ wpc[t] \in {"new", "op", "next"} => keys[t] = <<>>
  /\ wpc[t] = "next" => op[t] = "insert"
  /\ apc[t] # "idle" => wpc[t] \in {"call", "ack"} /\ op[t] = "insert"
  /\ wpc[t] = "call" /\ op[t] = "insert" => apc[t] = "held" /\ keys[t] = <<id[t]>>
  /\ wpc[t] = "ack" => id[t] \in tried

\* The key chooser stays at or below Last.
Follows ==
  conf.distribution = "exponential" \/ (conf.distribution = "latest" /\ Start > 3)

\* What a key chooser that follows Last gave t is known.
Chosen(t) ==
  Follows /\ ~ overrun /\ wpc[t] = "call" /\ ~ Inserts(t) => Range(keys[t]) \subseteq Known

\* The inductive invariant of ChosenWasTried: the counter's own, and with single
\* insertions that only ids that were tried are acknowledged.
CInv ==
  /\ IInv /\ Shape
  /\ conf.batch = 1 => acked \subseteq tried /\ \A t \in Thread : Worker(t) /\ Chosen(t)

\* The numbers that "latest" and "exponential" may give are keys of the load or
\* acknowledged ids; "latest" needs a load of four records or more.
LEMMA ChoiceIsKnown ==
  ASSUME IInv, ~ overrun, acked \subseteq tried, Follows
  PROVE  NextKeyNum \subseteq Known
<1>. USE CounterAssumption
<1>1. limit \in Int /\ limit >= Start - 1
  BY DEF IInv, AckTypeOK, Limits
<1>2. Start .. limit \subseteq acked
  BY InvImplies DEF LastIsAcknowledged
<1>3. 0 .. limit \subseteq Known
  BY <1>1, <1>2 DEF Known
<1>4. CASE conf.distribution = "latest" /\ Start > 3
  <2>1. NextKeyNum = SkewedLatest(Start - 1, limit)
    BY <1>4 DEF NextKeyNum, Last
  <2>2. Zipfian(0, Start - 1, limit) \subseteq 0 .. limit
    BY <1>1, <1>4 DEF Zipfian
  <2>3. SkewedLatest(Start - 1, limit) \subseteq 0 .. limit
    BY <1>1, <2>2 DEF SkewedLatest
  <2>. QED
    BY <1>3, <2>1, <2>3
<1>5. CASE conf.distribution = "exponential"
  BY <1>3, <1>5 DEF NextKeyNum, Last, ExponentialKey
<1>. QED
  BY <1>4, <1>5 DEF Follows

\* The invariant holds initially.
LEMMA ChoiceInit == Init => CInv
<1>. SUFFICES ASSUME Init PROVE CInv
  OBVIOUS
<1>1. IInv
  BY InitInv DEF Init
<1>2. Shape
  BY DEF Init, Shape
<1>3. acked = {}
  BY DEF Init, AckInit
<1>4. \A t \in Thread : Worker(t) /\ Chosen(t)
  BY DEF Init, AckInit, Worker, Chosen
<1>. QED
  BY <1>1, <1>2, <1>3, <1>4 DEF CInv

\* A worker that neither moves nor sees its goroutine state change keeps its
\* part of the invariant while keys are tried.
LEMMA Bystander ==
  ASSUME NEW u \in Thread, Worker(u), Chosen(u), conf' = conf,
         wpc'[u] = wpc[u], op'[u] = op[u], keys'[u] = keys[u],
         apc'[u] = apc[u], id'[u] = id[u],
         tried \subseteq tried', overrun => overrun'
  PROVE  Worker(u)' /\ Chosen(u)'
<1>1. Worker(u)'
  BY DEF Worker
<1>2. Chosen(u)'
  BY DEF Chosen, Follows, Known, Inserts
<1>. QED
  BY <1>1, <1>2

\* A step in which only t moves among the workers, and t keeps its part.
LEMMA OneMoves ==
  ASSUME CInv, IInv', NEW t \in Thread, conf' = conf,
         Shape', tried \subseteq tried', overrun => overrun',
         conf.batch = 1 => acked' \subseteq tried' /\ Worker(t)' /\ Chosen(t)',
         \A u \in Thread \ {t} :
           /\ wpc'[u] = wpc[u] /\ op'[u] = op[u] /\ keys'[u] = keys[u]
           /\ apc'[u] = apc[u] /\ id'[u] = id[u]
  PROVE  CInv'
<1>. SUFFICES ASSUME conf.batch = 1, NEW u \in Thread PROVE Worker(u)' /\ Chosen(u)'
  BY DEF CInv
<1>1. CASE u = t
  BY <1>1
<1>2. CASE u # t
  BY <1>2, Bystander DEF CInv
<1>. QED
  BY <1>1, <1>2

\* DoInsert and DoBatchInsert of a load take a key.
LEMMA TakeKeyStep ==
  ASSUME CInv, NEW t \in Thread, TakeKey(t)
  PROVE  CInv'
<1>0. IInv /\ Shape
  BY DEF CInv
<1>1. UNCHANGED ackVars /\ conf' = conf /\ tried' = tried
  BY DEF TakeKey, runVars
<1>2. IInv'
  BY <1>0, <1>1, StutterStep
<1>3. Shape'
  BY <1>0 DEF Shape, TakeKey, Goto
<1>4. ASSUME conf.batch = 1 PROVE Worker(t)' /\ Chosen(t)'
  <2>1. wpc[t] = "op" /\ op'[t] = "load"
    BY <1>0 DEF TakeKey, Begins, Shape
  <2>2. keys[t] = <<>> /\ apc[t] = "idle"
    BY <1>4, <2>1 DEF CInv, Worker
  <2>3. Len(keys'[t]) = 1
    <3>1. keys'[t] = Append(keys[t], sequence)
      BY <1>0 DEF TakeKey, Shape
    <3>. QED
      BY <2>2, <3>1
  <2>4. wpc'[t] = "call"
    BY <1>0, <1>4, <2>3 DEF TakeKey, Goto, Shape
  <2>5. apc'[t] = "idle"
    BY <1>1, <2>2 DEF ackVars
  <2>. QED
    BY <2>1, <2>4, <2>5 DEF Worker, Chosen, Inserts
<1>5. \A u \in Thread \ {t} :
         /\ wpc'[u] = wpc[u] /\ op'[u] = op[u] /\ keys'[u] = keys[u]
         /\ apc'[u] = apc[u] /\ id'[u] = id[u]
  BY <1>0, <1>1 DEF TakeKey, Goto, Shape, ackVars
<1>. QED
  BY <1>1, <1>2, <1>3, <1>4, <1>5, OneMoves DEF CInv, ackVars

\* DoTransaction and DoBatchTransaction choose an operation and its keys.
LEMMA ChooseStep ==
  ASSUME CInv, NEW t \in Thread, NEW o, Choose(t, o)
  PROVE  CInv'
<1>0. IInv /\ Shape
  BY DEF CInv
<1>1. UNCHANGED ackVars /\ conf' = conf /\ tried' = tried
  BY DEF Choose, runVars
<1>2. IInv'
  BY <1>0, <1>1, StutterStep
<1>3. Shape'
  BY <1>0 DEF Shape, Choose, Goto
<1>4. ASSUME conf.batch = 1 PROVE Worker(t)' /\ Chosen(t)'
  <2>1. wpc[t] = "op" /\ op'[t] = o
    BY <1>0 DEF Choose, Begins, Shape
  <2>2. keys[t] = <<>> /\ apc[t] = "idle"
    BY <1>4, <2>1 DEF CInv, Worker
  <2>3. apc'[t] = "idle"
    BY <1>1, <2>2 DEF ackVars
  <2>4. CASE o = "insert"
    <3>1. wpc'[t] = "next" /\ keys'[t] = <<>>
      BY <1>0, <2>2, <2>4 DEF Choose, Goto, Shape
    <3>. QED
      BY <2>1, <2>3, <2>4, <3>1 DEF Worker, Chosen
  <2>5. CASE o # "insert"
    <3>1. /\ wpc'[t] = "call"
          /\ \E ks \in [1 .. 1 -> NextKeyNum] : keys'[t] = ks
      BY <1>0, <1>4, <2>5 DEF Choose, Goto, Shape
    <3>2. Range(keys'[t]) \subseteq NextKeyNum
      BY <3>1 DEF Range
    <3>3. Worker(t)'
      BY <2>1, <2>3, <2>5, <3>1 DEF Worker
    <3>4. Chosen(t)'
      <4>. SUFFICES ASSUME Follows, ~ overrun
                    PROVE  NextKeyNum \subseteq Known'
        BY <1>1, <3>2 DEF Chosen, Follows, ackVars
      <4>1. NextKeyNum \subseteq Known
        BY <1>0, <1>4, ChoiceIsKnown DEF CInv
      <4>. QED
        BY <1>1, <4>1 DEF Known
    <3>. QED
      BY <3>3, <3>4
  <2>. QED
    BY <2>4, <2>5
<1>5. \A u \in Thread \ {t} :
         /\ wpc'[u] = wpc[u] /\ op'[u] = op[u] /\ keys'[u] = keys[u]
         /\ apc'[u] = apc[u] /\ id'[u] = id[u]
  BY <1>0, <1>1 DEF Choose, Goto, Shape, ackVars
<1>. QED
  BY <1>1, <1>2, <1>3, <1>4, <1>5, OneMoves DEF CInv, ackVars

\* doTransactionInsert takes its id.
LEMMA TakeIDStep ==
  ASSUME CInv, NEW t \in Thread, TakeID(t)
  PROVE  CInv'
<1>0. IInv /\ Shape /\ AckTypeOK
  BY DEF CInv, IInv
<1>1. NextID(t) /\ conf' = conf /\ tried' = tried
  BY DEF TakeID, runVars
<1>2. IInv'
  BY <1>0, <1>1, NextIDStep
<1>3. Shape'
  BY <1>0 DEF Shape, TakeID, Goto
<1>4. acked' = acked /\ overrun' = overrun /\ apc'[t] = "held" /\ id'[t] = counter
  BY <1>0, <1>1 DEF NextID, AckTypeOK
<1>5. ASSUME conf.batch = 1 PROVE Worker(t)' /\ Chosen(t)'
  <2>1. wpc[t] = "next" /\ wpc'[t] = "call" /\ op'[t] = op[t]
    BY <1>0, <1>5 DEF TakeID, Goto, Shape
  <2>2. keys[t] = <<>> /\ op[t] = "insert"
    BY <1>5, <2>1 DEF CInv, Worker
  <2>3. keys'[t] = <<counter>>
    <3>1. keys'[t] = Append(keys[t], counter)
      BY <1>0 DEF TakeID, Shape
    <3>. QED
      BY <2>2, <3>1
  <2>. QED
    BY <1>4, <2>1, <2>2, <2>3 DEF Worker, Chosen, Inserts
<1>6. \A u \in Thread \ {t} :
         /\ wpc'[u] = wpc[u] /\ op'[u] = op[u] /\ keys'[u] = keys[u]
         /\ apc'[u] = apc[u] /\ id'[u] = id[u]
  BY <1>0, <1>1 DEF TakeID, NextID, Goto, Shape, AckTypeOK
<1>. QED
  BY <1>1, <1>2, <1>3, <1>4, <1>5, <1>6, OneMoves DEF CInv

\* The insertion of one key has tried that key when it returns.
LEMMA OneKeyIsTried ==
  ASSUME NEW t \in Thread, NEW ok \in BOOLEAN, NEW k, Inserts(t), keys[t] = <<k>>,
         NEW attempted \in Attempts(t, ok)
  PROVE  k \in attempted
<1>1. k \in Range(keys[t])
  BY DEF Range
<1>2. CASE ok \/ conf.inner
  BY <1>1, <1>2 DEF Attempts
<1>3. CASE ~ (ok \/ conf.inner)
  <2>1. PICK i \in 1 .. Len(keys[t]) : attempted = {keys[t][j] : j \in 1 .. i}
    BY <1>3 DEF Attempts
  <2>2. 1 \in 1 .. i /\ keys[t][1] = k
    BY <2>1
  <2>. QED
    BY <2>1, <2>2
<1>. QED
  BY <1>2, <1>3

\* The call of an operation returns.
LEMMA CallStep ==
  ASSUME CInv, NEW t \in Thread, NEW ok \in BOOLEAN, Call(t, ok)
  PROVE  CInv'
<1>0. IInv /\ Shape
  BY DEF CInv
<1>1. UNCHANGED ackVars /\ conf' = conf /\ op' = op /\ keys' = keys /\ wpc[t] = "call"
  BY DEF Call, runVars
<1>2. IInv'
  BY <1>0, <1>1, StutterStep
<1>3. Shape'
  BY <1>0 DEF Shape, Call, Goto
<1>4. PICK attempted \in Attempts(t, ok) : tried' = tried \cup attempted
  BY DEF Call
<1>5. wpc'[t] = AfterCall(t, ok)
  BY <1>0 DEF Call, Goto, Shape
<1>6. ASSUME conf.batch = 1 PROVE Worker(t)' /\ Chosen(t)'
  <2>1. CASE op[t] = "insert"
    <3>1. apc[t] = "held" /\ keys[t] = <<id[t]>>
      BY <1>1, <1>6, <2>1 DEF CInv, Worker
    <3>2. wpc'[t] = "ack"
      BY <1>5, <1>6, <2>1 DEF AfterCall
    <3>3. id[t] \in tried'
      BY <1>4, <2>1, <3>1, OneKeyIsTried DEF Inserts
    <3>. QED
      BY <1>1, <2>1, <3>1, <3>2, <3>3 DEF Worker, Chosen, ackVars
  <2>2. CASE op[t] # "insert"
    <3>1. apc[t] = "idle"
      BY <1>6, <2>2 DEF CInv, Worker
    <3>2. wpc'[t] \in {"update", "call", "count"} /\ (wpc'[t] = "call" => op[t] = "load")
      BY <1>5, <2>2 DEF AfterCall
    <3>. QED
      BY <1>1, <2>2, <3>1, <3>2 DEF Worker, Chosen, Inserts, ackVars
  <2>. QED
    BY <2>1, <2>2
<1>7. \A u \in Thread \ {t} :
         /\ wpc'[u] = wpc[u] /\ op'[u] = op[u] /\ keys'[u] = keys[u]
         /\ apc'[u] = apc[u] /\ id'[u] = id[u]
  BY <1>0, <1>1 DEF Call, Goto, Shape, ackVars
<1>. QED
  BY <1>1, <1>2, <1>3, <1>4, <1>6, <1>7, OneMoves DEF CInv, ackVars

\* A step of Acknowledge is taken when the insertion has returned.
LEMMA AcknowledgeIDStep ==
  ASSUME CInv, NEW t \in Thread, AcknowledgeID(t)
  PROVE  CInv'
<1>0. IInv /\ Shape /\ AckTypeOK
  BY DEF CInv, IInv
<1>1. /\ Acknowledge(t) /\ wpc[t] = "ack"
      /\ conf' = conf /\ op' = op /\ keys' = keys /\ tried' = tried
  BY DEF AcknowledgeID, runVars
<1>2. IInv'
  BY <1>0, <1>1, CheckStep, MarkStep, TryLockStep, SweepStep, StoreStep, UnlockStep
     DEF Acknowledge
<1>3. Shape'
  BY <1>0 DEF Shape, AcknowledgeID, Goto
<1>4. /\ apc[t] # "idle" /\ id' = id
      /\ overrun => overrun'
      /\ acked' \subseteq acked \cup {id[t]}
      /\ \A u \in Thread \ {t} : apc'[u] = apc[u]
  <2>1. CASE Check(t)
    BY <1>0, <2>1 DEF Check, AckTypeOK
  <2>2. CASE Mark(t)
    BY <1>0, <2>2 DEF Mark, AckTypeOK
  <2>3. CASE TryLock(t)
    BY <1>0, <2>3 DEF TryLock, AckTypeOK
  <2>4. CASE Sweep(t)
    BY <1>0, <2>4 DEF Sweep, AckTypeOK
  <2>5. CASE Store(t) \/ Unlock(t)
    BY <1>0, <2>5 DEF Store, Unlock, AckTypeOK
  <2>. QED
    BY <1>1, <2>1, <2>2, <2>3, <2>4, <2>5 DEF Acknowledge
<1>5. ASSUME conf.batch = 1 PROVE acked' \subseteq tried' /\ Worker(t)' /\ Chosen(t)'
  <2>1. op[t] = "insert" /\ id[t] \in tried /\ acked \subseteq tried
    BY <1>1, <1>4, <1>5 DEF CInv, Worker
  <2>2. wpc'[t] = IF apc'[t] # "idle" THEN "ack" ELSE "count"
    BY <1>0, <1>5 DEF AcknowledgeID, Goto, Shape
  <2>. QED
    BY <1>1, <1>4, <2>1, <2>2 DEF Worker, Chosen
<1>6. \A u \in Thread \ {t} : wpc'[u] = wpc[u]
  BY <1>0 DEF AcknowledgeID, Goto, Shape
<1>. QED
  BY <1>1, <1>2, <1>3, <1>4, <1>5, <1>6, OneMoves

\* A worker starts, returns from the update of a read-modify-write, or counts
\* its operation.
LEMMA OwnStep ==
  ASSUME CInv, NEW t \in Thread, (NewWorker(t) /\ wpc' # wpc) \/ CallUpdate(t) \/ Count(t)
  PROVE  CInv'
<1>0. IInv /\ Shape
  BY DEF CInv
<1>1. UNCHANGED ackVars /\ conf' = conf /\ op' = op /\ tried' = tried
  BY DEF NewWorker, Exit, CallUpdate, Count, runVars, workVars
<1>2. IInv'
  BY <1>0, <1>1, StutterStep
<1>3. Shape'
  BY <1>0 DEF Shape, NewWorker, Exit, CallUpdate, Count, Goto, workVars
<1>4. ASSUME conf.batch = 1 PROVE Worker(t)' /\ Chosen(t)'
  <2>1. wpc[t] \in {"new", "update", "count"}
    BY DEF NewWorker, CallUpdate, Count
  <2>2. apc[t] = "idle"
    BY <1>4, <2>1 DEF CInv, Worker
  <2>3. wpc'[t] \in {"op", "count", "done"} /\ (wpc'[t] = "op" => keys'[t] = <<>>)
    <3>1. CASE NewWorker(t) /\ wpc' # wpc
      BY <1>0, <1>4, <3>1 DEF CInv, Worker, Shape, NewWorker, Exit, Goto, workVars
    <3>2. CASE CallUpdate(t)
      BY <1>0, <3>2 DEF Shape, CallUpdate, Goto
    <3>3. CASE Count(t)
      BY <1>0, <3>3 DEF Shape, Count, Goto
    <3>. QED
      BY <3>1, <3>2, <3>3
  <2>. QED
    BY <1>1, <2>2, <2>3 DEF Worker, Chosen, ackVars
<1>5. \A u \in Thread \ {t} :
         /\ wpc'[u] = wpc[u] /\ keys'[u] = keys[u]
  BY <1>0 DEF Shape, NewWorker, Exit, CallUpdate, Count, Goto, workVars
<1>. QED
  BY <1>1, <1>2, <1>3, <1>4, <1>5, OneMoves DEF CInv, ackVars

\* Steps of main, of the signal handler and of the measurement goroutine leave
\* the workers and the counter alone.
LEMMA QuietStep ==
  ASSUME CInv, UNCHANGED <<ackVars, conf, wpc, op, keys, tried>>
  PROVE  CInv'
<1>1. IInv'
  BY StutterStep DEF CInv
<1>2. Shape'
  BY DEF CInv, Shape
<1>3. ASSUME conf.batch = 1
      PROVE  acked' \subseteq tried' /\ \A t \in Thread : Worker(t)' /\ Chosen(t)'
  BY <1>3, Bystander DEF CInv, ackVars
<1>. QED
  BY <1>1, <1>2, <1>3 DEF CInv

\* A step of a worker keeps the invariant.
LEMMA WorkStep ==
  ASSUME CInv, NEW t \in Thread, Work(t)
  PROVE  CInv'
<1>1. CASE NewWorker(t)
  <2>1. CASE wpc' = wpc
    BY <1>1, <2>1, QuietStep DEF NewWorker, Exit, runVars, workVars
  <2>. QED
    BY <1>1, <2>1, OwnStep
<1>2. CASE TakeKey(t)
  BY <1>2, TakeKeyStep
<1>3. CASE \E o \in OperationChooser : Choose(t, o)
  BY <1>3, ChooseStep
<1>4. CASE TakeID(t)
  BY <1>4, TakeIDStep
<1>5. CASE AcknowledgeID(t)
  BY <1>5, AcknowledgeIDStep
<1>6. CASE PanicOnScan(t) \/ PanicOnSlot(t)
  BY <1>6, QuietStep DEF PanicOnScan, PanicOnSlot, Exit, workVars
<1>7. CASE Count(t)
  BY <1>7, OwnStep
<1>. QED
  BY <1>1, <1>2, <1>3, <1>4, <1>5, <1>6, <1>7 DEF Work

\* Every step of go-ycsb keeps the invariant.
LEMMA RunStep ==
  ASSUME CInv, [Next]_vars
  PROVE  CInv'
<1>1. CASE \E t \in Thread : Work(t)
  BY <1>1, WorkStep
<1>2. CASE \E t \in Thread, ok \in BOOLEAN : Call(t, ok)
  BY <1>2, CallStep
<1>3. CASE \E t \in Thread : CallUpdate(t)
  BY <1>3, OwnStep
<1>4. CASE WarmUpEnds \/ MeasureEnds
  BY <1>4, QuietStep DEF WarmUpEnds, MeasureEnds, workVars
<1>5. CASE WorkersDone \/ RunReturns \/ MainEnds
  BY <1>5, QuietStep DEF WorkersDone, RunReturns, MainEnds, workVars
<1>6. CASE Signal \/ ForceExit
  BY <1>6, QuietStep DEF Signal, ForceExit, Exit, workVars
<1>7. CASE UNCHANGED vars
  BY <1>7, QuietStep DEF vars, runVars, workVars
<1>. QED
  BY <1>1, <1>2, <1>3, <1>4, <1>5, <1>6, <1>7 DEF Next, Over

\* With single insertions, a request of "exponential", or of "latest" after a
\* load of four records or more, goes only to keys of the load and to keys whose
\* insertion has returned, unless an id has run out of the counter's window.
THEOREM ChosenWasTriedHolds == Spec => []ChosenWasTried
<1>1. CInv /\ [Next]_vars => CInv'
  BY RunStep
<1>2. CInv => ChosenWasTried
  BY DEF CInv, Chosen, Follows, Known, ChosenWasTried
<1>. QED
  BY <1>1, <1>2, ChoiceInit, PTL DEF Spec

-----------------------------------------------------------------------------
(* Measurements and the end of the warm-up *)

\* What makes OneEscapes inductive: once an operation of a worker has escaped,
\* the warm-up is over, and every later operation it counts is measured.
EscapeInv ==
  /\ DOMAIN wpc = Thread /\ DOMAIN measured = Thread /\ DOMAIN escaped = Thread
  /\ conf.batch = 1 => \A t \in Thread :
       \/ escaped[t] = 0
       \/ /\ escaped[t] = 1
          /\ ~ warmUp
          /\ wpc[t] \in {"ack", "count"} => measured[t]

\* A worker's step keeps the invariant if it keeps what it says of that worker.
LEMMA EscapeFrame ==
  ASSUME EscapeInv, conf' = conf, warmUp' = warmUp, NEW t \in Thread,
         DOMAIN wpc' = Thread, DOMAIN measured' = Thread, DOMAIN escaped' = Thread,
         \A u \in Thread \ {t} :
           wpc'[u] = wpc[u] /\ measured'[u] = measured[u] /\ escaped'[u] = escaped[u],
         conf.batch = 1 =>
           \/ escaped'[t] = 0
           \/ /\ escaped'[t] = 1
              /\ ~ warmUp
              /\ wpc'[t] \in {"ack", "count"} => measured'[t]
  PROVE  EscapeInv'
BY DEF EscapeInv

\* A worker between an operation's last call and its count is the only one that
\* the end of the warm-up catches, and it is caught once.
LEMMA EscapeStep ==
  ASSUME EscapeInv, [Next]_vars
  PROVE  EscapeInv'
<1>1. DOMAIN wpc = Thread /\ DOMAIN measured = Thread /\ DOMAIN escaped = Thread
  BY DEF EscapeInv
<1>2. ASSUME UNCHANGED <<conf, warmUp, wpc, measured, escaped>> PROVE EscapeInv'
  BY <1>2 DEF EscapeInv
<1>3. ASSUME NEW t \in Thread, conf' = conf, warmUp' = warmUp, NEW label,
             Goto(t, label), conf.batch = 1 => label \notin {"ack", "count"},
             UNCHANGED <<measured, escaped>>
      PROVE  EscapeInv'
  <2>1. /\ DOMAIN wpc' = Thread /\ wpc'[t] = label
        /\ \A u \in Thread \ {t} : wpc'[u] = wpc[u]
    BY <1>1, <1>3 DEF Goto
  <2>2. conf.batch = 1 => escaped[t] = 0 \/ (escaped[t] = 1 /\ ~ warmUp)
    BY DEF EscapeInv
  <2>. QED
    BY <1>1, <1>3, <2>1, <2>2, EscapeFrame
<1>4. ASSUME NEW t \in Thread, NewWorker(t) PROVE EscapeInv'
  <2>1. CASE Exit
    BY <1>2, <2>1 DEF Exit, workVars
  <2>2. CASE ~ Exit
    BY <1>3, <1>4, <2>2 DEF NewWorker, runVars
  <2>. QED
    BY <2>1, <2>2
<1>5. ASSUME NEW t \in Thread, TakeKey(t) PROVE EscapeInv'
  BY <1>3, <1>5 DEF TakeKey, runVars
<1>6. ASSUME NEW t \in Thread, NEW o, Choose(t, o) PROVE EscapeInv'
  <2>1. UNCHANGED <<conf, warmUp, escaped>>
    BY <1>6 DEF Choose, runVars
  <2>2. CASE measured' = measured /\ (Goto(t, "next") \/ Goto(t, "call"))
    BY <1>3, <2>1, <2>2
  <2>3. CASE /\ conf.batch > 1 /\ Goto(t, "count")
             /\ measured' = [measured EXCEPT ![t] = FALSE]
    BY <1>1, <2>1, <2>3 DEF Goto, EscapeInv
  <2>. QED
    BY <1>6, <2>2, <2>3 DEF Choose
<1>7. ASSUME NEW t \in Thread, TakeID(t) PROVE EscapeInv'
  BY <1>3, <1>7 DEF TakeID, runVars
<1>8. ASSUME NEW t \in Thread, NEW label, Goto(t, label),
             measured' = [measured EXCEPT ![t] = Measured],
             UNCHANGED <<conf, warmUp, escaped>>
      PROVE  EscapeInv'
  <2>1. /\ DOMAIN wpc' = Thread
        /\ \A u \in Thread \ {t} : wpc'[u] = wpc[u]
    BY <1>1, <1>8 DEF Goto
  <2>2. /\ DOMAIN measured' = Thread /\ measured'[t] = Measured
        /\ \A u \in Thread \ {t} : measured'[u] = measured[u]
    BY <1>1, <1>8
  <2>3. conf.batch = 1 => escaped[t] = 0 \/ (escaped[t] = 1 /\ ~ warmUp)
    BY DEF EscapeInv
  <2>4. conf.batch = 1 /\ ~ warmUp => Measured
    BY DEF Measured
  <2>. QED
    BY <1>1, <1>8, <2>1, <2>2, <2>3, <2>4, EscapeFrame
<1>9. ASSUME NEW t \in Thread, NEW ok \in BOOLEAN, Call(t, ok) PROVE EscapeInv'
  BY <1>8, <1>9 DEF Call, runVars
<1>10. ASSUME NEW t \in Thread, CallUpdate(t) PROVE EscapeInv'
  BY <1>8, <1>10 DEF CallUpdate, runVars
<1>11. ASSUME NEW t \in Thread, AcknowledgeID(t) PROVE EscapeInv'
  <2>1. wpc[t] = "ack" /\ UNCHANGED <<conf, warmUp, measured, escaped>>
    BY <1>11 DEF AcknowledgeID, runVars
  <2>2. /\ DOMAIN wpc' = Thread
        /\ \A u \in Thread \ {t} : wpc'[u] = wpc[u]
    BY <1>1, <1>11 DEF AcknowledgeID, Goto
  <2>3. conf.batch = 1 =>
          escaped[t] = 0 \/ (escaped[t] = 1 /\ ~ warmUp /\ measured[t])
    BY <2>1 DEF EscapeInv
  <2>. QED
    BY <1>1, <2>1, <2>2, <2>3, EscapeFrame
<1>12. ASSUME NEW t \in Thread, Count(t) PROVE EscapeInv'
  <2>1. wpc[t] = "count" /\ UNCHANGED <<conf, warmUp, measured>>
    BY <1>12 DEF Count, runVars
  <2>2. /\ DOMAIN wpc' = Thread /\ wpc'[t] \in {"op", "done"}
        /\ \A u \in Thread \ {t} : wpc'[u] = wpc[u]
    BY <1>1, <1>12 DEF Count, Goto
  <2>3. /\ DOMAIN escaped' = Thread
        /\ escaped'[t] = IF ~ warmUp /\ ~ measured[t] THEN escaped[t] + 1 ELSE escaped[t]
        /\ \A u \in Thread \ {t} : escaped'[u] = escaped[u]
    BY <1>1, <1>12 DEF Count, CountsNow
  <2>4. conf.batch = 1 =>
          escaped[t] = 0 \/ (escaped[t] = 1 /\ ~ warmUp /\ measured[t])
    BY <2>1 DEF EscapeInv
  <2>5. conf.batch = 1 => escaped'[t] = 0 \/ (escaped'[t] = 1 /\ ~ warmUp)
    BY <2>3, <2>4
  <2>. QED
    BY <1>1, <2>1, <2>2, <2>3, <2>5, EscapeFrame
<1>13. CASE WarmUpEnds
  <2>1. UNCHANGED <<conf, wpc, measured, escaped>> /\ (~ warmUp => ~ warmUp')
    BY <1>13 DEF WarmUpEnds, workVars
  <2>. QED
    BY <2>1 DEF EscapeInv
<1>14. CASE MeasureEnds \/ WorkersDone \/ RunReturns \/ MainEnds \/ Signal
  BY <1>2, <1>14
  DEF MeasureEnds, WorkersDone, RunReturns, MainEnds, Signal, workVars
<1>15. CASE Exit \/ UNCHANGED vars
  BY <1>2, <1>15 DEF Exit, vars, runVars, workVars
<1>16. ASSUME NEW t \in Thread, Work(t) PROVE EscapeInv'
  BY <1>4, <1>5, <1>6, <1>7, <1>11, <1>12, <1>15, <1>16
  DEF Work, PanicOnScan, PanicOnSlot
<1>. QED
  BY <1>9, <1>10, <1>13, <1>14, <1>15, <1>16 DEF Next, Over, ForceExit

\* With single operations, the end of the warm-up between a measurement and the
\* count of its operation loses each worker at most one measurement, for any
\* number of workers and operations (Measure, worker.run).
THEOREM OneEscapesHolds == Spec => []OneEscapes
<1>1. Init => EscapeInv
  BY DEF Init, EscapeInv
<1>2. EscapeInv /\ [Next]_vars => EscapeInv'
  BY EscapeStep
<1>3. ASSUME EscapeInv PROVE OneEscapes
  <2>. SUFFICES ASSUME conf.batch = 1, NEW t \in Thread PROVE escaped[t] <= 1
    BY DEF OneEscapes
  <2>1. escaped[t] = 0 \/ escaped[t] = 1
    BY <1>3 DEF EscapeInv
  <2>. QED
    BY <2>1
<1>. QED
  BY <1>1, <1>2, <1>3, PTL DEF Spec
=============================================================================
