----------------------------- MODULE Reconcile -----------------------------
(***************************************************************************)
(* The reconciliation engine of one node (internal/reconcile): its log of  *)
(* recent writes, its queue of healing events, and the engine's goroutine  *)
(* that goes through the log and repairs the store, while the handlers of  *)
(* Put and Replicate store and record writes beside it.                    *)
(*                                                                         *)
(* A handler stores a write and then records it; the engine looks a key up *)
(* and then perhaps stores it.  The locks of Store and RecentWriteLog      *)
(* cover each of these steps, and none covers two.  The writes carry any   *)
(* timestamps: a peer's Replicate may be late.  The tick of the engine     *)
(* only logs and is left out, and so is RecentWriteLog.Cleanup, which      *)
(* nothing calls.  Node names are numbers, since the engine compares them. *)
(***************************************************************************)
EXTENDS HLC, FiniteSets, Sequences

CONSTANTS
  Key,
  MaxWrites,  \* bound on the writes that reach the node
  Timestamp,  \* the timestamps they may carry
  MaxSize,    \* RecentWriteLog.maxSize
  MaxAge,     \* RecentWriteLog.maxAge
  QueueSize,  \* capacity of healingEvents
  MaxHeal,    \* bound on the healing events
  MaxTime,    \* bound on the machine's time
  None        \* no value, no entry

\* The writes are numbered in the order in which they are stored.
Write == 1 .. MaxWrites

ASSUME ReconcileAssumption ==
  /\ MaxSize \in Nat \ {0} /\ QueueSize \in Nat \ {0}
  /\ MaxWrites \in Nat /\ MaxAge \in Nat /\ MaxHeal \in Nat
  /\ MaxTime \in Nat
  /\ Timestamp \subseteq [physical : Nat, logical : Nat, nodeID : Int]
  /\ None \notin [value : Write, hlc : Timestamp]

VARIABLES
  now,       \* the machine's time
  store,     \* store[k]: the value of k, named by its write, and its HLC
  pc,        \* pc[w]: where the handler of write w stands
  what,      \* what[w]: key and timestamp of write w
  entries,   \* RecentWriteLog.entries, with their timestamps
  index,     \* RecentWriteLog.index
  count,     \* RecentWriteLog.count
  queue,     \* the number of events in healingEvents
  engine,    \* where the engine's goroutine stands
  todo,      \* the writes the run has not looked at yet
  recorded,  \* history: all writes recorded, in order
  batch,     \* history: the writes the run began with
  touched,   \* history: keys a handler has stored since the run began
  raced,     \* history: ... since the engine looked at its key
  healed,    \* the number of healing events so far
  owed       \* history: a healing event since the last run began

logVars == <<entries, index, count, recorded>>
engineVars == <<engine, todo, batch>>
vars == <<now, store, pc, what, logVars, queue, engineVars, touched, raced,
          healed, owed>>

Slot == 0 .. MaxSize - 1
Entry == [key : Key, value : Write, hlc : Timestamp, received : 0 .. MaxTime]

Init ==
  /\ now = 0
  /\ store = [k \in Key |-> None]
  /\ pc = [w \in Write |-> "idle"]
  /\ what = [w \in Write |-> None]
  /\ entries = [i \in Slot |-> None]
  /\ index = 0
  /\ count = 0
  /\ queue = 0
  /\ engine = "select"
  /\ todo = <<>>
  /\ recorded = <<>>
  /\ batch = {}
  /\ touched = {}
  /\ raced = FALSE
  /\ healed = 0
  /\ owed = FALSE

TimePasses ==
  /\ now < MaxTime
  /\ now' = now + 1
  /\ UNCHANGED <<store, pc, what, logVars, queue, engineVars, touched, raced,
                 healed, owed>>

-----------------------------------------------------------------------------
(* The handlers of Put and Replicate *)

PutWithHLC(k, w, t) == store' = [store EXCEPT ![k] = [value |-> w, hlc |-> t]]

StoreWrite(w, k, t) ==
  /\ pc[w] = "idle" /\ \A v \in 1 .. w - 1 : pc[v] # "idle"
  /\ PutWithHLC(k, w, t)
  /\ what' = [what EXCEPT ![w] = [key |-> k, hlc |-> t]]
  /\ pc' = [pc EXCEPT ![w] = "stored"]
  /\ touched' = IF engine = "select" THEN touched ELSE touched \cup {k}
  /\ raced' = (raced \/ (engine = "apply" /\ Head(todo).key = k))
  /\ UNCHANGED <<now, logVars, queue, engineVars, healed, owed>>

\* Faulty: the index wraps around too early.
NextIndexShort(i) == IF i + 1 = MaxSize - 1 THEN 0 ELSE (i + 1) % MaxSize

\* The slot after slot i.
NextIndex(i) == (i + 1) % MaxSize

\* Faulty: the count goes on when the buffer is full.
NextCountUncapped(c) == c + 1

\* The number of entries after one more.
NextCount(c) == IF c < MaxSize THEN c + 1 ELSE c

\* RecentWriteLog.Add.
Add(e) ==
  /\ entries' = [entries EXCEPT ![index] = e]
  /\ index' = NextIndex(index)
  /\ count' = NextCount(count)
  /\ recorded' = Append(recorded, e)

\* Faulty: the write is recorded before it is stored.
RecordWriteEarly(w) ==
  /\ pc[w] = "idle"
  /\ \E k \in Key, t \in Timestamp :
       Add([key |-> k, value |-> w, hlc |-> t, received |-> now])
  /\ pc' = [pc EXCEPT ![w] = "done"]
  /\ UNCHANGED <<now, store, what, queue, engineVars, touched, raced, healed, owed>>

RecordWrite(w) ==
  /\ pc[w] = "stored"
  /\ Add([key |-> what[w].key, value |-> w, hlc |-> what[w].hlc,
          received |-> now])
  /\ pc' = [pc EXCEPT ![w] = "done"]
  /\ what' = [what EXCEPT ![w] = None]
  /\ UNCHANGED <<now, store, queue, engineVars, touched, raced, healed, owed>>

-----------------------------------------------------------------------------
(* The engine *)

\* Faulty: an event that finds the engine at work is dropped too.
HasRoomAndIdle == queue < QueueSize /\ engine = "select"

\* The select of NotifyHealingEvent can send.
HasRoom == queue < QueueSize

\* NotifyHealingEvent: queued, or dropped when the queue is full.
NotifyHealingEvent ==
  /\ healed < MaxHeal
  /\ healed' = healed + 1
  /\ owed' = TRUE
  /\ queue' = IF HasRoom THEN queue + 1 ELSE queue
  /\ UNCHANGED <<now, store, pc, what, logVars, engineVars, touched, raced>>

\* The slots of the entries that are not too old.
Fresh == {i \in 0 .. count - 1 : entries[i].received >= now - MaxAge}

\* The j-th smallest of a finite set of numbers.
Nth(S, j) == CHOOSE i \in S : Cardinality({m \in S : m <= i}) = j

\* RecentWriteLog.GetAll: the entries not too old, slot by slot.
GetAll == [j \in 1 .. Cardinality(Fresh) |-> entries[Nth(Fresh, j)]]

\* A healing event starts a run: reconcileWithPeer takes the log as it is.
\* The peer only appears in its log messages.
BeginRun ==
  /\ engine = "select"
  /\ queue > 0
  /\ queue' = queue - 1
  /\ engine' = "scan"
  /\ todo' = GetAll
  /\ batch' = {GetAll[i] : i \in DOMAIN GetAll}
  /\ owed' = FALSE
  /\ UNCHANGED <<now, store, pc, what, logVars, touched, raced, healed>>

\* The logged write e wins over the value vv: its timestamp is later or, if
\* they are equal, its node's name is.
Supersedes(e, vv) ==
  \/ HappensAfter(e.hlc, vv.hlc)
  \/ Equal(e.hlc, vv.hlc) /\ e.hlc.nodeID > vv.hlc.nodeID

\* Faulty: the timestamps are not compared.
WinsAlways(e) == store[e.key] # None

\* Faulty: of two equal timestamps the stored one wins.
WinsWithoutTie(e) ==
  store[e.key] # None /\ HappensAfter(e.hlc, store[e.key].hlc)

\* The logged write e is to be stored: its key is there and e wins.
Wins(e) == store[e.key] # None /\ Supersedes(e, store[e.key])

\* The loop looks at its next write.
Look ==
  /\ engine = "scan"
  /\ todo # <<>>
  /\ IF Wins(Head(todo))
     THEN engine' = "apply" /\ UNCHANGED todo
     ELSE todo' = Tail(todo) /\ UNCHANGED engine
  /\ UNCHANGED <<now, store, pc, what, logVars, queue, batch, touched, raced,
                 healed, owed>>

\* ... and stores it.
Apply ==
  /\ engine = "apply"
  /\ PutWithHLC(Head(todo).key, Head(todo).value, Head(todo).hlc)
  /\ todo' = Tail(todo)
  /\ engine' = "scan"
  /\ raced' = FALSE
  /\ UNCHANGED <<now, pc, what, logVars, queue, batch, touched, healed, owed>>

EndRun ==
  /\ engine = "scan"
  /\ todo = <<>>
  /\ engine' = "select"
  /\ batch' = {}
  /\ touched' = {}
  /\ UNCHANGED <<now, store, pc, what, logVars, queue, todo, raced, healed,
                 owed>>

Next ==
  \/ TimePasses
  \/ \E w \in Write :
       \/ \E k \in Key, t \in Timestamp : StoreWrite(w, k, t)
       \/ RecordWrite(w)
  \/ NotifyHealingEvent
  \/ BeginRun
  \/ Look
  \/ Apply
  \/ EndRun

Spec == Init /\ [][Next]_vars

\* The engine's goroutine runs on.
FairSpec ==
  /\ Spec
  /\ WF_vars(BeginRun)
  /\ WF_vars(Look)
  /\ WF_vars(Apply)
  /\ WF_vars(EndRun)

-----------------------------------------------------------------------------
\* Every variable has its type.
TypeOK ==
  /\ now \in 0 .. MaxTime
  /\ store \in [Key -> [value : Write, hlc : Timestamp] \cup {None}]
  /\ pc \in [Write -> {"idle", "stored", "done"}]
  /\ what \in [Write -> [key : Key, hlc : Timestamp] \cup {None}]
  /\ entries \in [Slot -> Entry \cup {None}]
  /\ index \in Slot
  /\ count \in 0 .. MaxSize
  /\ queue \in 0 .. QueueSize
  /\ engine \in {"select", "scan", "apply"}
  /\ todo \in Seq(Entry)
  /\ recorded \in Seq(Entry)
  /\ batch \in SUBSET Entry
  /\ touched \in SUBSET Key
  /\ raced \in BOOLEAN
  /\ healed \in 0 .. MaxHeal
  /\ owed \in BOOLEAN

\* The circular buffer holds the latest MaxSize writes recorded, no more and no
\* less (RecentWriteLog.Add).
LogIsRecent ==
  LET n == Len(recorded)
      first == IF n > MaxSize THEN n - MaxSize + 1 ELSE 1
  IN  {entries[i] : i \in 0 .. count - 1} = {recorded[i] : i \in first .. n}

\* A write in the log has its key in the store, so reconcileWithPeer never
\* meets the key it would skip as missing.
LoggedKeyIsStored ==
  \A i \in Slot : entries[i] # None => store[entries[i].key] # None

\* When a run of reconcileWithPeer ends, no write it began with wins over the
\* store, whatever the order of the circular buffer, except for keys that
\* handlers have stored in the meantime.
RunRepairs ==
  engine = "scan" /\ todo = <<>> =>
    \A e \in batch : e.key \notin touched => ~ Supersedes(e, store[e.key])

\* reconcileWithPeer only ever replaces a value by one that wins over it,
\* unless a handler has stored the key between its look and its store.
EngineMovesForward ==
  [][Apply => raced \/ Supersedes(Head(todo), store[Head(todo).key])]_vars

\* After every healing event a run begins, also after those dropped because
\* the queue was full (NotifyHealingEvent): the run takes the log later.
HealLeadsToRun == owed ~> ~ owed
=============================================================================
