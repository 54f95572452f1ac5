-------------------------- MODULE Reconcile_proofs --------------------------
(***************************************************************************)
(* Proofs about the reconciliation engine of a node, for any writes,       *)
(* timestamps, size of the log and queue.                                  *)
(***************************************************************************)
EXTENDS Reconcile, TLAPS, FiniteSetTheorems

\* What is in the log, and what a handler or the engine is about to log or to
\* store, has its key in the store.
StoredInv ==
  /\ TypeOK
  /\ \A w \in Write : pc[w] = "stored" =>
       what[w] \in [key : Key, hlc : Timestamp] /\ store[what[w].key] # None
  /\ \A i \in Slot :
       IF i < count THEN entries[i] \in Entry /\ store[entries[i].key] # None
                    ELSE entries[i] = None
  /\ count < MaxSize => index = count
  /\ engine = "apply" => todo # <<>>

\* The buffer holds recorded writes in order, from index on once it is full.
LogInv ==
  LET n == Len(recorded)
  IN  /\ IF count < MaxSize THEN n = count /\ index = count ELSE n >= MaxSize
      /\ \A i \in 0 .. index - 1 : entries[i] = recorded[n - index + 1 + i]
      /\ count = MaxSize =>
           \A i \in index .. MaxSize - 1 :
             entries[i] = recorded[n - index + 1 + i - MaxSize]

\* A write the run began with is still to be looked at, or does not win, unless
\* a handler has stored its key since.
RunInv ==
  /\ engine = "select" => touched = {} /\ batch = {} /\ todo = <<>>
  /\ \A e \in batch : store[e.key] # None
  /\ \A e \in batch : e.key \notin touched =>
       \/ \E j \in DOMAIN todo : todo[j] = e
       \/ ~ Supersedes(e, store[e.key])
  /\ engine # "apply" => ~ raced
  /\ engine = "apply" =>
       (raced => Head(todo).key \in touched) /\ (~ raced => Wins(Head(todo)))

\* The circular buffer's index moves up by one, and from the last slot to 0.
LEMMA NextIndexIs ==
  ASSUME NEW i \in Slot
  PROVE  NextIndex(i) = IF i + 1 = MaxSize THEN 0 ELSE i + 1
<1>1. MaxSize \in Nat \ {0} /\ i \in Nat /\ i + 1 <= MaxSize
  BY ReconcileAssumption DEF Slot
<1>2. MaxSize % MaxSize = 0
  BY <1>1
<1>3. i + 1 # MaxSize => (i + 1) % MaxSize = i + 1
  BY <1>1
<1> QED BY <1>1, <1>2, <1>3 DEF NextIndex

\* Every rank from 1 to the size of a finite set of numbers is taken.
LEMMA NthExists ==
  ASSUME NEW S \in SUBSET Int, IsFiniteSet(S), NEW j \in 1 .. Cardinality(S)
  PROVE  Nth(S, j) \in S
<1> DEFINE upTo(i) == {m \in S : m <= i}
           rank == [i \in S |-> Cardinality(upTo(i))]
           T == 1 .. Cardinality(S)
<1>1. ASSUME NEW i \in S PROVE IsFiniteSet(upTo(i)) /\ Cardinality(upTo(i)) \in T
  <2>1. upTo(i) \in SUBSET S /\ i \in upTo(i)
    BY <1>1
  <2>2. IsFiniteSet(upTo(i)) /\ Cardinality(upTo(i)) <= Cardinality(S)
    BY <2>1, FS_Subset
  <2>3. Cardinality(upTo(i)) # 0
    BY <2>1, <2>2, FS_EmptySet
  <2>4. Cardinality(upTo(i)) \in Nat /\ Cardinality(S) \in Nat
    BY <2>2, FS_CardinalityType
  <2> QED BY <2>2, <2>3, <2>4
<1>2. ASSUME NEW i \in S, NEW k \in S, i < k
      PROVE  Cardinality(upTo(i)) # Cardinality(upTo(k))
  <2>1. \A m \in S : m <= i => m <= k
    BY <1>2
  <2>2. upTo(i) \in SUBSET upTo(k)
    BY <2>1
  <2>3. k \in upTo(k) /\ k \notin upTo(i)
    BY <1>2
  <2> HIDE DEF upTo
  <2>4. IsFiniteSet(upTo(k))
    BY <1>1
  <2> QED BY <2>2, <2>3, <2>4, FS_Subset
<1> HIDE DEF upTo, T
<1>3. rank \in [S -> T]
  BY <1>1
<1>4. rank \in Injection(S, T)
  <2>1. ASSUME NEW i \in S, NEW k \in S, rank[i] = rank[k] PROVE i = k
    <3>1. Cardinality(upTo(i)) = Cardinality(upTo(k))
      BY <2>1
    <3>2. i < k \/ k < i \/ i = k
      OBVIOUS
    <3> QED BY <1>2, <3>1, <3>2
  <2> QED BY <1>3, <2>1 DEF Injection, IsInjective
<1>5. IsFiniteSet(T) /\ Cardinality(T) = Cardinality(S)
  <2>1. Cardinality(S) \in Nat
    BY FS_CardinalityType
  <2> QED BY <2>1, FS_Interval DEF T
<1>6. rank \in Surjection(S, T)
  BY <1>4, <1>5, FS_Injection
<1>7. PICK i \in S : rank[i] = j
  BY <1>6 DEF Surjection, T
<1>8. Cardinality({m \in S : m <= i}) = j
  BY <1>7 DEF upTo
<1> QED BY <1>8 DEF Nth

\* RecentWriteLog.GetAll returns entries of the log, and none that is empty.
LEMMA GetAllIs ==
  ASSUME StoredInv
  PROVE  /\ GetAll \in Seq(Entry)
         /\ \A j \in DOMAIN GetAll : store[GetAll[j].key] # None
<1>1. count \in Nat /\ count <= MaxSize /\ MaxSize \in Nat
  BY ReconcileAssumption DEF StoredInv, TypeOK
<1>2. Fresh \in SUBSET (0 .. count - 1)
  BY DEF Fresh
<1>3. IsFiniteSet(Fresh)
  <2>1. IsFiniteSet(0 .. count - 1)
    BY <1>1, FS_Interval
  <2> QED BY <1>2, <2>1, FS_Subset
<1>4. Cardinality(Fresh) \in Nat
  BY <1>3, FS_CardinalityType
<1>5. ASSUME NEW j \in 1 .. Cardinality(Fresh)
      PROVE  /\ entries[Nth(Fresh, j)] \in Entry
             /\ store[entries[Nth(Fresh, j)].key] # None
  <2>1. Nth(Fresh, j) \in Fresh
    BY <1>1, <1>2, <1>3, NthExists
  <2>2. Nth(Fresh, j) \in 0 .. count - 1
    BY <1>2, <2>1
  <2>3. Nth(Fresh, j) \in Slot /\ Nth(Fresh, j) < count
    BY <1>1, <2>2 DEF Slot
  <2> QED BY <2>3 DEF StoredInv
<1>6. GetAll \in [1 .. Cardinality(Fresh) -> Entry]
  BY <1>5 DEF GetAll
<1>7. GetAll \in Seq(Entry)
  BY <1>4, <1>6
<1>8. \A j \in DOMAIN GetAll : store[GetAll[j].key] # None
  BY <1>5 DEF GetAll
<1> QED BY <1>7, <1>8

\* A key once stored stays stored, and PutWithHLC changes one key.
LEMMA PutIs ==
  ASSUME TypeOK, NEW k \in Key, NEW w \in Write, NEW t \in Timestamp,
         PutWithHLC(k, w, t)
  PROVE  /\ store' \in [Key -> [value : Write, hlc : Timestamp] \cup {None}]
         /\ store'[k] # None /\ store'[k].hlc = t
         /\ \A l \in Key \ {k} : store'[l] = store[l]
         /\ \A l \in Key : store[l] # None => store'[l] # None
<1> DEFINE v == [value |-> w, hlc |-> t]
<1>1. store \in [Key -> [value : Write, hlc : Timestamp] \cup {None}]
  BY DEF TypeOK
<1>2. v \in [value : Write, hlc : Timestamp] /\ v.hlc = t
  OBVIOUS
<1>3. v # None
  BY <1>2, ReconcileAssumption
<1>4. store' = [store EXCEPT ![k] = v]
  BY DEF PutWithHLC
<1> HIDE DEF v
<1> QED BY <1>1, <1>2, <1>3, <1>4

\* What the log holds and what is about to be logged or stored stays right when
\* neither changes and no key is lost.
LEMMA StoredFrame ==
  ASSUME StoredInv, TypeOK', UNCHANGED <<entries, index, count, pc, what>>,
         \A l \in Key : store[l] # None => store'[l] # None,
         engine' = "apply" => todo' # <<>>
  PROVE  StoredInv'
<1>1. ASSUME NEW w \in Write, pc'[w] = "stored"
      PROVE  what'[w] \in [key : Key, hlc : Timestamp] /\ store'[what'[w].key] # None
  <2>1. what[w] \in [key : Key, hlc : Timestamp] /\ store[what[w].key] # None
    BY <1>1 DEF StoredInv
  <2> QED BY <2>1
<1>2. ASSUME NEW i \in Slot
      PROVE  IF i < count' THEN entries'[i] \in Entry /\ store'[entries'[i].key] # None
                           ELSE entries'[i] = None
  <2>1. IF i < count THEN entries[i] \in Entry /\ store[entries[i].key] # None
                     ELSE entries[i] = None
    BY DEF StoredInv
  <2> QED BY <2>1 DEF Entry
<1>3. count' < MaxSize => index' = count'
  BY DEF StoredInv
<1> QED BY <1>1, <1>2, <1>3 DEF StoredInv

\* A write is recorded after it is stored, so every step keeps StoredInv.
LEMMA StoredStep ==
  ASSUME StoredInv, [Next]_vars
  PROVE  StoredInv'
<1>1. TypeOK
  BY DEF StoredInv
<1>2. CASE TimePasses
  <2>1. TypeOK'
    BY <1>1, <1>2, ReconcileAssumption DEF TimePasses, TypeOK, logVars, engineVars
  <2> QED BY <1>2, <2>1, StoredFrame
          DEF TimePasses, logVars, engineVars, StoredInv
<1>3. ASSUME NEW w \in Write, NEW k \in Key, NEW t \in Timestamp, StoreWrite(w, k, t)
      PROVE  StoredInv'
  <2>1. PutWithHLC(k, w, t)
    BY <1>3 DEF StoreWrite
  <2>2. /\ what' = [what EXCEPT ![w] = [key |-> k, hlc |-> t]]
        /\ pc' = [pc EXCEPT ![w] = "stored"]
        /\ touched' \in {touched, touched \cup {k}}
        /\ raced' \in BOOLEAN
        /\ UNCHANGED <<now, entries, index, count, recorded, queue, engine, todo,
                       batch, healed, owed>>
    BY <1>3 DEF StoreWrite, logVars, engineVars
  <2>3. [key |-> k, hlc |-> t] \in [key : Key, hlc : Timestamp]
    OBVIOUS
  <2>4. TypeOK'
    BY <1>1, <2>1, <2>2, <2>3, PutIs DEF TypeOK
  <2>5. \A l \in Key : store[l] # None => store'[l] # None
    BY <1>1, <2>1, PutIs
  <2>6. ASSUME NEW v \in Write, pc'[v] = "stored"
        PROVE  what'[v] \in [key : Key, hlc : Timestamp] /\ store'[what'[v].key] # None
    <3>1. CASE v = w
      <4>1. what'[v] = [key |-> k, hlc |-> t]
        BY <1>1, <2>2, <3>1 DEF TypeOK
      <4>2. store'[k] # None
        BY <1>1, <2>1, PutIs
      <4> QED BY <4>1, <4>2
    <3>2. CASE v # w
      <4>1. what'[v] = what[v] /\ pc[v] = "stored"
        BY <1>1, <2>2, <2>6, <3>2 DEF TypeOK
      <4>2. what[v] \in [key : Key, hlc : Timestamp] /\ store[what[v].key] # None
        BY <4>1 DEF StoredInv
      <4> QED BY <2>5, <4>1, <4>2
    <3> QED BY <3>1, <3>2
  <2>7. ASSUME NEW i \in Slot
        PROVE  IF i < count' THEN entries'[i] \in Entry /\ store'[entries'[i].key] # None
                             ELSE entries'[i] = None
    <3>1. IF i < count THEN entries[i] \in Entry /\ store[entries[i].key] # None
                       ELSE entries[i] = None
      BY DEF StoredInv
    <3> QED BY <2>2, <2>5, <3>1 DEF Entry
  <2>8. (count' < MaxSize => index' = count') /\ (engine' = "apply" => todo' # <<>>)
    BY <2>2 DEF StoredInv
  <2> QED BY <2>4, <2>6, <2>7, <2>8 DEF StoredInv
<1>4. ASSUME NEW w \in Write, RecordWrite(w) PROVE StoredInv'
  <2> DEFINE e == [key |-> what[w].key, value |-> w, hlc |-> what[w].hlc,
                   received |-> now]
  <2>1. what[w] \in [key : Key, hlc : Timestamp] /\ store[what[w].key] # None
    BY <1>4 DEF RecordWrite, StoredInv
  <2>2. e \in Entry /\ store[e.key] # None
    BY <1>1, <2>1 DEF Entry, TypeOK
  <2>3. Add(e)
    BY <1>4 DEF RecordWrite
  <2> HIDE DEF e
  <2>4. /\ pc' = [pc EXCEPT ![w] = "done"]
        /\ what' = [what EXCEPT ![w] = None]
        /\ UNCHANGED <<now, store, queue, engine, todo, batch, touched, raced,
                       healed, owed>>
    BY <1>4 DEF RecordWrite, engineVars
  <2>5. index \in Slot /\ MaxSize \in Nat \ {0} /\ count \in 0 .. MaxSize
    BY <1>1, ReconcileAssumption DEF TypeOK
  <2>6. index' = IF index + 1 = MaxSize THEN 0 ELSE index + 1
    BY <2>3, <2>5, NextIndexIs DEF Add
  <2>7. count' = IF count < MaxSize THEN count + 1 ELSE count
    BY <2>3 DEF Add, NextCount
  <2>8. index' \in Slot /\ count' \in 0 .. MaxSize
    BY <2>5, <2>6, <2>7 DEF Slot
  <2>9. entries' = [entries EXCEPT ![index] = e] /\ recorded' = Append(recorded, e)
    BY <2>3 DEF Add
  <2>10. recorded' \in Seq(Entry) /\ entries' \in [Slot -> Entry \cup {None}]
    BY <1>1, <2>2, <2>5, <2>9 DEF TypeOK
  <2>11. TypeOK'
    BY <1>1, <2>4, <2>8, <2>10 DEF TypeOK
  <2>12. ASSUME NEW v \in Write, pc'[v] = "stored"
         PROVE  what'[v] \in [key : Key, hlc : Timestamp] /\ store'[what'[v].key] # None
    <3>1. what'[v] = what[v] /\ pc[v] = "stored"
      BY <1>1, <2>4, <2>12 DEF TypeOK
    <3> QED BY <2>4, <3>1 DEF StoredInv
  <2>13. count < MaxSize => index = count
    BY DEF StoredInv
  <2>14. count' < MaxSize => index' = count'
    BY <2>5, <2>6, <2>7, <2>13 DEF Slot
  <2>15. ASSUME NEW i \in Slot
         PROVE  IF i < count' THEN entries'[i] \in Entry /\ store'[entries'[i].key] # None
                              ELSE entries'[i] = None
    <3>1. IF i < count THEN entries[i] \in Entry /\ store[entries[i].key] # None
                       ELSE entries[i] = None
      BY DEF StoredInv
    <3>2. CASE i = index
      <4>1. entries'[i] = e
        BY <1>1, <2>9, <3>2 DEF TypeOK
      <4>2. i < count'
        BY <2>5, <2>7, <2>13, <3>2 DEF Slot
      <4> QED BY <2>2, <2>4, <4>1, <4>2
    <3>3. CASE i # index
      <4>1. entries'[i] = entries[i]
        BY <1>1, <2>9, <3>3 DEF TypeOK
      <4>2. i < count' <=> i < count
        BY <2>5, <2>7, <2>13, <3>3 DEF Slot
      <4> QED BY <2>4, <3>1, <4>1, <4>2
    <3> QED BY <3>2, <3>3
  <2>16. engine' = "apply" => todo' # <<>>
    BY <2>4 DEF StoredInv
  <2> QED BY <2>11, <2>12, <2>14, <2>15, <2>16 DEF StoredInv
<1>5. CASE NotifyHealingEvent
  <2>1. /\ queue' = (IF queue < QueueSize THEN queue + 1 ELSE queue)
        /\ healed < MaxHeal /\ healed' = healed + 1 /\ owed' = TRUE
        /\ UNCHANGED <<now, store, pc, what, entries, index, count, recorded,
                       engine, todo, batch, touched, raced>>
    BY <1>5 DEF NotifyHealingEvent, HasRoom, logVars, engineVars
  <2>2. queue \in 0 .. QueueSize /\ healed \in 0 .. MaxHeal
    BY <1>1 DEF TypeOK
  <2>3. queue' \in 0 .. QueueSize /\ healed' \in 0 .. MaxHeal
    BY <2>1, <2>2, ReconcileAssumption
  <2>4. TypeOK'
    BY <1>1, <2>1, <2>3 DEF TypeOK
  <2>5. engine' = "apply" => todo' # <<>>
    BY <2>1 DEF StoredInv
  <2> QED BY <2>1, <2>4, <2>5, StoredFrame
<1>6. CASE BeginRun
  <2>1. todo' \in Seq(Entry)
    BY <1>6, GetAllIs DEF BeginRun
  <2>2. batch' \in SUBSET Entry
    <3>1. \A j \in DOMAIN GetAll : GetAll[j] \in Entry
      BY GetAllIs
    <3> QED BY <1>6, <3>1 DEF BeginRun
  <2>3. /\ queue > 0 /\ queue' = queue - 1 /\ owed' = FALSE /\ engine' = "scan"
        /\ UNCHANGED <<now, store, pc, what, entries, index, count, recorded,
                       touched, raced, healed>>
    BY <1>6 DEF BeginRun, logVars
  <2>4. queue' \in 0 .. QueueSize
    BY <1>1, <2>3, ReconcileAssumption DEF TypeOK
  <2>5. TypeOK'
    BY <1>1, <2>1, <2>2, <2>3, <2>4 DEF TypeOK
  <2> QED BY <2>3, <2>5, StoredFrame
<1>7. CASE Look
  <2>1. todo \in Seq(Entry) /\ todo # <<>>
    BY <1>1, <1>7 DEF TypeOK, Look
  <2>2. todo' \in Seq(Entry) /\ engine' \in {"scan", "apply"}
        /\ (engine' = "apply" => todo' # <<>>)
    BY <1>7, <2>1 DEF Look
  <2>3. UNCHANGED <<now, store, pc, what, entries, index, count, recorded, queue,
                    batch, touched, raced, healed, owed>>
    BY <1>7 DEF Look, logVars
  <2>4. TypeOK'
    BY <1>1, <2>2, <2>3 DEF TypeOK
  <2> QED BY <2>2, <2>3, <2>4, StoredFrame
<1>8. CASE Apply
  <2>1. todo \in Seq(Entry) /\ todo # <<>>
    BY <1>1, <1>8 DEF TypeOK, Apply, StoredInv
  <2>2. Head(todo) \in Entry /\ Tail(todo) \in Seq(Entry)
    BY <2>1
  <2>3. /\ Head(todo).key \in Key /\ Head(todo).value \in Write
        /\ Head(todo).hlc \in Timestamp
    BY <2>2 DEF Entry
  <2>4. PutWithHLC(Head(todo).key, Head(todo).value, Head(todo).hlc)
    BY <1>8 DEF Apply
  <2>5. /\ store' \in [Key -> [value : Write, hlc : Timestamp] \cup {None}]
        /\ \A l \in Key : store[l] # None => store'[l] # None
    BY <1>1, <2>3, <2>4, PutIs
  <2>6. /\ todo' = Tail(todo) /\ engine' = "scan" /\ raced' = FALSE
        /\ UNCHANGED <<now, pc, what, entries, index, count, recorded, queue,
                       batch, touched, healed, owed>>
    BY <1>8 DEF Apply, logVars
  <2>7. TypeOK'
    BY <1>1, <2>2, <2>5, <2>6 DEF TypeOK
  <2> QED BY <2>5, <2>6, <2>7, StoredFrame
<1>9. CASE EndRun
  <2>1. TypeOK'
    BY <1>1, <1>9 DEF EndRun, TypeOK, logVars
  <2> QED BY <1>9, <2>1, StoredFrame DEF EndRun, logVars
<1>10. CASE UNCHANGED vars
  <2>1. TypeOK'
    BY <1>1, <1>10 DEF vars, TypeOK, logVars, engineVars
  <2> QED BY <1>10, <2>1, StoredFrame DEF vars, logVars, engineVars, StoredInv
<1> QED BY <1>2, <1>3, <1>4, <1>5, <1>6, <1>7, <1>8, <1>9, <1>10 DEF Next

\* The empty log and the empty store are a start.
LEMMA StoredStarts ==
  ASSUME Init
  PROVE  StoredInv
<1>1. MaxSize \in Nat \ {0} /\ QueueSize \in Nat /\ MaxHeal \in Nat /\ MaxTime \in Nat
  BY ReconcileAssumption
<1>2. TypeOK
  <2>1. todo \in Seq(Entry) /\ recorded \in Seq(Entry)
    BY DEF Init
  <2>2. 0 \in Slot /\ 0 \in 0 .. MaxSize /\ 0 \in 0 .. QueueSize
        /\ 0 \in 0 .. MaxHeal /\ 0 \in 0 .. MaxTime
    BY <1>1 DEF Slot
  <2>3. /\ now \in 0 .. MaxTime /\ index \in Slot /\ count \in 0 .. MaxSize
        /\ queue \in 0 .. QueueSize /\ healed \in 0 .. MaxHeal
    BY <2>2 DEF Init
  <2>4. /\ store \in [Key -> [value : Write, hlc : Timestamp] \cup {None}]
        /\ pc \in [Write -> {"idle", "stored", "done"}]
        /\ what \in [Write -> [key : Key, hlc : Timestamp] \cup {None}]
        /\ entries \in [Slot -> Entry \cup {None}]
    BY DEF Init
  <2>5. /\ engine \in {"select", "scan", "apply"}
        /\ batch \in SUBSET Entry /\ touched \in SUBSET Key
        /\ raced \in BOOLEAN /\ owed \in BOOLEAN
    BY DEF Init
  <2> QED BY <2>1, <2>3, <2>4, <2>5 DEF TypeOK
<1>3. \A i \in Slot : ~ (i < count) /\ entries[i] = None
  BY <1>1 DEF Init, Slot
<1>4. \A w \in Write : pc[w] # "stored"
  BY DEF Init
<1>5. index = count /\ engine # "apply"
  BY DEF Init
<1> QED BY <1>2, <1>3, <1>4, <1>5 DEF StoredInv

\* The engine's variables have their types.
THEOREM ReconcileTypeCorrect == Spec => []TypeOK
<1>1. StoredInv => TypeOK
  BY DEF StoredInv
<1> QED BY <1>1, StoredStarts, StoredStep, PTL DEF Spec

\* A write is recorded only after it is stored, and no key is ever lost, so
\* reconcileWithPeer finds the key of every write in the log.
THEOREM LoggedKeyIsStoredHolds == Spec => []LoggedKeyIsStored
<1>1. StoredInv => LoggedKeyIsStored
  BY DEF StoredInv, LoggedKeyIsStored
<1> QED BY <1>1, StoredStarts, StoredStep, PTL DEF Spec

\* RecentWriteLog.Add puts the write behind the last one, over the oldest.
LEMMA LogStep ==
  ASSUME StoredInv, LogInv, [Next]_vars
  PROVE  LogInv'
<1>1. TypeOK
  BY DEF StoredInv
<1>2. ASSUME UNCHANGED logVars PROVE LogInv'
  BY <1>2 DEF logVars, LogInv
<1>3. ASSUME NEW w \in Write, RecordWrite(w) PROVE LogInv'
  <2> DEFINE n == Len(recorded)
             e == [key |-> what[w].key, value |-> w, hlc |-> what[w].hlc,
                   received |-> now]
  <2>1. Add(e)
    BY <1>3 DEF RecordWrite
  <2>2. what[w] \in [key : Key, hlc : Timestamp]
    BY <1>3 DEF RecordWrite, StoredInv
  <2>3. e \in Entry
    BY <1>1, <2>2 DEF Entry, TypeOK
  <2> HIDE DEF e
  <2>4. /\ index \in Int /\ 0 <= index /\ index < MaxSize
        /\ MaxSize \in Int /\ count \in Int /\ 0 <= count /\ count <= MaxSize
    BY <1>1, ReconcileAssumption DEF TypeOK, Slot
  <2>5. index' = IF index + 1 = MaxSize THEN 0 ELSE index + 1
    BY <1>1, <2>1, NextIndexIs DEF Add, TypeOK
  <2>6. count' = IF count < MaxSize THEN count + 1 ELSE count
    BY <2>1 DEF Add, NextCount
  <2>7. /\ n \in Nat
        /\ Len(recorded') = n + 1
        /\ recorded'[n + 1] = e
        /\ \A j \in 1 .. n : recorded'[j] = recorded[j]
    BY <1>1, <2>1, <2>3 DEF Add, TypeOK
  <2>8. /\ entries'[index] = e
        /\ \A i \in 0 .. MaxSize - 1 : i # index => entries'[i] = entries[i]
    BY <1>1, <2>1, <2>4 DEF Add, TypeOK, Slot
  <2>9. /\ IF count < MaxSize THEN n = count /\ index = count ELSE n >= MaxSize
        /\ \A i \in 0 .. index - 1 : entries[i] = recorded[n - index + 1 + i]
        /\ count = MaxSize =>
             \A i \in index .. MaxSize - 1 :
               entries[i] = recorded[n - index + 1 + i - MaxSize]
    BY DEF LogInv
  <2> HIDE DEF n
  <2>10. IF count' < MaxSize THEN n + 1 = count' /\ index' = count'
                             ELSE n + 1 >= MaxSize
    BY <2>4, <2>5, <2>6, <2>7, <2>9
  <2>11. \A i \in 0 .. index : entries'[i] = recorded'[n - index + 1 + i]
    <3>1. TAKE i \in 0 .. index
    <3>2. CASE i = index
      <4>1. n - index + 1 + i = n + 1
        BY <2>4, <2>7, <3>2
      <4> QED BY <2>7, <2>8, <3>2, <4>1
    <3>3. CASE i # index
      <4>1. i \in 0 .. index - 1 /\ i \in 0 .. MaxSize - 1
        BY <2>4, <3>3
      <4>2. n - index + 1 + i \in 1 .. n
        BY <2>4, <2>7, <2>9, <4>1
      <4> QED BY <2>7, <2>8, <2>9, <3>3, <4>1, <4>2
    <3> QED BY <3>2, <3>3
  <2>12. ASSUME count = MaxSize, NEW i \in index + 1 .. MaxSize - 1
         PROVE  entries'[i] = recorded'[n - index + 1 + i - MaxSize]
    <3>1. i \in index .. MaxSize - 1 /\ i \in 0 .. MaxSize - 1 /\ i # index
      BY <2>4
    <3>2. n - index + 1 + i - MaxSize \in 1 .. n
      BY <2>4, <2>7, <2>9, <2>12
    <3> QED BY <2>7, <2>8, <2>9, <2>12, <3>1, <3>2
  <2>13. CASE index + 1 = MaxSize
    <3>1. index' = 0 /\ count' = MaxSize
      BY <2>4, <2>5, <2>6, <2>9, <2>13
    <3>2. \A i \in 0 .. MaxSize - 1 :
            entries'[i] = recorded'[(n + 1) - 0 + 1 + i - MaxSize]
      <4>1. TAKE i \in 0 .. MaxSize - 1
      <4>2. i \in 0 .. index
        BY <2>4, <2>13
      <4>3. (n + 1) - 0 + 1 + i - MaxSize = n - index + 1 + i
        BY <2>4, <2>7, <2>13
      <4> QED BY <2>11, <4>2, <4>3
    <3>3. \A i \in 0 .. 0 - 1 : FALSE
      OBVIOUS
    <3> QED BY <2>7, <2>10, <3>1, <3>2, <3>3 DEF LogInv
  <2>14. CASE index + 1 # MaxSize
    <3>1. index' = index + 1
      BY <2>5, <2>14
    <3>2. \A i \in 0 .. (index + 1) - 1 :
            entries'[i] = recorded'[(n + 1) - (index + 1) + 1 + i]
      <4>1. TAKE i \in 0 .. (index + 1) - 1
      <4>2. i \in 0 .. index
        BY <2>4
      <4>3. (n + 1) - (index + 1) + 1 + i = n - index + 1 + i
        BY <2>4, <2>7
      <4> QED BY <2>11, <4>2, <4>3
    <3>3. ASSUME count' = MaxSize, NEW i \in index + 1 .. MaxSize - 1
          PROVE  entries'[i] = recorded'[(n + 1) - (index + 1) + 1 + i - MaxSize]
      <4>1. count = MaxSize
        BY <2>4, <2>6, <2>9, <2>14, <3>3
      <4>2. (n + 1) - (index + 1) + 1 + i - MaxSize = n - index + 1 + i - MaxSize
        BY <2>4, <2>7
      <4> QED BY <2>12, <4>1, <4>2
    <3> QED BY <2>7, <2>10, <3>1, <3>2, <3>3 DEF LogInv
  <2> QED BY <2>13, <2>14
<1>4. (\A w \in Write : ~ RecordWrite(w)) => UNCHANGED logVars
  BY DEF Next, TimePasses, StoreWrite, NotifyHealingEvent, BeginRun, Look, Apply,
         EndRun, vars, logVars
<1> QED BY <1>2, <1>3, <1>4

\* In whatever state of the buffer, its entries are the latest records.
LEMMA LogIs ==
  ASSUME TypeOK, LogInv
  PROVE  LogIsRecent
<1> DEFINE n == Len(recorded)
           first == IF n > MaxSize THEN n - MaxSize + 1 ELSE 1
<1>1. /\ index \in Int /\ 0 <= index /\ index < MaxSize
      /\ MaxSize \in Int /\ count \in Int /\ 0 <= count /\ count <= MaxSize
      /\ n \in Nat
  BY ReconcileAssumption DEF TypeOK, Slot
<1>2. /\ IF count < MaxSize THEN n = count /\ index = count ELSE n >= MaxSize
      /\ \A i \in 0 .. index - 1 : entries[i] = recorded[n - index + 1 + i]
      /\ count = MaxSize =>
           \A i \in index .. MaxSize - 1 :
             entries[i] = recorded[n - index + 1 + i - MaxSize]
  BY DEF LogInv
<1>3. first \in Int /\ first = n - count + 1
  BY <1>1, <1>2
<1> HIDE DEF n, first
<1>4. ASSUME NEW i \in 0 .. count - 1
      PROVE  \E j \in first .. n : entries[i] = recorded[j]
  <2>1. CASE i < index
    <3>1. i \in 0 .. index - 1 /\ n - index + 1 + i \in first .. n
      BY <1>1, <1>2, <1>3, <2>1
    <3> QED BY <1>2, <3>1
  <2>2. CASE ~ (i < index)
    <3>1. count = MaxSize
      BY <1>1, <1>2, <2>2
    <3>2. i \in index .. MaxSize - 1 /\ n - index + 1 + i - MaxSize \in first .. n
      BY <1>1, <1>3, <2>2, <3>1
    <3> QED BY <1>2, <3>1, <3>2
  <2> QED BY <2>1, <2>2
<1>5. ASSUME NEW j \in first .. n
      PROVE  \E i \in 0 .. count - 1 : recorded[j] = entries[i]
  <2>1. CASE j > n - index
    <3> DEFINE i == j - n + index - 1
    <3>1. i \in 0 .. index - 1 /\ i \in 0 .. count - 1 /\ n - index + 1 + i = j
      BY <1>1, <1>2, <1>3, <2>1
    <3> HIDE DEF i
    <3> QED BY <1>2, <3>1
  <2>2. CASE ~ (j > n - index)
    <3> DEFINE i == j - n + index - 1 + MaxSize
    <3>1. count = MaxSize
      BY <1>1, <1>2, <1>3, <2>2
    <3>2. /\ i \in index .. MaxSize - 1 /\ i \in 0 .. count - 1
          /\ n - index + 1 + i - MaxSize = j
      BY <1>1, <1>3, <2>2, <3>1
    <3> HIDE DEF i
    <3> QED BY <1>2, <3>1, <3>2
  <2> QED BY <2>1, <2>2
<1>6. {entries[i] : i \in 0 .. count - 1} = {recorded[j] : j \in first .. n}
  BY <1>4, <1>5
<1> QED BY <1>6 DEF LogIsRecent, n, first

\* For every size of the log and every number of writes, the circular buffer
\* holds exactly the latest writes recorded (RecentWriteLog.Add).
THEOREM LogIsRecentHolds == Spec => []LogIsRecent
<1>1. ASSUME Init PROVE LogInv
  <2>1. MaxSize \in Nat \ {0}
    BY ReconcileAssumption
  <2>2. Len(recorded) = 0 /\ count = 0 /\ index = 0
    BY <1>1 DEF Init
  <2> QED BY <2>1, <2>2 DEF LogInv
<1>2. StoredInv /\ LogInv => LogIsRecent
  BY LogIs DEF StoredInv
<1>3. StoredInv /\ LogInv /\ [Next]_vars => StoredInv' /\ LogInv'
  BY StoredStep, LogStep
<1> QED BY <1>1, <1>2, <1>3, StoredStarts, PTL DEF Spec

\* Supersedes compares the two timestamps, first by time and then by node; a
\* write that does not win over a value does not win over one that does.
LEMMA SupersedesIsOrder ==
  ASSUME NEW e \in Entry, NEW h \in Entry, NEW v, v.hlc \in Timestamp,
         NEW u, u.hlc = h.hlc, Supersedes(h, v), ~ Supersedes(e, v)
  PROVE  ~ Supersedes(e, u)
<1>1. /\ e.hlc \in [physical : Nat, logical : Nat, nodeID : Int]
      /\ h.hlc \in [physical : Nat, logical : Nat, nodeID : Int]
      /\ v.hlc \in [physical : Nat, logical : Nat, nodeID : Int]
  BY ReconcileAssumption DEF Entry
<1>2. /\ e.hlc.physical \in Nat /\ e.hlc.logical \in Nat /\ e.hlc.nodeID \in Int
      /\ h.hlc.physical \in Nat /\ h.hlc.logical \in Nat /\ h.hlc.nodeID \in Int
      /\ v.hlc.physical \in Nat /\ v.hlc.logical \in Nat /\ v.hlc.nodeID \in Int
  BY <1>1
<1> DEFINE Above(p, l, n, q, m, o) ==
             \/ q < p \/ (q = p /\ m < l)
             \/ p = q /\ l = m /\ n > o
<1>3. \A p, q, s, l, m, k, n, o, r \in Int :
         Above(q, m, o, s, k, r) /\ ~ Above(p, l, n, s, k, r)
           => ~ Above(p, l, n, q, m, o)
  OBVIOUS
<1>4. /\ Above(h.hlc.physical, h.hlc.logical, h.hlc.nodeID,
               v.hlc.physical, v.hlc.logical, v.hlc.nodeID)
      /\ ~ Above(e.hlc.physical, e.hlc.logical, e.hlc.nodeID,
                 v.hlc.physical, v.hlc.logical, v.hlc.nodeID)
  BY DEF Supersedes, HappensAfter, HappensBefore, Equal
<1> HIDE DEF Above
<1>5. ~ Above(e.hlc.physical, e.hlc.logical, e.hlc.nodeID,
              h.hlc.physical, h.hlc.logical, h.hlc.nodeID)
  BY <1>2, <1>3, <1>4
<1> QED BY <1>5 DEF Above, Supersedes, HappensAfter, HappensBefore, Equal

\* No write wins over its own value.
LEMMA SupersedesIsStrict ==
  ASSUME NEW e \in Entry, NEW u, u.hlc = e.hlc
  PROVE  ~ Supersedes(e, u)
<1>1. e.hlc \in [physical : Nat, logical : Nat, nodeID : Int]
  BY ReconcileAssumption DEF Entry
<1> QED BY <1>1 DEF Supersedes, HappensAfter, HappensBefore, Equal

\* The engine's loop keeps its promise to the writes it has passed.
LEMMA RunStep ==
  ASSUME StoredInv, RunInv, [Next]_vars
  PROVE  RunInv'
<1>1. TypeOK /\ StoredInv'
  BY StoredStep DEF StoredInv
<1>2. todo \in Seq(Entry) /\ batch \in SUBSET Entry /\ touched \in SUBSET Key
  BY <1>1 DEF TypeOK
<1>3. ASSUME UNCHANGED <<store, engine, todo, batch, touched, raced>> PROVE RunInv'
  BY <1>3 DEF RunInv, Wins
<1>4. ASSUME NEW w \in Write, NEW k \in Key, NEW t \in Timestamp, StoreWrite(w, k, t)
      PROVE  RunInv'
  <2>1. /\ touched' = IF engine = "select" THEN touched ELSE touched \cup {k}
        /\ raced' = (raced \/ (engine = "apply" /\ Head(todo).key = k))
        /\ UNCHANGED <<engine, todo, batch>>
        /\ PutWithHLC(k, w, t)
    BY <1>4 DEF StoreWrite, engineVars
  <2>2. /\ \A l \in Key \ {k} : store'[l] = store[l]
        /\ \A l \in Key : store[l] # None => store'[l] # None
    BY <1>1, <2>1, PutIs
  <2>3. engine' = "select" => touched' = {} /\ batch' = {} /\ todo' = <<>>
    BY <2>1 DEF RunInv
  <2>4. \A e \in batch' : store'[e.key] # None
    <3>1. \A e \in batch : e.key \in Key /\ store[e.key] # None
      BY <1>2 DEF RunInv, Entry
    <3> QED BY <2>1, <2>2, <3>1
  <2>5. ASSUME NEW e \in batch', e.key \notin touched'
        PROVE  \/ \E j \in DOMAIN todo' : todo'[j] = e
               \/ ~ Supersedes(e, store'[e.key])
    <3>1. e \in batch /\ engine # "select"
      BY <2>1, <2>5 DEF RunInv
    <3>2. e.key \in Key /\ e.key # k /\ e.key \notin touched
      BY <1>2, <2>1, <2>5, <3>1 DEF Entry
    <3>3. store'[e.key] = store[e.key]
      BY <2>2, <3>2
    <3>4. (\E j \in DOMAIN todo : todo[j] = e) \/ ~ Supersedes(e, store[e.key])
      BY <3>1, <3>2 DEF RunInv
    <3> QED BY <2>1, <3>3, <3>4
  <2>6. engine' # "apply" => ~ raced'
    BY <2>1 DEF RunInv
  <2>7. ASSUME engine' = "apply"
        PROVE  (raced' => Head(todo').key \in touched') /\ (~ raced' => Wins(Head(todo))')
    <3>1. /\ raced => Head(todo).key \in touched
          /\ ~ raced => Wins(Head(todo))
      BY <2>1, <2>7 DEF RunInv
    <3>2. touched' = touched \cup {k}
      BY <2>1, <2>7
    <3>3. raced' => Head(todo').key \in touched'
      BY <2>1, <3>1, <3>2
    <3>4. ASSUME ~ raced' PROVE Wins(Head(todo))'
      <4>1. ~ raced /\ Head(todo).key # k
        BY <2>1, <2>7, <3>4
      <4>2. Head(todo).key \in Key
        <5>1. todo # <<>>
          BY <2>1, <2>7 DEF StoredInv
        <5>2. Head(todo) \in Entry
          BY <1>2, <5>1
        <5> QED BY <5>2 DEF Entry
      <4>3. store'[Head(todo).key] = store[Head(todo).key]
        BY <2>2, <4>1, <4>2
      <4> QED BY <2>1, <3>1, <4>1, <4>3 DEF Wins
    <3> QED BY <3>3, <3>4
  <2> QED BY <2>3, <2>4, <2>5, <2>6, <2>7 DEF RunInv
<1>5. CASE BeginRun
  <2>1. /\ engine = "select" /\ engine' = "scan" /\ todo' = GetAll
        /\ batch' = {GetAll[i] : i \in DOMAIN GetAll}
        /\ UNCHANGED <<store, touched, raced>>
    BY <1>5 DEF BeginRun
  <2>2. \A e \in batch' : store'[e.key] # None
    BY <2>1, GetAllIs
  <2>3. \A e \in batch' : \E j \in DOMAIN todo' : todo'[j] = e
    BY <2>1
  <2>4. ~ raced'
    BY <2>1 DEF RunInv
  <2> QED BY <2>1, <2>2, <2>3, <2>4 DEF RunInv
<1>6. CASE Look
  <2>1. /\ engine = "scan" /\ todo # <<>>
        /\ UNCHANGED <<store, batch, touched, raced>>
    BY <1>6 DEF Look
  <2>2. ~ raced
    BY <2>1 DEF RunInv
  <2>3. CASE Wins(Head(todo))
    <3>1. engine' = "apply" /\ todo' = todo
      BY <1>6, <2>3 DEF Look
    <3>2. Wins(Head(todo))'
      BY <2>1, <2>3, <3>1 DEF Wins
    <3> QED BY <2>1, <2>2, <3>1, <3>2 DEF RunInv
  <2>4. CASE ~ Wins(Head(todo))
    <3>1. engine' = "scan" /\ todo' = Tail(todo)
      BY <1>6, <2>1, <2>4 DEF Look
    <3>2. ASSUME NEW e \in batch, e.key \notin touched
          PROVE  \/ \E j \in DOMAIN Tail(todo) : Tail(todo)[j] = e
                 \/ ~ Supersedes(e, store[e.key])
      <4>1. (\E j \in DOMAIN todo : todo[j] = e) \/ ~ Supersedes(e, store[e.key])
        BY <3>2 DEF RunInv
      <4>2. store[e.key] # None
        BY DEF RunInv
      <4>3. e = Head(todo) => ~ Supersedes(e, store[e.key])
        BY <2>4, <4>2 DEF Wins
      <4>4. ASSUME NEW j \in DOMAIN todo, todo[j] # Head(todo)
            PROVE  j - 1 \in DOMAIN Tail(todo) /\ Tail(todo)[j - 1] = todo[j]
        BY <1>2, <2>1, <4>4
      <4> QED BY <4>1, <4>3, <4>4
    <3> QED BY <2>1, <2>2, <3>1, <3>2 DEF RunInv
  <2> QED BY <2>3, <2>4
<1>7. CASE Apply
  <2> DEFINE h == Head(todo)
  <2>1. /\ engine = "apply" /\ todo' = Tail(todo) /\ engine' = "scan"
        /\ raced' = FALSE /\ UNCHANGED <<batch, touched>>
        /\ PutWithHLC(h.key, h.value, h.hlc)
    BY <1>7 DEF Apply
  <2>2. todo # <<>>
    BY <2>1 DEF StoredInv
  <2>3. h \in Entry
    BY <1>2, <2>2
  <2>4. ASSUME NEW j \in DOMAIN todo, todo[j] # h
        PROVE  j - 1 \in DOMAIN Tail(todo) /\ Tail(todo)[j - 1] = todo[j]
    BY <1>2, <2>2, <2>4
  <2>5. h.key \notin touched => Wins(h)
    BY <2>1 DEF RunInv
  <2> HIDE DEF h
  <2>6. h.key \in Key /\ h.value \in Write /\ h.hlc \in Timestamp
    BY <2>3 DEF Entry
  <2>7. /\ store'[h.key].hlc = h.hlc
        /\ \A l \in Key \ {h.key} : store'[l] = store[l]
        /\ \A l \in Key : store[l] # None => store'[l] # None
    <3>1. TypeOK /\ PutWithHLC(h.key, h.value, h.hlc)
      BY <1>1, <2>1
    <3> QED BY <2>6, <3>1, PutIs
  <2>8. \A e \in batch : e.key \in Key /\ store[e.key] # None
    BY <1>2 DEF RunInv, Entry
  <2>9. ASSUME NEW e \in batch, e.key \notin touched
        PROVE  \/ \E j \in DOMAIN Tail(todo) : Tail(todo)[j] = e
               \/ ~ Supersedes(e, store'[e.key])
    <3>1. (\E j \in DOMAIN todo : todo[j] = e) \/ ~ Supersedes(e, store[e.key])
      BY <2>9 DEF RunInv
    <3>2. CASE e = h
      BY <2>3, <2>7, <3>2, SupersedesIsStrict
    <3>3. CASE e # h /\ \E j \in DOMAIN todo : todo[j] = e
      BY <2>4, <3>3
    <3>4. CASE ~ Supersedes(e, store[e.key]) /\ e.key = h.key
      <4>1. Supersedes(h, store[h.key]) /\ store[h.key] # None
        BY <2>5, <2>9, <3>4 DEF Wins
      <4>2. store[h.key].hlc \in Timestamp
        BY <1>1, <2>6, <4>1 DEF TypeOK
      <4>3. e \in Entry
        BY <1>2
      <4>4. ~ Supersedes(e, store[h.key])
        BY <3>4
      <4>5. ~ Supersedes(e, store'[h.key])
        BY <2>3, <2>7, <4>1, <4>2, <4>3, <4>4, SupersedesIsOrder
      <4> QED BY <3>4, <4>5
    <3>5. CASE ~ Supersedes(e, store[e.key]) /\ e.key # h.key
      <4>1. store'[e.key] = store[e.key]
        BY <2>7, <2>8, <3>5
      <4> QED BY <3>5, <4>1
    <3> QED BY <3>1, <3>2, <3>3, <3>4, <3>5
  <2>10. \A e \in batch' : store'[e.key] # None
    BY <2>1, <2>7, <2>8
  <2> QED BY <2>1, <2>9, <2>10 DEF RunInv
<1>8. CASE EndRun
  <2>1. /\ engine = "scan" /\ engine' = "select" /\ todo' = <<>>
        /\ batch' = {} /\ touched' = {} /\ UNCHANGED raced
    BY <1>8 DEF EndRun
  <2> QED BY <2>1 DEF RunInv
<1>9. ASSUME NEW w \in Write, RecordWrite(w) PROVE RunInv'
  BY <1>3, <1>9 DEF RecordWrite, engineVars
<1>10. CASE TimePasses \/ NotifyHealingEvent \/ UNCHANGED vars
  BY <1>3, <1>10 DEF TimePasses, NotifyHealingEvent, engineVars, vars
<1> QED BY <1>4, <1>5, <1>6, <1>7, <1>8, <1>9, <1>10 DEF Next

\* The engine's invariants always hold.
LEMMA RunInvariant == Spec => [](StoredInv /\ RunInv)
<1>1. ASSUME Init PROVE RunInv
  BY <1>1 DEF Init, RunInv
<1>2. StoredInv /\ RunInv /\ [Next]_vars => StoredInv' /\ RunInv'
  BY StoredStep, RunStep
<1> QED BY <1>1, <1>2, StoredStarts, PTL DEF Spec

\* When a run of reconcileWithPeer ends, the store has, for every key that no
\* handler has stored meanwhile, a value that no write of the run wins over:
\* for any writes and timestamps, and whatever the order of the buffer.
THEOREM RunRepairsHolds == Spec => []RunRepairs
<1>1. ASSUME StoredInv, RunInv PROVE RunRepairs
  <2>1. SUFFICES ASSUME engine = "scan", todo = <<>>, NEW e \in batch,
                        e.key \notin touched
                 PROVE  ~ Supersedes(e, store[e.key])
    BY DEF RunRepairs
  <2>2. DOMAIN todo = {}
    BY <2>1
  <2> QED BY <1>1, <2>1, <2>2 DEF RunInv
<1> QED BY <1>1, RunInvariant, PTL

\* Unless a handler has stored the key between the engine's look and its store,
\* reconcileWithPeer replaces a value only by one that wins over it.
THEOREM EngineMovesForwardHolds == Spec => EngineMovesForward
<1>1. ASSUME StoredInv, RunInv, Apply
      PROVE  raced \/ Supersedes(Head(todo), store[Head(todo).key])
  BY <1>1 DEF RunInv, Apply, Wins
<1>2. StoredInv /\ RunInv /\ [Next]_vars =>
        [Apply => raced \/ Supersedes(Head(todo), store[Head(todo).key])]_vars
  BY <1>1
<1> QED BY <1>2, RunInvariant, PTL DEF Spec, EngineMovesForward
=============================================================================
