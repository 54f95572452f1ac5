------------------------- MODULE Replication_proofs -------------------------
(***************************************************************************)
(* Quorum reads and writes, for any set of nodes, any number of concurrent *)
(* requests and any configuration Config.Validate accepts: lemmas about    *)
(* the operators of Replication, type correctness, that no clock falls     *)
(* behind its store unless it has refused a timestamp, and that only a     *)
(* node that asks nobody answers that a key is not there.                  *)
(***************************************************************************)
EXTENDS Replication, TLAPS, FiniteSetTheorems

Clock == [physical : Nat, logical : Nat]

-----------------------------------------------------------------------------
(* Timestamps and GetMostRecent *)

\* "Not before" is transitive (hlc.HappensBefore compares two numbers).
LEMMA NotBeforeTrans ==
  ASSUME NEW a \in Timestamp, NEW b \in Timestamp, NEW c \in Timestamp,
         ~ HappensBefore(a, b), ~ HappensBefore(b, c)
  PROVE  ~ HappensBefore(a, c)
BY DEF Timestamp, HappensBefore

\* A timestamp that nothing happens after stays so for whatever follows it.
LEMMA BeforeThenNotBefore ==
  ASSUME NEW a \in Timestamp, NEW b \in Timestamp, NEW c \in Timestamp,
         HappensBefore(a, b), ~ HappensBefore(a, c)
  PROVE  ~ HappensBefore(b, c)
BY DEF Timestamp, HappensBefore

\* Every non-empty set of natural numbers has a least element.
LEMMA LeastNat ==
  ASSUME NEW T \in SUBSET Nat, T # {}
  PROVE  \E x \in T : \A y \in T : x <= y
<1>1. \E x \in T : \A y \in T : ~ (<<y, x>> \in OpToRel(<, Nat))
  BY Zenon, NatLessThanWellFounded, WFMin
<1>2. PICK x \in T : \A y \in T : ~ (<<y, x>> \in OpToRel(<, Nat))
  BY Zenon, <1>1
<1>3. \A y \in T : ~ (y < x)
  BY Zenon, <1>2 DEF OpToRel
<1> QED BY <1>3

\* The values of a sequence up to position k have one that none of them
\* happens after.
HasLatest(values, k) ==
  \E i \in 1 .. k : \A j \in 1 .. k :
    ~ HappensAfter(values[j].hlc, values[i].hlc)

\* GetMostRecent's loop always has a most recent value so far: a finite
\* sequence of values has one that no other happens after.
LEMMA LatestExists ==
  ASSUME NEW values \in Seq(VersionedValue), values # <<>>
  PROVE  HasLatest(values, Len(values))
<1> DEFINE Bad == {k \in 1 .. Len(values) : ~ HasLatest(values, k)}
<1>0. Len(values) \in Nat \ {0}
  OBVIOUS
<1>1. SUFFICES ASSUME Bad # {} PROVE FALSE
  BY <1>0
<1>2. PICK k \in Bad : \A j \in Bad : k <= j
  <2>1. Bad \in SUBSET Nat
    OBVIOUS
  <2> HIDE DEF Bad
  <2> QED BY <1>1, <2>1, LeastNat
<1>3. k \in 1 .. Len(values) /\ ~ HasLatest(values, k)
  BY <1>2
<1>4. \A i \in 1 .. Len(values) : values[i].hlc \in Timestamp
  <2> TAKE i \in 1 .. Len(values)
  <2>1. values[i] \in VersionedValue
    OBVIOUS
  <2> QED BY <2>1 DEF VersionedValue
<1>5. k # 1
  <2>1. ~ HappensAfter(values[1].hlc, values[1].hlc)
    BY <1>0, <1>4 DEF HappensAfter, HappensBefore, Timestamp
  <2>2. k = 1 => HasLatest(values, k)
    BY <2>1 DEF HasLatest
  <2> QED BY <1>3, <2>2
<1>6. k - 1 \in 1 .. Len(values) /\ HasLatest(values, k - 1)
  BY <1>2, <1>3, <1>5
<1>7. PICK i \in 1 .. k - 1 : \A j \in 1 .. k - 1 :
        ~ HappensAfter(values[j].hlc, values[i].hlc)
  BY <1>6 DEF HasLatest
<1>8. CASE HappensAfter(values[k].hlc, values[i].hlc)
  <2>1. ASSUME NEW j \in 1 .. k
        PROVE  ~ HappensAfter(values[j].hlc, values[k].hlc)
    <3>1. values[i].hlc \in Timestamp /\ values[j].hlc \in Timestamp
          /\ values[k].hlc \in Timestamp
      BY <1>3, <1>4
    <3>2. j \in 1 .. k - 1 \/ j = k
      BY <1>3
    <3>3. CASE j = k
      BY <3>1, <3>3 DEF HappensAfter, HappensBefore, Timestamp
    <3>4. CASE j \in 1 .. k - 1
      <4>1. ~ HappensBefore(values[i].hlc, values[j].hlc)
        BY <3>4, <1>7 DEF HappensAfter
      <4>2. HappensBefore(values[i].hlc, values[k].hlc)
        BY <1>8 DEF HappensAfter
      <4> QED BY <3>1, <4>1, <4>2, BeforeThenNotBefore DEF HappensAfter
    <3> QED BY <3>2, <3>3, <3>4
  <2> QED BY <2>1, <1>3 DEF HasLatest
<1>9. CASE ~ HappensAfter(values[k].hlc, values[i].hlc)
  <2>1. \A j \in 1 .. k : ~ HappensAfter(values[j].hlc, values[i].hlc)
    <3> TAKE j \in 1 .. k
    <3>1. j \in 1 .. k - 1 \/ j = k
      BY <1>3
    <3> QED BY <3>1, <1>7, <1>9
  <2> QED BY <2>1, <1>3, <1>7 DEF HasLatest
<1> QED BY <1>8, <1>9

\* GetMostRecent returns one of the values, and none of them happens after it.
LEMMA MostRecentIsLatest ==
  ASSUME NEW values \in Seq(VersionedValue), values # <<>>
  PROVE  /\ GetMostRecent(values) \in VersionedValue
         /\ \A i \in DOMAIN values :
              ~ HappensBefore(GetMostRecent(values).hlc, values[i].hlc)
<1> DEFINE Latest == {i \in DOMAIN values : \A j \in DOMAIN values :
                        ~ HappensAfter(values[j].hlc, values[i].hlc)}
           first == CHOOSE i \in Latest : \A j \in Latest : i <= j
<1>1. DOMAIN values = 1 .. Len(values)
  OBVIOUS
<1>2. Latest # {} /\ Latest \in SUBSET Nat
  <2>1. HasLatest(values, Len(values))
    BY LatestExists
  <2>2. Latest # {}
    BY Zenon, <1>1, <2>1 DEF HasLatest
  <2>3. Latest \in SUBSET Nat
    BY <1>1
  <2> QED BY Zenon, <2>2, <2>3
<1>3. \E i \in Latest : \A j \in Latest : i <= j
  BY Zenon, <1>2, LeastNat
<1>4. first \in Latest
  BY <1>3
<1>5. GetMostRecent(values) = values[first]
  BY DEF GetMostRecent
<1> HIDE DEF first
<1> QED BY <1>1, <1>4, <1>5 DEF HappensAfter
-----------------------------------------------------------------------------
(* Type correctness *)

\* Clock.Now and Clock.Update keep a clock a clock.
LEMMA ClockSteps ==
  ASSUME NEW c \in Clock, NEW now \in Time, NEW t \in Timestamp
  PROVE  /\ Tick(c, now) \in Clock
         /\ Update(c, t, now, MaxDrift) \in Clock
<1>1. now \in Nat
  BY ConfigAssumption DEF Time
<1>2. Tick(c, now) \in Clock
  BY <1>1 DEF Tick, Bump, NewClock, Clock
<1>3. Merge(c, t) \in Clock
  BY DEF Merge, Bump, Clock, Timestamp
<1>4. CatchUp(Merge(c, t), now) \in Clock
  BY <1>1, <1>3 DEF CatchUp, NewClock, Clock
<1> QED BY <1>2, <1>4 DEF Update

\* A request that has begun has its node and key, a Put its timestamp, and
\* only a request that has fanned out has RPCs.
Started ==
  /\ \A o \in Op : pc[o] # "idle" => at[o] \in Node /\ key[o] \in Key
  /\ \A p \in Put : pc[p] # "idle" => ts[p] \in Timestamp
  /\ \A o \in Op, m \in Node :
       rpc[o][m] # "none" => pc[o] \in {"wait", "done"}

TypeInv == TypeOK /\ Started

\* The type of resp[o].
ResponseType ==
  [kind : {"none", "success", "error", "notfound", "stale", "value"},
   vv : Stored]

\* Initially no request has begun.
LEMMA TypeInit == Init => TypeInv
<1> SUFFICES ASSUME Init PROVE TypeInv
  OBVIOUS
<1>1. clock \in [Node -> [physical : Nat, logical : Nat]]
  <2>1. clock \in [Node -> {NewClock(t) : t \in Time}]
    BY Zenon DEF Init
  <2>2. {NewClock(t) : t \in Time} \subseteq [physical : Nat, logical : Nat]
    BY ConfigAssumption DEF Time, NewClock
  <2> QED BY Zenon, <2>1, <2>2
<1>2. quorum \in [Node -> [r : Int, w : Int]]
  BY ConfigAssumption DEF Init
<1>3. resp \in [Op -> ResponseType]
  BY DEF Init, Response, ResponseType, Stored
<1>4. TypeOK
  <2>1. /\ store \in [Node -> [Key -> Stored]]
        /\ peers \in [Node -> SUBSET Node]
        /\ reply \in [Get -> [Node -> Stored]]
        /\ local \in [Get -> Stored]
    BY DEF Init, Stored, ConfiguredPeers
  <2>2. /\ rpc \in [Op -> [Node -> {"none", "sent", "seen", "served"}]]
        /\ pc \in [Op -> {"idle", "store", "send", "query", "wait", "done"}]
    BY DEF Init
  <2>3. /\ at \in [Op -> Node \cup {None}]
        /\ key \in [Op -> Key \cup {None}]
        /\ ts \in [Put -> Timestamp \cup {None}]
        /\ need \in [Op -> Int]
    BY DEF Init
  <2>4. /\ applied \in [Put -> SUBSET Node]
        /\ before \in [Get -> SUBSET Put]
        /\ regressed \in BOOLEAN
        /\ refused \in [Node -> BOOLEAN]
    BY Zenon DEF Init
  <2> QED BY <1>1, <1>2, <1>3, <2>1, <2>2, <2>3, <2>4
          DEF TypeOK, ResponseType
<1>5. Started
  BY DEF Init, Started, Op
<1> QED BY <1>4, <1>5 DEF TypeInv

\* The responses Server.Get computes from a candidate are responses.
LEMMA AnswerType ==
  ASSUME NEW vv \in Stored, NEW now
  PROVE  Answer(vv, now) \in ResponseType
BY DEF Answer, Response, ResponseType, Stored

\* The candidates of a Get are values.
LEMMA CandidatesType ==
  ASSUME TypeOK, NEW g \in Get, NEW arrived \in Arrivals(g)
  PROVE  /\ arrived \in Seq(Found(g))
         /\ Candidates(g, arrived) \in Seq(VersionedValue)
<1>1. PICK i \in 0 .. Cardinality(Found(g)) : arrived \in [1 .. i -> Found(g)]
  BY DEF Arrivals
<1>2. i \in Nat
  OBVIOUS
<1>3. arrived \in Seq(Found(g)) /\ DOMAIN arrived = 1 .. Len(arrived)
  BY <1>1, <1>2
<1>4. \A m \in Found(g) : reply[g][m] \in VersionedValue
  BY DEF Found, Served, TypeOK, Stored
<1>5. [j \in DOMAIN arrived |-> reply[g][arrived[j]]] \in Seq(VersionedValue)
  <2>1. [j \in 1 .. i |-> reply[g][arrived[j]]] \in [1 .. i -> VersionedValue]
    BY <1>1, <1>4
  <2>2. DOMAIN arrived = 1 .. i
    BY <1>1
  <2> QED BY <1>2, <2>1, <2>2
<1>6. (IF local[g] = None THEN <<>> ELSE <<local[g]>>) \in Seq(VersionedValue)
  BY DEF TypeOK, Stored
<1> QED BY <1>3, <1>5, <1>6 DEF Candidates

\* Every response of Server.Get after its fan-out is a response.
LEMMA FinishedType ==
  ASSUME TypeOK, NEW g \in Get, NEW arrived \in Arrivals(g), NEW now
  PROVE  Answer(GetMostRecent(Candidates(g, arrived)), now) \in ResponseType
<1>1. Candidates(g, arrived) \in Seq(VersionedValue)
  BY CandidatesType
<1>2. GetMostRecent(Candidates(g, arrived)) \in Stored
  <2>1. CASE Candidates(g, arrived) = <<>>
    BY <2>1 DEF GetMostRecent, Stored
  <2>2. CASE Candidates(g, arrived) # <<>>
    BY <2>2, <1>1, MostRecentIsLatest DEF Stored
  <2> QED BY <2>1, <2>2
<1> QED BY <1>2, AnswerType

\* A fan-out starts RPCs of its request only, to peers.
LEMMA FanOutType ==
  ASSUME TypeOK, NEW o \in Op, FanOut(o)
  PROVE  /\ rpc' \in [Op -> [Node -> {"none", "sent", "seen", "served"}]]
         /\ \A q \in Op \ {o} : rpc'[q] = rpc[q]
         /\ \A m \in Node :
              rpc'[o][m] = IF m \in peers[at[o]] THEN "sent" ELSE "none"
<1> DEFINE f == [m \in Node |-> IF m \in peers[at[o]] THEN "sent" ELSE "none"]
<1>1. f \in [Node -> {"none", "sent", "seen", "served"}]
  OBVIOUS
<1>2. rpc' = [rpc EXCEPT ![o] = f]
  BY DEF FanOut
<1>3. \A m \in Node : f[m] = IF m \in peers[at[o]] THEN "sent" ELSE "none"
  OBVIOUS
<1> HIDE DEF f
<1> QED BY <1>1, <1>2, <1>3 DEF TypeOK

\* A request that goes on after it has begun, with or without a fan-out,
\* keeps Started.
LEMMA RequestStep ==
  ASSUME TypeInv, NEW o \in Op, pc[o] # "idle", UNCHANGED <<at, key, ts>>,
         \/ rpc' = rpc /\ pc' = [pc EXCEPT ![o] = "done"]
         \/ FanOut(o) /\ pc' = [pc EXCEPT ![o] = "wait"]
  PROVE  Started'
<1>1. CASE rpc' = rpc /\ pc' = [pc EXCEPT ![o] = "done"]
  BY <1>1 DEF TypeInv, TypeOK, Started
<1>2. CASE FanOut(o) /\ pc' = [pc EXCEPT ![o] = "wait"]
  <2>1. \A q \in Op \ {o} : rpc'[q] = rpc[q]
    BY <1>2, FanOutType DEF TypeInv
  <2>2. \A q \in Op : pc'[q] = IF q = o THEN "wait" ELSE pc[q]
    BY <1>2 DEF TypeInv, TypeOK
  <2> QED BY <2>1, <2>2 DEF TypeInv, Started, Op
<1> QED BY <1>1, <1>2

\* Every step of the handlers keeps the types.
LEMMA TypeStep == TypeInv /\ [Next]_vars => TypeInv'
<1> SUFFICES ASSUME TypeInv, [Next]_vars PROVE TypeInv'
  OBVIOUS
<1> USE DEF TypeInv
<1>0. \A o \in Put : o \in Op /\ o \notin Get
  BY ConfigAssumption DEF Op
<1>00. \A o \in Get : o \in Op /\ o \notin Put
  BY ConfigAssumption DEF Op
<1>1. ASSUME NEW p \in Put, NEW n \in Node, NEW k \in Key, NEW now \in Time,
             StartPut(p, n, k, now)
      PROVE  TypeInv'
  <2> DEFINE c == Tick(clock[n], now)
  <2>1. c \in Clock /\ Stamp(c, n) \in Timestamp
    <3>1. now \in Nat /\ clock[n] \in Clock
      BY ConfigAssumption DEF Time, TypeOK, Clock
    <3>2. c \in Clock
      BY <3>1 DEF Tick, Bump, NewClock, Clock
    <3> QED BY <3>2 DEF Stamp, Timestamp, Clock
  <2>2. /\ clock' = [clock EXCEPT ![n] = c]
        /\ ts' = [ts EXCEPT ![p] = Stamp(c, n)]
        /\ at' = [at EXCEPT ![p] = n]
        /\ key' = [key EXCEPT ![p] = k]
        /\ pc' = [pc EXCEPT ![p] = "store"]
        /\ pc[p] = "idle"
        /\ UNCHANGED <<store, confVars, need, rpc, reply, local, resp, histVars>>
    BY <1>1 DEF StartPut
  <2> HIDE DEF c
  <2>3. TypeOK'
    BY <1>0, <2>1, <2>2 DEF TypeOK, confVars, histVars, Clock
  <2>4. Started'
    BY <1>0, <2>1, <2>2 DEF TypeOK, Started, confVars, histVars
  <2> QED BY <2>3, <2>4
<1>2. ASSUME NEW p \in Put, StorePut(p)
      PROVE  TypeInv'
  <2>1. at[p] \in Node /\ key[p] \in Key /\ ts[p] \in Timestamp
    BY <1>0, <1>2 DEF StorePut, Started
  <2>2. [value |-> p, hlc |-> ts[p]] \in Stored
    BY <2>1 DEF Stored, VersionedValue
  <2>3. TypeOK'
    BY <1>0, <1>2, <2>1, <2>2 DEF StorePut, PutWithHLC, TypeOK, confVars
  <2>4. Started'
    BY <1>0, <1>2, <2>1 DEF StorePut, TypeOK, Started
  <2> QED BY <2>3, <2>4
<1>3. ASSUME NEW p \in Put, SendPut(p)
      PROVE  TypeInv'
  <2>1. at[p] \in Node
    BY <1>0, <1>3 DEF SendPut, Started
  <2>2. Response("success", None) \in ResponseType
    BY DEF Response, ResponseType, Stored
  <2>3. TypeOK'
    <3>1. rpc' \in [Op -> [Node -> {"none", "sent", "seen", "served"}]]
      BY <1>0, <1>3, FanOutType DEF SendPut, TypeOK
    <3>2. /\ pc' \in [Op -> {"idle", "store", "send", "query", "wait", "done"}]
          /\ resp' \in [Op -> ResponseType]
      <4>1. \E x \in {"wait", "done"} : pc' = [pc EXCEPT ![p] = x]
        BY <1>3 DEF SendPut
      <4>2. resp' = resp \/ \E x \in ResponseType : resp' = [resp EXCEPT ![p] = x]
        BY <1>3, <2>2 DEF SendPut
      <4>3. pc' \in [Op -> {"idle", "store", "send", "query", "wait", "done"}]
        BY <1>0, <4>1 DEF TypeOK
      <4>4. resp' \in [Op -> ResponseType]
        BY Zenon, <1>0, <4>2 DEF TypeOK, ResponseType
      <4> QED BY <4>3, <4>4
    <3>3. need' \in [Op -> Int]
      BY <1>0, <1>3, <2>1 DEF SendPut, TypeOK
    <3>4. UNCHANGED <<clock, store, quorum, peers, at, key, ts, reply, local,
                      applied, before, regressed, refused>>
      BY Zenon, <1>3 DEF SendPut, confVars, histVars
    <3> QED BY <3>1, <3>2, <3>3, <3>4 DEF TypeOK, ResponseType
  <2>4. Started'
    <3>1. \/ rpc' = rpc /\ pc' = [pc EXCEPT ![p] = "done"]
          \/ FanOut(p) /\ pc' = [pc EXCEPT ![p] = "wait"]
      BY <1>3 DEF SendPut
    <3>2. UNCHANGED <<at, key, ts>> /\ pc[p] = "send"
      BY <1>3 DEF SendPut
    <3> QED BY <1>0, <3>1, <3>2, RequestStep
  <2> QED BY <2>3, <2>4
<1>4. ASSUME NEW p \in Put, NEW m \in Node, NEW now \in Time,
             ServeReplicate(p, m, now)
      PROVE  TypeInv'
  <2>1. ts[p] \in Timestamp
    BY <1>0, <1>4 DEF ServeReplicate, Started
  <2>2. Update(clock[m], ts[p], now, MaxDrift) \in Clock
    BY <2>1, ClockSteps DEF TypeOK, Clock
  <2>3. (refused[m] \/ DriftTooLarge(ts[p], now, MaxDrift)) \in BOOLEAN
    OBVIOUS
  <2>4. clock' \in [Node -> Clock] /\ refused' \in [Node -> BOOLEAN]
    BY <1>0, <1>4, <2>2, <2>3 DEF ServeReplicate, TypeOK, Clock
  <2>5. rpc' \in [Op -> [Node -> {"none", "sent", "seen", "served"}]]
    BY <1>0, <1>4 DEF ServeReplicate, TypeOK
  <2>6. UNCHANGED <<store, quorum, peers, pc, at, key, ts, need, reply, local, resp,
                    applied, before, regressed>>
    BY Zenon, <1>4 DEF ServeReplicate, confVars
  <2>7. TypeOK'
    BY <1>0, <2>4, <2>5, <2>6 DEF TypeOK, Clock
  <2>8. Started'
    BY <1>0, <1>4 DEF ServeReplicate, TypeOK, Started
  <2> QED BY <2>7, <2>8
<1>11. ASSUME NEW p \in Put, NEW m \in Node, StoreReplicate(p, m)
       PROVE  TypeInv'
  <2>1. key[p] \in Key /\ ts[p] \in Timestamp
    BY <1>0, <1>11 DEF StoreReplicate, Started
  <2>2. [value |-> p, hlc |-> ts[p]] \in Stored
    BY <2>1 DEF Stored, VersionedValue
  <2>3. store' \in [Node -> [Key -> Stored]] /\ applied' \in [Put -> SUBSET Node]
    BY <1>0, <1>11, <2>1, <2>2 DEF StoreReplicate, PutWithHLC, TypeOK
  <2>4. regressed' \in BOOLEAN
    BY <1>0, <1>11 DEF StoreReplicate, PutWithHLC, TypeOK
  <2>5. rpc' \in [Op -> [Node -> {"none", "sent", "seen", "served"}]]
    BY <1>0, <1>11 DEF StoreReplicate, TypeOK
  <2>6. UNCHANGED <<clock, quorum, peers, pc, at, key, ts, need, reply, local, resp,
                    before, refused>>
    BY Zenon, <1>11 DEF StoreReplicate, confVars
  <2>7. TypeOK'
    BY <1>0, <2>3, <2>4, <2>5, <2>6 DEF TypeOK
  <2>8. Started'
    BY <1>0, <1>11, <2>1 DEF StoreReplicate, TypeOK, Started
  <2> QED BY <2>7, <2>8
<1>5. ASSUME NEW p \in Put, NEW acked \in SUBSET Node, FinishPut(p, acked)
      PROVE  TypeInv'
  <2>1. Response("success", None) \in ResponseType
        /\ Response("error", None) \in ResponseType
    BY DEF Response, ResponseType, Stored
  <2>2. TypeOK'
    <3>1. /\ pc' \in [Op -> {"idle", "store", "send", "query", "wait", "done"}]
          /\ rpc' \in [Op -> [Node -> {"none", "sent", "seen", "served"}]]
      BY <1>0, <1>5 DEF FinishPut, TypeOK
    <3>2. resp' \in [Op -> ResponseType]
      BY <1>0, <1>5, <2>1 DEF FinishPut, TypeOK, ResponseType
    <3>3. UNCHANGED <<clock, store, quorum, peers, at, key, ts, need, reply, local,
                      applied, before, regressed, refused>>
      BY Zenon, <1>5 DEF FinishPut, confVars, histVars
    <3> QED BY <1>0, <3>1, <3>2, <3>3 DEF TypeOK, ResponseType
  <2>3. Started'
    BY <1>0, <1>5 DEF FinishPut, ResultsClosed, TypeOK, Started
  <2> QED BY <2>2, <2>3
<1>6. ASSUME NEW g \in Get, NEW n \in Node, NEW k \in Key, StartGet(g, n, k)
      PROVE  TypeInv'
  <2>1. Acknowledged(k) \in SUBSET Put /\ store[n][k] \in Stored
    BY DEF Acknowledged, TypeOK
  <2>2. TypeOK'
    BY <1>00, <1>6, <2>1 DEF StartGet, TypeOK, confVars
  <2>3. Started'
    BY <1>00, <1>6 DEF StartGet, TypeOK, Started
  <2> QED BY <2>2, <2>3
<1>7. ASSUME NEW g \in Get, NEW now \in Time, QueryGet(g, now)
      PROVE  TypeInv'
  <2>1. at[g] \in Node
    BY Zenon, <1>00, <1>7 DEF QueryGet, Started
  <2>2. Answer(local[g], now) \in ResponseType
        /\ Response("error", None) \in ResponseType
    BY Zenon, AnswerType DEF TypeOK, Response, ResponseType, Stored
  <2>3. TypeOK'
    <3>1. rpc' \in [Op -> [Node -> {"none", "sent", "seen", "served"}]]
      BY <1>00, <1>7, FanOutType DEF QueryGet, TypeOK
    <3>2. resp' = resp \/ \E x \in ResponseType : resp' = [resp EXCEPT ![g] = x]
      BY <1>7, <2>2 DEF QueryGet
    <3>3. quorum[at[g]].r \in Int
      BY <2>1 DEF TypeOK
    <3>4. /\ pc' \in [Op -> {"idle", "store", "send", "query", "wait", "done"}]
          /\ resp' \in [Op -> ResponseType]
      <4>1. \E x \in {"wait", "done"} : pc' = [pc EXCEPT ![g] = x]
        BY <1>7 DEF QueryGet
      <4>2. pc' \in [Op -> {"idle", "store", "send", "query", "wait", "done"}]
        BY <1>00, <4>1 DEF TypeOK
      <4>3. resp' \in [Op -> ResponseType]
        BY <1>00, <3>2 DEF TypeOK, ResponseType
      <4> QED BY <4>2, <4>3
    <3>5. need' \in [Op -> Int]
      BY <1>00, <1>7, <3>3 DEF QueryGet, TypeOK
    <3>6. UNCHANGED <<clock, store, quorum, peers, at, key, ts, reply, local,
                      applied, before, regressed, refused>>
      BY <1>7 DEF QueryGet, confVars, histVars
    <3> QED BY <3>1, <3>4, <3>5, <3>6 DEF TypeOK, ResponseType
  <2>4. Started'
    <3>1. \/ rpc' = rpc /\ pc' = [pc EXCEPT ![g] = "done"]
          \/ FanOut(g) /\ pc' = [pc EXCEPT ![g] = "wait"]
      BY ZenonT(40), <1>7 DEF QueryGet
    <3>2. UNCHANGED <<at, key, ts>> /\ pc[g] = "query"
      BY <1>7 DEF QueryGet
    <3> QED BY <1>00, <3>1, <3>2, RequestStep
  <2> QED BY <2>3, <2>4
<1>8. ASSUME NEW g \in Get, NEW m \in Node, ServeGetLocal(g, m)
      PROVE  TypeInv'
  <2>1. key[g] \in Key
    BY <1>00, <1>8 DEF ServeGetLocal, Started
  <2>2. TypeOK'
    <3>1. /\ reply' \in [Get -> [Node -> Stored]]
          /\ rpc' \in [Op -> [Node -> {"none", "sent", "seen", "served"}]]
      BY <1>00, <1>8, <2>1 DEF ServeGetLocal, TypeOK
    <3>2. UNCHANGED <<clock, store, quorum, peers, pc, at, key, ts, need, local, resp,
                      applied, before, regressed, refused>>
      BY Zenon, <1>8 DEF ServeGetLocal, confVars, histVars
    <3> QED BY <1>00, <3>1, <3>2 DEF TypeOK
  <2>3. Started'
    BY <1>00, <1>8 DEF ServeGetLocal, TypeOK, Started
  <2> QED BY <2>2, <2>3
<1>9. ASSUME NEW g \in Get, NEW arrived \in Arrivals(g), NEW now \in Time,
             FinishGet(g, arrived, now)
      PROVE  TypeInv'
  <2>1. /\ Answer(GetMostRecent(Candidates(g, arrived)), now) \in ResponseType
        /\ Response("error", None) \in ResponseType
        /\ None \in Stored
    BY FinishedType DEF Response, ResponseType, Stored
  <2>2. TypeOK'
    <3>1. /\ pc' \in [Op -> {"idle", "store", "send", "query", "wait", "done"}]
          /\ rpc' \in [Op -> [Node -> {"none", "sent", "seen", "served"}]]
      BY <1>00, <1>9 DEF FinishGet, TypeOK
    <3>2. reply' \in [Get -> [Node -> Stored]] /\ local' \in [Get -> Stored]
      BY <1>00, <1>9, <2>1 DEF FinishGet, TypeOK
    <3>3. resp' \in [Op -> ResponseType]
      BY <1>00, <1>9, <2>1 DEF FinishGet, TypeOK, ResponseType
    <3>4. UNCHANGED <<clock, store, quorum, peers, at, key, ts, need,
                      applied, before, regressed, refused>>
      BY Zenon, <1>9 DEF FinishGet, confVars, histVars
    <3> QED BY <1>00, <3>1, <3>2, <3>3, <3>4 DEF TypeOK, ResponseType
  <2>3. Started'
    <3>1. /\ pc' = [pc EXCEPT ![g] = "done"] /\ pc[g] = "wait"
          /\ rpc' = [rpc EXCEPT ![g] = [m \in Node |-> "none"]]
          /\ UNCHANGED <<at, key, ts>>
      BY Zenon, <1>9 DEF FinishGet, ResultsClosed
    <3>2. DOMAIN pc = Op /\ DOMAIN rpc = Op
      BY <1>00 DEF TypeOK
    <3> QED BY <1>00, <3>1, <3>2 DEF Started
  <2> QED BY <2>2, <2>3
<1>10. ASSUME UNCHANGED vars
       PROVE  TypeInv'
  BY <1>10 DEF vars, reqVars, confVars, histVars, TypeOK, Started
<1> QED
  BY <1>1, <1>2, <1>3, <1>4, <1>5, <1>6, <1>7, <1>8, <1>9, <1>10, <1>11
     DEF Next, AllAnswered

\* Type correctness, and with it that no handler runs without its node, key
\* and timestamp.
THEOREM TypeCorrect == Spec => []TypeOK
<1>1. TypeInv => TypeOK
  BY DEF TypeInv
<1> QED BY <1>1, TypeInit, TypeStep, PTL DEF Spec

-----------------------------------------------------------------------------
(* The stores and the clocks *)

\* What HappensBefore compares.
Instant == Clock \cup Timestamp

\* "Not before" is transitive, among clocks and timestamps alike.
LEMMA InstantTrans ==
  ASSUME NEW a \in Instant, NEW b \in Instant, NEW c \in Instant,
         ~ HappensBefore(a, b), ~ HappensBefore(b, c)
  PROVE  ~ HappensBefore(a, c)
<1>1. \A x \in Instant : x.physical \in Nat /\ x.logical \in Nat
  BY DEF Instant, Clock, Timestamp
<1> QED BY <1>1 DEF HappensBefore

\* Clock.Now never moves a clock back and stamps nothing it is behind.
LEMMA TickForward ==
  ASSUME NEW c \in Clock, NEW now \in Time, NEW n
  PROVE  /\ ~ HappensBefore(Tick(c, now), c)
         /\ ~ HappensBefore(Tick(c, now), Stamp(Tick(c, now), n))
<1>1. now \in Nat
  BY ConfigAssumption DEF Time
<1>2. ~ HappensBefore(Tick(c, now), c)
  BY <1>1 DEF Tick, Bump, NewClock, Clock, HappensBefore
<1>3. Tick(c, now).physical \in Nat /\ Tick(c, now).logical \in Nat
  BY <1>1 DEF Tick, Bump, NewClock, Clock
<1> QED BY <1>2, <1>3 DEF Stamp, HappensBefore

\* Clock.Update never moves a clock back and, unless it refuses the timestamp,
\* moves it past the timestamp.
LEMMA UpdateForward ==
  ASSUME NEW c \in Clock, NEW now \in Time, NEW t \in Timestamp
  PROVE  /\ ~ HappensBefore(Update(c, t, now, MaxDrift), c)
         /\ ~ DriftTooLarge(t, now, MaxDrift) =>
              ~ HappensBefore(Update(c, t, now, MaxDrift), t)
<1>1. now \in Nat
  BY ConfigAssumption DEF Time
<1>2. /\ Merge(c, t) \in Clock
      /\ ~ HappensBefore(Merge(c, t), c)
      /\ ~ HappensBefore(Merge(c, t), t)
  <2>1. Merge(c, t) \in Clock
    BY DEF Merge, Bump, Clock, Timestamp
  <2>2. ~ HappensBefore(Merge(c, t), c)
    BY DEF Merge, Bump, Clock, Timestamp, HappensBefore
  <2>3. ~ HappensBefore(Merge(c, t), t)
    BY DEF Merge, Bump, Clock, Timestamp, HappensBefore
  <2> QED BY Zenon, <2>1, <2>2, <2>3
<1>3. ~ HappensBefore(c, c)
  BY DEF Clock, HappensBefore
<1>4. ASSUME NEW d \in Clock
      PROVE  ~ HappensBefore(CatchUp(d, now), d) /\ CatchUp(d, now) \in Clock
  BY <1>1 DEF CatchUp, NewClock, Clock, HappensBefore
<1>5. /\ ~ HappensBefore(CatchUp(Merge(c, t), now), c)
      /\ ~ HappensBefore(CatchUp(Merge(c, t), now), t)
  BY <1>2, <1>4, InstantTrans DEF Instant
<1> QED BY <1>3, <1>5 DEF Update

\* A peer that Server.Replicate has shown a timestamp has a clock that is not
\* behind it, unless the clock refused it.
SeenBehindClock ==
  \A p \in Put, m \in Node :
    rpc[p][m] = "seen" => refused[m] \/ ~ HappensBefore(clock[m], ts[p])

\* A Put's timestamp is not ahead of its node's clock until it is stored.
ClockInv ==
  /\ TypeInv
  /\ StoreBehindClock
  /\ SeenBehindClock
  /\ \A p \in Put : pc[p] = "store" => ~ HappensBefore(clock[at[p]], ts[p])

\* Clocks that only move forward stay ahead of their stores.
LEMMA ClocksMoveOn ==
  ASSUME ClockInv, TypeInv', UNCHANGED store,
         \A n \in Node : ~ HappensBefore(clock'[n], clock[n]),
         \A n \in Node : refused[n] => refused'[n]
  PROVE  StoreBehindClock'
<1> SUFFICES ASSUME NEW n \in Node, NEW k \in Key, store[n][k] # None,
                    ~ refused'[n]
             PROVE  ~ HappensBefore(clock'[n], store[n][k].hlc)
  BY DEF StoreBehindClock
<1>1. ~ HappensBefore(clock[n], store[n][k].hlc)
  BY DEF ClockInv, StoreBehindClock
<1>2. store[n][k] \in VersionedValue
  <2>1. store \in [Node -> [Key -> Stored]]
    BY DEF ClockInv, TypeInv, TypeOK
  <2> QED BY <2>1 DEF Stored
<1>3. store[n][k].hlc \in Instant
  BY <1>2 DEF VersionedValue, Instant
<1>4. clock[n] \in Instant /\ clock'[n] \in Instant
  BY DEF ClockInv, TypeInv, TypeOK, Clock, Instant
<1> QED BY <1>1, <1>3, <1>4, InstantTrans

\* Storing a timestamp that the clock is not behind.
LEMMA StoreAtClock ==
  ASSUME ClockInv, TypeInv', NEW n \in Node, NEW p \in Put, pc[p] # "idle",
         PutWithHLC(n, p, ts[p]),
         \A m \in Node : ~ HappensBefore(clock'[m], clock[m]),
         \A m \in Node : refused[m] => refused'[m],
         refused'[n] \/ ~ HappensBefore(clock'[n], ts[p])
  PROVE  StoreBehindClock'
<1> SUFFICES ASSUME NEW m \in Node, NEW k \in Key, store'[m][k] # None,
                    ~ refused'[m]
             PROVE  ~ HappensBefore(clock'[m], store'[m][k].hlc)
  BY DEF StoreBehindClock
<1>0. store \in [Node -> [Key -> Stored]]
  BY DEF ClockInv, TypeInv, TypeOK
<1>1. /\ store' = [store EXCEPT ![n][key[p]] = [value |-> p, hlc |-> ts[p]]]
      /\ key[p] \in Key
  BY DEF PutWithHLC, ClockInv, TypeInv, Started, Op
<1>2. CASE m = n /\ k = key[p]
  <2>1. store'[m][k] = [value |-> p, hlc |-> ts[p]]
    BY <1>0, <1>1, <1>2
  <2>2. store'[m][k].hlc = ts[p]
    <3>1. [value |-> p, hlc |-> ts[p]].hlc = ts[p]
      OBVIOUS
    <3> QED BY Zenon, <2>1, <3>1
  <2> QED BY <1>2, <2>2
<1>3. CASE ~ (m = n /\ k = key[p])
  <2>1. store'[m][k] = store[m][k]
    BY <1>0, <1>1, <1>3
  <2>2. ~ HappensBefore(clock[m], store[m][k].hlc)
    BY ZenonT(40), <2>1 DEF ClockInv, StoreBehindClock
  <2>3. store[m][k] \in VersionedValue
    BY <1>0, <2>1 DEF Stored
  <2>4. store[m][k].hlc \in Instant
    BY ZenonT(40), <2>3 DEF VersionedValue, Instant
  <2>5. clock[m] \in Instant /\ clock'[m] \in Instant
    BY DEF ClockInv, TypeInv, TypeOK, Clock, Instant
  <2> QED BY <2>1, <2>2, <2>4, <2>5, InstantTrans
<1> QED BY <1>2, <1>3

\* A Put that waits to be stored stays behind a clock that moves forward.
LEMMA PutsStayBehind ==
  ASSUME ClockInv, TypeInv', NEW p \in Put, pc[p] = "store",
         at'[p] = at[p], ts'[p] = ts[p],
         \A n \in Node : ~ HappensBefore(clock'[n], clock[n])
  PROVE  ~ HappensBefore(clock'[at'[p]], ts'[p])
<1>1. at[p] \in Node /\ ts[p] \in Instant
  BY DEF ClockInv, TypeInv, Started, Op, Instant
<1>2. clock[at[p]] \in Instant /\ clock'[at[p]] \in Instant
  BY <1>1 DEF ClockInv, TypeInv, TypeOK, Clock, Instant
<1>3. ~ HappensBefore(clock[at[p]], ts[p])
  BY DEF ClockInv
<1> QED BY <1>1, <1>2, <1>3, InstantTrans

\* A timestamp that a clock has seen stays behind a clock that moves forward.
LEMMA SeenStays ==
  ASSUME ClockInv, TypeInv', NEW p \in Put, NEW m \in Node, rpc[p][m] = "seen",
         ts'[p] = ts[p], ~ HappensBefore(clock'[m], clock[m]),
         refused[m] => refused'[m]
  PROVE  refused'[m] \/ ~ HappensBefore(clock'[m], ts'[p])
<1>1. ts[p] \in Instant
  BY DEF ClockInv, TypeInv, Started, Op, Instant
<1>2. clock[m] \in Instant /\ clock'[m] \in Instant
  BY DEF ClockInv, TypeInv, TypeOK, Clock, Instant
<1>3. refused[m] \/ ~ HappensBefore(clock[m], ts[p])
  BY DEF ClockInv, SeenBehindClock
<1> QED BY <1>1, <1>2, <1>3, InstantTrans

\* Every step keeps the stores behind the clocks.
LEMMA ClockStep ==
  ASSUME ClockInv, [Next]_vars
  PROVE  ClockInv'
<1>1. TypeInv' /\ TypeInv /\ TypeOK /\ Started
  BY TypeStep DEF ClockInv, TypeInv
<1>2. \A o \in Put : o \in Op /\ o \notin Get
  BY ConfigAssumption DEF Op
<1>3. \A o \in Get : o \in Op /\ o \notin Put
  BY ConfigAssumption DEF Op
<1>4. \A n \in Node : clock[n] \in Clock /\ ~ HappensBefore(clock[n], clock[n])
  BY <1>1 DEF TypeOK, Clock, HappensBefore
<1>5. /\ DOMAIN pc = Op /\ DOMAIN at = Op /\ DOMAIN rpc = Op
      /\ \A o \in Op : DOMAIN rpc[o] = Node
  BY <1>1 DEF TypeOK
<1>10. ASSUME NEW p \in Put, NEW n \in Node, NEW k \in Key, NEW now \in Time,
             StartPut(p, n, k, now)
       PROVE  ClockInv'
  <2> DEFINE c == Tick(clock[n], now)
  <2>1. ~ HappensBefore(c, clock[n]) /\ ~ HappensBefore(c, Stamp(c, n))
    BY Zenon, <1>4, TickForward
  <2>2. /\ clock' = [clock EXCEPT ![n] = c]
        /\ ts' = [ts EXCEPT ![p] = Stamp(c, n)]
        /\ at' = [at EXCEPT ![p] = n]
        /\ pc' = [pc EXCEPT ![p] = "store"]
        /\ UNCHANGED <<store, refused>>
    BY <1>10 DEF StartPut, histVars
  <2> HIDE DEF c
  <2>3. \A m \in Node : ~ HappensBefore(clock'[m], clock[m])
    BY <1>1, <1>4, <2>1, <2>2 DEF TypeOK
  <2>4. StoreBehindClock'
    BY <1>1, <2>2, <2>3, ClocksMoveOn
  <2>5. ASSUME NEW q \in Put, pc'[q] = "store"
        PROVE  ~ HappensBefore(clock'[at'[q]], ts'[q])
    <3>1. CASE q = p
      BY <1>1, <1>2, <2>1, <2>2, <3>1 DEF TypeOK
    <3>2. CASE q # p
      <4>1. pc[q] = "store" /\ at'[q] = at[q] /\ ts'[q] = ts[q]
        BY <1>1, <1>2, <2>2, <2>5, <3>2 DEF TypeOK
      <4> QED BY <1>1, <2>3, <4>1, PutsStayBehind
    <3> QED BY <3>1, <3>2
  <2>6. ASSUME NEW q \in Put, NEW m \in Node, rpc'[q][m] = "seen"
        PROVE  refused'[m] \/ ~ HappensBefore(clock'[m], ts'[q])
    <3>1. rpc' = rpc /\ pc[p] = "idle"
      BY <1>10 DEF StartPut
    <3>2. rpc[q][m] = "seen" /\ q # p
      BY <1>1, <1>2, <2>6, <3>1 DEF Started
    <3>3. ts'[q] = ts[q]
      BY <1>1, <2>2, <3>2 DEF TypeOK
    <3> QED BY <1>1, <2>2, <2>3, <3>2, <3>3, SeenStays
  <2>7. SeenBehindClock'
    BY <2>6 DEF SeenBehindClock
  <2> QED BY <1>1, <2>4, <2>5, <2>7 DEF ClockInv
<1>11. ASSUME NEW p \in Put, StorePut(p)
       PROVE  ClockInv'
  <2>1. /\ pc[p] = "store" /\ at[p] \in Node
        /\ PutWithHLC(at[p], p, ts[p])
        /\ pc' = [pc EXCEPT ![p] = "send"]
        /\ UNCHANGED <<clock, at, ts, rpc, refused>>
    BY <1>1, <1>2, <1>11 DEF StorePut, Started
  <2>2. StoreBehindClock'
    <3>1. ~ HappensBefore(clock'[at[p]], ts[p])
      BY <2>1 DEF ClockInv
    <3> QED BY <1>1, <1>4, <2>1, <3>1, StoreAtClock
  <2>3. \A q \in Put : pc'[q] = "store" => ~ HappensBefore(clock'[at'[q]], ts'[q])
    BY <1>1, <1>2, <2>1 DEF ClockInv, TypeOK
  <2>4. SeenBehindClock'
    BY <2>1 DEF ClockInv, SeenBehindClock
  <2> QED BY <1>1, <2>2, <2>3, <2>4 DEF ClockInv
<1>12. ASSUME NEW p \in Put, NEW m \in Node, NEW now \in Time,
              ServeReplicate(p, m, now)
       PROVE  ClockInv'
  <2> DEFINE c == Update(clock[m], ts[p], now, MaxDrift)
  <2>1. pc[p] # "idle" /\ ts[p] \in Timestamp
    BY <1>1, <1>2, <1>12 DEF ServeReplicate, Started
  <2>2. /\ ~ HappensBefore(c, clock[m])
        /\ ~ DriftTooLarge(ts[p], now, MaxDrift) => ~ HappensBefore(c, ts[p])
    BY <1>4, <2>1, UpdateForward
  <2>3. /\ clock' = [clock EXCEPT ![m] = c]
        /\ refused' = [refused EXCEPT ![m] =
                         @ \/ DriftTooLarge(ts[p], now, MaxDrift)]
        /\ rpc' = [rpc EXCEPT ![p][m] = "seen"]
        /\ UNCHANGED <<store, pc, at, ts>>
    BY <1>12 DEF ServeReplicate
  <2> HIDE DEF c
  <2>4. \A n \in Node : ~ HappensBefore(clock'[n], clock[n])
    BY <1>1, <1>4, <2>2, <2>3 DEF TypeOK
  <2>5. refused'[m] \/ ~ HappensBefore(clock'[m], ts[p])
    BY ZenonT(40), <1>1, <2>2, <2>3 DEF TypeOK
  <2>6. \A n \in Node : refused[n] => refused'[n]
    BY <1>1, <2>3 DEF TypeOK
  <2>7. StoreBehindClock'
    BY <1>1, <2>3, <2>4, <2>6, ClocksMoveOn
  <2>8. \A q \in Put : pc'[q] = "store" => ~ HappensBefore(clock'[at'[q]], ts'[q])
    BY ZenonT(40), <1>1, <2>3, <2>4, PutsStayBehind
  <2>9. ASSUME NEW q \in Put, NEW i \in Node, rpc'[q][i] = "seen"
        PROVE  refused'[i] \/ ~ HappensBefore(clock'[i], ts'[q])
    <3>1. CASE q = p /\ i = m
      BY <2>3, <2>5, <3>1
    <3>2. CASE ~ (q = p /\ i = m)
      <4>1. rpc[q][i] = "seen"
        BY <1>1, <1>2, <2>3, <2>9, <3>2 DEF TypeOK
      <4> QED BY <1>1, <2>3, <2>4, <2>6, <4>1, SeenStays
    <3> QED BY <3>1, <3>2
  <2>10. SeenBehindClock'
    BY Zenon, <2>9 DEF SeenBehindClock
  <2> QED BY ZenonT(40), <1>1, <2>7, <2>8, <2>10 DEF ClockInv
<1>17. ASSUME NEW p \in Put, NEW m \in Node, StoreReplicate(p, m)
       PROVE  ClockInv'
  <2>1. /\ rpc[p][m] = "seen"
        /\ PutWithHLC(m, p, ts[p])
        /\ \E x \in {"served", "none"} : rpc' = [rpc EXCEPT ![p][m] = x]
        /\ UNCHANGED <<clock, pc, at, ts, refused>>
    BY <1>17 DEF StoreReplicate
  <2>2. pc[p] # "idle"
    BY <1>1, <1>2, <2>1 DEF Started
  <2>3. refused'[m] \/ ~ HappensBefore(clock'[m], ts[p])
    BY <2>1 DEF ClockInv, SeenBehindClock
  <2>4. StoreBehindClock'
    BY <1>1, <1>4, <2>1, <2>2, <2>3, StoreAtClock
  <2>5. \A q \in Put, i \in Node : rpc'[q][i] = "seen" => rpc[q][i] = "seen"
    BY <1>2, <1>5, <2>1
  <2>6. SeenBehindClock'
    BY <2>1, <2>5 DEF ClockInv, SeenBehindClock
  <2>7. \A q \in Put : pc'[q] = "store" => ~ HappensBefore(clock'[at'[q]], ts'[q])
    BY <2>1 DEF ClockInv
  <2> QED BY ZenonT(40), <1>1, <2>4, <2>6, <2>7 DEF ClockInv
<1>13. ASSUME UNCHANGED <<clock, store, ts, refused>>,
              \A p \in Put : pc'[p] = "store" => pc[p] = "store" /\ at'[p] = at[p],
              \A p \in Put, m \in Node : rpc'[p][m] = "seen" => rpc[p][m] = "seen"
       PROVE  ClockInv'
  <2>1. StoreBehindClock'
    BY <1>13 DEF ClockInv, StoreBehindClock
  <2>2. \A q \in Put : pc'[q] = "store" => ~ HappensBefore(clock'[at'[q]], ts'[q])
    BY <1>13 DEF ClockInv
  <2>3. SeenBehindClock'
    BY <1>13 DEF ClockInv, SeenBehindClock
  <2> QED BY ZenonT(40), <1>1, <2>1, <2>2, <2>3 DEF ClockInv
<1>14. ASSUME NEW p \in Put,
              SendPut(p) \/ \E acked \in SUBSET Node : FinishPut(p, acked)
       PROVE  ClockInv'
  <2>1. /\ UNCHANGED <<clock, store, ts, refused, at>>
        /\ \E x \in {"wait", "done"} : pc' = [pc EXCEPT ![p] = x]
    BY <1>14 DEF SendPut, FinishPut, histVars
  <2>2. \A q \in Put, m \in Node : rpc'[q][m] = "seen" => rpc[q][m] = "seen"
    <3>1. CASE UNCHANGED rpc
      BY <3>1
    <3>2. CASE FanOut(p)
      <4>1. /\ \A q \in Op \ {p} : rpc'[q] = rpc[q]
            /\ \A m \in Node : rpc'[p][m] # "seen"
        BY <1>1, <1>2, <3>2, FanOutType
      <4> QED BY <1>2, <4>1
    <3>3. CASE rpc' = [rpc EXCEPT ![p] =
                 [m \in Node |-> IF rpc[p][m] = "served" THEN "none" ELSE rpc[p][m]]]
      BY <1>1, <1>2, <3>3 DEF TypeOK
    <3> QED BY Zenon, <1>14, <3>1, <3>2, <3>3 DEF SendPut, FinishPut
  <2>3. \A q \in Put : pc'[q] = "store" => pc[q] = "store" /\ at'[q] = at[q]
    BY <1>1, <1>2, <2>1 DEF TypeOK
  <2> QED BY <1>13, <2>1, <2>2, <2>3
<1>15. ASSUME NEW g \in Get,
              \/ \E n \in Node, k \in Key : StartGet(g, n, k)
              \/ \E now \in Time : QueryGet(g, now)
              \/ \E m \in Node : ServeGetLocal(g, m)
              \/ \E arrived \in Arrivals(g), now \in Time :
                   FinishGet(g, arrived, now)
       PROVE  ClockInv'
  <2>1. /\ UNCHANGED <<clock, store, ts, refused>>
        /\ UNCHANGED pc \/ \E x : pc' = [pc EXCEPT ![g] = x]
        /\ UNCHANGED at \/ \E x : at' = [at EXCEPT ![g] = x]
        /\ UNCHANGED rpc \/ \E x : rpc' = [rpc EXCEPT ![g] = x]
                         \/ \E m, y : rpc' = [rpc EXCEPT ![g][m] = y]
    BY <1>15 DEF StartGet, QueryGet, FanOut, ServeGetLocal, FinishGet, histVars
  <2>2. \A p \in Put : pc'[p] = pc[p] /\ at'[p] = at[p] /\ rpc'[p] = rpc[p]
    BY <1>2, <1>3, <1>5, <2>1
  <2> QED BY <1>13, <2>1, <2>2
<1>16. ASSUME UNCHANGED vars
       PROVE  ClockInv'
  BY <1>13, <1>16 DEF vars, reqVars, histVars
<1> QED
  BY <1>10, <1>11, <1>12, <1>14, <1>15, <1>16, <1>17 DEF Next, AllAnswered

\* Until its clock refuses a timestamp, a node's clock is never behind a value
\* in its store (Server.Put, Server.Replicate), in any cluster.
THEOREM StoreBehindClockHolds == Spec => []StoreBehindClock
<1>1. Init => ClockInv
  <2> SUFFICES ASSUME Init PROVE ClockInv
    OBVIOUS
  <2>1. StoreBehindClock /\ SeenBehindClock /\ \A p \in Put : pc[p] # "store"
    BY DEF Init, StoreBehindClock, SeenBehindClock, Op
  <2> QED BY <2>1, TypeInit DEF ClockInv
<1>2. ClockInv /\ [Next]_vars => ClockInv'
  BY ClockStep
<1>3. ClockInv => StoreBehindClock
  BY DEF ClockInv
<1> QED BY <1>1, <1>2, <1>3, PTL DEF Spec

-----------------------------------------------------------------------------
(* Answers that a key is not there *)

\* A Get that has not ended has no response.
Unanswered == \A g \in Get : pc[g] # "done" => resp[g].kind = "none"

\* What makes NotFoundIsLocal inductive.
LocalInv == TypeInv /\ Unanswered /\ NotFoundIsLocal

\* QueryReplicas leaves Get nothing to choose from only if no result arrived.
LEMMA NothingArrived ==
  ASSUME TypeOK, NEW g \in Get, NEW arrived \in Arrivals(g),
         GetMostRecent(Candidates(g, arrived)) = None
  PROVE  Len(arrived) = 0
<1> DEFINE C == Candidates(g, arrived)
           R == [i \in DOMAIN arrived |-> reply[g][arrived[i]]]
           l == IF local[g] = None THEN <<>> ELSE <<local[g]>>
<1>1. C \in Seq(VersionedValue) /\ arrived \in Seq(Found(g))
  BY CandidatesType
<1>2. C = R \o l
  BY DEF Candidates
<1>3. R \in Seq(Stored) /\ Len(R) = Len(arrived)
  <2>1. DOMAIN arrived = 1 .. Len(arrived) /\ Len(arrived) \in Nat
    BY <1>1
  <2>2. \A i \in 1 .. Len(arrived) : reply[g][arrived[i]] \in Stored
    BY <1>1 DEF TypeOK, Found, Served
  <2> QED BY <2>1, <2>2
<1>4. l \in Seq(Stored)
  BY DEF TypeOK
<1> HIDE DEF C, R, l
<1>5. C = <<>>
  <2> SUFFICES ASSUME C # <<>> PROVE FALSE
    OBVIOUS
  <2>1. GetMostRecent(C) \in VersionedValue
    BY Zenon, <1>1, MostRecentIsLatest
  <2> QED BY <2>1, ConfigAssumption DEF C
<1>6. Len(R \o l) = Len(R) + Len(l) /\ Len(R) \in Nat /\ Len(l) \in Nat
  BY <1>3, <1>4
<1> QED BY <1>2, <1>3, <1>5, <1>6

\* Server.Get answers that the key is not there with R = 1, or after
\* QueryReplicas has found it nowhere with no more than its own answer to count.
LEMMA LocalStep == LocalInv /\ [Next]_vars => LocalInv'
<1> SUFFICES ASSUME LocalInv, [Next]_vars PROVE LocalInv'
  OBVIOUS
<1> DEFINE Good(g) == /\ pc'[g] # "done" => resp'[g].kind = "none"
                      /\ resp'[g].kind = "notfound" => need'[g] <= 1
<1>1. TypeOK /\ Started /\ TypeInv'
  BY TypeStep DEF LocalInv, TypeInv
<1>2. DOMAIN pc = Op /\ DOMAIN resp = Op /\ DOMAIN need = Op
  BY <1>1 DEF TypeOK
<1>3. /\ \A o \in Put : o \in Op /\ o \notin Get
      /\ \A o \in Get : o \in Op /\ o \notin Put
  BY ConfigAssumption DEF Op
<1>4. SUFFICES ASSUME NEW g \in Get PROVE Good(g)
  BY <1>1 DEF LocalInv, Unanswered, NotFoundIsLocal
<1>5. ASSUME resp'[g] = resp[g], need'[g] = need[g], pc[g] = "done" => pc'[g] = "done"
      PROVE  Good(g)
  BY <1>5 DEF LocalInv, Unanswered, NotFoundIsLocal
<1>6. ASSUME NEW o \in Op, o # g,
             UNCHANGED pc \/ \E x : pc' = [pc EXCEPT ![o] = x],
             UNCHANGED resp \/ \E x : resp' = [resp EXCEPT ![o] = x],
             UNCHANGED need \/ \E x : need' = [need EXCEPT ![o] = x]
      PROVE  Good(g)
  <2>1. pc'[g] = pc[g] /\ resp'[g] = resp[g] /\ need'[g] = need[g]
    BY <1>2, <1>3, <1>6
  <2> HIDE DEF Good
  <2> QED BY <1>5, <2>1
<1> HIDE DEF Good
<1>10. ASSUME NEW p \in Put,
              \/ \E n \in Node, k \in Key, now \in Time : StartPut(p, n, k, now)
              \/ StorePut(p)
              \/ SendPut(p)
              \/ \E m \in Node, now \in Time : ServeReplicate(p, m, now)
              \/ \E m \in Node : StoreReplicate(p, m)
              \/ \E acked \in SUBSET Node : FinishPut(p, acked)
       PROVE  Good(g)
  <2>1. /\ UNCHANGED pc \/ \E x : pc' = [pc EXCEPT ![p] = x]
        /\ UNCHANGED resp \/ \E x : resp' = [resp EXCEPT ![p] = x]
        /\ UNCHANGED need \/ \E x : need' = [need EXCEPT ![p] = x]
    BY <1>10 DEF StartPut, StorePut, SendPut, ServeReplicate, StoreReplicate,
                 FinishPut
  <2>2. p \in Op /\ p # g
    BY <1>3
  <2> QED BY <1>6, <2>1, <2>2
<1>11. ASSUME NEW h \in Get, NEW n \in Node, NEW k \in Key, StartGet(h, n, k)
       PROVE  Good(g)
  <2>1. /\ pc[h] = "idle" /\ pc' = [pc EXCEPT ![h] = "query"]
        /\ UNCHANGED <<resp, need>>
    BY <1>11 DEF StartGet
  <2>2. pc[g] = "done" => pc'[g] = "done"
    BY <1>2, <1>3, <2>1
  <2> QED BY <1>5, <2>1, <2>2
<1>12. ASSUME NEW h \in Get, NEW now \in Time, QueryGet(h, now)
       PROVE  Good(g)
  <2> DEFINE r == quorum[at[h]].r
  <2>1. /\ pc[h] = "query" /\ at[h] \in Node
        /\ need' = [need EXCEPT ![h] = r]
    BY <1>1, <1>3, <1>12 DEF QueryGet, Started
  <2>2. r \in Int
    BY <1>1, <2>1 DEF TypeOK
  <2>3. \/ UNCHANGED resp /\ pc' = [pc EXCEPT ![h] = "wait"]
        \/ /\ pc' = [pc EXCEPT ![h] = "done"]
           /\ resp' = [resp EXCEPT ![h] = Response("error", None)]
        \/ /\ pc' = [pc EXCEPT ![h] = "done"]
           /\ resp' = [resp EXCEPT ![h] = Answer(local[h], now)]
           /\ LocalOnly(r) \/ ~ (r > 1)
    BY Zenon, <1>12 DEF QueryGet
  <2> HIDE DEF r
  <2>4. CASE g # h
    BY <1>3, <1>6, <2>1, <2>3, <2>4
  <2>5. CASE g = h
    <3>1. need'[g] = r
      BY <1>2, <1>3, <2>1, <2>5
    <3>2. CASE UNCHANGED resp /\ pc' = [pc EXCEPT ![h] = "wait"]
      <4>1. resp[g].kind = "none"
        BY <2>1, <2>5 DEF LocalInv, Unanswered
      <4> QED BY <3>2, <4>1 DEF Good
    <3>3. CASE /\ pc' = [pc EXCEPT ![h] = "done"]
               /\ resp' = [resp EXCEPT ![h] = Response("error", None)]
      <4>1. pc'[g] = "done" /\ resp'[g].kind = "error"
        BY <1>2, <1>3, <2>5, <3>3 DEF Response
      <4> QED BY <4>1 DEF Good
    <3>4. CASE /\ pc' = [pc EXCEPT ![h] = "done"]
               /\ resp' = [resp EXCEPT ![h] = Answer(local[h], now)]
               /\ LocalOnly(r) \/ ~ (r > 1)
      <4>1. pc'[g] = "done"
        BY <1>2, <1>3, <2>5, <3>4
      <4>2. r <= 1
        BY <2>2, <3>4 DEF LocalOnly
      <4> QED BY <3>1, <4>1, <4>2 DEF Good
    <3> QED BY <2>3, <3>2, <3>3, <3>4
  <2> QED BY <2>4, <2>5
<1>13. ASSUME NEW h \in Get, NEW m \in Node, ServeGetLocal(h, m)
       PROVE  Good(g)
  BY <1>5, <1>13 DEF ServeGetLocal
<1>14. ASSUME NEW h \in Get, NEW arrived \in Arrivals(h), NEW now \in Time,
              FinishGet(h, arrived, now)
       PROVE  Good(g)
  <2> DEFINE vv == GetMostRecent(Candidates(h, arrived))
             answer == IF Len(arrived) + 1 < need[h] THEN Response("error", None)
                       ELSE Answer(vv, now)
  <2>1. /\ pc' = [pc EXCEPT ![h] = "done"] /\ UNCHANGED need
        /\ resp' = [resp EXCEPT ![h] = answer]
    BY <1>14 DEF FinishGet
  <2>2. answer.kind = "notfound" => need[h] <= 1
    <3> SUFFICES ASSUME answer.kind = "notfound" PROVE need[h] <= 1
      OBVIOUS
    <3> HIDE DEF vv
    <3>1. ~ (Len(arrived) + 1 < need[h]) /\ vv = None
      BY DEF Answer, Response
    <3>2. Len(arrived) = 0
      BY Zenon, <1>1, <3>1, NothingArrived DEF vv
    <3>3. need[h] \in Int
      BY <1>1, <1>3 DEF TypeOK
    <3> QED BY <3>1, <3>2, <3>3
  <2> HIDE DEF answer
  <2>3. CASE g # h
    BY <1>3, <1>6, <2>1, <2>3
  <2>4. CASE g = h
    <3>1. pc'[g] = "done" /\ resp'[g] = answer /\ need'[g] = need[g]
      BY <1>2, <1>3, <2>1, <2>4
    <3> QED BY <2>2, <2>4, <3>1 DEF Good
  <2> QED BY <2>3, <2>4
<1>15. ASSUME UNCHANGED vars
       PROVE  Good(g)
  BY <1>5, <1>15 DEF vars, reqVars
<1> QED
  BY <1>10, <1>11, <1>12, <1>13, <1>14, <1>15 DEF Next, AllAnswered

\* With R of two or more a Get never answers that a key is not there, whatever
\* the size of the cluster: QueryReplicas counts no result without the key, so
\* Server.Get fails instead.
THEOREM NotFoundIsLocalHolds == Spec => []NotFoundIsLocal
<1>1. Init => LocalInv
  <2> SUFFICES ASSUME Init PROVE LocalInv
    OBVIOUS
  <2>1. Unanswered /\ NotFoundIsLocal
    BY DEF Init, Unanswered, NotFoundIsLocal, Op, Response
  <2> QED BY <2>1, TypeInit DEF LocalInv
<1>2. LocalInv => NotFoundIsLocal
  BY DEF LocalInv
<1> QED BY <1>1, <1>2, LocalStep, PTL DEF Spec
=============================================================================
