--------------------------- MODULE Bindings_proofs ---------------------------
(***************************************************************************)
(* Proofs about the statements of a SQL session, for any workers, fields,  *)
(* queries and configurations of the bindings.                             *)
(***************************************************************************)
EXTENDS Bindings, TLAPS

\* The failed calls that statement q of a worker may still cost, when the cache
\* is cache and l has become of connection n: one for every connection lost
\* since it was prepared, and none if it is not cached, unless nobody has
\* noticed the last loss.
OwedBy(l, n, cache, q) ==
  IF q \in DOMAIN cache
  THEN n - cache[q] + (IF l = "up" THEN 0 ELSE 1)
  ELSE IF l = "bad" THEN 1 ELSE 0

Owed(t, q) == OwedBy(link[t], conn[t], stmtCache[t], q)

Link == {"up", "bad", "done", "none"}

SessionType ==
  /\ link \in [Thread -> Link]
  /\ conn \in [Thread -> Nat \ {0}]
  /\ DOMAIN stmtCache = Thread
  /\ \A t \in Thread : \A q \in DOMAIN stmtCache[t] : stmtCache[t][q] \in 1 .. conn[t]
  /\ losses \in [Thread -> Nat]
  /\ outages \in [Thread -> Nat]
  /\ refusals \in [Thread -> [Query -> Nat]]

\* A worker that executes a statement has it in its cache.
PreparedIsCached ==
  /\ DOMAIN stage = Thread /\ DOMAIN call = Thread
  /\ \A t \in Thread : stage[t] = "prepared" => Statement(call[t]) \in DOMAIN stmtCache[t]

\* What makes OneRefusalPerFault inductive: the failed calls a query has had and
\* those it may still have do not exceed the faults.
SessionInv ==
  /\ SessionType /\ PreparedIsCached
  /\ \A t \in Thread, q \in Query : refusals[t][q] + Owed(t, q) <= losses[t] + outages[t]

\* The count of the failed calls of one query goes up, or none does.
LEMMA Refusal ==
  ASSUME NEW r \in [Query -> Nat], NEW p, NEW failed \in BOOLEAN, NEW s,
         s = [r EXCEPT ![p] = IF failed THEN r[p] + 1 ELSE r[p]]
  PROVE  /\ s \in [Query -> Nat]
         /\ \A q \in Query : s[q] = IF q = p /\ failed THEN r[q] + 1 ELSE r[q]
<1>1. CASE p \in Query
  BY <1>1
<1>2. CASE p \notin Query
  <2>1. s = [q \in Query |-> r[q]]
    BY <1>2
  <2> QED BY <1>2, <2>1
<1> QED BY <1>1, <1>2

\* A step of worker t's session that refuses a call of p if failed, comes to l, n
\* and cache, and counts the faults lost and out; what it refuses and comes to
\* owe is no more than what was owed and those faults.
Moves(t, p, l, n, cache, failed, lost, out) ==
  /\ n >= conn[t]
  /\ \A q \in DOMAIN cache : cache[q] \in 1 .. n
  /\ \A q \in Query : OwedBy(l, n, cache, q) + (IF q = p /\ failed THEN 1 ELSE 0)
                        <= Owed(t, q) + lost + out
  /\ link' = [link EXCEPT ![t] = l]
  /\ conn' = [conn EXCEPT ![t] = n]
  /\ DOMAIN stmtCache' = Thread /\ stmtCache'[t] = cache
  /\ \A u \in Thread : u # t => stmtCache'[u] = stmtCache[u]
  /\ losses' = [losses EXCEPT ![t] = losses[t] + lost]
  /\ outages' = [outages EXCEPT ![t] = outages[t] + out]
  /\ refusals' = [refusals EXCEPT ![t] =
                    [refusals[t] EXCEPT ![p] = IF failed THEN refusals[t][p] + 1
                                                        ELSE refusals[t][p]]]
  /\ call' = call /\ DOMAIN stage' = Thread
  /\ \A u \in Thread : stage'[u] = "prepared" =>
       IF u = t THEN Statement(call[t]) \in DOMAIN cache ELSE stage[u] = "prepared"

\* Such a step preserves the invariant.
LEMMA SessionMoves ==
  ASSUME SessionInv, NEW t \in Thread, NEW p, NEW l \in Link, NEW n \in Nat, NEW cache,
         NEW failed \in BOOLEAN, NEW lost \in {0, 1}, NEW out \in {0, 1},
         Moves(t, p, l, n, cache, failed, lost, out)
  PROVE  SessionInv'
<1>t. /\ link \in [Thread -> Link] /\ conn \in [Thread -> Nat \ {0}] /\ DOMAIN stmtCache = Thread
      /\ losses \in [Thread -> Nat] /\ outages \in [Thread -> Nat]
      /\ refusals \in [Thread -> [Query -> Nat]]
  BY DEF SessionInv, SessionType
<1>1. /\ link' \in [Thread -> Link] /\ conn' \in [Thread -> Nat \ {0}] /\ DOMAIN stmtCache' = Thread
      /\ losses' \in [Thread -> Nat] /\ outages' \in [Thread -> Nat]
  BY <1>t DEF Moves
<1>2. /\ link'[t] = l /\ conn'[t] = n /\ stmtCache'[t] = cache
      /\ losses'[t] = losses[t] + lost /\ outages'[t] = outages[t] + out
  BY <1>t DEF Moves
<1>3. ASSUME NEW u \in Thread, u # t
      PROVE  /\ link'[u] = link[u] /\ conn'[u] = conn[u] /\ stmtCache'[u] = stmtCache[u]
             /\ losses'[u] = losses[u] /\ outages'[u] = outages[u]
  BY <1>t, <1>3 DEF Moves
<1>4. /\ refusals' \in [Thread -> [Query -> Nat]]
      /\ \A q \in Query : refusals'[t][q] = IF q = p /\ failed THEN refusals[t][q] + 1 ELSE refusals[t][q]
      /\ \A u \in Thread : u # t => refusals'[u] = refusals[u]
  <2>1. refusals[t] \in [Query -> Nat]
    BY <1>t
  <2> DEFINE s == [refusals[t] EXCEPT ![p] = IF failed THEN refusals[t][p] + 1 ELSE refusals[t][p]]
  <2>2. /\ s \in [Query -> Nat]
        /\ \A q \in Query : s[q] = IF q = p /\ failed THEN refusals[t][q] + 1 ELSE refusals[t][q]
    BY <2>1, Refusal
  <2>3. refusals' = [refusals EXCEPT ![t] = s]
    BY DEF Moves
  <2> HIDE DEF s
  <2>4. refusals' \in [Thread -> [Query -> Nat]]
    BY <1>t, <2>2, <2>3
  <2>5. refusals'[t] = s /\ \A u \in Thread : u # t => refusals'[u] = refusals[u]
    BY <1>t, <2>3
  <2> QED BY <2>2, <2>4, <2>5
<1>5. \A u \in Thread : \A q \in DOMAIN stmtCache'[u] : stmtCache'[u][q] \in 1 .. conn'[u]
  <2>1. ASSUME NEW u \in Thread, u # t, NEW q \in DOMAIN stmtCache'[u]
        PROVE  stmtCache'[u][q] \in 1 .. conn'[u]
    BY <2>1, <1>3 DEF SessionInv, SessionType
  <2>2. \A q \in DOMAIN stmtCache'[t] : stmtCache'[t][q] \in 1 .. conn'[t]
    BY <1>2 DEF Moves
  <2> QED BY <2>1, <2>2
<1>6. SessionType'
  BY <1>1, <1>4, <1>5 DEF SessionType
<1>7. PreparedIsCached'
  BY <1>2, <1>3 DEF SessionInv, PreparedIsCached, Statement, Moves
<1>8. ASSUME NEW q \in Query PROVE refusals'[t][q] + Owed(t, q)' <= losses'[t] + outages'[t]
  <2>1. Owed(t, q)' = OwedBy(l, n, cache, q)
    BY <1>2 DEF Owed, OwedBy
  <2>2. OwedBy(l, n, cache, q) \in Int /\ Owed(t, q) \in Int
    BY <1>t DEF SessionInv, SessionType, Owed, OwedBy, Moves
  <2>3. refusals[t][q] + Owed(t, q) <= losses[t] + outages[t]
    BY DEF SessionInv
  <2>4. refusals[t][q] \in Nat /\ losses[t] \in Nat /\ outages[t] \in Nat
    BY <1>t
  <2>5. refusals'[t][q] = refusals[t][q] + (IF q = p /\ failed THEN 1 ELSE 0)
    BY <1>4, <2>4
  <2>6. OwedBy(l, n, cache, q) + (IF q = p /\ failed THEN 1 ELSE 0) <= Owed(t, q) + lost + out
    BY DEF Moves
  <2> QED BY <1>2, <2>1, <2>2, <2>3, <2>4, <2>5, <2>6
<1>9. ASSUME NEW u \in Thread, u # t, NEW q \in Query
      PROVE  refusals'[u][q] + Owed(u, q)' <= losses'[u] + outages'[u]
  BY <1>3, <1>4, <1>9 DEF SessionInv, Owed, OwedBy
<1> QED BY <1>6, <1>7, <1>8, <1>9 DEF SessionInv

\* Every other step of a call leaves the session alone.
LEMMA SessionFrame ==
  ASSUME SessionInv, UNCHANGED session, DOMAIN stage' = Thread, DOMAIN call' = Thread,
         \A t \in Thread : stage'[t] = "prepared" => stage[t] = "prepared" /\ call'[t] = call[t]
  PROVE  SessionInv'
BY DEF SessionInv, SessionType, PreparedIsCached, Owed, session, Statement

\* Nothing refused leaves the counts of the failed calls as they are.
LEMMA NoRefusal ==
  ASSUME SessionInv, NEW t \in Thread, NEW p
  PROVE  refusals = [refusals EXCEPT ![t] =
                       [refusals[t] EXCEPT ![p] = IF FALSE THEN refusals[t][p] + 1
                                                          ELSE refusals[t][p]]]
<1>1. refusals \in [Thread -> [Query -> Nat]]
  BY DEF SessionInv, SessionType
<1>2. [refusals[t] EXCEPT ![p] = IF FALSE THEN refusals[t][p] + 1 ELSE refusals[t][p]] = refusals[t]
  BY <1>1
<1> QED BY <1>1, <1>2

\* The loss of a connection is owed to every query once.
LEMMA LoseOwes ==
  ASSUME SessionInv, NEW t \in Thread, Lose(t), UNCHANGED <<stage, call>>
  PROVE  SessionInv'
<1>1. SessionType'
  BY DEF SessionInv, SessionType, Lose, Link
<1>2. PreparedIsCached'
  BY DEF SessionInv, PreparedIsCached, Lose, Statement
<1>3. \A u \in Thread, q \in Query : refusals'[u][q] + Owed(u, q)' <= losses'[u] + outages'[u]
  BY DEF SessionInv, SessionType, Lose, Owed, OwedBy
<1> QED BY <1>1, <1>2, <1>3 DEF SessionInv

\* Taking or preparing a statement costs at most what is owed, and the faults it
\* meets.
LEMMA PrepareOwes ==
  ASSUME SessionInv, NEW t \in Thread, NEW ok \in BOOLEAN,
         getAndCacheStmt(t, Statement(call[t]), ok), UNCHANGED call,
         stage' = [stage EXCEPT ![t] = IF ok THEN "prepared" ELSE "returning"]
  PROVE  SessionInv'
<1> DEFINE p == Statement(call[t])
<1>t. /\ link \in [Thread -> Link] /\ conn \in [Thread -> Nat \ {0}] /\ DOMAIN stmtCache = Thread
      /\ losses \in [Thread -> Nat] /\ outages \in [Thread -> Nat]
      /\ DOMAIN stage = Thread /\ DOMAIN stage' = Thread
      /\ \A q \in DOMAIN stmtCache[t] : stmtCache[t][q] \in 1 .. conn[t]
  BY DEF SessionInv, SessionType, PreparedIsCached
<1>u. \A u \in Thread : stage'[u] = "prepared" => IF u = t THEN ok ELSE stage[u] = "prepared"
  BY <1>t
<1>l. losses = [losses EXCEPT ![t] = losses[t] + 0]
  BY <1>t
<1>o. outages = [outages EXCEPT ![t] = outages[t] + 0]
  BY <1>t
<1>c. conn = [conn EXCEPT ![t] = conn[t]] /\ link = [link EXCEPT ![t] = link[t]]
  BY <1>t
<1>1. CASE Cached(t, p) /\ ok /\ UNCHANGED session
  <2>1. UNCHANGED <<link, conn, stmtCache, losses, outages, refusals>>
    BY <1>1 DEF session
  <2>2. conn[t] \in Nat /\ link[t] \in Link /\ conn[t] >= conn[t]
    BY <1>t
  <2>3. \A q \in Query : OwedBy(link[t], conn[t], stmtCache[t], q)
                           + (IF q = p /\ FALSE THEN 1 ELSE 0) <= Owed(t, q) + 0 + 0
    BY <1>t DEF Owed, OwedBy
  <2>4. refusals' = [refusals EXCEPT ![t] =
                       [refusals[t] EXCEPT ![p] = IF FALSE THEN refusals[t][p] + 1
                                                          ELSE refusals[t][p]]]
    BY <2>1, NoRefusal
  <2>5. Moves(t, p, link[t], conn[t], stmtCache[t], FALSE, 0, 0)
    <3>1. link' = [link EXCEPT ![t] = link[t]] /\ conn' = [conn EXCEPT ![t] = conn[t]]
      BY <2>1, <1>c
    <3>2. losses' = [losses EXCEPT ![t] = losses[t] + 0]
      BY <2>1, <1>l
    <3>3. outages' = [outages EXCEPT ![t] = outages[t] + 0]
      BY <2>1, <1>o
    <3>4. \A u \in Thread : stage'[u] = "prepared" =>
            IF u = t THEN Statement(call[t]) \in DOMAIN stmtCache[t] ELSE stage[u] = "prepared"
      BY <1>1, <1>u DEF Cached
    <3> HIDE DEF p
    <3> QED BY <2>1, <2>2, <2>3, <2>4, <1>t, <3>1, <3>2, <3>3, <3>4 DEF Moves
  <2> QED BY <2>2, <2>5, SessionMoves
<1>2. ASSUME ~ Cached(t, p), NEW n \in {conn[t], conn[t] + 1}, PrepareContext(t, p, n, ok),
             n = conn[t] => link[t] = "up", n # conn[t] => link[t] = "done"
      PROVE  SessionInv'
  <2> DEFINE cache == IF ok THEN With(stmtCache[t], p, n) ELSE stmtCache[t]
  <2>1. n \in Nat /\ n >= conn[t] /\ n >= 1
    BY <1>t
  <2>2. /\ \A q \in DOMAIN cache : cache[q] \in 1 .. n
        /\ ok => p \in DOMAIN cache
        /\ \A q \in DOMAIN cache : (q = p /\ cache[q] = n)
                                   \/ (q \in DOMAIN stmtCache[t] /\ cache[q] = stmtCache[t][q])
        /\ DOMAIN stmtCache[t] \subseteq DOMAIN cache
    BY <2>1, <1>t DEF With
  <2>3. /\ link' = [link EXCEPT ![t] = "up"] /\ conn' = [conn EXCEPT ![t] = n]
        /\ stmtCache' = [stmtCache EXCEPT ![t] = cache]
        /\ losses' = losses /\ outages' = outages /\ refusals' = refusals
    BY <1>2 DEF PrepareContext
  <2> HIDE DEF cache, p
  <2>4. ASSUME NEW q \in Query
        PROVE  OwedBy("up", n, cache, q) + (IF q = p /\ FALSE THEN 1 ELSE 0) <= Owed(t, q) + 0 + 0
    <3>1. CASE q \in DOMAIN stmtCache[t]
      <4>1. q # p
        BY <3>1, <1>2 DEF Cached
      <4>2. q \in DOMAIN cache /\ cache[q] = stmtCache[t][q]
        BY <3>1, <4>1, <2>2
      <4> QED BY <3>1, <4>2, <1>2, <1>t DEF Owed, OwedBy
    <3>2. CASE q \notin DOMAIN stmtCache[t]
      <4>1. OwedBy("up", n, cache, q) = 0
        BY <3>2, <2>1, <2>2 DEF OwedBy
      <4>2. Owed(t, q) = 0 \/ Owed(t, q) = 1
        BY <3>2 DEF Owed, OwedBy
      <4> QED BY <4>1, <4>2
    <3> QED BY <3>1, <3>2
  <2>5. refusals' = [refusals EXCEPT ![t] =
                       [refusals[t] EXCEPT ![p] = IF FALSE THEN refusals[t][p] + 1
                                                          ELSE refusals[t][p]]]
    BY <2>3, NoRefusal
  <2>6. losses' = [losses EXCEPT ![t] = losses[t] + 0] /\ outages' = [outages EXCEPT ![t] = outages[t] + 0]
    BY <2>3, <1>l, <1>o
  <2>7. \A u \in Thread : stage'[u] = "prepared" =>
          IF u = t THEN Statement(call[t]) \in DOMAIN cache ELSE stage[u] = "prepared"
    BY <1>u, <2>2 DEF p
  <2>8. "up" \in Link
    BY DEF Link
  <2>9. /\ DOMAIN stage' = Thread /\ DOMAIN stmtCache' = Thread /\ stmtCache'[t] = cache
        /\ \A u \in Thread : u # t => stmtCache'[u] = stmtCache[u]
    BY <1>t, <2>3
  <2>10. Moves(t, p, "up", n, cache, FALSE, 0, 0)
    BY <2>1, <2>2, <2>3, <2>4, <2>5, <2>6, <2>7, <2>9 DEF Moves
  <2> QED BY <2>1, <2>8, <2>10, SessionMoves
<1>3. ASSUME ~ Cached(t, p), ~ ok, NEW l \in {"done", "none"}, Refuse(t, p, l),
             NEW n \in {conn[t], conn[t] + 1}, conn' = [conn EXCEPT ![t] = n],
             NEW lost \in {0, 1}, losses' = [losses EXCEPT ![t] = losses[t] + lost],
             NEW out \in {0, 1}, outages' = [outages EXCEPT ![t] = outages[t] + out],
             n = conn[t] + 1 => lost = 1,
             link[t] = "bad" \/ lost = 1 \/ out = 1,
             link[t] # "up"
      PROVE  SessionInv'
  <2>1. n \in Nat /\ n >= conn[t] /\ \A q \in DOMAIN stmtCache[t] : stmtCache[t][q] \in 1 .. n
    BY <1>t
  <2>2. /\ link' = [link EXCEPT ![t] = l] /\ stmtCache' = stmtCache
        /\ refusals' = [refusals EXCEPT ![t] =
                          [refusals[t] EXCEPT ![p] = IF TRUE THEN refusals[t][p] + 1
                                                            ELSE refusals[t][p]]]
    BY <1>3 DEF Refuse
  <2>3. p \notin DOMAIN stmtCache[t]
    BY <1>3 DEF Cached
  <2> HIDE DEF p
  <2>4. ASSUME NEW q \in Query
        PROVE  OwedBy(l, n, stmtCache[t], q) + (IF q = p /\ TRUE THEN 1 ELSE 0)
                 <= Owed(t, q) + lost + out
    <3>1. CASE q \in DOMAIN stmtCache[t]
      <4>1. q # p /\ stmtCache[t][q] \in Nat /\ conn[t] \in Nat
        BY <3>1, <2>3, <1>t
      <4> QED BY <3>1, <4>1, <1>3 DEF Owed, OwedBy
    <3>2. CASE q \notin DOMAIN stmtCache[t]
      BY <3>2, <1>3 DEF Owed, OwedBy
    <3> QED BY <3>1, <3>2
  <2>5. \A u \in Thread : stage'[u] = "prepared" =>
          IF u = t THEN Statement(call[t]) \in DOMAIN stmtCache[t] ELSE stage[u] = "prepared"
    BY <1>u, <1>3
  <2>6. l \in Link
    BY DEF Link
  <2>7. DOMAIN stage' = Thread /\ DOMAIN stmtCache' = Thread
    BY <2>2, <1>t
  <2>8. Moves(t, p, l, n, stmtCache[t], TRUE, lost, out)
    BY <2>1, <2>2, <2>4, <2>5, <2>7, <1>3 DEF Moves
  <2> QED BY <2>1, <2>6, <2>8, SessionMoves
<1> HIDE DEF p
<1>4. CASE ~ Cached(t, p) /\ link[t] = "up" /\ PrepareContext(t, p, conn[t], ok)
  BY <1>4, <1>2
<1>5. CASE /\ ~ Cached(t, p) /\ link[t] = "bad" /\ ~ ok
           /\ Refuse(t, p, "done") /\ UNCHANGED <<conn, losses, outages>>
  <2>1. conn' = [conn EXCEPT ![t] = conn[t]]
    BY <1>5, <1>c
  <2>2. losses' = [losses EXCEPT ![t] = losses[t] + 0]
    BY <1>5, <1>l
  <2>3. outages' = [outages EXCEPT ![t] = outages[t] + 0]
    BY <1>5, <1>o
  <2>4. conn[t] # conn[t] + 1
    BY <1>t
  <2> QED BY <1>5, <2>1, <2>2, <2>3, <2>4, <1>3
<1>6. CASE ~ Cached(t, p) /\ link[t] = "done" /\ PrepareContext(t, p, conn[t] + 1, ok)
  <2>1. conn[t] + 1 # conn[t]
    BY <1>t
  <2> QED BY <1>6, <2>1, <1>2
<1>7. CASE /\ ~ Cached(t, p) /\ link[t] = "done" /\ ~ ok /\ Refuse(t, p, "none")
           /\ outages' = [outages EXCEPT ![t] = outages[t] + 1] /\ UNCHANGED <<conn, losses>>
  <2>1. conn[t] + 1 # conn[t]
    BY <1>t
  <2> QED BY <1>7, <2>1, <1>3, <1>c, <1>l
<1>8. CASE /\ ~ Cached(t, p) /\ link[t] = "done" /\ ~ ok /\ Refuse(t, p, "done")
           /\ conn' = [conn EXCEPT ![t] = conn[t] + 1]
           /\ losses' = [losses EXCEPT ![t] = losses[t] + 1] /\ UNCHANGED outages
  BY <1>8, <1>3, <1>o
<1> QED BY <1>1, <1>4, <1>5, <1>6, <1>7, <1>8 DEF getAndCacheStmt, Reconnect, p

\* An execution that fails costs one call and drops the statement, and with it
\* all that was owed to it.
LEMMA ExecOwes ==
  ASSUME SessionInv, NEW t \in Thread, stage[t] = "prepared",
         execQuery(t, Statement(call[t]), result'[t]), UNCHANGED call,
         stage' = [stage EXCEPT ![t] = "returning"]
  PROVE  SessionInv'
<1> DEFINE p == Statement(call[t])
           noticed == stmtCache[t][p] = conn[t] /\ link[t] = "bad"
           failed == ~ Reaches(t, p)
           l == IF noticed THEN "done" ELSE link[t]
           cache == IF result'[t] THEN stmtCache[t] ELSE Without(stmtCache[t], p)
<1>t. /\ link \in [Thread -> Link] /\ conn \in [Thread -> Nat \ {0}] /\ DOMAIN stmtCache = Thread
      /\ losses \in [Thread -> Nat] /\ outages \in [Thread -> Nat]
      /\ DOMAIN stage = Thread /\ DOMAIN stage' = Thread
      /\ \A q \in DOMAIN stmtCache[t] : stmtCache[t][q] \in 1 .. conn[t]
  BY DEF SessionInv, SessionType, PreparedIsCached
<1>0. /\ result'[t] => ~ failed
      /\ link' = [link EXCEPT ![t] = l]
      /\ refusals' = [refusals EXCEPT ![t] =
                        [refusals[t] EXCEPT ![p] = IF failed THEN refusals[t][p] + 1
                                                            ELSE refusals[t][p]]]
      /\ stmtCache' = [stmtCache EXCEPT ![t] = cache]
      /\ conn' = conn /\ losses' = losses /\ outages' = outages
  BY DEF execQuery, clearCacheIfFailed
<1>1. /\ conn' = [conn EXCEPT ![t] = conn[t]]
      /\ losses' = [losses EXCEPT ![t] = losses[t] + 0]
      /\ outages' = [outages EXCEPT ![t] = outages[t] + 0]
  BY <1>0, <1>t
<1>2. p \in DOMAIN stmtCache[t]
  BY DEF SessionInv, PreparedIsCached
<1>3. /\ DOMAIN cache = IF result'[t] THEN DOMAIN stmtCache[t] ELSE DOMAIN stmtCache[t] \ {p}
      /\ \A q \in DOMAIN cache : cache[q] = stmtCache[t][q]
  BY DEF Without
<1>4. l \in Link
  BY <1>t DEF Link
<1>5. failed => ~ (stmtCache[t][p] = conn[t] /\ link[t] = "up")
  BY DEF Reaches
<1>6. \A u \in Thread : stage'[u] = "prepared" =>
        IF u = t THEN Statement(call[t]) \in DOMAIN cache ELSE stage[u] = "prepared"
  BY <1>t
<1>7. \A q \in DOMAIN cache : cache[q] \in 1 .. conn[t]
  BY <1>3, <1>t
<1> HIDE DEF p, cache, failed
<1>8. ASSUME NEW q \in Query
      PROVE  OwedBy(l, conn[t], cache, q) + (IF q = p /\ failed THEN 1 ELSE 0) <= Owed(t, q) + 0 + 0
  <2>1. CASE q \in DOMAIN cache
    <3>1. q \in DOMAIN stmtCache[t] /\ cache[q] = stmtCache[t][q] /\ ~ (q = p /\ failed)
      BY <2>1, <1>0, <1>3
    <3>2. stmtCache[t][q] \in Nat /\ conn[t] \in Nat
      BY <3>1, <1>t
    <3> QED BY <2>1, <3>1, <3>2 DEF Owed, OwedBy
  <2>2. CASE q \notin DOMAIN cache /\ q # p
    BY <2>2, <1>3 DEF Owed, OwedBy
  <2>3. CASE q \notin DOMAIN cache /\ q = p
    <3>1. stmtCache[t][q] \in Nat /\ conn[t] \in Nat /\ stmtCache[t][q] <= conn[t]
      BY <2>3, <1>2, <1>t
    <3>2. Owed(t, q) = conn[t] - stmtCache[t][q] + (IF link[t] = "up" THEN 0 ELSE 1)
      BY <2>3, <1>2 DEF Owed, OwedBy
    <3>3. OwedBy(l, conn[t], cache, q) = IF l = "bad" THEN 1 ELSE 0
      BY <2>3 DEF OwedBy
    <3>4. CASE failed
      BY <3>1, <3>2, <3>3, <3>4, <2>3, <1>5
    <3>5. CASE ~ failed
      BY <3>1, <3>2, <3>3, <3>5, <2>3
    <3> QED BY <3>4, <3>5
  <2> QED BY <2>1, <2>2, <2>3
<1>9. failed \in BOOLEAN /\ conn[t] \in Nat
  BY <1>t DEF failed, Reaches
<1> HIDE DEF l
<1>10. /\ DOMAIN stmtCache' = Thread /\ stmtCache'[t] = cache
       /\ \A u \in Thread : u # t => stmtCache'[u] = stmtCache[u]
  BY <1>0, <1>t
<1>11. Moves(t, p, l, conn[t], cache, failed, 0, 0)
  <2>1. conn[t] >= conn[t] /\ DOMAIN stage' = Thread
    BY <1>9, <1>t
  <2> QED BY <2>1, <1>0, <1>1, <1>6, <1>7, <1>8, <1>10, Zenon DEF Moves
<1> QED BY <1>4, <1>9, <1>11, SessionMoves

\* A new process has fresh connections and owes no call.
LEMMA CreateOwes ==
  ASSUME SessionInv, NEW command, Create(command)
  PROVE  SessionInv'
<1>1. SessionType'
  BY DEF SessionInv, SessionType, Create, NoStmts, Link
<1>2. PreparedIsCached'
  BY DEF SessionInv, PreparedIsCached, Create, Idle
<1>3. \A u \in Thread, q \in Query : refusals'[u][q] + Owed(u, q)' <= losses'[u] + outages'[u]
  <2>1. ASSUME NEW u \in Thread, NEW q \in Query PROVE Owed(u, q)' = 0 /\ Owed(u, q) >= 0
    BY DEF SessionInv, SessionType, Create, Owed, OwedBy, NoStmts
  <2>2. \A u \in Thread, q \in Query : /\ refusals[u][q] + Owed(u, q) <= losses[u] + outages[u]
                                        /\ refusals[u][q] \in Nat /\ losses[u] \in Nat /\ outages[u] \in Nat
                                        /\ Owed(u, q) \in Int
    BY DEF SessionInv, SessionType, Owed, OwedBy
  <2> QED BY <2>1, <2>2 DEF Create
<1> QED BY <1>1, <1>2, <1>3 DEF SessionInv

\* Each step preserves SessionInv.
LEMMA SessionStep ==
  ASSUME SessionInv, [Next]_vars
  PROVE  SessionInv'
<1> USE DEF PreparedIsCached
<1>d. DOMAIN stage = Thread /\ DOMAIN call = Thread
  BY DEF SessionInv
<1>1. CASE UNCHANGED vars
  BY <1>1, <1>d, SessionFrame DEF vars, work
<1>2. ASSUME NEW command \in {"load", "run"}, Create(command) PROVE SessionInv'
  BY <1>2, CreateOwes
<1>3. ASSUME NEW t \in Thread, Begin(t) PROVE SessionInv'
  BY <1>3, <1>d, SessionFrame DEF Begin
<1>4. ASSUME NEW t \in Thread, Execute(t) PROVE SessionInv'
  BY <1>4, <1>d, SessionFrame DEF Execute, Request, Finish
<1>5. ASSUME NEW t \in Thread, Retry(t) PROVE SessionInv'
  BY <1>5, <1>d, SessionFrame DEF Retry
<1>6. ASSUME NEW t \in Thread, Return(t) PROVE SessionInv'
  BY <1>6, <1>d, SessionFrame DEF Return
<1>7. ASSUME NEW t \in Thread, Prepare(t) PROVE SessionInv'
  BY <1>7, PrepareOwes DEF Prepare, Finish
<1>8. ASSUME NEW t \in Thread, ExecStmt(t) PROVE SessionInv'
  BY <1>8, ExecOwes DEF ExecStmt, Request, Finish
<1>9. ASSUME NEW t \in Thread, LoseConnection(t) PROVE SessionInv'
  BY <1>9, LoseOwes DEF LoseConnection, work
<1>10. ASSUME NEW t \in Thread, ReadAndEncode(t) PROVE SessionInv'
  BY <1>10, <1>d, SessionFrame DEF ReadAndEncode
<1>11. ASSUME NEW t \in Thread, NothingToUpdate(t) PROVE SessionInv'
  BY <1>11, <1>d, SessionFrame DEF NothingToUpdate, Finish
<1>12. ASSUME NEW t \in Thread, ReadFails(t) PROVE SessionInv'
  BY <1>12, <1>d, SessionFrame DEF ReadFails, Finish
<1>13. ASSUME NEW t \in Thread, Write(t) PROVE SessionInv'
  BY <1>13, <1>d, SessionFrame DEF Write, Request, Finish
<1>14. ASSUME NEW t \in Thread, Abort(t) PROVE SessionInv'
  BY <1>14, <1>d, SessionFrame DEF Abort, Finish
<1>15. ASSUME NEW t \in Thread, CommitUnknown(t) PROVE SessionInv'
  BY <1>15, <1>d, SessionFrame DEF CommitUnknown
<1>16. ASSUME NEW t \in Thread, Panic(t) PROVE SessionInv'
  BY <1>16, <1>d, SessionFrame DEF Panic, work
<1> QED BY <1>1, <1>2, <1>3, <1>4, <1>5, <1>6, <1>7, <1>8, <1>9, <1>10, <1>11, <1>12,
           <1>13, <1>14, <1>15, <1>16 DEF Next

\* Every connection that is lost, and every one that cannot be built, costs every
\* query of a worker at most one failed call (getAndCacheStmt,
\* clearCacheIfFailed), however many there are and whatever else fails.
THEOREM OneRefusalPerFaultHolds == Spec => []OneRefusalPerFault
<1>1. Init => SessionInv
  BY DEF Init, InitThread, SessionInv, SessionType, PreparedIsCached, Owed, OwedBy, NoStmts, Link
<1>2. SessionInv /\ [Next]_vars => SessionInv'
  BY SessionStep
<1>3. SessionInv => OneRefusalPerFault
  BY DEF SessionInv, SessionType, Owed, OwedBy, OneRefusalPerFault
<1> QED BY <1>1, <1>2, <1>3, PTL DEF Spec

=============================================================================
