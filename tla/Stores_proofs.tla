--------------------------- MODULE Stores_proofs ----------------------------
(***************************************************************************)
(* What the stores of a cluster promise, for any set of nodes and any      *)
(* number of concurrent requests: an acknowledged Put has its copies, or   *)
(* had no peers to ask for them.                                           *)
(***************************************************************************)
EXTENDS Replication_proofs

-----------------------------------------------------------------------------
(* What no step changes *)

\* As many nodes have stored the value of Put p as it needed.
Enough(p) == Cardinality(applied[p]) >= need[p]

\* Only its own node has stored the value of Put p, it needed more, and no
\* Replicate is under way that could still store it.
Short(p) ==
  /\ applied[p] = {at[p]}
  /\ ~ Enough(p)
  /\ \A m \in Node : rpc[p][m] = "none"

\* Discovery never makes a node its own peer.
Others == \A n \in Node : n \notin peers[n]

\* A Put stores at its own node before it asks the peers, a served Replicate
\* has stored at its peer, no RPC goes to the node itself, and only a Put that
\* is done has reported success.
Copies ==
  /\ \A p \in Put : pc[p] \in {"idle", "store"} => applied[p] = {}
  /\ \A p \in Put : pc[p] = "send" => applied[p] = {at[p]}
  /\ \A p \in Put : pc[p] \in {"wait", "done"} => at[p] \in applied[p]
  /\ \A o \in Op, m \in Node : rpc[o][m] # "none" => m # at[o]
  /\ \A p \in Put, m \in Node : rpc[p][m] = "served" => m \in applied[p]
  /\ \A p \in Put : resp[p].kind = "success" => pc[p] = "done"

\* What Copies says of one Put.
Copied(p) ==
  /\ pc[p] \in {"idle", "store"} => applied[p] = {}
  /\ pc[p] = "send" => applied[p] = {at[p]}
  /\ pc[p] \in {"wait", "done"} => at[p] \in applied[p]
  /\ \A m \in Node : rpc[p][m] = "served" => m \in applied[p]
  /\ resp[p].kind = "success" => pc[p] = "done"

\* An acknowledged Put has its copies or will never have them.
AckedOrShort ==
  \A p \in Put : resp[p].kind = "success" => Enough(p) \/ Short(p)

\* Nothing in this invariant depends on R and W, nor on the peers beyond
\* Others, so it also survives their changes.
CopiesInv == TypeInv /\ Others /\ Copies /\ AckedOrShort

\* A request that has begun keeps its node, key and timestamp and the Puts it
\* comes after, an acknowledged Put its response and what it needed, and
\* copies and regressions stay.
Frame ==
  /\ \A o \in Op : pc[o] # "idle" =>
       pc'[o] # "idle" /\ at'[o] = at[o] /\ key'[o] = key[o]
  /\ \A p \in Put : pc[p] # "idle" => ts'[p] = ts[p]
  /\ \A g \in Get : pc[g] # "idle" => before'[g] = before[g]
  /\ \A p \in Put : resp[p].kind = "success" =>
       resp'[p] = resp[p] /\ need'[p] = need[p]
  /\ \A p \in Put : applied[p] \subseteq applied'[p]
  /\ regressed => regressed'

\* Storing a value adds a copy and takes none away.
LEMMA CopiesGrow ==
  ASSUME TypeOK, NEW n \in Node, NEW p \in Put, NEW t, PutWithHLC(n, p, t)
  PROVE  /\ \A q \in Put : applied[q] \subseteq applied'[q]
         /\ applied'[p] = applied[p] \cup {n}
         /\ \A q \in Put : q # p => applied'[q] = applied[q]
<1>1. applied' = [applied EXCEPT ![p] = @ \cup {n}] /\ DOMAIN applied = Put
  BY DEF PutWithHLC, TypeOK
<1> QED BY <1>1

\* Every step of the handlers is within the frame.
LEMMA FrameStep ==
  ASSUME CopiesInv, [Next]_vars
  PROVE  Frame
<1>1. TypeOK /\ Started /\ Copies
  BY DEF CopiesInv, TypeInv
<1>2. \A o \in Put : o \in Op /\ o \notin Get
  BY ConfigAssumption DEF Op
<1>3. \A o \in Get : o \in Op /\ o \notin Put
  BY ConfigAssumption DEF Op
<1>10. ASSUME NEW p \in Put, NEW n \in Node, NEW k \in Key, NEW now \in Time,
             StartPut(p, n, k, now)
       PROVE  Frame
  <2>1. /\ pc[p] = "idle" /\ pc' = [pc EXCEPT ![p] = "store"]
        /\ at' = [at EXCEPT ![p] = n] /\ key' = [key EXCEPT ![p] = k]
        /\ \E x : ts' = [ts EXCEPT ![p] = x]
        /\ UNCHANGED <<before, resp, need, applied, regressed>>
    BY <1>10 DEF StartPut, histVars
  <2>2. DOMAIN pc = Op /\ DOMAIN at = Op /\ DOMAIN key = Op /\ DOMAIN ts = Put
    BY <1>1 DEF TypeOK
  <2>3. \A o \in Op : pc[o] # "idle" =>
          pc'[o] # "idle" /\ at'[o] = at[o] /\ key'[o] = key[o]
    BY <1>2, <2>1, <2>2
  <2>4. \A q \in Put : pc[q] # "idle" => ts'[q] = ts[q]
    BY <2>1, <2>2
  <2> QED BY <2>1, <2>3, <2>4 DEF Frame
<1>11. ASSUME NEW p \in Put, StorePut(p)
       PROVE  Frame
  <2>1. \A q \in Put : applied[q] \subseteq applied'[q]
    BY <1>1, <1>2, <1>11, CopiesGrow DEF StorePut, Started
  <2> QED BY <1>1, <1>2, <1>11, <2>1
          DEF StorePut, PutWithHLC, Frame, TypeOK
<1>12. ASSUME NEW p \in Put, SendPut(p)
       PROVE  Frame
  <2>1. /\ \E x \in {"wait", "done"} : pc' = [pc EXCEPT ![p] = x]
        /\ UNCHANGED resp \/ \E x : resp' = [resp EXCEPT ![p] = x]
        /\ \E x : need' = [need EXCEPT ![p] = x]
        /\ pc[p] = "send"
        /\ UNCHANGED <<at, key, ts, before, applied, regressed>>
    BY Zenon, <1>12 DEF SendPut, histVars
  <2> QED BY <1>1, <1>2, <2>1 DEF Frame, TypeOK, Copies
<1>13. ASSUME NEW p \in Put, NEW m \in Node, NEW now \in Time,
              ServeReplicate(p, m, now)
       PROVE  Frame
  BY <1>13 DEF ServeReplicate, Frame
<1>20. ASSUME NEW p \in Put, NEW m \in Node, StoreReplicate(p, m)
       PROVE  Frame
  <2>1. \A q \in Put : applied[q] \subseteq applied'[q]
    BY <1>1, <1>2, <1>20, CopiesGrow DEF StoreReplicate
  <2> QED BY <1>1, <1>2, <1>20, <2>1
          DEF StoreReplicate, PutWithHLC, Frame, TypeOK
<1>14. ASSUME NEW p \in Put, NEW acked \in SUBSET Node, FinishPut(p, acked)
       PROVE  Frame
  <2>1. /\ pc' = [pc EXCEPT ![p] = "done"]
        /\ \E x : resp' = [resp EXCEPT ![p] = x]
        /\ pc[p] = "wait"
        /\ UNCHANGED <<at, key, ts, need, before, applied, regressed>>
    BY Zenon, <1>14 DEF FinishPut, ResultsClosed, histVars
  <2> QED BY <1>1, <1>2, <2>1 DEF Frame, TypeOK, Copies
<1>15. ASSUME NEW g \in Get, NEW n \in Node, NEW k \in Key, StartGet(g, n, k)
       PROVE  Frame
  BY <1>1, <1>2, <1>3, <1>15 DEF StartGet, Frame, TypeOK
<1>16. ASSUME NEW g \in Get, NEW now \in Time, QueryGet(g, now)
       PROVE  Frame
  <2>1. /\ \E x \in {"wait", "done"} : pc' = [pc EXCEPT ![g] = x]
        /\ UNCHANGED resp \/ \E x : resp' = [resp EXCEPT ![g] = x]
        /\ \E x : need' = [need EXCEPT ![g] = x]
        /\ UNCHANGED <<at, key, ts, before, applied, regressed>>
    BY Zenon, <1>16 DEF QueryGet, histVars
  <2> QED BY <1>1, <1>2, <1>3, <2>1 DEF Frame, TypeOK
<1>17. ASSUME NEW g \in Get, NEW m \in Node, ServeGetLocal(g, m)
       PROVE  Frame
  BY <1>17 DEF ServeGetLocal, Frame, histVars
<1>18. ASSUME NEW g \in Get, NEW arrived \in Arrivals(g), NEW now \in Time,
              FinishGet(g, arrived, now)
       PROVE  Frame
  <2>1. /\ pc' = [pc EXCEPT ![g] = "done"]
        /\ \E x : resp' = [resp EXCEPT ![g] = x]
        /\ UNCHANGED <<at, key, ts, need, before, applied, regressed>>
    BY Zenon, <1>18 DEF FinishGet, histVars
  <2> QED BY <1>1, <1>2, <1>3, <2>1 DEF Frame, TypeOK
<1>19. ASSUME UNCHANGED vars
       PROVE  Frame
  BY <1>19 DEF vars, reqVars, histVars, Frame
<1> QED
  BY <1>10, <1>11, <1>12, <1>13, <1>14, <1>15, <1>16, <1>17, <1>18, <1>19,
     <1>20 DEF Next, AllAnswered

\* A Put that was acknowledged short of its copies stays so.
KeepsShort ==
  \A p \in Put : resp[p].kind = "success" /\ Short(p) => Short(p)'

\* No handler stores the value of a Put that is done and has no RPC under way.
LEMMA KeepsShortStep ==
  ASSUME CopiesInv, Frame, [Next]_vars
  PROVE  KeepsShort
<1>1. TypeOK /\ Started /\ Copies
  BY DEF CopiesInv, TypeInv
<1>2. \A o \in Put : o \in Op /\ o \notin Get
  BY ConfigAssumption DEF Op
<1>3. \A o \in Get : o \in Op /\ o \notin Put
  BY ConfigAssumption DEF Op
<1>4. DOMAIN rpc = Op /\ DOMAIN applied = Put
  BY <1>1 DEF TypeOK
<1> SUFFICES ASSUME NEW p \in Put, resp[p].kind = "success", Short(p)
             PROVE  Short(p)'
  BY DEF KeepsShort
<1>5. pc[p] = "done" /\ \A m \in Node : rpc[p][m] = "none"
  BY <1>1 DEF Copies, Short
<1>6. SUFFICES applied'[p] = applied[p] /\ rpc'[p] = rpc[p]
  <2>1. at'[p] = at[p] /\ need'[p] = need[p]
    BY <1>2, <1>5 DEF Frame
  <2> QED BY <1>6, <2>1 DEF Short, Enough
<1>7. ASSUME NEW o \in Op, o # p, UNCHANGED applied,
             UNCHANGED rpc \/ \E x : rpc' = [rpc EXCEPT ![o] = x]
      PROVE  applied'[p] = applied[p] /\ rpc'[p] = rpc[p]
  BY <1>2, <1>4, <1>7
<1>10. ASSUME NEW q \in Put, NEW n \in Node, NEW k \in Key, NEW now \in Time,
             StartPut(q, n, k, now)
       PROVE  applied'[p] = applied[p] /\ rpc'[p] = rpc[p]
  BY <1>10 DEF StartPut, histVars
<1>11. ASSUME NEW q \in Put, StorePut(q)
       PROVE  applied'[p] = applied[p] /\ rpc'[p] = rpc[p]
  <2>1. q # p /\ at[q] \in Node /\ PutWithHLC(at[q], q, ts[q]) /\ UNCHANGED rpc
    BY <1>1, <1>2, <1>5, <1>11 DEF StorePut, Started
  <2> QED BY <1>1, <2>1, CopiesGrow
<1>12. ASSUME NEW q \in Put, SendPut(q)
       PROVE  applied'[p] = applied[p] /\ rpc'[p] = rpc[p]
  <2>1. q # p /\ UNCHANGED applied
    BY <1>5, <1>12 DEF SendPut, histVars
  <2>2. UNCHANGED rpc \/ \E x : rpc' = [rpc EXCEPT ![q] = x]
    BY Zenon, <1>12 DEF SendPut, FanOut
  <2> QED BY <1>2, <1>7, <2>1, <2>2
<1>13. ASSUME NEW q \in Put, NEW m \in Node, NEW now \in Time,
              ServeReplicate(q, m, now)
       PROVE  applied'[p] = applied[p] /\ rpc'[p] = rpc[p]
  <2>1. /\ q # p /\ UNCHANGED applied
        /\ \E x : rpc' = [rpc EXCEPT ![q][m] = x]
    BY <1>5, <1>13 DEF ServeReplicate
  <2> QED BY <1>2, <1>4, <2>1
<1>20. ASSUME NEW q \in Put, NEW m \in Node, StoreReplicate(q, m)
       PROVE  applied'[p] = applied[p] /\ rpc'[p] = rpc[p]
  <2>1. /\ q # p /\ PutWithHLC(m, q, ts[q])
        /\ \E x : rpc' = [rpc EXCEPT ![q][m] = x]
    BY <1>5, <1>20 DEF StoreReplicate
  <2>2. rpc'[p] = rpc[p]
    BY <1>2, <1>4, <2>1
  <2> QED BY <1>1, <2>1, <2>2, CopiesGrow
<1>14. ASSUME NEW q \in Put, NEW acked \in SUBSET Node, FinishPut(q, acked)
       PROVE  applied'[p] = applied[p] /\ rpc'[p] = rpc[p]
  <2>1. /\ q # p /\ UNCHANGED applied
        /\ \E x : rpc' = [rpc EXCEPT ![q] = x]
    BY <1>5, <1>14 DEF FinishPut, ResultsClosed, histVars
  <2> QED BY <1>2, <1>7, <2>1
<1>15. ASSUME NEW g \in Get, NEW n \in Node, NEW k \in Key, StartGet(g, n, k)
       PROVE  applied'[p] = applied[p] /\ rpc'[p] = rpc[p]
  BY <1>15 DEF StartGet
<1>16. ASSUME NEW g \in Get, NEW now \in Time, QueryGet(g, now)
       PROVE  applied'[p] = applied[p] /\ rpc'[p] = rpc[p]
  <2>1. UNCHANGED applied /\ (UNCHANGED rpc \/ \E x : rpc' = [rpc EXCEPT ![g] = x])
    BY Zenon, <1>16 DEF QueryGet, FanOut, histVars
  <2> QED BY <1>2, <1>3, <1>7, <2>1
<1>17. ASSUME NEW g \in Get, NEW m \in Node, ServeGetLocal(g, m)
       PROVE  applied'[p] = applied[p] /\ rpc'[p] = rpc[p]
  <2>1. UNCHANGED applied /\ rpc' = [rpc EXCEPT ![g][m] = "served"]
    BY <1>17 DEF ServeGetLocal, histVars
  <2> QED BY <1>2, <1>3, <1>4, <2>1
<1>18. ASSUME NEW g \in Get, NEW arrived \in Arrivals(g), NEW now \in Time,
              FinishGet(g, arrived, now)
       PROVE  applied'[p] = applied[p] /\ rpc'[p] = rpc[p]
  <2>1. UNCHANGED applied /\ rpc' = [rpc EXCEPT ![g] = [m \in Node |-> "none"]]
    BY Zenon, <1>18 DEF FinishGet, histVars
  <2> QED BY <1>2, <1>3, <1>4, <2>1
<1>19. ASSUME UNCHANGED vars
       PROVE  applied'[p] = applied[p] /\ rpc'[p] = rpc[p]
  BY <1>19 DEF vars, reqVars, histVars
<1> QED
  BY <1>10, <1>11, <1>12, <1>13, <1>14, <1>15, <1>16, <1>17, <1>18, <1>19,
     <1>20 DEF Next, AllAnswered

-----------------------------------------------------------------------------
(* Copies of acknowledged writes *)

\* The successCount of Coordinator.Replicate never exceeds the copies: every
\* ack comes from another node that has stored the value, and the node itself
\* has stored it.
LEMMA CountedAreCopies ==
  ASSUME CopiesInv, NEW p \in Put, NEW acked \in SUBSET Node,
         FinishPut(p, acked)
  PROVE  SuccessCount(p, acked) <= Cardinality(applied[p])
<1>1. at[p] \in applied[p] /\ applied[p] \in SUBSET Node
  BY DEF FinishPut, ResultsClosed, CopiesInv, Copies, TypeInv, TypeOK
<1>2. acked \subseteq applied[p] /\ at[p] \notin acked
  BY DEF FinishPut, Served, CopiesInv, Copies, Op
<1>3. IsFiniteSet(applied[p]) /\ IsFiniteSet(acked)
  BY <1>1, FS_Subset, ConfigAssumption
<1>4. Cardinality(acked \cup {at[p]}) = Cardinality(acked) + 1
  BY Zenon, <1>2, <1>3, FS_AddElement
<1>5. Cardinality(acked \cup {at[p]}) <= Cardinality(applied[p])
  BY <1>1, <1>2, <1>3, FS_Subset
<1>6. Cardinality(acked) \in Nat /\ Cardinality(applied[p]) \in Nat
  BY <1>3, FS_CardinalityType
<1> QED BY <1>4, <1>5, <1>6 DEF SuccessCount

\* A Put that Coordinator.Replicate has waited for is a success only with as
\* many copies as it needed.
LEMMA FinishedIsEnough ==
  ASSUME CopiesInv, NEW p \in Put, NEW acked \in SUBSET Node,
         FinishPut(p, acked), resp'[p].kind = "success"
  PROVE  Enough(p)'
<1>1. SuccessCount(p, acked) \in Int /\ need[p] \in Int
  <2>1. Cardinality(acked) \in Nat
    BY FS_Subset, FS_CardinalityType, ConfigAssumption
  <2>2. need[p] \in Int
    BY DEF CopiesInv, TypeInv, TypeOK, Op
  <2> QED BY <2>1, <2>2 DEF SuccessCount
<1>2. ~ (SuccessCount(p, acked) < need[p])
  <2>1. p \in Op /\ DOMAIN resp = Op
    BY DEF CopiesInv, TypeInv, TypeOK, Op
  <2>2. resp' = [resp EXCEPT ![p] =
                   IF SuccessCount(p, acked) < need[p]
                   THEN Response("error", None)
                   ELSE Response("success", None)]
    BY DEF FinishPut
  <2> QED BY <2>1, <2>2 DEF Response
<1>3. SuccessCount(p, acked) <= Cardinality(applied[p])
  BY CountedAreCopies
<1>4. Cardinality(applied[p]) \in Nat
  <2>1. applied[p] \in SUBSET Node
    BY DEF CopiesInv, TypeInv, TypeOK
  <2> QED BY <2>1, FS_Subset, FS_CardinalityType, ConfigAssumption
<1>5. UNCHANGED <<need, applied>>
  BY DEF FinishPut, histVars
<1>6. Cardinality(applied[p]) >= need[p]
  BY <1>1, <1>2, <1>3, <1>4
<1> QED BY <1>5, <1>6 DEF Enough

\* Without peers Coordinator.Replicate leaves the Put with its own copy only.
LEMMA AloneHasOne ==
  ASSUME CopiesInv, NEW p \in Put, SendPut(p), peers[at[p]] = {}
  PROVE  applied'[p] = {at'[p]} /\ \A m \in Node : rpc'[p][m] = "none"
<1>1. p \in Op /\ pc[p] = "send" /\ UNCHANGED <<at, applied, rpc>>
  BY Zenon DEF SendPut, Op, histVars
<1>2. applied[p] = {at[p]} /\ \A m \in Node : rpc[p][m] = "none"
  BY <1>1 DEF CopiesInv, Copies, TypeInv, Started
<1> QED BY <1>1, <1>2

\* Only these two steps report a success.
LEMMA NewlyAcked ==
  ASSUME CopiesInv, [Next]_vars, NEW p \in Put,
         resp[p].kind # "success", resp'[p].kind = "success"
  PROVE  \/ SendPut(p) /\ peers[at[p]] = {}
         \/ \E acked \in SUBSET Node : FinishPut(p, acked)
<1>1. DOMAIN resp = Op /\ p \in Op
  BY DEF CopiesInv, TypeInv, TypeOK, Op
<1>2. ASSUME NEW o \in Op, o # p,
             UNCHANGED resp \/ \E x : resp' = [resp EXCEPT ![o] = x]
      PROVE  FALSE
  BY <1>1, <1>2
<1>4. ASSUME NEW q \in Put,
              \/ \E n \in Node, k \in Key, now \in Time : StartPut(q, n, k, now)
              \/ StorePut(q)
              \/ \E m \in Node, now \in Time : ServeReplicate(q, m, now)
              \/ \E m \in Node : StoreReplicate(q, m)
      PROVE  FALSE
  <2>1. UNCHANGED resp
    BY Zenon, <1>4 DEF StartPut, StorePut, ServeReplicate, StoreReplicate
  <2> QED BY <2>1
<1>5. ASSUME NEW g \in Get,
               \/ \E n \in Node, k \in Key : StartGet(g, n, k)
               \/ \E now \in Time : QueryGet(g, now)
               \/ \E m \in Node : ServeGetLocal(g, m)
               \/ \E arrived \in Arrivals(g), now \in Time :
                    FinishGet(g, arrived, now)
      PROVE  FALSE
  <2>1. UNCHANGED resp \/ \E x : resp' = [resp EXCEPT ![g] = x]
    BY Zenon, <1>5 DEF StartGet, QueryGet, ServeGetLocal, FinishGet
  <2>2. g \in Op /\ g # p
    BY ConfigAssumption DEF Op
  <2> QED BY Zenon, <1>2, <2>1, <2>2
<1>6. ASSUME NEW q \in Put, SendPut(q)
      PROVE  SendPut(p) /\ peers[at[p]] = {}
  <2>1. \/ UNCHANGED resp
        \/ peers[at[q]] = {} /\ \E x : resp' = [resp EXCEPT ![q] = x]
    BY Zenon, <1>6 DEF SendPut
  <2>2. ~ UNCHANGED resp
    OBVIOUS
  <2>3. q = p
    BY Zenon, <1>2, <2>1, <2>2 DEF Op
  <2> QED BY Zenon, <1>6, <2>1, <2>2, <2>3
<1>7. ASSUME NEW q \in Put, NEW acked \in SUBSET Node, FinishPut(q, acked)
      PROVE  \E a \in SUBSET Node : FinishPut(p, a)
  <2>1. \E x : resp' = [resp EXCEPT ![q] = x]
    BY Zenon, <1>7 DEF FinishPut
  <2>2. q = p
    BY Zenon, <1>2, <2>1 DEF Op
  <2> QED BY Zenon, <1>7, <2>2
<1>8. ~ UNCHANGED vars
  BY DEF vars, reqVars
<1> QED BY Zenon, <1>4, <1>5, <1>6, <1>7, <1>8 DEF Next, AllAnswered

\* An acknowledged Put with enough copies keeps them.
LEMMA EnoughStays ==
  ASSUME CopiesInv, TypeInv', Frame, NEW p \in Put, resp[p].kind = "success",
         Enough(p)
  PROVE  Enough(p)'
<1>1. need'[p] = need[p] /\ need[p] \in Int /\ applied[p] \subseteq applied'[p]
  BY DEF Frame, CopiesInv, TypeInv, TypeOK, Op
<1>2. applied[p] \in SUBSET Node /\ applied'[p] \in SUBSET Node
  BY DEF CopiesInv, TypeInv, TypeOK
<1>3. Cardinality(applied[p]) <= Cardinality(applied'[p])
  BY <1>1, <1>2, FS_Subset, ConfigAssumption
<1>4. Cardinality(applied[p]) \in Nat /\ Cardinality(applied'[p]) \in Nat
  BY <1>2, FS_Subset, FS_CardinalityType, ConfigAssumption
<1> QED BY <1>1, <1>3, <1>4 DEF Enough

\* An acknowledged Put keeps its copies, or stays short of them.
LEMMA AckedOrShortStep ==
  ASSUME CopiesInv, TypeInv', Frame, KeepsShort, [Next]_vars
  PROVE  AckedOrShort'
<1> SUFFICES ASSUME NEW p \in Put, resp'[p].kind = "success"
             PROVE  Enough(p)' \/ Short(p)'
  BY DEF AckedOrShort
<1>1. CASE resp[p].kind = "success" /\ Enough(p)
  BY <1>1, EnoughStays
<1>2. CASE resp[p].kind = "success" /\ Short(p)
  BY <1>2 DEF KeepsShort
<1>3. CASE resp[p].kind # "success"
  <2>1. CASE SendPut(p) /\ peers[at[p]] = {}
    BY <2>1, AloneHasOne DEF Short
  <2>2. ASSUME NEW acked \in SUBSET Node, FinishPut(p, acked)
        PROVE  Enough(p)'
    BY <2>2, FinishedIsEnough
  <2> QED BY Zenon, <1>3, <2>1, <2>2, NewlyAcked
<1> QED BY <1>1, <1>2, <1>3 DEF CopiesInv, AckedOrShort

\* No handler changes the configuration.
LEMMA ConfStays ==
  ASSUME [Next]_vars
  PROVE  UNCHANGED confVars
<1>1. ASSUME NEW p \in Put,
             \/ \E n \in Node, k \in Key, now \in Time : StartPut(p, n, k, now)
             \/ StorePut(p)
             \/ SendPut(p)
             \/ \E m \in Node, now \in Time : ServeReplicate(p, m, now)
             \/ \E m \in Node : StoreReplicate(p, m)
             \/ \E acked \in SUBSET Node : FinishPut(p, acked)
      PROVE  UNCHANGED confVars
  BY Zenon, <1>1
     DEF StartPut, StorePut, SendPut, ServeReplicate, StoreReplicate, FinishPut,
         confVars
<1>2. ASSUME NEW g \in Get,
             \/ \E n \in Node, k \in Key : StartGet(g, n, k)
             \/ \E now \in Time : QueryGet(g, now)
             \/ \E m \in Node : ServeGetLocal(g, m)
             \/ \E arrived \in Arrivals(g), now \in Time :
                  FinishGet(g, arrived, now)
      PROVE  UNCHANGED confVars
  BY Zenon, <1>2 DEF StartGet, QueryGet, ServeGetLocal, FinishGet, confVars
<1>3. UNCHANGED vars => UNCHANGED confVars
  BY Zenon DEF vars, confVars
<1> QED BY Zenon, <1>1, <1>2, <1>3 DEF Next, AllAnswered

\* A step of request o leaves the copies of the other requests as they are.
LEMMA CopiesFrame ==
  ASSUME Copies, Put \subseteq Op, NEW o \in Op,
         \A q \in Put \ {o} :
           /\ pc'[q] = pc[q] /\ at'[q] = at[q] /\ applied'[q] = applied[q]
           /\ rpc'[q] = rpc[q] /\ resp'[q] = resp[q],
         \A r \in Op \ {o} : at'[r] = at[r] /\ rpc'[r] = rpc[r],
         \A m \in Node : rpc'[o][m] # "none" => m # at'[o],
         o \in Put => Copied(o)'
  PROVE  Copies'
<1>1. ASSUME NEW r \in Op, NEW m \in Node, rpc'[r][m] # "none" PROVE m # at'[r]
  <2>1. CASE r = o
    BY <1>1, <2>1
  <2>2. CASE r # o
    <3>1. at'[r] = at[r] /\ rpc'[r] = rpc[r]
      BY <2>2
    <3>2. rpc[r][m] # "none" => m # at[r]
      BY DEF Copies
    <3> QED BY <1>1, <3>1, <3>2
  <2> QED BY <2>1, <2>2
<1>2. ASSUME NEW q \in Put \ {o} PROVE Copied(q)'
  <2>1. Copied(q)
    BY DEF Copies, Copied
  <2> QED BY <2>1 DEF Copied
<1>3. \A q \in Put : Copied(q)'
  BY <1>2
<1> QED BY <1>1, <1>3 DEF Copies, Copied

\* Every step of the handlers keeps the copies.
LEMMA CopiesStep ==
  ASSUME CopiesInv, [Next]_vars
  PROVE  CopiesInv'
<1>1. TypeInv' /\ TypeInv /\ TypeOK /\ Copies
  BY TypeStep DEF CopiesInv, TypeInv
<1>2. Others' /\ \A n \in Node : n \notin peers[n]
  BY ConfStays DEF CopiesInv, Others, confVars
<1>3. \A o \in Put : o \in Op /\ o \notin Get
  BY ConfigAssumption DEF Op
<1>4. \A o \in Get : o \in Op /\ o \notin Put
  BY ConfigAssumption DEF Op
<1>5. AckedOrShort'
  BY <1>1, FrameStep, KeepsShortStep, AckedOrShortStep
<1>6. SUFFICES Copies'
  BY <1>1, <1>2, <1>5 DEF CopiesInv
<1>7. \A q \in Put : Copied(q)
  BY <1>1 DEF Copies, Copied
<1>8. Put \subseteq Op /\ \A o \in Op, m \in Node : rpc[o][m] # "none" => m # at[o]
  BY <1>1, <1>3 DEF Copies
<1>9. /\ DOMAIN pc = Op /\ DOMAIN at = Op /\ DOMAIN need = Op /\ DOMAIN resp = Op
      /\ DOMAIN rpc = Op /\ \A o \in Op : DOMAIN rpc[o] = Node
  BY <1>1 DEF TypeOK
<1>10. ASSUME NEW p \in Put, NEW n \in Node, NEW k \in Key, NEW now \in Time,
             StartPut(p, n, k, now)
       PROVE  Copies'
  <2>1. /\ pc[p] = "idle" /\ pc' = [pc EXCEPT ![p] = "store"]
        /\ at' = [at EXCEPT ![p] = n] /\ UNCHANGED <<rpc, applied, need, resp>>
    BY <1>10 DEF StartPut, histVars
  <2>2. \A m \in Node : rpc[p][m] = "none"
    BY <1>1, <1>3, <2>1 DEF TypeInv, Started
  <2>3. /\ p \in Op /\ pc'[p] = "store"
        /\ \A q \in Op \ {p} : pc'[q] = pc[q] /\ at'[q] = at[q]
    BY <1>3, <1>9, <2>1
  <2>4. resp[p].kind # "success" /\ applied[p] = {}
    BY <1>7, <2>1 DEF Copied
  <2>5. Copied(p)'
    BY <2>1, <2>2, <2>3, <2>4 DEF Copied
  <2> QED BY <1>1, <1>8, <2>1, <2>2, <2>3, <2>5, CopiesFrame
<1>11. ASSUME NEW p \in Put, StorePut(p)
       PROVE  Copies'
  <2>1. /\ at[p] \in Node /\ PutWithHLC(at[p], p, ts[p]) /\ pc[p] = "store"
        /\ pc' = [pc EXCEPT ![p] = "send"]
        /\ UNCHANGED <<at, need, rpc, resp>>
    BY <1>1, <1>3, <1>11 DEF StorePut, TypeInv, Started
  <2>2. /\ applied'[p] = {at[p]}
        /\ \A q \in Put : q # p => applied'[q] = applied[q]
    <3>1. applied[p] = {}
      BY <1>7, <2>1 DEF Copied
    <3> QED BY <1>1, <2>1, <3>1, CopiesGrow
  <2>3. p \in Op /\ pc'[p] = "send" /\ \A q \in Op \ {p} : pc'[q] = pc[q]
    BY <1>3, <1>9, <2>1
  <2>4. \A m \in Node : rpc[p][m] = "none"
    BY <1>1, <1>3, <2>1 DEF TypeInv, Started
  <2>5. resp[p].kind # "success"
    BY <1>7, <2>1 DEF Copied
  <2>6. Copied(p)'
    BY <2>1, <2>2, <2>3, <2>4, <2>5 DEF Copied
  <2> QED BY <1>1, <1>8, <2>1, <2>2, <2>3, <2>4, <2>6, CopiesFrame
<1>12. ASSUME NEW p \in Put, SendPut(p)
       PROVE  Copies'
  <2>1. /\ at[p] \in Node /\ applied[p] = {at[p]} /\ pc[p] = "send"
        /\ UNCHANGED <<at, applied>>
    BY <1>1, <1>3, <1>12 DEF SendPut, TypeInv, Started, Copies, histVars
  <2>2. CASE /\ pc' = [pc EXCEPT ![p] = "done"]
             /\ \E x : resp' = [resp EXCEPT ![p] = x]
             /\ UNCHANGED rpc
    <3>1. /\ p \in Op /\ pc'[p] = "done"
          /\ \A q \in Op \ {p} : pc'[q] = pc[q] /\ resp'[q] = resp[q]
      BY <1>3, <1>9, <2>2
    <3>2. \A m \in Node : rpc[p][m] = "served" => m \in applied[p]
      BY <1>7 DEF Copied
    <3>3. Copied(p)'
      BY <2>1, <2>2, <3>1, <3>2 DEF Copied
    <3> QED BY <1>1, <1>8, <2>1, <2>2, <3>1, <3>3, CopiesFrame
  <2>3. CASE FanOut(p) /\ pc' = [pc EXCEPT ![p] = "wait"] /\ UNCHANGED resp
    <3>1. /\ \A q \in Op \ {p} : rpc'[q] = rpc[q]
          /\ \A m \in Node :
               rpc'[p][m] = IF m \in peers[at[p]] THEN "sent" ELSE "none"
      BY <1>1, <1>3, <2>3, FanOutType
    <3>2. \A m \in Node : /\ rpc'[p][m] # "none" => m # at[p]
                          /\ rpc'[p][m] # "served"
      BY <1>2, <2>1, <3>1
    <3>3. p \in Op /\ pc'[p] = "wait" /\ \A q \in Op \ {p} : pc'[q] = pc[q]
      BY <1>3, <1>9, <2>3
    <3>4. resp[p].kind # "success"
      BY <1>7, <2>1 DEF Copied
    <3>5. Copied(p)'
      BY <2>1, <2>3, <3>2, <3>3, <3>4 DEF Copied
    <3> QED BY <1>1, <1>8, <2>1, <2>3, <3>1, <3>2, <3>3, <3>5, CopiesFrame
  <2> QED BY Zenon, <1>12, <2>2, <2>3 DEF SendPut
<1>13. ASSUME NEW p \in Put, NEW m \in Node, NEW now \in Time,
              ServeReplicate(p, m, now)
       PROVE  Copies'
  <2>1. /\ rpc[p][m] = "sent"
        /\ rpc' = [rpc EXCEPT ![p][m] = "seen"]
        /\ UNCHANGED <<pc, at, need, resp, applied>>
    BY <1>13 DEF ServeReplicate
  <2>2. m # at[p]
    BY <1>3, <1>8, <2>1
  <2>3. /\ p \in Op /\ rpc'[p][m] = "seen"
        /\ \A o \in Op \ {p} : rpc'[o] = rpc[o]
        /\ \A i \in Node \ {m} : rpc'[p][i] = rpc[p][i]
    BY <1>3, <1>9, <2>1
  <2>4. Copied(p)'
    BY <1>7, <2>1, <2>3 DEF Copied
  <2>5. \A i \in Node : rpc'[p][i] # "none" => i # at'[p]
    BY <1>8, <2>1, <2>2, <2>3
  <2> QED BY <1>1, <1>8, <2>1, <2>3, <2>4, <2>5, CopiesFrame
<1>20. ASSUME NEW p \in Put, NEW m \in Node, StoreReplicate(p, m)
       PROVE  Copies'
  <2>1. /\ rpc[p][m] = "seen"
        /\ PutWithHLC(m, p, ts[p])
        /\ rpc' = [rpc EXCEPT ![p][m] = IF pc[p] = "wait" THEN "served" ELSE "none"]
        /\ UNCHANGED <<pc, at, need, resp>>
    BY <1>20 DEF StoreReplicate
  <2>2. /\ applied'[p] = applied[p] \cup {m}
        /\ \A q \in Put : q # p => applied'[q] = applied[q]
    BY <1>1, <2>1, CopiesGrow
  <2>3. pc[p] \in {"wait", "done"} /\ m # at[p]
    BY <1>1, <1>3, <2>1 DEF TypeInv, Started, Copies
  <2>4. /\ p \in Op
        /\ \A o \in Op \ {p} : rpc'[o] = rpc[o]
        /\ \A i \in Node \ {m} : rpc'[p][i] = rpc[p][i]
    BY <1>3, <1>9, <2>1
  <2>5. /\ resp[p].kind = "success" => pc[p] = "done"
        /\ pc[p] \in {"wait", "done"} => at[p] \in applied[p]
        /\ \A i \in Node : rpc[p][i] = "served" => i \in applied[p]
    BY <1>7 DEF Copied
  <2>6. Copied(p)'
    BY <2>1, <2>2, <2>3, <2>4, <2>5 DEF Copied
  <2>7. \A i \in Node : rpc'[p][i] # "none" => i # at'[p]
    BY <1>8, <2>1, <2>3, <2>4
  <2> QED BY <1>1, <1>8, <2>1, <2>2, <2>4, <2>6, <2>7, CopiesFrame
<1>14. ASSUME NEW p \in Put, NEW acked \in SUBSET Node, FinishPut(p, acked)
       PROVE  Copies'
  <2>1. /\ pc[p] = "wait"
        /\ pc' = [pc EXCEPT ![p] = "done"]
        /\ rpc' = [rpc EXCEPT ![p] =
             [m \in Node |-> IF rpc[p][m] = "served" THEN "none" ELSE rpc[p][m]]]
        /\ \E x : resp' = [resp EXCEPT ![p] = x]
        /\ UNCHANGED <<at, need, applied>>
    BY <1>14 DEF FinishPut, ResultsClosed, histVars
  <2>2. /\ p \in Op /\ pc'[p] = "done"
        /\ \A q \in Op \ {p} : /\ pc'[q] = pc[q] /\ resp'[q] = resp[q]
                               /\ rpc'[q] = rpc[q]
    BY <1>3, <1>9, <2>1
  <2>3. \A m \in Node : rpc'[p][m] = IF rpc[p][m] = "served" THEN "none" ELSE rpc[p][m]
    BY <1>9, <2>1, <2>2
  <2>4. \A m \in Node : rpc'[p][m] # "none" => m # at'[p]
    BY <1>8, <2>1, <2>2, <2>3
  <2>5. at[p] \in applied[p]
    BY <1>7, <2>1 DEF Copied
  <2>6. at' = at /\ applied' = applied
    BY <2>1
  <2>7. Copied(p)'
    BY <2>2, <2>3, <2>5, <2>6 DEF Copied
  <2> QED BY <1>1, <1>8, <2>2, <2>4, <2>6, <2>7, CopiesFrame
<1>15. ASSUME NEW g \in Get, NEW n \in Node, NEW k \in Key, StartGet(g, n, k)
       PROVE  Copies'
  <2>1. /\ pc[g] = "idle" /\ \E x : pc' = [pc EXCEPT ![g] = x]
        /\ at' = [at EXCEPT ![g] = n] /\ UNCHANGED <<rpc, applied, need, resp>>
    BY <1>15 DEF StartGet
  <2>2. \A m \in Node : rpc[g][m] = "none"
    BY <1>1, <1>4, <2>1 DEF TypeInv, Started
  <2>3. \A q \in Put : pc'[q] = pc[q] /\ at'[q] = at[q]
    BY <1>3, <1>4, <1>9, <2>1
  <2>4. \A o \in Op \ {g} : at'[o] = at[o]
    BY <1>9, <2>1
  <2> QED BY <1>1, <1>4, <1>8, <2>1, <2>2, <2>3, <2>4, CopiesFrame
<1>16. ASSUME NEW g \in Get, NEW now \in Time, QueryGet(g, now)
       PROVE  Copies'
  <2>1. /\ UNCHANGED <<at, applied>>
        /\ \E x : pc' = [pc EXCEPT ![g] = x]
        /\ UNCHANGED resp \/ \E x : resp' = [resp EXCEPT ![g] = x]
        /\ UNCHANGED rpc \/ FanOut(g)
    BY Zenon, <1>16 DEF QueryGet, histVars
  <2>2. at[g] \in Node
    BY <1>1, <1>4, <1>16 DEF QueryGet, TypeInv, Started
  <2>3. \A q \in Put : pc'[q] = pc[q] /\ resp'[q] = resp[q]
    BY <1>3, <1>4, <1>9, <2>1
  <2>4. \A q \in Put : rpc'[q] = rpc[q]
    BY <1>1, <1>3, <1>4, <2>1, FanOutType
  <2>5. /\ \A o \in Op \ {g} : rpc'[o] = rpc[o]
        /\ \A m \in Node : rpc'[g][m] # "none" => m # at[g]
    <3>1. CASE UNCHANGED rpc
      BY <1>4, <1>8, <3>1
    <3>2. CASE FanOut(g)
      <4>1. /\ \A o \in Op \ {g} : rpc'[o] = rpc[o]
            /\ \A m \in Node :
                 rpc'[g][m] = IF m \in peers[at[g]] THEN "sent" ELSE "none"
        BY <1>1, <1>4, <3>2, FanOutType
      <4> QED BY <1>2, <2>2, <4>1
    <3> QED BY <2>1, <3>1, <3>2
  <2>6. at' = at /\ applied' = applied
    BY <2>1
  <2> QED BY <1>1, <1>4, <1>8, <2>3, <2>4, <2>5, <2>6, CopiesFrame
<1>17. ASSUME NEW g \in Get, NEW m \in Node, ServeGetLocal(g, m)
       PROVE  Copies'
  <2>1. /\ rpc[g][m] # "none" /\ \E x : rpc' = [rpc EXCEPT ![g][m] = x]
        /\ UNCHANGED <<pc, at, applied, need, resp>>
    BY <1>17 DEF ServeGetLocal, histVars
  <2>2. g \in Op /\ g \notin Put /\ \A o \in Op \ {g} : rpc'[o] = rpc[o]
    BY <1>4, <1>9, <2>1
  <2>3. \A i \in Node : rpc'[g][i] # "none" => i # at[g]
    BY <1>8, <1>9, <2>1, <2>2
  <2> QED BY <1>1, <1>8, <2>1, <2>2, <2>3, CopiesFrame
<1>18. ASSUME NEW g \in Get, NEW arrived \in Arrivals(g), NEW now \in Time,
              FinishGet(g, arrived, now)
       PROVE  Copies'
  <2>1. /\ \E x : resp' = [resp EXCEPT ![g] = x]
        /\ pc' = [pc EXCEPT ![g] = "done"]
        /\ rpc' = [rpc EXCEPT ![g] = [m \in Node |-> "none"]]
        /\ UNCHANGED <<at, need, applied>>
    BY Zenon, <1>18 DEF FinishGet, histVars
  <2>2. g \in Op /\ g \notin Put
    BY <1>4
  <2>3. rpc'[g] = [m \in Node |-> "none"] /\ \A o \in Op \ {g} : rpc'[o] = rpc[o]
    BY <1>9, <2>1, <2>2
  <2>4. \A o \in Op \ {g} : pc'[o] = pc[o] /\ resp'[o] = resp[o]
    BY <1>9, <2>1
  <2>5. \A m \in Node : rpc'[g][m] = "none"
    BY <2>3
  <2>6. at' = at /\ applied' = applied
    BY <2>1
  <2>7. \A q \in Put \ {g} : /\ pc'[q] = pc[q] /\ resp'[q] = resp[q]
                            /\ rpc'[q] = rpc[q]
    BY <1>8, <2>3, <2>4
  <2>8. \A o \in Op \ {g} : rpc'[o] = rpc[o]
    BY <2>3
  <2> QED BY <1>1, <1>8, <2>2, <2>5, <2>6, <2>7, <2>8, CopiesFrame
<1>19. ASSUME UNCHANGED vars
       PROVE  Copies'
  BY <1>1, <1>19 DEF vars, reqVars, histVars, Copies
<1> QED
  BY <1>10, <1>11, <1>12, <1>13, <1>14, <1>15, <1>16, <1>17, <1>18, <1>19,
     <1>20 DEF Next, AllAnswered

\* Initially there is nothing to keep.
LEMMA CopiesInit == Init => CopiesInv
<1> SUFFICES ASSUME Init PROVE CopiesInv
  OBVIOUS
<1>1. Copies /\ AckedOrShort
  BY DEF Init, Copies, AckedOrShort, Op, Response
<1>2. Others
  BY DEF Init, Others, ConfiguredPeers
<1> QED BY <1>1, <1>2, TypeInit DEF CopiesInv

-----------------------------------------------------------------------------
(* A cluster whose configuration does not change *)

\* Peers and quorum sizes are those of the configuration.
Static ==
  /\ peers = [n \in Node |-> Node \ {n}]
  /\ \E q \in InitialQuorums : quorum = [n \in Node |-> q]

\* Requests use the R and W of their node.
Asked ==
  /\ \A p \in Put : pc[p] \in {"wait", "done"} => need[p] = quorum[at[p]].w
  /\ \A g \in Get : pc[g] \in {"wait", "done"} => need[g] = quorum[at[g]].r

\* Without changes of the configuration no acknowledged Put is short.
StaticInv == CopiesInv /\ Static /\ Asked /\ AckedIsStored

\* Requests go on with the R and W they have read.
LEMMA AskedStep ==
  ASSUME CopiesInv, Asked, Frame, [Next]_vars
  PROVE  Asked'
<1>1. TypeOK
  BY DEF CopiesInv, TypeInv
<1>2. \A o \in Put : o \in Op /\ o \notin Get
  BY ConfigAssumption DEF Op
<1>3. \A o \in Get : o \in Op /\ o \notin Put
  BY ConfigAssumption DEF Op
<1>4. DOMAIN pc = Op /\ DOMAIN need = Op
  BY <1>1 DEF TypeOK
<1>5. quorum' = quorum
  BY ConfStays DEF confVars
<1>6. ASSUME UNCHANGED need,
             \A o \in Op : pc'[o] \in {"wait", "done"} => pc[o] \in {"wait", "done"}
      PROVE  Asked'
  <2>1. \A o \in Op : pc'[o] \in {"wait", "done"} =>
           pc[o] \in {"wait", "done"} /\ at'[o] = at[o]
    BY <1>6 DEF Frame
  <2> QED BY <1>2, <1>3, <1>5, <1>6, <2>1 DEF Asked
<1>10. ASSUME NEW p \in Put, NEW n \in Node, NEW k \in Key, NEW now \in Time,
             StartPut(p, n, k, now)
       PROVE  Asked'
  <2>1. UNCHANGED need /\ pc' = [pc EXCEPT ![p] = "store"]
    BY <1>10 DEF StartPut
  <2> QED BY <1>2, <1>4, <1>6, <2>1
<1>11. ASSUME NEW p \in Put, StorePut(p)
       PROVE  Asked'
  <2>1. UNCHANGED need /\ pc' = [pc EXCEPT ![p] = "send"]
    BY <1>11 DEF StorePut
  <2> QED BY <1>2, <1>4, <1>6, <2>1
<1>12. ASSUME NEW p \in Put, SendPut(p)
       PROVE  Asked'
  <2>1. /\ UNCHANGED at
        /\ need' = [need EXCEPT ![p] = quorum[at[p]].w]
        /\ \E x : pc' = [pc EXCEPT ![p] = x]
    BY <1>12 DEF SendPut
  <2>2. /\ \A o \in Op \ {p} : pc'[o] = pc[o] /\ need'[o] = need[o]
        /\ need'[p] = quorum[at[p]].w
    BY <1>2, <1>4, <2>1
  <2> QED BY <1>2, <1>3, <1>5, <2>1, <2>2 DEF Asked
<1>13. ASSUME NEW p \in Put, NEW m \in Node, NEW now \in Time,
              ServeReplicate(p, m, now)
       PROVE  Asked'
  BY <1>6, <1>13 DEF ServeReplicate
<1>20. ASSUME NEW p \in Put, NEW m \in Node, StoreReplicate(p, m)
       PROVE  Asked'
  BY <1>6, <1>20 DEF StoreReplicate
<1>14. ASSUME NEW p \in Put, NEW acked \in SUBSET Node, FinishPut(p, acked)
       PROVE  Asked'
  <2>1. UNCHANGED need /\ pc[p] = "wait" /\ pc' = [pc EXCEPT ![p] = "done"]
    BY <1>14 DEF FinishPut, ResultsClosed
  <2> QED BY <1>2, <1>4, <1>6, <2>1
<1>15. ASSUME NEW g \in Get, NEW n \in Node, NEW k \in Key, StartGet(g, n, k)
       PROVE  Asked'
  <2>1. UNCHANGED need /\ pc' = [pc EXCEPT ![g] = "query"]
    BY <1>15 DEF StartGet
  <2> QED BY <1>3, <1>4, <1>6, <2>1
<1>16. ASSUME NEW g \in Get, NEW now \in Time, QueryGet(g, now)
       PROVE  Asked'
  <2>1. /\ UNCHANGED at
        /\ need' = [need EXCEPT ![g] = quorum[at[g]].r]
        /\ \E x : pc' = [pc EXCEPT ![g] = x]
    BY <1>16 DEF QueryGet
  <2>2. /\ \A o \in Op \ {g} : pc'[o] = pc[o] /\ need'[o] = need[o]
        /\ need'[g] = quorum[at[g]].r
    BY <1>3, <1>4, <2>1
  <2> QED BY <1>2, <1>3, <1>5, <2>1, <2>2 DEF Asked
<1>17. ASSUME NEW g \in Get, NEW m \in Node, ServeGetLocal(g, m)
       PROVE  Asked'
  BY <1>6, <1>17 DEF ServeGetLocal
<1>18. ASSUME NEW g \in Get, NEW arrived \in Arrivals(g), NEW now \in Time,
              FinishGet(g, arrived, now)
       PROVE  Asked'
  <2>1. UNCHANGED need /\ pc[g] = "wait" /\ pc' = [pc EXCEPT ![g] = "done"]
    BY <1>18 DEF FinishGet, ResultsClosed
  <2> QED BY <1>3, <1>4, <1>6, <2>1
<1>19. ASSUME UNCHANGED vars
       PROVE  Asked'
  BY <1>6, <1>19 DEF vars, reqVars
<1> QED
  BY <1>10, <1>11, <1>12, <1>13, <1>14, <1>15, <1>16, <1>17, <1>18, <1>19,
     <1>20 DEF Next, AllAnswered

\* A Put without peers is in a cluster of one node, with W = 1.
LEMMA AloneIsEnough ==
  ASSUME N = Cardinality(Node), StaticInv, NEW p \in Put, SendPut(p),
         peers[at[p]] = {}
  PROVE  Enough(p)'
<1>1. p \in Op /\ at[p] \in Node /\ DOMAIN need = Op
  BY DEF SendPut, StaticInv, CopiesInv, TypeInv, TypeOK, Started, Op
<1>2. N = 1
  <2>1. peers[at[p]] = Node \ {at[p]}
    BY <1>1 DEF StaticInv, Static
  <2>2. Node = {at[p]}
    BY <1>1, <2>1
  <2> QED BY Zenon, <2>2, FS_Singleton
<1>3. quorum[at[p]].w = 1
  <2>1. PICK q \in InitialQuorums : quorum = [n \in Node |-> q]
    BY DEF StaticInv, Static
  <2>2. q.w \in 1 .. 1
    BY <1>2, ConfigAssumption DEF ValidQuorum
  <2> QED BY <1>1, <2>1, <2>2
<1>4. need'[p] = 1
  BY <1>1, <1>3 DEF SendPut
<1>5. applied'[p] = {at'[p]}
  BY AloneHasOne DEF StaticInv
<1>6. Cardinality(applied'[p]) = 1
  BY Zenon, <1>5, FS_Singleton
<1> QED BY <1>4, <1>6 DEF Enough

\* Every step keeps what holds without changes of the configuration.
LEMMA StaticStep ==
  ASSUME N = Cardinality(Node), StaticInv, [Next]_vars
  PROVE  StaticInv'
<1>1. CopiesInv /\ CopiesInv' /\ Frame /\ TypeInv'
  BY CopiesStep, FrameStep DEF StaticInv, CopiesInv
<1>2. Static'
  BY ConfStays DEF StaticInv, Static, confVars
<1>3. Asked'
  BY <1>1, AskedStep DEF StaticInv
<1>4. ASSUME NEW p \in Put, resp'[p].kind = "success"
      PROVE  Enough(p)'
  <2>1. CASE resp[p].kind = "success"
    <3>1. Enough(p)
      BY <2>1 DEF StaticInv, AckedIsStored, Enough
    <3> QED BY <1>1, <2>1, <3>1, EnoughStays
  <2>2. CASE resp[p].kind # "success"
    <3>1. ASSUME NEW acked \in SUBSET Node, FinishPut(p, acked)
          PROVE  Enough(p)'
      BY <1>1, <1>4, <3>1, FinishedIsEnough
    <3>2. CASE SendPut(p) /\ peers[at[p]] = {}
      BY <3>2, AloneIsEnough
    <3> QED BY Zenon, <1>1, <1>4, <2>2, <3>1, <3>2, NewlyAcked
  <2> QED BY <2>1, <2>2
<1>5. AckedIsStored'
  BY <1>4 DEF AckedIsStored, Enough
<1> QED BY <1>1, <1>2, <1>3, <1>5 DEF StaticInv

\* It holds initially.
LEMMA StaticInit == Init => StaticInv
<1> SUFFICES ASSUME Init PROVE StaticInv
  OBVIOUS
<1>1. Asked /\ AckedIsStored
  BY DEF Init, Asked, AckedIsStored, Op, Response
<1>2. Static
  BY DEF Init, Static, ConfiguredPeers
<1> QED BY <1>1, <1>2, CopiesInit DEF StaticInv

\* A Put reports success only when at least W nodes have stored its value
\* (Coordinator.Replicate), in a cluster of any size N.
THEOREM AckedIsStoredHolds ==
  ASSUME N = Cardinality(Node)
  PROVE  Spec => []AckedIsStored
<1>1. StaticInv /\ [Next]_vars => StaticInv'
  BY StaticStep
<1>2. StaticInv => AckedIsStored
  BY DEF StaticInv
<1> QED BY <1>1, <1>2, StaticInit, PTL DEF Spec
=============================================================================
