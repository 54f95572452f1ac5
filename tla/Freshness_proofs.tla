-------------------------- MODULE Freshness_proofs --------------------------
(***************************************************************************)
(* Reads meet the acknowledged writes, for any cluster and any number of   *)
(* concurrent requests.  FreshInv is the inductive invariant behind the    *)
(* theorems, with fixed and with changing peers and quorum sizes alike: it *)
(* only speaks of the R and W that the requests have read.                 *)
(*                                                                         *)
(* The argument follows the request: W nodes have stored the value of an   *)
(* acknowledged Put (Stores_proofs), the value a store has for the key     *)
(* covers it from then on, a Get asks R nodes with R + W > N, so it hears  *)
(* from one of them, and GetMostRecent picks nothing older.  The           *)
(* theorems about DynamicReplication come before those about Replication:  *)
(* with a fixed configuration no acknowledged Put is short and R + W > N,  *)
(* so more holds.                                                          *)
(***************************************************************************)
EXTENDS Stores_proofs, DynamicReplication

\* vv is a value, and unless the stores have regressed (lax) it is not older
\* than the timestamp t.
Covers(vv, t, lax) == vv # None /\ (lax \/ ~ HappensBefore(vv.hlc, t))

\* Wherever the value of a Put has been stored, its key has it or a value that
\* covers it.
StoresCover ==
  \A p \in Put : \A n \in applied[p] :
    pc[p] # "idle" /\ Covers(store[n][key[p]], ts[p], regressed)

\* The Puts a Get comes after are acknowledged writes of its key.
Follows ==
  \A g \in Get : \A p \in before[g] :
    pc[g] # "idle" /\ resp[p].kind = "success" /\ key[p] = key[g]

\* What Get g has heard from the nodes in A covers Put p.
Heard(g, p, A) ==
  /\ at[g] \in A => Covers(local[g], ts[p], regressed)
  /\ \A m \in A : rpc[g][m] = "served" => Covers(reply[g][m], ts[p], regressed)

\* For every Put that Get g comes after, unless it is short of its copies,
\* there are as many nodes as the Put needed whose answers cover it.
Heeds(g) ==
  \A p \in before[g] : ~ Short(p) =>
    \E A \in SUBSET applied[p] : Cardinality(A) >= need[p] /\ Heard(g, p, A)

ReadsCover == \A g \in Get : pc[g] \in {"query", "wait"} => Heeds(g)

\* The Puts that a Get which counts r answers must not miss.
MustSee(g, r) == {p \in before[g] : r + need[p] > N /\ ~ Short(p)}

\* Response a of Get g, which counted r answers, respects those Puts.
Respects(g, r, a) ==
  \A p \in MustSee(g, r) :
    /\ a.kind # "notfound"
    /\ a.kind = "value" => Covers(a.vv, ts[p], regressed)

Responses ==
  /\ \A g \in Get : pc[g] # "done" => resp[g].kind = "none"
  /\ \A g \in Get : Respects(g, need[g], resp[g])

FreshInv == CopiesInv /\ StoresCover /\ Follows /\ ReadsCover /\ Responses

-----------------------------------------------------------------------------
(* The stores *)

\* A value that covers a timestamp still does when stores regress.
LEMMA CoversStays ==
  ASSUME NEW vv, NEW t, NEW lax, NEW lax2, lax => lax2, Covers(vv, t, lax)
  PROVE  Covers(vv, t, lax2)
BY DEF Covers

\* Store.PutWithHLC: the key has a value that covers the written timestamp and,
\* unless this is a regression, all that the value before it covered.
LEMMA StoreCovers ==
  ASSUME TypeInv, StoresCover, NEW n \in Node, NEW p \in Put, pc[p] # "idle",
         PutWithHLC(n, p, ts[p]), Frame, UNCHANGED <<key, ts>>
  PROVE  StoresCover'
<1>1. /\ key[p] \in Key /\ ts[p] \in Timestamp /\ TypeOK
      /\ [value |-> p, hlc |-> ts[p]] \in VersionedValue
  BY DEF TypeInv, Started, Op, VersionedValue
<1>2. /\ store' = [store EXCEPT ![n][key[p]] = [value |-> p, hlc |-> ts[p]]]
      /\ applied' = [applied EXCEPT ![p] = @ \cup {n}]
      /\ regressed' = \/ regressed
                      \/ /\ store[n][key[p]] # None
                         /\ HappensBefore(ts[p], store[n][key[p]].hlc)
  BY DEF PutWithHLC
<1>3. SUFFICES ASSUME NEW q \in Put, NEW m \in applied'[q]
               PROVE  pc'[q] # "idle" /\ Covers(store'[m][key[q]], ts[q], regressed')
  BY DEF StoresCover
<1>4. m \in Node /\ (m \in applied[q] \/ (q = p /\ m = n))
  BY <1>1, <1>2 DEF TypeOK
<1>5. pc[q] # "idle" /\ q \in Op
  BY <1>4 DEF StoresCover, Op
<1>6. pc'[q] # "idle" /\ key[q] \in Key /\ ts[q] \in Timestamp
  BY <1>5 DEF Frame, TypeInv, Started
<1>7. CASE m = n /\ key[q] = key[p]
  <2>1. store'[m][key[q]] = [value |-> p, hlc |-> ts[p]]
    BY <1>1, <1>2, <1>7 DEF TypeOK
  <2>2. store'[m][key[q]] # None /\ store'[m][key[q]].hlc = ts[p]
    BY <1>1, <2>1, ConfigAssumption
  <2>3. CASE q = p
    <3>1. ~ HappensBefore(ts[p], ts[p])
      BY <1>1 DEF HappensBefore, Timestamp
    <3> QED BY <1>6, <2>2, <2>3, <3>1 DEF Covers
  <2>4. CASE q # p
    <3>1. Covers(store[n][key[p]], ts[q], regressed)
      BY <1>4, <1>7, <2>4 DEF StoresCover
    <3>2. store[n][key[p]] \in VersionedValue
      BY <1>1, <3>1 DEF Covers, TypeOK, Stored
    <3>3. store[n][key[p]].hlc \in Timestamp
      BY <3>2 DEF VersionedValue
    <3>4. ~ regressed' => ~ HappensBefore(ts[p], ts[q])
      BY <1>1, <1>2, <1>6, <3>1, <3>3, NotBeforeTrans DEF Covers
    <3> QED BY <1>6, <2>2, <3>4 DEF Covers
  <2> QED BY <2>3, <2>4
<1>8. CASE ~ (m = n /\ key[q] = key[p])
  <2>1. m \in applied[q]
    BY <1>4, <1>8
  <2>2. store'[m][key[q]] = store[m][key[q]]
    BY <1>1, <1>2, <1>4, <1>6, <1>8 DEF TypeOK
  <2>3. Covers(store[m][key[q]], ts[q], regressed)
    BY <2>1 DEF StoresCover
  <2> QED BY <1>6, <2>2, <2>3, CoversStays DEF Frame
<1> QED BY <1>7, <1>8

\* No handler uncovers an acknowledged write in a store.
LEMMA StoresCoverStep ==
  ASSUME CopiesInv, StoresCover, Frame, [Next]_vars
  PROVE  StoresCover'
<1>1. TypeInv /\ TypeOK /\ Started
  BY DEF CopiesInv, TypeInv
<1>2. CASE UNCHANGED <<store, applied, regressed>>
  <2> SUFFICES ASSUME NEW p \in Put, NEW n \in applied[p]
               PROVE  pc'[p] # "idle" /\ Covers(store[n][key'[p]], ts'[p], regressed)
    BY <1>2 DEF StoresCover
  <2>1. pc[p] # "idle" /\ Covers(store[n][key[p]], ts[p], regressed)
    BY DEF StoresCover
  <2>2. pc'[p] # "idle" /\ key'[p] = key[p] /\ ts'[p] = ts[p]
    BY <2>1 DEF Frame, Op
  <2> QED BY <2>1, <2>2
<1>3. ASSUME NEW p \in Put, StorePut(p)
      PROVE  StoresCover'
  <2>1. at[p] \in Node /\ pc[p] # "idle"
    BY <1>1, <1>3 DEF StorePut, Started, Op
  <2>2. PutWithHLC(at[p], p, ts[p]) /\ UNCHANGED <<key, ts>>
    BY <1>3 DEF StorePut
  <2> QED BY <1>1, <2>1, <2>2, StoreCovers
<1>4. ASSUME NEW p \in Put, NEW m \in Node, StoreReplicate(p, m)
      PROVE  StoresCover'
  <2>1. pc[p] # "idle"
    BY <1>1, <1>4 DEF StoreReplicate, Started, Op
  <2>2. PutWithHLC(m, p, ts[p]) /\ UNCHANGED <<key, ts>>
    BY <1>4 DEF StoreReplicate
  <2> QED BY <1>1, <2>1, <2>2, StoreCovers
<1>5. \/ UNCHANGED <<store, applied, regressed>>
      \/ \E p \in Put : StorePut(p)
      \/ \E p \in Put, m \in Node : StoreReplicate(p, m)
  <2>1. ASSUME NEW p \in Put,
               \/ \E n \in Node, k \in Key, now \in Time : StartPut(p, n, k, now)
               \/ SendPut(p)
               \/ \E m \in Node, now \in Time : ServeReplicate(p, m, now)
               \/ \E acked \in SUBSET Node : FinishPut(p, acked)
        PROVE  UNCHANGED <<store, applied, regressed>>
    BY <2>1 DEF StartPut, SendPut, ServeReplicate, FinishPut, histVars
  <2>2. ASSUME NEW g \in Get,
               \/ \E n \in Node, k \in Key : StartGet(g, n, k)
               \/ \E now \in Time : QueryGet(g, now)
               \/ \E m \in Node : ServeGetLocal(g, m)
               \/ \E arrived \in Arrivals(g), now \in Time :
                    FinishGet(g, arrived, now)
        PROVE  UNCHANGED <<store, applied, regressed>>
    BY <2>2 DEF StartGet, QueryGet, ServeGetLocal, FinishGet, histVars
  <2>3. UNCHANGED vars => UNCHANGED <<store, applied, regressed>>
    BY DEF vars, histVars
  <2> QED BY Zenon, <2>1, <2>2, <2>3 DEF Next, AllAnswered
<1> QED BY <1>2, <1>3, <1>4, <1>5

-----------------------------------------------------------------------------
(* The requests *)

\* Only StartGet says which Puts a Get comes after.
LEMMA FollowsStep ==
  ASSUME CopiesInv, Follows, Frame, [Next]_vars
  PROVE  Follows'
<1>1. TypeOK /\ Copies
  BY DEF CopiesInv, TypeInv
<1>2. \A o \in Put : o \in Op /\ o \notin Get
  BY ConfigAssumption DEF Op
<1>3. \A o \in Get : o \in Op /\ o \notin Put
  BY ConfigAssumption DEF Op
<1>4. \A g \in Get : before[g] \subseteq Put
  BY <1>1 DEF TypeOK
<1>5. ASSUME UNCHANGED before
      PROVE  Follows'
  <2> SUFFICES ASSUME NEW g \in Get, NEW p \in before[g]
               PROVE  pc'[g] # "idle" /\ resp'[p].kind = "success"
                      /\ key'[p] = key'[g]
    BY <1>5 DEF Follows
  <2>1. p \in Put /\ pc[g] # "idle" /\ resp[p].kind = "success" /\ key[p] = key[g]
    BY <1>4 DEF Follows
  <2>2. pc[p] = "done"
    BY <1>1, <2>1 DEF Copies
  <2> QED BY <1>2, <1>3, <2>1, <2>2 DEF Frame
<1>6. ASSUME NEW g \in Get, NEW n \in Node, NEW k \in Key, StartGet(g, n, k)
      PROVE  Follows'
  <2>1. /\ UNCHANGED resp
        /\ \A o \in Op \ {g} : pc'[o] = pc[o] /\ key'[o] = key[o]
        /\ \A h \in Get \ {g} : before'[h] = before[h]
        /\ pc'[g] = "query" /\ key'[g] = k /\ before'[g] = Acknowledged(k)
    BY <1>1, <1>3, <1>6 DEF StartGet, TypeOK
  <2> SUFFICES ASSUME NEW h \in Get, NEW p \in before'[h]
               PROVE  pc'[h] # "idle" /\ resp'[p].kind = "success"
                      /\ key'[p] = key'[h]
    BY DEF Follows
  <2>2. CASE h = g
    BY <1>2, <1>3, <2>1, <2>2 DEF Acknowledged
  <2>3. CASE h # g
    BY <1>2, <1>3, <1>4, <2>1, <2>3 DEF Follows
  <2> QED BY <2>2, <2>3
<1>7. ASSUME NEW p \in Put,
             \/ \E n \in Node, k \in Key, now \in Time : StartPut(p, n, k, now)
             \/ StorePut(p)
             \/ SendPut(p)
             \/ \E m \in Node, now \in Time : ServeReplicate(p, m, now)
             \/ \E m \in Node : StoreReplicate(p, m)
             \/ \E acked \in SUBSET Node : FinishPut(p, acked)
      PROVE  UNCHANGED before
  BY Zenon, <1>7
     DEF StartPut, StorePut, SendPut, ServeReplicate, StoreReplicate, FinishPut,
         histVars
<1>8. ASSUME NEW g \in Get,
             \/ \E now \in Time : QueryGet(g, now)
             \/ \E m \in Node : ServeGetLocal(g, m)
             \/ \E arrived \in Arrivals(g), now \in Time :
                  FinishGet(g, arrived, now)
      PROVE  UNCHANGED before
  BY Zenon, <1>8 DEF QueryGet, ServeGetLocal, FinishGet, histVars
<1>9. UNCHANGED vars => UNCHANGED before
  BY Zenon DEF vars, histVars
<1> QED BY Zenon, <1>5, <1>6, <1>7, <1>8, <1>9 DEF Next, AllAnswered

\* The Puts a Get comes after keep their timestamps and copies, and those that
\* are short of copies stay so.
LEMMA BeforeStays ==
  ASSUME CopiesInv, Follows, Frame, KeepsShort, NEW g \in Get, NEW p \in before[g]
  PROVE  /\ p \in Put /\ pc[p] = "done" /\ pc[g] # "idle"
         /\ ts'[p] = ts[p] /\ need'[p] = need[p] /\ key[p] = key[g]
         /\ applied[p] \subseteq applied'[p]
         /\ before'[g] = before[g]
         /\ Short(p) => Short(p)'
<1>1. p \in Put
  BY DEF CopiesInv, TypeInv, TypeOK
<1>2. pc[g] # "idle" /\ resp[p].kind = "success" /\ key[p] = key[g]
  BY DEF Follows
<1>3. pc[p] = "done"
  BY <1>1, <1>2 DEF CopiesInv, Copies
<1>4. Short(p) => Short(p)'
  BY Zenon, <1>1, <1>2 DEF KeepsShort
<1> QED BY <1>1, <1>2, <1>3, <1>4 DEF Frame

\* A Get that goes on, and perhaps gets an answer from a store, has still heard
\* from nodes that cover the Puts it comes after.
LEMMA ReadGoesOn ==
  ASSUME CopiesInv, StoresCover, Follows, ReadsCover, Frame, KeepsShort,
         NEW g \in Get, pc[g] \in {"query", "wait"}, local'[g] = local[g],
         \A m \in Node : rpc'[g][m] = "served" =>
           \/ rpc[g][m] = "served" /\ reply'[g][m] = reply[g][m]
           \/ reply'[g][m] = store[m][key[g]]
  PROVE  Heeds(g)'
<1>1. before'[g] = before[g] /\ at'[g] = at[g]
  BY DEF Frame, Op
<1>2. SUFFICES ASSUME NEW p \in before[g], ~ Short(p)'
               PROVE  \E A \in SUBSET applied'[p] :
                        Cardinality(A) >= need'[p] /\ Heard(g, p, A)'
  BY <1>1 DEF Heeds
<1>3. /\ p \in Put /\ ts'[p] = ts[p] /\ need'[p] = need[p]
      /\ key[p] = key[g] /\ applied[p] \subseteq applied'[p]
      /\ ~ Short(p)
  BY <1>2, BeforeStays
<1>4. PICK A \in SUBSET applied[p] : Cardinality(A) >= need[p] /\ Heard(g, p, A)
  BY <1>3 DEF ReadsCover, Heeds
<1>5. A \in SUBSET applied'[p] /\ A \in SUBSET Node
  BY <1>3 DEF CopiesInv, TypeInv, TypeOK
<1>9. \A vv : Covers(vv, ts[p], regressed) => Covers(vv, ts'[p], regressed')
  <2>1. regressed => regressed'
    BY Zenon DEF Frame
  <2> QED BY Zenon, <1>3, <2>1 DEF Covers
<1>6. at[g] \in A => Covers(local'[g], ts'[p], regressed')
  BY Zenon, <1>4, <1>9 DEF Heard
<1>7. ASSUME NEW m \in A, rpc'[g][m] = "served"
      PROVE  Covers(reply'[g][m], ts'[p], regressed')
  <2>1. CASE rpc[g][m] = "served" /\ reply'[g][m] = reply[g][m]
    BY Zenon, <1>4, <1>9, <2>1 DEF Heard
  <2>2. CASE reply'[g][m] = store[m][key[g]]
    <3>1. m \in applied[p]
      OBVIOUS
    <3>2. Covers(store[m][key[p]], ts[p], regressed)
      BY Zenon, <1>3, <3>1 DEF StoresCover
    <3>3. Covers(reply'[g][m], ts[p], regressed)
      BY Zenon, <1>3, <2>2, <3>2
    <3> QED BY Zenon, <1>9, <3>3
  <2> QED BY Zenon, <1>5, <1>7, <2>1, <2>2
<1>8. Heard(g, p, A)'
  BY ZenonT(40), <1>1, <1>6, <1>7 DEF Heard
<1> QED BY <1>3, <1>4, <1>5, <1>8

\* Every step keeps what the running Gets have heard.
LEMMA ReadsCoverStep ==
  ASSUME CopiesInv, StoresCover, Follows, ReadsCover, Frame, KeepsShort,
         [Next]_vars
  PROVE  ReadsCover'
<1>1. TypeOK /\ Started /\ Copies /\ AckedOrShort
  BY DEF CopiesInv, TypeInv
<1>2. \A o \in Put : o \in Op /\ o \notin Get
  BY ConfigAssumption DEF Op
<1>3. \A o \in Get : o \in Op /\ o \notin Put
  BY ConfigAssumption DEF Op
<1>4. SUFFICES ASSUME NEW g \in Get, pc'[g] \in {"query", "wait"}
               PROVE  Heeds(g)'
  BY DEF ReadsCover
<1>5. ASSUME pc'[g] = pc[g], local'[g] = local[g],
             rpc'[g] = rpc[g], reply'[g] = reply[g]
      PROVE  Heeds(g)'
  BY <1>4, <1>5, ReadGoesOn
<1>6. ASSUME NEW p \in Put,
             UNCHANGED <<local, reply>>,
             \A o \in Op \ {p} : pc'[o] = pc[o] /\ rpc'[o] = rpc[o]
      PROVE  Heeds(g)'
  BY <1>2, <1>3, <1>5, <1>6
<1>10. ASSUME NEW p \in Put, NEW n \in Node, NEW k \in Key, NEW now \in Time,
             StartPut(p, n, k, now)
       PROVE  Heeds(g)'
  BY ZenonT(40), <1>1, <1>2, <1>6, <1>10 DEF StartPut, TypeOK
<1>11. ASSUME NEW p \in Put, StorePut(p)
       PROVE  Heeds(g)'
  BY ZenonT(40), <1>1, <1>2, <1>6, <1>11 DEF StorePut, TypeOK
<1>12. ASSUME NEW p \in Put, SendPut(p)
       PROVE  Heeds(g)'
  <2>1. /\ UNCHANGED <<local, reply>> /\ (UNCHANGED rpc \/ FanOut(p))
        /\ \E x : pc' = [pc EXCEPT ![p] = x]
    BY ZenonT(40), <1>12 DEF SendPut
  <2>2. \A o \in Op \ {p} : pc'[o] = pc[o] /\ rpc'[o] = rpc[o]
    BY <1>1, <1>2, <2>1, FanOutType DEF TypeOK
  <2> QED BY ZenonT(40), <1>6, <2>1, <2>2
<1>13. ASSUME NEW p \in Put, NEW m \in Node, NEW now \in Time,
              ServeReplicate(p, m, now)
       PROVE  Heeds(g)'
  BY ZenonT(40), <1>1, <1>2, <1>6, <1>13 DEF ServeReplicate, TypeOK
<1>20. ASSUME NEW p \in Put, NEW m \in Node, StoreReplicate(p, m)
       PROVE  Heeds(g)'
  BY ZenonT(40), <1>1, <1>2, <1>6, <1>20 DEF StoreReplicate, TypeOK
<1>14. ASSUME NEW p \in Put, NEW acked \in SUBSET Node, FinishPut(p, acked)
       PROVE  Heeds(g)'
  BY ZenonT(40), <1>1, <1>2, <1>6, <1>14 DEF FinishPut, TypeOK
<1>15. ASSUME NEW h \in Get, NEW n \in Node, NEW k \in Key, StartGet(h, n, k)
       PROVE  Heeds(g)'
  <2>1. CASE g # h
    BY ZenonT(40), <1>1, <1>3, <1>5, <1>15, <2>1 DEF StartGet, TypeOK
  <2>2. CASE g = h
    <3>1. /\ before'[g] = Acknowledged(k) /\ at'[g] = n /\ local'[g] = store[n][k]
          /\ UNCHANGED <<need, rpc, ts, resp, applied, regressed>>
          /\ pc[g] = "idle"
      BY <1>1, <1>3, <1>15, <2>2 DEF StartGet, TypeOK
    <3>2. \A m \in Node : rpc[g][m] = "none"
      BY ZenonT(40), <1>1, <1>3, <3>1 DEF Started
    <3> SUFFICES ASSUME NEW q \in before'[g], ~ Short(q)'
                 PROVE  Cardinality(applied[q]) >= need[q]
                        /\ Heard(g, q, applied[q])'
      BY ZenonT(40), <3>1 DEF Heeds
    <3>3. q \in Put /\ resp[q].kind = "success" /\ key[q] = k
      BY Zenon, <3>1 DEF Acknowledged
    <3>4. Cardinality(applied[q]) >= need[q]
      <4>1. Short(q) => Short(q)'
        BY Zenon, <3>3 DEF KeepsShort
      <4> QED BY <1>1, <3>3, <4>1 DEF AckedOrShort, Enough
    <3>5. \A m \in applied[q] : Covers(store[m][k], ts[q], regressed)
      BY <3>3 DEF StoresCover
    <3>6. applied[q] \in SUBSET Node
      BY <1>1, <3>3 DEF TypeOK
    <3>7. Heard(g, q, applied[q])'
      BY <3>1, <3>2, <3>5, <3>6 DEF Heard
    <3> QED BY <3>4, <3>7
  <2> QED BY <2>1, <2>2
<1>16. ASSUME NEW h \in Get, NEW now \in Time, QueryGet(h, now)
       PROVE  Heeds(g)'
  <2>1. /\ UNCHANGED <<local, reply>> /\ pc[h] = "query"
        /\ \/ UNCHANGED rpc /\ pc' = [pc EXCEPT ![h] = "done"]
           \/ FanOut(h) /\ pc' = [pc EXCEPT ![h] = "wait"]
    BY <1>16 DEF QueryGet
  <2>2. CASE UNCHANGED rpc /\ pc' = [pc EXCEPT ![h] = "done"]
    BY ZenonT(40), <1>1, <1>3, <1>4, <1>5, <2>1, <2>2 DEF TypeOK
  <2>3. CASE FanOut(h) /\ pc' = [pc EXCEPT ![h] = "wait"]
    <3>1. /\ \A o \in Op \ {h} : rpc'[o] = rpc[o] /\ pc'[o] = pc[o]
          /\ \A m \in Node : rpc'[h][m] # "served"
      BY ZenonT(40), <1>1, <1>3, <2>3, FanOutType DEF TypeOK
    <3>2. CASE g # h
      BY Zenon, <1>3, <1>5, <2>1, <3>1, <3>2
    <3>3. CASE g = h
      BY Zenon, <2>1, <3>1, <3>3, ReadGoesOn
    <3> QED BY <3>2, <3>3
  <2> QED BY <2>1, <2>2, <2>3
<1>17. ASSUME NEW h \in Get, NEW m \in Node, ServeGetLocal(h, m)
       PROVE  Heeds(g)'
  <2>1. /\ UNCHANGED <<pc, local>>
        /\ reply' = [reply EXCEPT ![h][m] = store[m][key[h]]]
        /\ rpc' = [rpc EXCEPT ![h][m] = "served"]
    BY <1>17 DEF ServeGetLocal
  <2>2. \A i \in Node : rpc'[g][i] = "served" =>
           \/ rpc[g][i] = "served" /\ reply'[g][i] = reply[g][i]
           \/ reply'[g][i] = store[i][key[g]]
    BY <1>1, <1>3, <2>1 DEF TypeOK
  <2> QED BY <1>4, <2>1, <2>2, ReadGoesOn
<1>18. ASSUME NEW h \in Get, NEW arrived \in Arrivals(h), NEW now \in Time,
              FinishGet(h, arrived, now)
       PROVE  Heeds(g)'
  <2>1. pc'[h] = "done"
    BY <1>1, <1>3, <1>18 DEF FinishGet, TypeOK
  <2>2. g # h
    BY <1>4, <2>1
  <2> QED BY ZenonT(40), <1>1, <1>3, <1>5, <1>18, <2>2 DEF FinishGet, TypeOK
<1>19. ASSUME UNCHANGED vars
       PROVE  Heeds(g)'
  BY Zenon, <1>5, <1>19 DEF vars, reqVars
<1> QED
  BY ZenonT(40), <1>10, <1>11, <1>12, <1>13, <1>14, <1>15, <1>16, <1>17,
     <1>18, <1>19, <1>20 DEF Next, AllAnswered

-----------------------------------------------------------------------------
(* The responses *)

\* As many nodes as Get g counts include one of those that stored a Put it must
\* not miss.
LEMMA QuorumsMeet ==
  ASSUME N = Cardinality(Node), CopiesInv, NEW r \in Int, NEW w \in Int,
         r + w > N, NEW A \in SUBSET Node, NEW B \in SUBSET Node,
         Cardinality(A) >= w, Cardinality(B) >= r
  PROVE  \E m \in A : m \in B
<1>1. Cardinality(A) \in Nat /\ Cardinality(B) \in Nat /\ Cardinality(Node) \in Nat
  BY FS_Subset, FS_CardinalityType, ConfigAssumption
<1>2. Cardinality(A) + Cardinality(B) > Cardinality(Node)
  BY <1>1
<1>3. A \cap B # {}
  BY <1>2, FS_MajoritiesIntersect, ConfigAssumption
<1> QED BY <1>3

\* What ReadsCover says of a Put that a running Get must not miss.
LEMMA CopiesHeard ==
  ASSUME CopiesInv, ReadsCover, NEW g \in Get, pc[g] \in {"query", "wait"},
         NEW r, NEW p \in MustSee(g, r)
  PROVE  /\ p \in before[g] /\ r + need[p] > N /\ need[p] \in Int
         /\ \E A \in SUBSET Node : Cardinality(A) >= need[p] /\ Heard(g, p, A)
<1>1. p \in before[g] /\ r + need[p] > N /\ ~ Short(p)
  BY DEF MustSee
<1>2. p \in Put
  BY <1>1 DEF CopiesInv, TypeInv, TypeOK
<1>3. need[p] \in Int /\ applied[p] \in SUBSET Node
  BY <1>2 DEF CopiesInv, TypeInv, TypeOK, Op
<1>4. \E A \in SUBSET applied[p] : Cardinality(A) >= need[p] /\ Heard(g, p, A)
  BY <1>1 DEF ReadsCover, Heeds
<1> QED BY <1>1, <1>3, <1>4

\* The answer of Server.Get respects the Puts its candidate covers.
LEMMA AnswerRespects ==
  ASSUME CopiesInv, Follows, Frame, KeepsShort, NEW g \in Get, NEW vv, NEW now,
         before'[g] = before[g], resp'[g] = Answer(vv, now),
         \A p \in MustSee(g, need'[g]) : Covers(vv, ts[p], regressed)
  PROVE  Respects(g, need[g], resp[g])'
<1> SUFFICES ASSUME NEW p \in before[g], need'[g] + need'[p] > N, ~ Short(p)'
             PROVE  /\ resp'[g].kind # "notfound"
                    /\ resp'[g].kind = "value" =>
                         Covers(resp'[g].vv, ts'[p], regressed')
  BY DEF Respects, MustSee
<1>1. need'[p] = need[p] /\ ts'[p] = ts[p] /\ ~ Short(p)
  BY BeforeStays
<1>2. Covers(vv, ts[p], regressed)
  BY <1>1 DEF MustSee
<1>3. regressed => regressed'
  BY Zenon DEF Frame
<1>4. Covers(vv, ts'[p], regressed')
  BY Zenon, <1>1, <1>2, <1>3 DEF Covers
<1>5. /\ Answer(vv, now).kind # "notfound"
      /\ Answer(vv, now).kind = "value" => Answer(vv, now).vv = vv
  BY <1>2 DEF Answer, Response, Covers
<1> QED BY Zenon, <1>4, <1>5

\* A Get that counts only its own answer must not miss a Put only if every node
\* has stored it, the Get's own among them.
LEMMA LocalCovers ==
  ASSUME N = Cardinality(Node), CopiesInv, ReadsCover, NEW g \in Get,
         pc[g] = "query", NEW r \in Int, r <= 1
  PROVE  \A p \in MustSee(g, r) : Covers(local[g], ts[p], regressed)
<1> TAKE p \in MustSee(g, r)
<1>1. r + need[p] > N /\ need[p] \in Int
  BY CopiesHeard
<1>2. PICK A \in SUBSET Node : Cardinality(A) >= need[p] /\ Heard(g, p, A)
  BY CopiesHeard
<1>3. at[g] \in Node
  BY DEF CopiesInv, TypeInv, Started, Op
<1>4. Cardinality({at[g]}) = 1
  BY Zenon, FS_Singleton
<1>5. Cardinality({at[g]}) >= r
  BY <1>4
<1>6. \E m \in A : m \in {at[g]}
  BY <1>1, <1>2, <1>3, <1>5, QuorumsMeet
<1> QED BY <1>2, <1>6 DEF Heard

\* The nodes whose results QueryReplicas counts, its own included, are as many
\* as it counts.
LEMMA CountedAnswers ==
  ASSUME CopiesInv, NEW g \in Get, pc[g] = "wait", NEW arrived \in Arrivals(g)
  PROVE  LET B == {at[g]} \cup {arrived[i] : i \in DOMAIN arrived}
         IN  /\ B \in SUBSET Node
             /\ Cardinality(B) = Len(arrived) + 1
<1> DEFINE S == {arrived[i] : i \in DOMAIN arrived}
<1>1. PICK i \in 0 .. Cardinality(Found(g)) :
        /\ arrived \in [1 .. i -> Found(g)]
        /\ \A j, k \in 1 .. i : arrived[j] = arrived[k] => j = k
  BY DEF Arrivals
<1>2. i \in Nat /\ DOMAIN arrived = 1 .. i /\ Len(arrived) = i
  BY <1>1
<1>3. S \subseteq Found(g)
  BY <1>1, <1>2
<1>4. Found(g) \subseteq Node /\ at[g] \notin Found(g) /\ at[g] \in Node
  BY DEF Found, Served, CopiesInv, Copies, TypeInv, Started, Op
<1>5. arrived \in Bijection(1 .. i, S)
  <2>1. arrived \in [1 .. i -> S]
    BY <1>1, <1>2
  <2>2. \A x \in S : \E j \in 1 .. i : arrived[j] = x
    BY <1>2
  <2>3. \A j, k \in 1 .. i : arrived[j] = arrived[k] => j = k
    BY <1>1
  <2> HIDE DEF S
  <2> QED BY <2>1, <2>2, <2>3 DEF Bijection, Injection, Surjection, IsInjective
<1>6. IsFiniteSet(1 .. i) /\ Cardinality(1 .. i) = i
  BY <1>2, FS_Interval
<1>7. IsFiniteSet(S) /\ Cardinality(S) = i
  <2>1. ExistsBijection(1 .. i, S)
    BY <1>5 DEF ExistsBijection
  <2> HIDE DEF S
  <2> QED BY <1>6, <2>1, FS_Bijection
<1>8. at[g] \notin S
  BY <1>3, <1>4
<1> HIDE DEF S
<1>9. Cardinality(S \cup {at[g]}) = i + 1
  BY Zenon, <1>7, <1>8, FS_AddElement
<1>10. {at[g]} \cup S = S \cup {at[g]}
  OBVIOUS
<1>11. {at[g]} \cup S \in SUBSET Node
  BY <1>3, <1>4
<1>12. {at[g]} \cup S = {at[g]} \cup {arrived[j] : j \in DOMAIN arrived}
  BY DEF S
<1> QED BY Zenon, <1>2, <1>9, <1>10, <1>11, <1>12

\* Once R results are in, the most recent candidate covers every Put that the
\* Get comes after.
LEMMA MostRecentCovers ==
  ASSUME N = Cardinality(Node), CopiesInv, Follows, ReadsCover, NEW g \in Get,
         pc[g] = "wait", NEW arrived \in Arrivals(g),
         Len(arrived) + 1 >= need[g]
  PROVE  \A p \in MustSee(g, need[g]) :
           Covers(GetMostRecent(Candidates(g, arrived)), ts[p], regressed)
<1> TAKE p \in MustSee(g, need[g])
<1> DEFINE B == {at[g]} \cup {arrived[i] : i \in DOMAIN arrived}
           C == Candidates(g, arrived)
<1>1. PICK A \in SUBSET Node : Cardinality(A) >= need[p] /\ Heard(g, p, A)
  BY CopiesHeard
<1>2. TypeOK /\ need[g] \in Int
  BY DEF CopiesInv, TypeInv, TypeOK, Op
<1>3. B \in SUBSET Node /\ Cardinality(B) = Len(arrived) + 1
  BY Zenon, CountedAnswers
<1>4. p \in before[g] /\ need[g] + need[p] > N /\ need[p] \in Int
  BY CopiesHeard
<1>5. PICK m \in A : m \in B
  <2> HIDE DEF B
  <2> QED BY <1>1, <1>2, <1>3, <1>4, QuorumsMeet
<1>6. C \in Seq(VersionedValue) /\ arrived \in Seq(Found(g))
  BY <1>2, CandidatesType
<1>7. \E i \in DOMAIN C : Covers(C[i], ts[p], regressed)
  <2> DEFINE R == [i \in DOMAIN arrived |-> reply[g][arrived[i]]]
             l == IF local[g] = None THEN <<>> ELSE <<local[g]>>
  <2>1. R \in Seq(Stored) /\ Len(R) = Len(arrived)
        /\ \A i \in 1 .. Len(arrived) : R[i] = reply[g][arrived[i]]
    <3>1. DOMAIN arrived = 1 .. Len(arrived) /\ Len(arrived) \in Nat
      BY <1>6
    <3>2. \A i \in 1 .. Len(arrived) : reply[g][arrived[i]] \in Stored
      BY <1>2, <1>6 DEF TypeOK, Found, Served
    <3> QED BY <3>1, <3>2
  <2>2. l \in Seq(Stored) /\ (local[g] # None => Len(l) = 1 /\ l[1] = local[g])
    BY <1>2 DEF TypeOK
  <2>3. C = R \o l
    BY DEF Candidates
  <2>4. CASE m = at[g]
    <3>1. Covers(local[g], ts[p], regressed)
      BY <1>1, <2>4 DEF Heard
    <3>2. Len(l) = 1 /\ l[1] = local[g]
      BY <2>2, <3>1 DEF Covers
    <3> HIDE DEF C, R, l
    <3>3. Len(C) = Len(arrived) + 1 /\ Len(arrived) \in Nat
      <4>1. Len(arrived) \in Nat
        BY <1>6
      <4>2. Len(R \o l) = Len(R) + Len(l)
        <5>1. R \in Seq(Stored) /\ l \in Seq(Stored)
          BY Zenon, <2>1, <2>2
        <5> QED BY <5>1
      <4> QED BY <2>1, <2>3, <3>2, <4>1, <4>2
    <3>4. Len(arrived) + 1 \in DOMAIN C
      BY <1>6, <3>3
    <3>5. C[Len(arrived) + 1] = l[1]
      BY <2>1, <2>2, <2>3, <3>2, <3>3
    <3> QED BY <3>1, <3>2, <3>4, <3>5
  <2>5. CASE m # at[g]
    <3>1. PICK i \in DOMAIN arrived : m = arrived[i]
      BY <1>5, <2>5
    <3> HIDE DEF C, R, l
    <3>2. i \in 1 .. Len(arrived) /\ m \in Found(g)
      <4>1. arrived \in Seq(Found(g)) /\ i \in DOMAIN arrived
        BY Zenon, <1>6, <3>1
      <4>2. i \in 1 .. Len(arrived) /\ arrived[i] \in Found(g)
        BY <4>1
      <4> QED BY Zenon, <3>1, <4>2
    <3>3. Covers(reply[g][m], ts[p], regressed)
      BY <1>1, <3>2 DEF Heard, Found, Served
    <3>4. i \in DOMAIN C /\ C[i] = R[i]
      <4>1. R \in Seq(Stored) /\ l \in Seq(Stored) /\ i \in 1 .. Len(R)
        BY Zenon, <2>1, <2>2, <3>2
      <4> QED BY <2>3, <4>1
    <3>5. C[i] = reply[g][m]
      BY Zenon, <2>1, <3>1, <3>2, <3>4
    <3> QED BY Zenon, <3>3, <3>4, <3>5
  <2> QED BY <2>4, <2>5
<1>8. PICK i \in DOMAIN C : Covers(C[i], ts[p], regressed)
  BY <1>7
<1> HIDE DEF C
<1>9. C # <<>>
  BY <1>8
<1>10. /\ GetMostRecent(C) \in VersionedValue
       /\ ~ HappensBefore(GetMostRecent(C).hlc, C[i].hlc)
  BY <1>6, <1>8, <1>9, MostRecentIsLatest
<1>11. /\ C[i] \in VersionedValue
       /\ ts[p] \in Timestamp
  <2>1. p \in Put /\ pc[p] # "idle"
    <3>1. p \in Put
      BY <1>4 DEF CopiesInv, TypeInv, TypeOK
    <3>2. resp[p].kind = "success"
      BY <1>4 DEF Follows
    <3>3. resp[p].kind = "success" => pc[p] = "done"
      BY <1>4, <3>1 DEF CopiesInv, Copies
    <3> QED BY <3>1, <3>2, <3>3
  <2>2. C[i] \in VersionedValue
    BY <1>6, <1>8
  <2>3. ts[p] \in Timestamp
    BY <2>1 DEF CopiesInv, TypeInv, Started
  <2> QED BY <2>2, <2>3
<1>12. GetMostRecent(C).hlc \in Timestamp /\ C[i].hlc \in Timestamp
  BY <1>10, <1>11 DEF VersionedValue
<1>13. ~ regressed => ~ HappensBefore(GetMostRecent(C).hlc, ts[p])
  BY <1>8, <1>10, <1>11, <1>12, NotBeforeTrans DEF Covers
<1>14. GetMostRecent(C) # None
  BY <1>10, ConfigAssumption
<1>15. Covers(GetMostRecent(C), ts[p], regressed)
  BY <1>13, <1>14 DEF Covers
<1> QED BY <1>15 DEF C

\* A Get whose response and Puts stay keeps respecting them.
LEMMA RespectsStays ==
  ASSUME CopiesInv, Follows, Responses, Frame, KeepsShort, NEW g \in Get,
         resp'[g] = resp[g], need'[g] = need[g], before'[g] = before[g]
  PROVE  Respects(g, need[g], resp[g])'
<1> SUFFICES ASSUME NEW p \in before[g], need[g] + need'[p] > N, ~ Short(p)'
             PROVE  /\ resp[g].kind # "notfound"
                    /\ resp[g].kind = "value" => Covers(resp[g].vv, ts'[p], regressed')
  BY DEF Respects, MustSee
<1>1. ts'[p] = ts[p] /\ need'[p] = need[p] /\ ~ Short(p)
  BY BeforeStays
<1>2. /\ resp[g].kind # "notfound"
      /\ resp[g].kind = "value" => Covers(resp[g].vv, ts[p], regressed)
  BY <1>1 DEF Responses, Respects, MustSee
<1>3. regressed => regressed'
  BY DEF Frame
<1> QED BY Zenon, <1>1, <1>2, <1>3 DEF Covers

\* Every response respects the Puts that its Get comes after.
LEMMA ResponsesStep ==
  ASSUME N = Cardinality(Node), CopiesInv, Follows, ReadsCover, Responses, Frame,
         KeepsShort, [Next]_vars
  PROVE  Responses'
<1>1. TypeOK /\ Started
  BY DEF CopiesInv, TypeInv
<1>2. \A o \in Put : o \in Op /\ o \notin Get
  BY ConfigAssumption DEF Op
<1>3. \A o \in Get : o \in Op /\ o \notin Put
  BY ConfigAssumption DEF Op
<1>4. SUFFICES ASSUME NEW g \in Get
               PROVE  /\ pc'[g] # "done" => resp'[g].kind = "none"
                      /\ Respects(g, need[g], resp[g])'
  BY DEF Responses
<1>5. ASSUME resp'[g] = resp[g], need'[g] = need[g],
             pc'[g] = "done" => pc[g] = "done",
             before'[g] = before[g], pc[g] = "done" => pc'[g] = "done"
      PROVE  /\ pc'[g] # "done" => resp'[g].kind = "none"
             /\ Respects(g, need[g], resp[g])'
  BY <1>5, RespectsStays DEF Responses
<1>6. ASSUME NEW p \in Put, UNCHANGED before,
             \A o \in Op \ {p} :
               pc'[o] = pc[o] /\ resp'[o] = resp[o] /\ need'[o] = need[o]
      PROVE  /\ pc'[g] # "done" => resp'[g].kind = "none"
             /\ Respects(g, need[g], resp[g])'
  BY <1>2, <1>3, <1>5, <1>6
<1>7. DOMAIN pc = Op /\ DOMAIN resp = Op /\ DOMAIN need = Op
  BY <1>1 DEF TypeOK
<1>10. ASSUME NEW p \in Put,
              \/ \E n \in Node, k \in Key, now \in Time : StartPut(p, n, k, now)
              \/ StorePut(p)
              \/ SendPut(p)
              \/ \E m \in Node, now \in Time : ServeReplicate(p, m, now)
              \/ \E m \in Node : StoreReplicate(p, m)
              \/ \E acked \in SUBSET Node : FinishPut(p, acked)
       PROVE  /\ pc'[g] # "done" => resp'[g].kind = "none"
              /\ Respects(g, need[g], resp[g])'
  <2>1. /\ UNCHANGED before
        /\ UNCHANGED pc \/ \E x : pc' = [pc EXCEPT ![p] = x]
        /\ UNCHANGED resp \/ \E x : resp' = [resp EXCEPT ![p] = x]
        /\ UNCHANGED need \/ \E x : need' = [need EXCEPT ![p] = x]
    BY <1>10 DEF StartPut, StorePut, SendPut, ServeReplicate, StoreReplicate,
                 FinishPut, histVars
  <2>2. \A o \in Op \ {p} :
          pc'[o] = pc[o] /\ resp'[o] = resp[o] /\ need'[o] = need[o]
    BY <1>7, <1>2, <2>1
  <2> QED BY <1>6, <2>1, <2>2
<1>11. ASSUME NEW h \in Get, NEW n \in Node, NEW k \in Key, StartGet(h, n, k)
       PROVE  /\ pc'[g] # "done" => resp'[g].kind = "none"
              /\ Respects(g, need[g], resp[g])'
  <2>1. CASE g # h
    BY <1>1, <1>3, <1>5, <1>11, <2>1 DEF StartGet, TypeOK
  <2>2. CASE g = h
    <3>1. resp' = resp /\ pc[g] = "idle"
      BY <1>11, <2>2 DEF StartGet
    <3>2. resp'[g].kind = "none"
      BY <3>1 DEF Responses
    <3> QED BY <3>2 DEF Respects
  <2> QED BY <2>1, <2>2
<1>12. ASSUME NEW h \in Get, NEW now \in Time, QueryGet(h, now)
       PROVE  /\ pc'[g] # "done" => resp'[g].kind = "none"
              /\ Respects(g, need[g], resp[g])'
  <2> DEFINE r == quorum[at[h]].r
  <2>1. /\ UNCHANGED before /\ pc[h] = "query" /\ at[h] \in Node
        /\ need' = [need EXCEPT ![h] = r]
    BY <1>1, <1>3, <1>12 DEF QueryGet, histVars, Started
  <2>2. r \in Int
    BY <1>1, <2>1 DEF TypeOK
  <2>3. \/ UNCHANGED resp /\ pc' = [pc EXCEPT ![h] = "wait"]
        \/ /\ pc' = [pc EXCEPT ![h] = "done"]
           /\ resp' = [resp EXCEPT ![h] = Response("error", None)]
        \/ /\ pc' = [pc EXCEPT ![h] = "done"]
           /\ resp' = [resp EXCEPT ![h] = Answer(local[h], now)]
           /\ LocalOnly(r) \/ ~ (r > 1)
    BY Zenon, <1>12 DEF QueryGet
  <2> HIDE DEF r
  <2>4. CASE g # h
    <3>1. pc'[g] = pc[g] /\ resp'[g] = resp[g] /\ need'[g] = need[g]
      BY <1>7, <1>3, <2>1, <2>3, <2>4
    <3> QED BY <1>5, <2>1, <3>1
  <2>5. CASE g = h
    <3>1. CASE UNCHANGED resp /\ pc' = [pc EXCEPT ![h] = "wait"]
      <4>1. resp'[g].kind = "none"
        BY <2>1, <2>5, <3>1 DEF Responses
      <4> QED BY <4>1 DEF Respects
    <3>2. CASE /\ pc' = [pc EXCEPT ![h] = "done"]
               /\ resp' = [resp EXCEPT ![h] = Response("error", None)]
      <4>1. pc'[g] = "done" /\ resp'[g].kind = "error"
        BY <1>7, <1>3, <2>5, <3>2 DEF Response
      <4> QED BY <4>1 DEF Respects
    <3>3. CASE /\ pc' = [pc EXCEPT ![h] = "done"]
               /\ resp' = [resp EXCEPT ![h] = Answer(local[h], now)]
               /\ LocalOnly(r) \/ ~ (r > 1)
      <4>1. pc'[g] = "done" /\ resp'[g] = Answer(local[g], now) /\ need'[g] = r
        BY <1>7, <1>3, <2>1, <2>5, <3>3
      <4>2. r <= 1
        BY <2>2, <3>3 DEF LocalOnly
      <4>3. \A p \in MustSee(g, r) : Covers(local[g], ts[p], regressed)
        BY <2>1, <2>2, <2>5, <4>2, LocalCovers
      <4>4. \A p \in MustSee(g, need'[g]) : Covers(local[g], ts[p], regressed)
        BY Zenon, <4>1, <4>3
      <4>5. Respects(g, need[g], resp[g])'
        BY Zenon, <2>1, <4>1, <4>4, AnswerRespects
      <4> QED BY <4>1, <4>5
    <3> QED BY <2>3, <3>1, <3>2, <3>3
  <2> QED BY <2>4, <2>5
<1>13. ASSUME NEW h \in Get, NEW m \in Node, ServeGetLocal(h, m)
       PROVE  /\ pc'[g] # "done" => resp'[g].kind = "none"
              /\ Respects(g, need[g], resp[g])'
  BY <1>5, <1>13 DEF ServeGetLocal, histVars
<1>14. ASSUME NEW h \in Get, NEW arrived \in Arrivals(h), NEW now \in Time,
              FinishGet(h, arrived, now)
       PROVE  /\ pc'[g] # "done" => resp'[g].kind = "none"
              /\ Respects(g, need[g], resp[g])'
  <2>1. /\ UNCHANGED <<before, need>> /\ pc[h] = "wait"
        /\ pc' = [pc EXCEPT ![h] = "done"]
    BY <1>14 DEF FinishGet, ResultsClosed, histVars
  <2> DEFINE vv == GetMostRecent(Candidates(h, arrived))
  <2>2. resp' = [resp EXCEPT ![h] = IF Len(arrived) + 1 < need[h]
                                    THEN Response("error", None)
                                    ELSE Answer(vv, now)]
    BY <1>14 DEF FinishGet
  <2> HIDE DEF vv
  <2>3. CASE g # h
    <3>1. pc'[g] = pc[g] /\ resp'[g] = resp[g]
      BY <1>7, <1>3, <2>1, <2>2, <2>3
    <3> QED BY <1>5, <2>1, <3>1
  <2>4. CASE g = h
    <3>1. pc'[g] = "done"
      BY <1>7, <1>3, <2>1, <2>4
    <3>2. CASE Len(arrived) + 1 < need[h]
      <4>1. resp'[g].kind = "error"
        BY <1>7, <1>3, <2>2, <2>4, <3>2 DEF Response
      <4> QED BY <3>1, <4>1 DEF Respects
    <3>3. CASE ~ (Len(arrived) + 1 < need[h])
      <4>1. resp'[g] = Answer(vv, now)
        BY <1>7, <1>3, <2>2, <2>4, <3>3
      <4>2. Len(arrived) \in Nat /\ need[h] \in Int
        <5>1. arrived \in Seq(Found(h))
          BY Zenon, <1>1, CandidatesType
        <5>2. need \in [Op -> Int]
          BY Zenon, <1>1 DEF TypeOK
        <5> QED BY <1>3, <5>1, <5>2
      <4>3. \A p \in MustSee(h, need[h]) : Covers(vv, ts[p], regressed)
        <5>1. Len(arrived) + 1 >= need[h]
          BY <3>3, <4>2
        <5> QED BY <2>1, <5>1, MostRecentCovers DEF vv
      <4>4. \A p \in MustSee(g, need'[g]) : Covers(vv, ts[p], regressed)
        BY Zenon, <2>1, <2>4, <4>3
      <4>5. Respects(g, need[g], resp[g])'
        BY Zenon, <2>1, <4>1, <4>4, AnswerRespects
      <4> QED BY <3>1, <4>5
    <3> QED BY <3>2, <3>3
  <2> QED BY <2>3, <2>4
<1>15. ASSUME UNCHANGED vars
       PROVE  /\ pc'[g] # "done" => resp'[g].kind = "none"
              /\ Respects(g, need[g], resp[g])'
  BY <1>5, <1>15 DEF vars, reqVars, histVars
<1> QED
  BY <1>10, <1>11, <1>12, <1>13, <1>14, <1>15 DEF Next, AllAnswered

-----------------------------------------------------------------------------
(* The invariant *)

\* Every step of the handlers keeps the invariant.
LEMMA FreshStep ==
  ASSUME N = Cardinality(Node), FreshInv, [Next]_vars
  PROVE  FreshInv'
<1>1. CopiesInv /\ StoresCover /\ Follows /\ ReadsCover /\ Responses
  BY DEF FreshInv
<1>2. CopiesInv' /\ Frame
  BY <1>1, CopiesStep, FrameStep
<1>3. KeepsShort
  BY <1>1, <1>2, KeepsShortStep
<1>4. StoresCover' /\ Follows'
  BY <1>1, <1>2, StoresCoverStep, FollowsStep
<1>5. ReadsCover' /\ Responses'
  BY <1>1, <1>2, <1>3, ReadsCoverStep, ResponsesStep
<1> QED BY <1>2, <1>4, <1>5 DEF FreshInv

\* Initially there is nothing to read.
LEMMA FreshInit == Init => FreshInv
<1> SUFFICES ASSUME Init PROVE FreshInv
  OBVIOUS
<1>1. StoresCover /\ Follows /\ ReadsCover
  BY DEF Init, StoresCover, Follows, ReadsCover, Op
<1>2. Responses
  BY DEF Init, Responses, Respects, Op, Response
<1> QED BY <1>1, <1>2, CopiesInit DEF FreshInv

-----------------------------------------------------------------------------
(* A cluster whose configuration changes *)

\* A step that changes nothing but quorum sizes and peers.
Reconfigured ==
  /\ UNCHANGED <<clock, store, reqVars, histVars>>
  /\ quorum' \in [Node -> [r : Int, w : Int]]
  /\ peers' \in [Node -> SUBSET Node]
  /\ Others'

\* Requests take the steps of Replication; AdaptiveQuorum.SetQuorum and
\* Coordinator.reconcilePeers only reconfigure.
LEMMA DynSteps ==
  ASSUME TypeOK, Others, [DynNext]_dynVars
  PROVE  [Next]_vars \/ Reconfigured
<1>1. /\ quorum \in [Node -> [r : Int, w : Int]]
      /\ peers \in [Node -> SUBSET Node]
  BY DEF TypeOK
<1>2. ASSUME NEW n \in Node, Adjust(n)
      PROVE  Reconfigured
  <2>1. UNCHANGED <<clock, store, peers, reqVars, histVars>>
    BY Zenon, <1>2 DEF Adjust
  <2>2. \E q \in [r : Int, w : Int] : quorum' = [quorum EXCEPT ![n] = q]
    <3>1. quorum[n].r \in Int /\ quorum[n].w \in Int
      BY <1>1
    <3>2. /\ Q!Relax(quorum[n]) \in [r : Int, w : Int]
          /\ Q!Tighten(quorum[n]) \in [r : Int, w : Int]
      BY <3>1 DEF Q!Relax, Q!Tighten
    <3> QED BY Zenon, <1>2, <3>2 DEF Adjust, Q!SetQuorum
  <2>3. quorum' \in [Node -> [r : Int, w : Int]]
    BY <1>1, <2>2
  <2> QED BY <1>1, <2>1, <2>3 DEF Reconfigured, Others
<1>3. ASSUME NEW n \in Node, NEW found \in DiscoverPeersDNS(n),
             ReconcilePeers(n, found)
      PROVE  Reconfigured
  <2>1. /\ peers' = [peers EXCEPT ![n] = found]
        /\ UNCHANGED <<clock, store, quorum, reqVars, histVars>>
    BY Zenon, <1>3 DEF ReconcilePeers
  <2>2. found \in SUBSET Node /\ n \notin found
    BY DEF DiscoverPeersDNS
  <2>3. peers' \in [Node -> SUBSET Node] /\ Others'
    BY <1>1, <2>1, <2>2 DEF Others
  <2> QED BY <1>1, <2>1, <2>3 DEF Reconfigured
<1>4. Request => Next
  BY Zenon DEF Request
<1>5. UNCHANGED dynVars => UNCHANGED vars
  BY Zenon DEF dynVars
<1> QED BY Zenon, <1>2, <1>3, <1>4, <1>5 DEF DynNext, BudgetSpent

\* Reconfiguring changes nothing that CopiesInv speaks of.
LEMMA CopiesReconfigured ==
  ASSUME CopiesInv, Reconfigured
  PROVE  CopiesInv'
<1>1. /\ UNCHANGED <<clock, store, reqVars, histVars>>
      /\ quorum' \in [Node -> [r : Int, w : Int]]
      /\ peers' \in [Node -> SUBSET Node]
      /\ Others'
  BY Zenon DEF Reconfigured
<1>2. TypeOK'
  BY <1>1 DEF CopiesInv, TypeInv, TypeOK, reqVars, histVars
<1>3. Started'
  BY <1>1 DEF CopiesInv, TypeInv, Started, reqVars
<1>4. Copies'
  BY <1>1 DEF CopiesInv, Copies, reqVars, histVars
<1>5. AckedOrShort'
  BY <1>1 DEF CopiesInv, AckedOrShort, Enough, Short, reqVars, histVars
<1> QED BY <1>1, <1>2, <1>3, <1>4, <1>5 DEF CopiesInv, TypeInv

\* ... nor what FreshInv speaks of.
LEMMA FreshReconfigured ==
  ASSUME FreshInv, Reconfigured
  PROVE  FreshInv'
<1>1. UNCHANGED <<clock, store, reqVars, histVars>>
  BY Zenon DEF Reconfigured
<1>2. CopiesInv'
  BY CopiesReconfigured DEF FreshInv
<1>3. StoresCover' /\ Follows'
  BY <1>1 DEF FreshInv, StoresCover, Follows, reqVars, histVars
<1>4. \A p : Short(p)' = Short(p)
  BY <1>1 DEF Short, Enough, reqVars, histVars
<1>5. ReadsCover'
  BY <1>1, <1>4 DEF FreshInv, ReadsCover, Heeds, Heard, reqVars, histVars
<1>6. Responses'
  BY <1>1, <1>4 DEF FreshInv, Responses, Respects, MustSee, reqVars, histVars
<1> QED BY <1>2, <1>3, <1>5, <1>6 DEF FreshInv

\* While nodes adjust R and W and discover peers, an acknowledged Put that has
\* fewer copies than the W it read has just the one at its own node: the early
\* return of Coordinator.Replicate without peers, in a cluster of any size.
THEOREM ShortOnlyWhenAloneHolds == DynSpec => []ShortOnlyWhenAlone
<1>1. DynInit => CopiesInv
  BY CopiesInit DEF DynInit
<1>2. CopiesInv /\ [DynNext]_dynVars => CopiesInv'
  BY DynSteps, CopiesStep, CopiesReconfigured DEF CopiesInv, TypeInv
<1>3. CopiesInv => ShortOnlyWhenAlone
  BY DEF CopiesInv, AckedOrShort, Short, Enough, ShortOnlyWhenAlone, Replicated
<1> QED BY <1>1, <1>2, <1>3, PTL DEF DynSpec

\* While nodes adjust R and W and discover peers, a Get that read R does not
\* miss a Put acknowledged before it began that read W and has its copies, if
\* R + W > N (Server.Get), in a cluster of any size N.
THEOREM FreshWhenQuorumsMeetHolds ==
  ASSUME N = Cardinality(Node)
  PROVE  DynSpec => []FreshWhenQuorumsMeet
<1>1. DynInit => FreshInv
  BY FreshInit DEF DynInit
<1>2. FreshInv /\ [DynNext]_dynVars => FreshInv'
  BY DynSteps, FreshStep, FreshReconfigured DEF FreshInv, CopiesInv, TypeInv
<1>3. FreshInv => FreshWhenQuorumsMeet
  <2> SUFFICES ASSUME FreshInv, NEW g \in Get, NEW p \in before[g],
                      need[g] + need[p] > N, Replicated(p)
               PROVE  /\ resp[g].kind # "notfound"
                      /\ ~ regressed /\ resp[g].kind = "value" =>
                           AtLeastAsRecent(g, p)
    BY DEF FreshWhenQuorumsMeet
  <2>1. p \in MustSee(g, need[g])
    BY DEF MustSee, Short, Enough, Replicated
  <2>2. /\ resp[g].kind # "notfound"
        /\ resp[g].kind = "value" => Covers(resp[g].vv, ts[p], regressed)
    BY <2>1 DEF FreshInv, Responses, Respects
  <2> QED BY Zenon, <2>2 DEF Covers, AtLeastAsRecent
<1> QED BY <1>1, <1>2, <1>3, PTL DEF DynSpec

-----------------------------------------------------------------------------
(* A cluster whose configuration does not change *)

\* With a fixed configuration a Get must not miss any Put acknowledged before
\* it began: none is short, and R + W > N for the R and W of all nodes.
LEMMA MustSeeAll ==
  ASSUME StaticInv, Follows, NEW g \in Get, pc[g] = "done", NEW p \in before[g]
  PROVE  p \in MustSee(g, need[g])
<1>1. p \in Put
  BY DEF StaticInv, CopiesInv, TypeInv, TypeOK
<1>2. resp[p].kind = "success"
  BY DEF Follows
<1>3. pc[p] = "done" /\ ~ Short(p)
  BY <1>1, <1>2
     DEF StaticInv, CopiesInv, Copies, AckedIsStored, Short, Enough
<1>4. at[g] \in Node /\ at[p] \in Node
  BY <1>1, <1>3 DEF StaticInv, CopiesInv, TypeInv, Started, Op
<1>5. need[p] = quorum[at[p]].w /\ need[g] = quorum[at[g]].r
  BY <1>1, <1>3 DEF StaticInv, Asked
<1>6. PICK q \in InitialQuorums : quorum = [n \in Node |-> q]
  BY DEF StaticInv, Static
<1>7. need[p] = q.w /\ need[g] = q.r
  BY <1>4, <1>5, <1>6
<1>8. need[g] + need[p] > N
  BY <1>7, ConfigAssumption DEF ValidQuorum
<1> QED BY <1>3, <1>8 DEF MustSee

\* The invariant implies what it is for.
LEMMA FreshImplies ==
  ASSUME StaticInv, FreshInv
  PROVE  AckedIsNotMissing /\ FreshUnlessRegressed
<1>1. Responses /\ Follows
  BY DEF FreshInv
<1>2. ASSUME NEW g \in Get, NEW p \in before[g], resp[g].kind # "none"
      PROVE  /\ resp[g].kind # "notfound"
             /\ resp[g].kind = "value" => Covers(resp[g].vv, ts[p], regressed)
  <2>1. pc[g] = "done"
    BY <1>1, <1>2 DEF Responses
  <2>2. p \in MustSee(g, need[g])
    BY <1>1, <2>1, MustSeeAll
  <2> QED BY <1>1, <2>2 DEF Responses, Respects
<1>3. AckedIsNotMissing
  BY <1>2 DEF AckedIsNotMissing
<1>4. FreshUnlessRegressed
  BY <1>2 DEF Covers, FreshUnlessRegressed, ReadsAreFresh, AtLeastAsRecent
<1> QED BY <1>3, <1>4

\* The invariants hold in every reachable state.
LEMMA FreshInvariant ==
  ASSUME N = Cardinality(Node)
  PROVE  Spec => [](StaticInv /\ FreshInv)
<1>1. StaticInv /\ FreshInv /\ [Next]_vars => (StaticInv /\ FreshInv)'
  BY StaticStep, FreshStep
<1>2. Init => StaticInv /\ FreshInv
  BY StaticInit, FreshInit
<1> QED BY <1>1, <1>2, PTL DEF Spec

\* After a Put has reported success, no Get of its key anywhere in a cluster of
\* N nodes answers that the key is not there (Server.Get).
THEOREM AckedIsNotMissingHolds ==
  ASSUME N = Cardinality(Node)
  PROVE  Spec => []AckedIsNotMissing
<1>1. StaticInv /\ FreshInv => AckedIsNotMissing
  BY FreshImplies
<1> QED BY <1>1, FreshInvariant, PTL

\* Until a store replaces a value by an older one (Store.PutWithHLC does not
\* compare), every Get returns a value as recent as all Puts of its key that
\* had reported success when it began.
THEOREM FreshUnlessRegressedHolds ==
  ASSUME N = Cardinality(Node)
  PROVE  Spec => []FreshUnlessRegressed
<1>1. StaticInv /\ FreshInv => FreshUnlessRegressed
  BY FreshImplies
<1> QED BY <1>1, FreshInvariant, PTL
=============================================================================
