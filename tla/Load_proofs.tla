---------------------------- MODULE Load_proofs -----------------------------
(***************************************************************************)
(* What a load of Ycsb inserts, for any number of workers, records and     *)
(* keys in a batch.  The workers' shares add up to the records to insert,  *)
(* every key taken is tried or held by a worker, and the keys taken are    *)
(* those of the operations counted, of the batches under way and of the    *)
(* warm-up.                                                                *)
(***************************************************************************)
EXTENDS Ycsb, TLAPS, FiniteSetTheorems

-----------------------------------------------------------------------------
(* Sums over the workers *)

\* The set whose size Sum(f) is.
Pairs(f) == UNION {{t} \X (1 .. f[t]) : t \in Thread}

\* The members of Pairs.
LEMMA PairsAre ==
  ASSUME NEW f \in [Thread -> Nat]
  PROVE  /\ \A t \in Thread : \A i \in 1 .. f[t] : <<t, i>> \in Pairs(f)
         /\ \A x \in Pairs(f) : \E t \in Thread : \E i \in 1 .. f[t] : x = <<t, i>>
BY DEF Pairs

\* A sum is a natural number.
LEMMA SumType ==
  ASSUME NEW f \in [Thread -> Nat]
  PROVE  IsFiniteSet(Pairs(f)) /\ Sum(f) = Cardinality(Pairs(f)) /\ Sum(f) \in Nat
<1> DEFINE P(t) == {t} \X (1 .. f[t])
           T == {P(t) : t \in Thread}
           g == [t \in Thread |-> P(t)]
<1>1. g \in Surjection(Thread, T)
  BY DEF Surjection
<1>2. IsFiniteSet(T)
  BY <1>1, FS_Surjection, YcsbAssumption
<1>3. ASSUME NEW t \in Thread PROVE IsFiniteSet(P(t))
  <2>1. IsFiniteSet(1 .. f[t])
    BY FS_Interval
  <2>2. IsFiniteSet({t})
    BY FS_Singleton
  <2> QED BY <2>1, <2>2, FS_Product
<1>4. IsFiniteSet(UNION T)
  <2>1. \A S \in T : IsFiniteSet(S)
    BY <1>3
  <2> HIDE DEF T
  <2> QED BY <1>2, <2>1, FS_UNION
<1>5. IsFiniteSet(Pairs(f))
  BY <1>4 DEF Pairs
<1> QED BY <1>5, FS_CardinalityType DEF Sum, Pairs

\* A sum grows with its terms.
LEMMA SumMonotone ==
  ASSUME NEW f \in [Thread -> Nat], NEW g \in [Thread -> Nat], \A t \in Thread : f[t] <= g[t]
  PROVE  Sum(f) <= Sum(g)
<1>1. Pairs(f) \in SUBSET Pairs(g)
  <2> SUFFICES ASSUME NEW x \in Pairs(f) PROVE x \in Pairs(g)
    OBVIOUS
  <2>1. PICK t \in Thread : \E i \in 1 .. f[t] : x = <<t, i>>
    BY PairsAre
  <2>2. PICK i \in 1 .. f[t] : x = <<t, i>>
    BY <2>1
  <2>3. i \in 1 .. g[t]
    OBVIOUS
  <2> QED BY <2>2, <2>3, PairsAre
<1> QED BY <1>1, SumType, FS_Subset

\* The sum of nothing.
LEMMA SumZero ==
  ASSUME NEW f \in [Thread -> Nat], \A t \in Thread : f[t] = 0
  PROVE  Sum(f) = 0
<1>1. Pairs(f) = {}
  <2> SUFFICES ASSUME NEW x \in Pairs(f) PROVE FALSE
    OBVIOUS
  <2>1. PICK t \in Thread : \E i \in 1 .. f[t] : x = <<t, i>>
    BY PairsAre
  <2>2. f[t] = 0
    OBVIOUS
  <2> QED BY <2>1, <2>2
<1> QED BY <1>1, SumType, FS_EmptySet

\* One term grows by n.
LEMMA SumAdd ==
  ASSUME NEW f \in [Thread -> Nat], NEW g \in [Thread -> Nat], NEW t \in Thread, NEW n \in Nat,
         g[t] = f[t] + n, \A u \in Thread \ {t} : g[u] = f[u]
  PROVE  Sum(g) = Sum(f) + n
<1> DEFINE new == {t} \X (f[t] + 1 .. f[t] + n)
<1>1. IsFiniteSet(new) /\ Cardinality(new) = n
  <2>1. IsFiniteSet({t}) /\ Cardinality({t}) = 1
    BY FS_Singleton
  <2>2. IsFiniteSet(f[t] + 1 .. f[t] + n) /\ Cardinality(f[t] + 1 .. f[t] + n) = n
    <3>1. f[t] + 1 \in Int /\ f[t] + n \in Int
      OBVIOUS
    <3>2. /\ IsFiniteSet(f[t] + 1 .. f[t] + n)
          /\ Cardinality(f[t] + 1 .. f[t] + n)
               = IF f[t] + 1 > f[t] + n THEN 0 ELSE (f[t] + n) - (f[t] + 1) + 1
      BY <3>1, FS_Interval
    <3> QED BY <3>1, <3>2
  <2>3. Cardinality(new) = 1 * n /\ IsFiniteSet(new)
    BY <2>1, <2>2, FS_Product
  <2> QED BY <2>3
<1>2. Pairs(f) \cap new = {}
  <2> SUFFICES ASSUME NEW x \in Pairs(f), x \in new PROVE FALSE
    OBVIOUS
  <2>1. PICK u \in Thread : \E i \in 1 .. f[u] : x = <<u, i>>
    BY PairsAre
  <2>2. PICK i \in 1 .. f[u] : x = <<u, i>>
    BY <2>1
  <2> QED BY <2>2
<1>3. Pairs(g) \subseteq Pairs(f) \cup new
  <2> SUFFICES ASSUME NEW x \in Pairs(g) PROVE x \in Pairs(f) \cup new
    OBVIOUS
  <2>1. PICK u \in Thread : \E i \in 1 .. g[u] : x = <<u, i>>
    BY PairsAre
  <2>2. PICK i \in 1 .. g[u] : x = <<u, i>>
    BY <2>1
  <2>3. CASE i \in 1 .. f[u]
    BY <2>2, <2>3, PairsAre
  <2>4. CASE i \notin 1 .. f[u]
    <3>1. u = t /\ i \in f[t] + 1 .. f[t] + n
      BY <2>4
    <3> QED BY <2>2, <3>1
  <2> QED BY <2>3, <2>4
<1>4. Pairs(f) \subseteq Pairs(g)
  <2> SUFFICES ASSUME NEW x \in Pairs(f) PROVE x \in Pairs(g)
    OBVIOUS
  <2>1. PICK u \in Thread : \E i \in 1 .. f[u] : x = <<u, i>>
    BY PairsAre
  <2>2. PICK i \in 1 .. f[u] : x = <<u, i>>
    BY <2>1
  <2>3. i \in 1 .. g[u]
    OBVIOUS
  <2> QED BY <2>2, <2>3, PairsAre
<1>5. new \subseteq Pairs(g)
  <2> SUFFICES ASSUME NEW x \in new PROVE x \in Pairs(g)
    OBVIOUS
  <2>1. PICK i \in f[t] + 1 .. f[t] + n : x = <<t, i>>
    OBVIOUS
  <2>2. i \in 1 .. g[t]
    OBVIOUS
  <2> QED BY <2>1, <2>2, PairsAre
<1> HIDE DEF new
<1>6. Pairs(g) = Pairs(f) \cup new
  BY <1>3, <1>4, <1>5
<1>7. Cardinality(Pairs(f) \cup new) = Cardinality(Pairs(f)) + n - Cardinality({})
  BY <1>1, <1>2, SumType, FS_Union
<1> QED BY <1>6, <1>7, SumType, FS_EmptySet

\* Every term grows by n.
LEMMA SumWiden ==
  ASSUME NEW f \in [Thread -> Nat], NEW g \in [Thread -> Nat], NEW n \in Nat,
         \A t \in Thread : g[t] = f[t] + n
  PROVE  Sum(g) = Sum(f) + Threads * n
<1> DEFINE base == Thread \X (1 .. n)
           new == {x \in Pairs(g) : x \notin Pairs(f)}
           h == [x \in base |-> <<x[1], f[x[1]] + x[2]>>]
<1>1. IsFiniteSet(base) /\ Cardinality(base) = Threads * n
  <2>1. IsFiniteSet(1 .. n) /\ Cardinality(1 .. n) = n
    BY FS_Interval
  <2> QED BY <2>1, FS_Product, YcsbAssumption DEF Threads
<1>2. ASSUME NEW t \in Thread, NEW i \in 1 .. f[t], NEW u \in Thread, NEW j \in Int, j > f[u]
      PROVE  <<t, i>> # <<u, j>>
  BY <1>2
<1>3. ASSUME NEW x \in base PROVE h[x] \in new
  <2>1. PICK t \in Thread, i \in 1 .. n : x = <<t, i>>
    OBVIOUS
  <2>2. h[x] = <<t, f[t] + i>> /\ f[t] + i \in 1 .. g[t] /\ f[t] + i > f[t]
    BY <2>1
  <2>3. h[x] \in Pairs(g)
    BY <2>2, PairsAre
  <2>4. h[x] \notin Pairs(f)
    BY <1>2, <2>2, PairsAre
  <2> QED BY <2>3, <2>4
<1>4. ASSUME NEW x \in new PROVE \E y \in base : h[y] = x
  <2>1. PICK t \in Thread : \E i \in 1 .. g[t] : x = <<t, i>>
    BY PairsAre
  <2>2. PICK i \in 1 .. g[t] : x = <<t, i>>
    BY <2>1
  <2>3. i \notin 1 .. f[t]
    BY <2>2, PairsAre
  <2>4. i - f[t] \in 1 .. n /\ f[t] + (i - f[t]) = i
    BY <2>3
  <2>5. <<t, i - f[t]>> \in base /\ h[<<t, i - f[t]>>] = <<t, i>>
    BY <2>4
  <2> QED BY <2>2, <2>5
<1>5. ASSUME NEW x \in base, NEW y \in base, h[x] = h[y] PROVE x = y
  <2>1. PICK t \in Thread, i \in 1 .. n : x = <<t, i>>
    OBVIOUS
  <2>2. PICK u \in Thread, j \in 1 .. n : y = <<u, j>>
    OBVIOUS
  <2>3. <<t, f[t] + i>> = <<u, f[u] + j>>
    BY <1>5, <2>1, <2>2
  <2> QED BY <2>1, <2>2, <2>3
<1>6. h \in Bijection(base, new)
  <2>1. h \in [base -> new]
    BY <1>3
  <2> QED BY <1>4, <1>5, <2>1 DEF Bijection, Injection, Surjection, IsInjective
<1>7. IsFiniteSet(new) /\ Cardinality(new) = Threads * n
  <2> HIDE DEF base, new, h
  <2>1. ExistsBijection(base, new)
    BY <1>6 DEF ExistsBijection
  <2> QED BY <1>1, <2>1, FS_Bijection
<1>8. Pairs(f) \subseteq Pairs(g)
  <2> SUFFICES ASSUME NEW x \in Pairs(f) PROVE x \in Pairs(g)
    OBVIOUS
  <2>1. PICK u \in Thread : \E i \in 1 .. f[u] : x = <<u, i>>
    BY PairsAre
  <2>2. PICK i \in 1 .. f[u] : x = <<u, i>>
    BY <2>1
  <2>3. i \in 1 .. g[u]
    OBVIOUS
  <2> QED BY <2>2, <2>3, PairsAre
<1>9. Pairs(g) = Pairs(f) \cup new /\ Pairs(f) \cap new = {}
  BY <1>8
<1> HIDE DEF new
<1>10. Cardinality(Pairs(f) \cup new) = Cardinality(Pairs(f)) + Threads * n - Cardinality({})
  BY <1>7, <1>9, SumType, FS_Union
<1>11. Threads * n \in Int
  BY FS_CardinalityType, YcsbAssumption DEF Threads
<1>12. Sum(g) = Cardinality(Pairs(f)) + Threads * n - Cardinality({})
  BY <1>9, <1>10, SumType
<1>13. Cardinality({}) = 0 /\ Sum(f) = Cardinality(Pairs(f)) /\ Sum(f) \in Nat
  BY SumType, FS_EmptySet
<1> HIDE DEF h, base
<1> QED BY <1>11, <1>12, <1>13

\* The quotient of a number of operations by a number of workers.
LEMMA Quotient ==
  ASSUME NEW W \in Nat \ {0}, NEW a \in Nat
  PROVE  /\ a \div W \in Nat /\ a % W \in 0 .. W - 1 /\ a = W * (a \div W) + (a % W)
         /\ a >= W => a \div W > 0
<1> DEFINE q == a \div W
<1>1. q \in Int /\ a % W \in 0 .. W - 1 /\ a = W * q + (a % W)
  OBVIOUS
<1> HIDE DEF q
<1>2. q < 0 => W * (q + 1) <= 0
  BY <1>1
<1>3. q < 0 => W * q <= 0 - W
  BY <1>1, <1>2
<1>4. q >= 0
  BY <1>1, <1>3
<1>5. q = 0 => W * q = 0
  BY <1>1
<1>6. a >= W => q > 0
  BY <1>1, <1>4, <1>5
<1> QED BY <1>1, <1>4, <1>6 DEF q

\* The shares of the workers add up to the operations of the run.
LEMMA SharesAre ==
  ASSUME Thread # {}, conf \in Configs
  PROVE  /\ Threads \in Nat \ {0}
         /\ \A t \in Thread : OpCount(t) \in Nat /\ (conf.total >= Threads => OpCount(t) > 0)
         /\ Sum([t \in Thread |-> OpCount(t)]) = conf.total
<1> DEFINE q == conf.total \div Threads
           r == conf.total % Threads
           first == [t \in Thread |-> IF Rank[t] < r THEN 1 ELSE 0]
           share == [t \in Thread |-> OpCount(t)]
<1>1. Threads \in Nat \ {0} /\ conf.total \in Nat
  BY YcsbAssumption, FS_CardinalityType, FS_EmptySet DEF Threads
<1>2. q \in Nat /\ r \in 0 .. Threads - 1 /\ conf.total = Threads * q + r
  BY <1>1, Quotient
<1>3. conf.total >= Threads => q > 0
  BY <1>1, Quotient
<1>4. \A t \in Thread : OpCount(t) = q + first[t] /\ first[t] \in Nat
  BY DEF OpCount
<1> HIDE DEF q, r
<1>5. /\ Rank \in [Thread -> 0 .. Threads - 1]
      /\ \A t, u \in Thread : Rank[t] = Rank[u] => t = u
      /\ \A k \in 0 .. Threads - 1 : \E t \in Thread : Rank[t] = k
  BY YcsbAssumption DEF Threads, Bijection, Injection, Surjection, IsInjective
<1>6. Sum(first) = r
  <2> DEFINE T == 0 .. r - 1
             g == [x \in Pairs(first) |-> Rank[x[1]]]
  <2>1. first \in [Thread -> Nat]
    OBVIOUS
  <2>2. ASSUME NEW x \in Pairs(first)
        PROVE  \E t \in Thread : x = <<t, 1>> /\ Rank[t] \in T /\ g[x] = Rank[t]
    <3>1. PICK t \in Thread : \E i \in 1 .. first[t] : x = <<t, i>>
      BY <2>1, PairsAre
    <3>2. PICK i \in 1 .. first[t] : x = <<t, i>>
      BY <3>1
    <3>3. i = 1 /\ Rank[t] < r
      BY <3>2
    <3>4. Rank[t] \in T
      BY <1>2, <1>5, <3>3
    <3>5. x = <<t, 1>> /\ g[x] = Rank[t]
      BY <3>2, <3>3
    <3> QED BY <3>4, <3>5
  <2>3. ASSUME NEW k \in T PROVE \E x \in Pairs(first) : g[x] = k
    <3>0. k \in 0 .. Threads - 1
      BY <1>1, <1>2
    <3>1. PICK t \in Thread : Rank[t] = k
      BY <1>5, <3>0
    <3>2. 1 \in 1 .. first[t]
      BY <1>2, <3>1
    <3>3. <<t, 1>> \in Pairs(first)
      BY <2>1, <3>2, PairsAre
    <3>4. g[<<t, 1>>] = k
      BY <3>1, <3>3
    <3> QED BY <3>3, <3>4
  <2>4. ASSUME NEW x \in Pairs(first), NEW y \in Pairs(first), g[x] = g[y] PROVE x = y
    <3>1. PICK t \in Thread : x = <<t, 1>> /\ g[x] = Rank[t]
      BY <2>2
    <3>2. PICK u \in Thread : y = <<u, 1>> /\ g[y] = Rank[u]
      BY <2>2
    <3> QED BY <1>5, <2>4, <3>1, <3>2
  <2>5. DOMAIN g = Pairs(first) /\ g = [x \in Pairs(first) |-> g[x]]
    OBVIOUS
  <2> HIDE DEF g
  <2>6. g \in [Pairs(first) -> T]
    BY <2>2, <2>5
  <2>7. g \in Bijection(Pairs(first), T)
    BY <2>3, <2>4, <2>5, <2>6 DEF Bijection, Injection, Surjection, IsInjective
  <2> HIDE DEF first, T
  <2>8. Cardinality(T) = Cardinality(Pairs(first))
    BY <2>1, <2>7, SumType, FS_Bijection DEF ExistsBijection
  <2>9. Cardinality(T) = r
    BY <1>2, FS_Interval DEF T
  <2> QED BY <2>1, <2>8, <2>9, SumType
<1>7. share \in [Thread -> Nat] /\ first \in [Thread -> Nat] /\ \A t \in Thread : share[t] = first[t] + q
  BY <1>2, <1>4
<1> HIDE DEF first, share
<1>8. Sum(share) = Sum(first) + Threads * q
  BY <1>2, <1>7, SumWiden
<1>9. Sum(share) = conf.total
  BY <1>1, <1>2, <1>6, <1>8
<1>10. \A t \in Thread : OpCount(t) \in Nat /\ (conf.total >= Threads => OpCount(t) > 0)
  <2> SUFFICES ASSUME NEW t \in Thread
               PROVE  OpCount(t) \in Nat /\ (conf.total >= Threads => OpCount(t) > 0)
    OBVIOUS
  <2>1. OpCount(t) = q + first[t] /\ first[t] \in Nat
    BY <1>4
  <2> QED BY <1>1, <1>2, <1>3, <2>1
<1> QED BY <1>1, <1>9, <1>10 DEF share

-----------------------------------------------------------------------------
(* What a load inserts *)

\* The keys a worker has taken for its operation, and the keys it has yet to take.
Held == [t \in Thread |-> Len(keys[t])]
Missing == [t \in Thread |-> IF keys[t] = <<>> THEN 0 ELSE conf.batch - Len(keys[t])]

\* What the proof of a load uses of the variables' types.
LoadType ==
  /\ sequence \in Nat
  /\ DOMAIN wpc = Thread /\ DOMAIN op = Thread
  /\ keys \in [Thread -> Seq(Nat)]
  /\ opsDone \in [Thread -> Nat] /\ warmOps \in [Thread -> Nat]

\* No key is lost of a batch that is tried as a whole.
Whole == conf.batch = 1 \/ conf.inner

\* A worker of a load.
Loader(t) ==
  /\ wpc[t] \in {"new", "op", "call", "count", "done"}
  /\ wpc[t] \in {"new", "done"} => keys[t] = <<>>
  /\ wpc[t] = "op" => Len(keys[t]) < conf.batch
  /\ wpc[t] \in {"call", "count"} => op[t] = "load" /\ Len(keys[t]) = conf.batch
  /\ wpc[t] = "count" /\ Whole => Range(keys[t]) \subseteq tried
  /\ wpc[t] = "new" => opsDone[t] = 0
  /\ wpc[t] \in {"op", "call", "count"} => opsDone[t] < OpCount(t)
  /\ wpc[t] = "done" => /\ opsDone[t] < OpCount(t) + conf.batch
                        /\ sigPc = "wait" => OpCount(t) <= opsDone[t]

\* The context is canceled only when the workers are done, unless a signal came.
MainWaits ==
  /\ canceled /\ sigPc = "wait" => mainPc \in {"close", "end", "exit"}
  /\ mainPc \in {"drain", "close", "end"} => \A t \in Thread : wpc[t] = "done"

\* Every key taken was tried or is held by a worker.
NoKeyLost ==
  Whole => \A k \in 0 .. sequence - 1 : k \in tried \/ \E t \in Thread : k \in Range(keys[t])

\* The keys taken are those of the operations counted, those that workers hold
\* and, at most, those of the operations begun during the warm-up: while it
\* lasts, these are all there are, and the keys yet to be taken belong to them.
KeysTaken ==
  /\ Sum(opsDone) + Sum(Held) <= sequence
  /\ warmUp => sequence + Sum(Missing) <= Sum(opsDone) + conf.batch * Sum(warmOps)
  /\ ~ warmUp => sequence <= Sum(opsDone) + conf.batch * Sum(warmOps) + Sum(Held)

\* The inductive invariant of a load.
LoadInv ==
  /\ conf \in Configs
  /\ conf.command = "load" =>
       LoadType /\ MainWaits /\ NoKeyLost /\ KeysTaken /\ \A t \in Thread : Loader(t)

\* The constants of a load and the sums over its workers are numbers.
LEMMA LoadNumbers ==
  ASSUME LoadInv, conf.command = "load"
  PROVE  /\ conf.batch \in Nat \ {0} /\ conf.total \in Nat
         /\ LoadType /\ sequence \in Nat
         /\ Held \in [Thread -> Nat] /\ Missing \in [Thread -> Nat]
         /\ Sum(opsDone) \in Nat /\ Sum(warmOps) \in Nat
         /\ Sum(Held) \in Nat /\ Sum(Missing) \in Nat
         /\ conf.batch * Sum(warmOps) \in Nat
<1>1. conf.batch \in Nat \ {0} /\ conf.total \in Nat /\ LoadType
  BY YcsbAssumption DEF LoadInv
<1>2. \A t \in Thread : Len(keys[t]) \in Nat /\ Len(keys[t]) <= conf.batch
  <2> SUFFICES ASSUME NEW t \in Thread PROVE Len(keys[t]) \in Nat /\ Len(keys[t]) <= conf.batch
    OBVIOUS
  <2>1. keys[t] \in Seq(Nat) /\ Len(keys[t]) \in Nat /\ Loader(t)
    BY <1>1 DEF LoadType, LoadInv
  <2>2. keys[t] = <<>> => Len(keys[t]) = 0
    OBVIOUS
  <2> QED BY <1>1, <2>1, <2>2 DEF Loader
<1>3. Held \in [Thread -> Nat] /\ Missing \in [Thread -> Nat]
  BY <1>1, <1>2 DEF Held, Missing
<1>4. sequence \in Nat /\ opsDone \in [Thread -> Nat] /\ warmOps \in [Thread -> Nat]
  BY <1>1 DEF LoadType
<1>5. Sum(opsDone) \in Nat /\ Sum(warmOps) \in Nat /\ Sum(Held) \in Nat /\ Sum(Missing) \in Nat
  BY <1>3, <1>4, SumType
<1>6. conf.batch * Sum(warmOps) \in Nat
  BY <1>1, <1>5
<1> QED BY <1>1, <1>3, <1>4, <1>5, <1>6

\* A worker that does not move.
LEMMA LoaderFrame ==
  ASSUME NEW u \in Thread, Loader(u), conf' = conf, sigPc' = "wait" => sigPc = "wait",
         wpc'[u] = wpc[u], op'[u] = op[u], keys'[u] = keys[u], opsDone'[u] = opsDone[u],
         tried \subseteq tried'
  PROVE  Loader(u)'
<1>1. OpCount(u)' = OpCount(u)
  BY DEF OpCount
<1>2. Whole' = Whole
  BY DEF Whole
<1> QED BY <1>1, <1>2 DEF Loader

\* Steps of main and of the other goroutines.
LEMMA LoadQuiet ==
  ASSUME LoadInv, UNCHANGED <<conf, wpc, op, keys, opsDone, sequence, tried, warmOps>>,
         sigPc' = "wait" => sigPc = "wait", warmUp' => warmUp,
         conf.command = "load" => MainWaits'
  PROVE  LoadInv'
<1> SUFFICES ASSUME conf.command = "load"
             PROVE  LoadType' /\ NoKeyLost' /\ KeysTaken' /\ \A t \in Thread : Loader(t)'
  BY DEF LoadInv
<1>1. LoadType' /\ NoKeyLost'
  BY DEF LoadInv, LoadType, NoKeyLost, Whole
<1>2. KeysTaken'
  <2>1. Held' = Held /\ Missing' = Missing
    BY DEF Held, Missing
  <2>2. KeysTaken
    BY DEF LoadInv
  <2> QED BY <2>1, <2>2, LoadNumbers DEF KeysTaken
<1>3. \A t \in Thread : Loader(t)'
  BY LoaderFrame DEF LoadInv
<1> QED BY <1>1, <1>2, <1>3

\* A step of one worker.
LEMMA OneLoads ==
  ASSUME LoadInv, conf.command = "load", NEW t \in Thread, wpc[t] # "done",
         UNCHANGED <<conf, sigPc, canceled, mainPc>>, tried \subseteq tried',
         \A u \in Thread \ {t} :
           wpc'[u] = wpc[u] /\ op'[u] = op[u] /\ keys'[u] = keys[u] /\ opsDone'[u] = opsDone[u],
         LoadType', Loader(t)', NoKeyLost', KeysTaken'
  PROVE  LoadInv'
<1>1. mainPc \notin {"drain", "close", "end"}
  BY DEF LoadInv, MainWaits
<1>2. MainWaits'
  BY <1>1 DEF LoadInv, MainWaits
<1>3. ASSUME NEW u \in Thread PROVE Loader(u)'
  <2>1. CASE u = t
    BY <2>1
  <2>2. CASE u # t
    BY <2>2, LoaderFrame DEF LoadInv
  <2> QED BY <2>1, <2>2
<1> QED BY <1>2, <1>3 DEF LoadInv

\* A worker starts.
LEMMA NewLoader ==
  ASSUME Thread # {}, LoadInv, conf.command = "load", NEW t \in Thread, NewWorker(t), ~ Exit
  PROVE  LoadInv'
<1>1. /\ wpc[t] = "new" /\ conf.total >= Threads /\ wpc' = [wpc EXCEPT ![t] = "op"]
      /\ UNCHANGED <<conf, sigPc, canceled, mainPc, warmUp, op, keys, opsDone, sequence, tried, warmOps>>
  BY DEF NewWorker, runVars, Goto
<1>2. LoadType /\ Loader(t) /\ NoKeyLost /\ KeysTaken /\ conf.batch \in Nat \ {0}
  BY LoadNumbers DEF LoadInv
<1>3. LoadType' /\ NoKeyLost'
  BY <1>1, <1>2 DEF LoadType, NoKeyLost, Whole
<1>4. KeysTaken'
  <2>1. Held' = Held /\ Missing' = Missing
    BY <1>1 DEF Held, Missing
  <2> QED BY <1>1, <1>2, <2>1 DEF KeysTaken
<1>5. wpc'[t] = "op" /\ \A u \in Thread \ {t} : wpc'[u] = wpc[u]
  BY <1>1, <1>2 DEF LoadType
<1>6. Loader(t)'
  <2>1. OpCount(t)' = OpCount(t)
    BY <1>1 DEF OpCount
  <2>2. keys[t] = <<>> /\ opsDone[t] = 0 /\ Len(<<>>) = 0
    BY <1>1, <1>2 DEF Loader
  <2>3. OpCount(t) > 0
    BY <1>1, SharesAre DEF LoadInv
  <2> QED BY <1>1, <1>2, <1>5, <2>1, <2>2, <2>3 DEF Loader
<1> QED BY <1>1, <1>3, <1>4, <1>5, <1>6, OneLoads

\* The call of an insertion returns.
LEMMA LoadCalls ==
  ASSUME LoadInv, conf.command = "load", NEW t \in Thread, NEW ok \in BOOLEAN, Call(t, ok)
  PROVE  LoadInv'
<1>1. /\ wpc[t] = "call" /\ wpc' = [wpc EXCEPT ![t] = AfterCall(t, ok)]
      /\ UNCHANGED <<conf, sigPc, canceled, mainPc, warmUp, op, keys, opsDone, sequence, warmOps>>
  BY DEF Call, runVars, Goto
<1>2. PICK attempted \in Attempts(t, ok) : tried' = tried \cup attempted
  BY DEF Call
<1>3. /\ LoadType /\ Loader(t) /\ NoKeyLost /\ KeysTaken /\ conf.batch \in Nat \ {0}
      /\ op[t] = "load" /\ keys[t] \in Seq(Nat) /\ Len(keys[t]) = conf.batch
  BY <1>1, LoadNumbers DEF LoadInv, Loader, LoadType
<1>4. LoadType' /\ NoKeyLost'
  BY <1>1, <1>2, <1>3 DEF LoadType, NoKeyLost, Whole
<1>5. KeysTaken'
  <2>1. Held' = Held /\ Missing' = Missing
    BY <1>1 DEF Held, Missing
  <2> QED BY <1>1, <1>3, <2>1 DEF KeysTaken
<1>6. wpc'[t] \in {"call", "count"} /\ \A u \in Thread \ {t} : wpc'[u] = wpc[u]
  BY <1>1, <1>3 DEF LoadType, AfterCall
<1>7. Whole => Range(keys[t]) \subseteq attempted
  <2>1. CASE ok \/ conf.inner
    BY <1>2, <1>3, <2>1 DEF Attempts, Inserts
  <2>2. CASE ~ (ok \/ conf.inner) /\ conf.batch = 1
    <3>1. PICK i \in 1 .. Len(keys[t]) : attempted = {keys[t][j] : j \in 1 .. i}
      BY <1>2, <1>3, <2>2 DEF Attempts, Inserts
    <3>2. i = 1 /\ DOMAIN keys[t] = 1 .. 1
      BY <1>3, <2>2
    <3> QED BY <3>1, <3>2 DEF Range
  <2> QED BY <2>1, <2>2 DEF Whole
<1>8. Loader(t)'
  <2>1. OpCount(t)' = OpCount(t) /\ Whole' = Whole
    BY <1>1 DEF OpCount, Whole
  <2> QED BY <1>1, <1>2, <1>3, <1>6, <1>7, <2>1 DEF Loader
<1> QED BY <1>1, <1>2, <1>4, <1>5, <1>6, <1>8, OneLoads

\* A worker takes a key.
LEMMA LoadTakes ==
  ASSUME LoadInv, conf.command = "load", NEW t \in Thread, TakeKey(t)
  PROVE  LoadInv'
<1>1. /\ wpc[t] = "op" /\ sequence' = sequence + 1
      /\ keys' = [keys EXCEPT ![t] = Append(keys[t], sequence)]
      /\ op' = [op EXCEPT ![t] = "load"]
      /\ wpc' = [wpc EXCEPT ![t] = IF Len(keys'[t]) = conf.batch THEN "call" ELSE "op"]
      /\ UNCHANGED <<conf, sigPc, canceled, mainPc, warmUp, opsDone, tried>>
  BY DEF TakeKey, Begins, runVars, Goto
<1>2. warmOps' = IF keys[t] = <<>> /\ warmUp THEN [warmOps EXCEPT ![t] = warmOps[t] + 1] ELSE warmOps
  <2>1. warmOps = [warmOps EXCEPT ![t] = warmOps[t]]
    BY LoadNumbers DEF LoadType
  <2> QED BY <2>1 DEF TakeKey, Begins
<1>3. /\ LoadType /\ Loader(t) /\ NoKeyLost /\ KeysTaken /\ conf.batch \in Nat \ {0}
      /\ keys[t] \in Seq(Nat) /\ Len(keys[t]) \in Nat /\ Len(keys[t]) < conf.batch
      /\ opsDone[t] < OpCount(t) /\ sequence \in Nat
      /\ keys \in [Thread -> Seq(Nat)]
  <2>1. LoadType /\ Loader(t) /\ NoKeyLost /\ KeysTaken /\ conf.batch \in Nat \ {0}
    BY LoadNumbers DEF LoadInv
  <2>2. keys \in [Thread -> Seq(Nat)] /\ keys[t] \in Seq(Nat) /\ sequence \in Nat
    BY <2>1 DEF LoadType
  <2>3. Len(keys[t]) < conf.batch /\ opsDone[t] < OpCount(t)
    BY <1>1, <2>1 DEF Loader
  <2> QED BY <2>1, <2>2, <2>3
<1>4. /\ keys'[t] = Append(keys[t], sequence)
      /\ \A u \in Thread \ {t} : keys'[u] = keys[u]
  BY <1>1, <1>3
<1>5. /\ keys'[t] \in Seq(Nat) /\ Len(keys'[t]) = Len(keys[t]) + 1 /\ keys'[t] # <<>>
      /\ Range(keys[t]) \subseteq Range(keys'[t]) /\ sequence \in Range(keys'[t])
  <2>1. keys'[t] \in Seq(Nat) /\ Len(keys'[t]) = Len(keys[t]) + 1
    BY <1>3, <1>4
  <2>2. Len(<<>>) = 0
    OBVIOUS
  <2>3. /\ DOMAIN keys'[t] = 1 .. Len(keys[t]) + 1 /\ DOMAIN keys[t] = 1 .. Len(keys[t])
        /\ keys'[t][Len(keys[t]) + 1] = sequence
        /\ \A i \in 1 .. Len(keys[t]) : keys'[t][i] = keys[t][i]
    BY <1>3, <1>4
  <2>4. Len(keys[t]) + 1 \in DOMAIN keys'[t] /\ DOMAIN keys[t] \subseteq DOMAIN keys'[t]
    BY <1>3, <2>3
  <2>5. Range(keys[t]) \subseteq Range(keys'[t])
    BY <2>3, <2>4 DEF Range
  <2>6. sequence \in Range(keys'[t])
    BY <2>3, <2>4 DEF Range
  <2>7. keys'[t] # <<>>
    BY <1>3, <2>1, <2>2
  <2> QED BY <2>1, <2>5, <2>6, <2>7
<1>6. /\ wpc'[t] = IF Len(keys'[t]) = conf.batch THEN "call" ELSE "op"
      /\ op'[t] = "load"
      /\ \A u \in Thread \ {t} : wpc'[u] = wpc[u] /\ op'[u] = op[u]
      /\ DOMAIN wpc' = Thread /\ DOMAIN op' = Thread
  BY <1>1, <1>3 DEF LoadType
<1>7. LoadType'
  <2>1. keys' \in [Thread -> Seq(Nat)]
    BY <1>1, <1>3, <1>5
  <2>2. warmOps' \in [Thread -> Nat]
    BY <1>2, <1>3 DEF LoadType
  <2> QED BY <1>1, <1>3, <1>6, <2>1, <2>2 DEF LoadType
<1>8. NoKeyLost'
  <2> SUFFICES ASSUME Whole, NEW k \in 0 .. sequence
               PROVE  k \in tried \/ \E u \in Thread : k \in Range(keys'[u])
    BY <1>1, <1>3 DEF NoKeyLost, Whole
  <2>1. CASE k = sequence
    BY <1>5, <2>1
  <2>2. CASE k # sequence
    <3>1. k \in 0 .. sequence - 1
      BY <1>3, <2>2
    <3>2. k \in tried \/ \E u \in Thread : k \in Range(keys[u])
      BY <1>3, <3>1 DEF NoKeyLost
    <3> QED BY <1>4, <1>5, <3>2
  <2> QED BY <2>1, <2>2
<1>9. KeysTaken'
  <2>0. PICK n \in Nat \ {0} : n = conf.batch
    BY <1>3
  <2>1. /\ Held \in [Thread -> Nat] /\ Missing \in [Thread -> Nat]
        /\ Sum(opsDone) \in Nat /\ Sum(warmOps) \in Nat /\ Sum(Held) \in Nat /\ Sum(Missing) \in Nat
    BY LoadNumbers
  <2>s. /\ sequence \in Int /\ Sum(opsDone) \in Int /\ Sum(Held) \in Int /\ Sum(Missing) \in Int
    BY <1>3, <2>1
  <2>p. PICK p \in Int : p = n * Sum(warmOps)
    BY <2>1
  <2>k. /\ Sum(opsDone) + Sum(Held) <= sequence
        /\ warmUp => sequence + Sum(Missing) <= Sum(opsDone) + p
        /\ ~ warmUp => sequence <= Sum(opsDone) + p + Sum(Held)
    BY <1>3, <2>0, <2>p DEF KeysTaken
  <2>2. /\ Held'[t] = Held[t] + 1 /\ \A u \in Thread \ {t} : Held'[u] = Held[u]
    BY <1>4, <1>5 DEF Held
  <2>3. Held' \in [Thread -> Nat]
    BY <1>3, <1>4, <1>5 DEF Held
  <2>4. Sum(Held') = Sum(Held) + 1
    BY <2>1, <2>2, <2>3, SumAdd
  <2>5. /\ Missing'[t] = n - (Len(keys[t]) + 1)
        /\ \A u \in Thread \ {t} : Missing'[u] = Missing[u]
    BY <1>1, <1>4, <1>5, <2>0 DEF Missing
  <2>6. Missing' \in [Thread -> Nat]
    <3>1. Missing'[t] \in Nat /\ \A u \in Thread \ {t} : Missing'[u] \in Nat
      BY <1>3, <2>0, <2>1, <2>5
    <3>2. Missing' = [u \in Thread |-> Missing'[u]]
      BY DEF Missing
    <3> QED BY <3>1, <3>2
  <2>7. CASE keys[t] = <<>>
    <3>1. Missing[t] = 0 /\ Len(keys[t]) = 0
      BY <2>7 DEF Missing
    <3>2. Missing'[t] = Missing[t] + (n - 1) /\ n - 1 \in Nat
      BY <2>5, <3>1
    <3>3. Sum(Missing') = Sum(Missing) + (n - 1)
      BY <2>1, <2>5, <2>6, <3>2, SumAdd
    <3>4. CASE warmUp
      <4>1. warmOps \in [Thread -> Nat] /\ warmOps' = [warmOps EXCEPT ![t] = warmOps[t] + 1]
        BY <1>2, <1>3, <2>7, <3>4 DEF LoadType
      <4>2. /\ warmOps' \in [Thread -> Nat] /\ warmOps'[t] = warmOps[t] + 1
            /\ \A u \in Thread \ {t} : warmOps'[u] = warmOps[u]
        BY <4>1
      <4>3. warmOps \in [Thread -> Nat]
        BY <4>1
      <4>4. Sum(warmOps') = Sum(warmOps) + 1
        BY <4>2, <4>3, SumAdd
      <4>5. n * Sum(warmOps') = p + n
        BY <2>1, <2>p, <4>4
      <4>6. /\ Sum(opsDone) + Sum(Held') <= sequence + 1
            /\ sequence + 1 + Sum(Missing') <= Sum(opsDone) + (p + n)
        BY <2>s, <2>k, <2>4, <3>3, <3>4
      <4> QED BY <1>1, <2>0, <3>4, <4>5, <4>6 DEF KeysTaken
    <3>5. CASE ~ warmUp
      <4>1. warmOps' = warmOps
        BY <1>2, <3>5
      <4>2. /\ Sum(opsDone) + Sum(Held') <= sequence + 1
            /\ sequence + 1 <= Sum(opsDone) + p + Sum(Held')
        BY <2>s, <2>k, <2>4, <3>5
      <4> QED BY <1>1, <2>0, <2>p, <3>5, <4>1, <4>2 DEF KeysTaken
    <3> QED BY <3>4, <3>5
  <2>8. CASE keys[t] # <<>>
    <3>1. Missing[t] = Missing'[t] + 1 /\ \A u \in Thread \ {t} : Missing[u] = Missing'[u]
      BY <1>3, <2>0, <2>5, <2>8 DEF Missing
    <3>2. Sum(Missing) = Sum(Missing') + 1
      BY <2>1, <2>6, <3>1, SumAdd
    <3>3. warmOps' = warmOps
      BY <1>2, <2>8
    <3>4. Sum(Missing') \in Nat
      BY <2>6, SumType
    <3>5. /\ Sum(opsDone) + Sum(Held') <= sequence + 1
          /\ warmUp => sequence + 1 + Sum(Missing') <= Sum(opsDone) + p
          /\ ~ warmUp => sequence + 1 <= Sum(opsDone) + p + Sum(Held')
      BY <2>s, <2>k, <2>4, <3>2, <3>4
    <3> QED BY <1>1, <2>0, <2>p, <3>3, <3>5 DEF KeysTaken
  <2> QED BY <2>7, <2>8
<1>10. Loader(t)'
  <2>1. OpCount(t)' = OpCount(t) /\ Whole' = Whole
    BY <1>1 DEF OpCount, Whole
  <2> QED BY <1>1, <1>3, <1>5, <1>6, <2>1 DEF Loader
<1> QED BY <1>1, <1>4, <1>6, <1>7, <1>8, <1>9, <1>10, OneLoads

\* A worker counts an insertion.
LEMMA LoadCounts ==
  ASSUME Thread # {}, LoadInv, conf.command = "load", Running, NEW t \in Thread, Count(t)
  PROVE  LoadInv'
<1>1. /\ wpc[t] = "count"
      /\ opsDone' = [opsDone EXCEPT ![t] = IF ~ warmUp THEN opsDone[t] + conf.batch ELSE opsDone[t]]
      /\ keys' = [keys EXCEPT ![t] = <<>>]
      /\ wpc' = [wpc EXCEPT ![t] = IF ~ canceled /\ opsDone'[t] < OpCount(t) THEN "op" ELSE "done"]
      /\ UNCHANGED <<conf, sigPc, canceled, mainPc, warmUp, op, sequence, tried, warmOps>>
  BY DEF Count, CountsNow, runVars, Goto
<1>2. /\ LoadType /\ Loader(t) /\ NoKeyLost /\ KeysTaken /\ conf.batch \in Nat \ {0}
      /\ keys[t] \in Seq(Nat) /\ Len(keys[t]) = conf.batch /\ opsDone[t] < OpCount(t)
      /\ sequence \in Nat /\ opsDone \in [Thread -> Nat] /\ opsDone[t] \in Nat
      /\ keys \in [Thread -> Seq(Nat)] /\ (Whole => Range(keys[t]) \subseteq tried)
  BY <1>1, LoadNumbers DEF LoadInv, Loader, LoadType
<1>3. OpCount(t) \in Nat
  BY SharesAre DEF LoadInv
<1>4. /\ keys'[t] = <<>> /\ keys[t] # <<>> /\ Len(<<>>) = 0 /\ <<>> \in Seq(Nat)
      /\ \A u \in Thread \ {t} : keys'[u] = keys[u]
  BY <1>1, <1>2
<1>5. /\ opsDone'[t] = (IF ~ warmUp THEN opsDone[t] + conf.batch ELSE opsDone[t])
      /\ opsDone'[t] \in Nat /\ \A u \in Thread \ {t} : opsDone'[u] = opsDone[u]
      /\ opsDone' \in [Thread -> Nat]
  BY <1>1, <1>2
<1>6. /\ wpc'[t] = IF ~ canceled /\ opsDone'[t] < OpCount(t) THEN "op" ELSE "done"
      /\ DOMAIN wpc' = Thread /\ \A u \in Thread \ {t} : wpc'[u] = wpc[u]
  BY <1>1, <1>2 DEF LoadType
<1>7. LoadType'
  BY <1>1, <1>2, <1>4, <1>5, <1>6 DEF LoadType
<1>8. NoKeyLost'
  <2> SUFFICES ASSUME Whole, NEW k \in 0 .. sequence - 1
               PROVE  k \in tried \/ \E u \in Thread : k \in Range(keys'[u])
    BY <1>1 DEF NoKeyLost, Whole
  <2>1. k \in tried \/ \E u \in Thread : k \in Range(keys[u])
    BY <1>2 DEF NoKeyLost
  <2> QED BY <1>2, <1>4, <2>1
<1>9. KeysTaken'
  <2>0. PICK n \in Nat \ {0} : n = conf.batch
    BY <1>2
  <2>1. /\ Held \in [Thread -> Nat] /\ Missing \in [Thread -> Nat]
        /\ Sum(opsDone) \in Nat /\ Sum(warmOps) \in Nat /\ Sum(Held) \in Nat /\ Sum(Missing) \in Nat
    BY LoadNumbers
  <2>s. /\ sequence \in Int /\ Sum(opsDone) \in Int /\ Sum(Held) \in Int /\ Sum(Missing) \in Int
    BY <1>2, <2>1
  <2>p. PICK p \in Int : p = n * Sum(warmOps)
    BY <2>1
  <2>k. /\ Sum(opsDone) + Sum(Held) <= sequence
        /\ warmUp => sequence + Sum(Missing) <= Sum(opsDone) + p
        /\ ~ warmUp => sequence <= Sum(opsDone) + p + Sum(Held)
    BY <1>2, <2>0, <2>p DEF KeysTaken
  <2>2. Held[t] = Held'[t] + n /\ \A u \in Thread \ {t} : Held[u] = Held'[u]
    BY <1>2, <1>4, <2>0 DEF Held
  <2>3. Held' \in [Thread -> Nat]
    <3>1. Held'[t] \in Nat /\ \A u \in Thread \ {t} : Held'[u] \in Nat
      BY <1>4, <2>1, <2>2 DEF Held
    <3>2. Held' = [u \in Thread |-> Held'[u]]
      BY DEF Held
    <3> QED BY <3>1, <3>2
  <2>4. Sum(Held) = Sum(Held') + n
    BY <2>1, <2>2, <2>3, SumAdd
  <2>h. Sum(Held') \in Nat
    BY <2>3, SumType
  <2>5. Missing' = Missing
    <3>1. Missing'[t] = 0 /\ Missing[t] = 0
      BY <1>2, <1>4 DEF Missing
    <3>2. \A u \in Thread \ {t} : Missing'[u] = Missing[u]
      BY <1>1, <1>4 DEF Missing
    <3>3. Missing' = [u \in Thread |-> Missing'[u]] /\ Missing = [u \in Thread |-> Missing[u]]
      BY DEF Missing
    <3> QED BY <3>1, <3>2, <3>3
  <2>6. CASE warmUp
    <3>1. opsDone' = opsDone
      BY <1>1, <1>2, <2>6
    <3>2. Sum(opsDone) + Sum(Held') <= sequence
      BY <2>s, <2>h, <2>k, <2>4
    <3> QED BY <1>1, <2>0, <2>p, <2>k, <2>5, <2>6, <3>1, <3>2 DEF KeysTaken
  <2>7. CASE ~ warmUp
    <3>1. opsDone'[t] = opsDone[t] + n
      BY <1>5, <2>0, <2>7
    <3>a. opsDone \in [Thread -> Nat]
      BY <1>2
    <3>b. opsDone' \in [Thread -> Nat] /\ \A u \in Thread \ {t} : opsDone'[u] = opsDone[u]
      BY <1>5
    <3>2. Sum(opsDone') = Sum(opsDone) + n
      BY <3>a, <3>b, <3>1, SumAdd
    <3>3. /\ Sum(opsDone') + Sum(Held') <= sequence
          /\ sequence <= Sum(opsDone') + p + Sum(Held')
      BY <2>s, <2>h, <2>k, <2>4, <2>7, <3>2
    <3> QED BY <1>1, <2>0, <2>p, <2>7, <3>3 DEF KeysTaken
  <2> QED BY <2>6, <2>7
<1>10. Loader(t)'
  <2>1. OpCount(t)' = OpCount(t) /\ Whole' = Whole
    BY <1>1 DEF OpCount, Whole
  <2>2. sigPc = "wait" => ~ canceled
    BY <1>1 DEF LoadInv, MainWaits, Running
  <2>3. opsDone'[t] < OpCount(t) + conf.batch
    BY <1>2, <1>3, <1>5
  <2>4. CASE ~ canceled /\ opsDone'[t] < OpCount(t)
    <3>1. wpc'[t] = "op" /\ Len(keys'[t]) < conf'.batch
      BY <1>1, <1>2, <1>4, <1>6, <2>4
    <3> QED BY <2>1, <2>4, <3>1 DEF Loader
  <2>5. CASE ~ (~ canceled /\ opsDone'[t] < OpCount(t))
    <3>1. wpc'[t] = "done" /\ keys'[t] = <<>> /\ sigPc' = sigPc /\ conf' = conf
      BY Zenon, <1>1, <1>4, <1>6, <2>5
    <3>2. sigPc = "wait" => OpCount(t) <= opsDone'[t]
      BY <1>3, <1>5, <2>2, <2>5
    <3> QED BY <2>1, <2>3, <3>1, <3>2 DEF Loader
  <2> QED BY <2>4, <2>5
<1> QED BY <1>1, <1>4, <1>5, <1>6, <1>7, <1>8, <1>9, <1>10, OneLoads

\* Each step preserves the invariant.
LEMMA LoadStep ==
  ASSUME Thread # {}, LoadInv, [Next]_vars
  PROVE  LoadInv'
<1>1. CASE conf.command # "load"
  <2>1. conf' = conf
    BY DEF Next, vars, runVars, Over, Work, NewWorker, TakeKey, Choose, TakeID, AcknowledgeID,
           PanicOnScan, PanicOnSlot, Count, Call, CallUpdate, WarmUpEnds, MeasureEnds, WorkersDone,
           RunReturns, MainEnds, Signal, ForceExit, Exit
  <2> QED BY <1>1, <2>1 DEF LoadInv
<1>2. CASE conf.command = "load"
  <2>0. MainWaits /\ LoadType /\ \A t \in Thread : Loader(t)
    BY <1>2 DEF LoadInv
  <2>1. CASE UNCHANGED vars
    BY <1>2, <2>0, <2>1, LoadQuiet DEF vars, runVars, workVars, MainWaits
  <2>2. CASE Exit
    <3>1. UNCHANGED <<conf, wpc, op, keys, opsDone, sequence, tried, warmOps, sigPc, warmUp>> /\ mainPc' = "exit"
      BY <2>2 DEF Exit, workVars
    <3> QED BY <3>1, LoadQuiet DEF MainWaits
  <2>3. CASE WarmUpEnds \/ MeasureEnds
    <3>1. /\ UNCHANGED <<conf, wpc, op, keys, opsDone, sequence, tried, warmOps, sigPc, canceled, mainPc>>
          /\ warmUp' => warmUp
      BY <2>3 DEF WarmUpEnds, MeasureEnds, workVars
    <3> QED BY <2>0, <3>1, LoadQuiet DEF MainWaits
  <2>4. CASE WorkersDone \/ RunReturns \/ MainEnds \/ Signal
    <3>1. /\ UNCHANGED <<conf, wpc, op, keys, opsDone, sequence, tried, warmOps, warmUp>>
          /\ sigPc' = "wait" => sigPc = "wait"
      BY <2>4 DEF WorkersDone, RunReturns, MainEnds, Signal, workVars
    <3>2. MainWaits'
      BY <2>0, <2>4 DEF WorkersDone, RunReturns, MainEnds, Signal, workVars, MainWaits
    <3> QED BY <3>1, <3>2, LoadQuiet
  <2>5. ASSUME NEW t \in Thread, NEW ok \in BOOLEAN, Call(t, ok) PROVE LoadInv'
    BY <1>2, <2>5, LoadCalls
  <2>6. ASSUME NEW t \in Thread, Running, Work(t) PROVE LoadInv'
    <3>1. wpc[t] \in {"new", "op", "call", "count", "done"}
      BY <2>0 DEF Loader
    <3>2. NewWorker(t) \/ TakeKey(t) \/ Count(t) \/ Exit
      BY <1>2, <2>6, <3>1 DEF Work, Choose, TakeID, AcknowledgeID, PanicOnScan, PanicOnSlot
    <3> QED BY <1>2, <2>2, <2>6, <3>2, NewLoader, LoadTakes, LoadCounts
  <2>7. ASSUME NEW t \in Thread, CallUpdate(t) PROVE LoadInv'
    BY <2>0, <2>7 DEF CallUpdate, Loader
  <2> QED BY <2>1, <2>2, <2>3, <2>4, <2>5, <2>6, <2>7 DEF Next, Over, ForceExit
<1> QED BY <1>1, <1>2

\* No key is taken and no operation counted at first.
LEMMA LoadStarts ==
  ASSUME Init
  PROVE  LoadInv
<1>1. LoadType
  BY DEF Init, LoadType
<1>2. \A t \in Thread : Loader(t)
  BY DEF Init, Loader
<1>3. MainWaits /\ NoKeyLost
  BY DEF Init, MainWaits, NoKeyLost
<1>4. KeysTaken
  <2>1. /\ Held \in [Thread -> Nat] /\ \A t \in Thread : Held[t] = 0
    BY DEF Init, Held
  <2>2. /\ Missing \in [Thread -> Nat] /\ \A t \in Thread : Missing[t] = 0
    BY DEF Init, Missing
  <2>3. /\ opsDone \in [Thread -> Nat] /\ \A t \in Thread : opsDone[t] = 0
        /\ warmOps \in [Thread -> Nat] /\ \A t \in Thread : warmOps[t] = 0
    BY DEF Init
  <2>4. Sum(Held) = 0 /\ Sum(Missing) = 0
    BY <2>1, <2>2, SumZero
  <2>5. Sum(opsDone) = 0 /\ Sum(warmOps) = 0
    BY <2>3, SumZero
  <2>6. conf.batch * 0 = 0
    BY YcsbAssumption DEF Init
  <2>7. sequence = 0
    BY DEF Init
  <2> QED BY <2>4, <2>5, <2>6, <2>7 DEF KeysTaken
<1> QED BY <1>1, <1>2, <1>3, <1>4 DEF LoadInv, Init

\* When the workers are done, the sums are those of their shares.
LEMMA LoadEnds ==
  ASSUME Thread # {}, LoadInv
  PROVE  LoadIsExact
<1> SUFFICES ASSUME conf.command = "load", mainPc \in {"drain", "close", "end"}, sigPc = "wait"
             PROVE  /\ Whole => 0 .. conf.total - 1 \subseteq tried
                    /\ conf.total <= sequence
                    /\ sequence <= conf.total + Threads * (conf.batch - 1) + conf.batch * Sum(warmOps)
  BY DEF LoadIsExact, WarmUpOps, Whole
<1>1. ASSUME NEW t \in Thread
      PROVE  /\ keys[t] = <<>> /\ OpCount(t) <= opsDone[t]
             /\ opsDone[t] < OpCount(t) + conf.batch
  BY DEF LoadInv, MainWaits, Loader
<1>2. /\ conf.batch \in Nat \ {0} /\ conf.total \in Nat /\ sequence \in Nat
      /\ Held \in [Thread -> Nat] /\ opsDone \in [Thread -> Nat]
      /\ Sum(opsDone) \in Nat /\ Sum(Missing) \in Nat /\ conf.batch * Sum(warmOps) \in Nat
  BY LoadNumbers DEF LoadType
<1>3. Threads \in Nat \ {0} /\ \A t \in Thread : OpCount(t) \in Nat
  BY SharesAre DEF LoadInv
<1> DEFINE share == [t \in Thread |-> OpCount(t)]
           most == [t \in Thread |-> OpCount(t) + (conf.batch - 1)]
<1>4. Sum(share) = conf.total
  BY SharesAre DEF LoadInv
<1>5. share \in [Thread -> Nat] /\ most \in [Thread -> Nat]
  BY <1>2, <1>3
<1>6. /\ \A t \in Thread : most[t] = share[t] + (conf.batch - 1)
      /\ \A t \in Thread : share[t] <= opsDone[t]
  BY <1>1
<1>7. \A t \in Thread : opsDone[t] <= most[t]
  <2> SUFFICES ASSUME NEW t \in Thread PROVE opsDone[t] <= OpCount(t) + (conf.batch - 1)
    OBVIOUS
  <2>1. opsDone[t] \in Nat /\ OpCount(t) \in Nat /\ opsDone[t] < OpCount(t) + conf.batch
    BY <1>1, <1>2, <1>3
  <2> QED BY <1>2, <2>1
<1> HIDE DEF share, most
<1>8. Sum(share) <= Sum(opsDone) /\ Sum(opsDone) <= Sum(most)
  BY <1>2, <1>5, <1>6, <1>7, SumMonotone
<1>9. Sum(most) = conf.total + Threads * (conf.batch - 1)
  <2>1. conf.batch - 1 \in Nat
    BY <1>2
  <2> QED BY <1>4, <1>5, <1>6, <2>1, SumWiden
<1>10. Sum(Held) = 0
  <2>1. ASSUME NEW t \in Thread PROVE Held[t] = 0
    <3>1. keys[t] = <<>>
      BY <1>1
    <3>2. Len(<<>>) = 0
      OBVIOUS
    <3> QED BY <3>1, <3>2 DEF Held
  <2> QED BY <1>2, <2>1, SumZero
<1>11. /\ Sum(opsDone) + Sum(Held) <= sequence
       /\ \/ sequence + Sum(Missing) <= Sum(opsDone) + conf.batch * Sum(warmOps)
          \/ sequence <= Sum(opsDone) + conf.batch * Sum(warmOps) + Sum(Held)
  BY DEF LoadInv, KeysTaken
<1>12. Threads * (conf.batch - 1) \in Int
  BY <1>2, <1>3
<1>13. conf.total <= sequence
  BY <1>2, <1>4, <1>8, <1>10, <1>11
<1>14. sequence <= conf.total + Threads * (conf.batch - 1) + conf.batch * Sum(warmOps)
  <2>1. PICK m \in Int : m = Threads * (conf.batch - 1)
    BY <1>12
  <2>2. PICK w \in Int : w = conf.batch * Sum(warmOps)
    BY <1>2
  <2>3. Sum(opsDone) <= conf.total + m
    BY <1>8, <1>9, <2>1
  <2>4. sequence + Sum(Missing) <= Sum(opsDone) + w \/ sequence <= Sum(opsDone) + w
    BY <1>2, <1>10, <1>11, <2>2
  <2>5. sequence <= conf.total + m + w
    BY <1>2, <2>3, <2>4
  <2> QED BY <2>1, <2>2, <2>5
<1>15. ASSUME Whole, NEW k \in 0 .. conf.total - 1 PROVE k \in tried
  <2>1. k \in 0 .. sequence - 1
    BY <1>2, <1>13
  <2>2. k \in tried \/ \E t \in Thread : k \in Range(keys[t])
    BY <1>15, <2>1 DEF LoadInv, NoKeyLost
  <2>3. ASSUME NEW t \in Thread PROVE Range(keys[t]) = {}
    <3>1. keys[t] = <<>>
      BY <1>1
    <3>2. Range(<<>>) = {}
      BY DEF Range
    <3> QED BY <3>1, <3>2
  <2> QED BY <2>2, <2>3
<1> QED BY <1>13, <1>14, <1>15

\* A load that is not interrupted inserts every record, and beyond them no more
\* than the rest of each worker's last batch and what was inserted during the
\* warm-up, for any workers, records, batches and failures (worker.run,
\* core.DoInsert and core.DoBatchInsert); there is a worker.
THEOREM LoadIsExactHolds ==
  ASSUME Thread # {}
  PROVE  Spec => []LoadIsExact
<1>1. Init => LoadInv
  BY LoadStarts
<1>2. LoadInv /\ [Next]_vars => LoadInv'
  BY LoadStep
<1>3. LoadInv => LoadIsExact
  BY LoadEnds
<1> QED BY <1>1, <1>2, <1>3, PTL DEF Spec
=============================================================================
