---------------------------- MODULE Replication ----------------------------
(***************************************************************************)
(* Quorum reads and writes: the Put, Get, GetLocal and Replicate handlers  *)
(* of internal/server, the fan-out of internal/replication, and the store  *)
(* of internal/storage, on a cluster whose peers and quorums are fixed by  *)
(* its configuration (DynamicReplication lets them change).                *)
(*                                                                         *)
(* A client request runs on one node in the steps between which the code   *)
(* lets go of its locks or waits, so the requests of a node interleave:    *)
(*   Put: StartPut (Clock.Now), StorePut (PutWithHLC), SendPut (GetW and   *)
(*        the fan-out of Replicate), FinishPut;                            *)
(*   Get: StartGet (store.Get), QueryGet (GetR, then the answer if R = 1   *)
(*        or the fan-out of GetLocal), FinishGet.                          *)
(* An RPC to a peer is "sent" while the request is on its way and "served" *)
(* once the peer's handler has run.  The handler of Replicate lets go of   *)
(* the clock before it locks the store, and in between its RPC is "seen".  *)
(* Whether the reply or the timeout comes first matters to the caller only *)
(* when the last RPC of the fan-out has ended and the results are counted, *)
(* so it is decided there: any set of the served RPCs may have been        *)
(* answered in time.  A Replicate that is not yet served when the caller   *)
(* gives up may be served at any later time or never; a late GetLocal      *)
(* changes nothing and is forgotten.                                       *)
(*                                                                         *)
(* Reconciliation is off here, as in the default configuration, so         *)
(* RecordWrite is not called.  Of a VersionedValue only the value and the  *)
(* HLC are kept: Version and Timestamp copy hlc.physical, NodeID is        *)
(* hlc.nodeID for every value the handlers store, ReceivedAt is not read.  *)
(* A value is named by the Put that writes it.                             *)
(***************************************************************************)
EXTENDS HLC, FiniteSets, Sequences

CONSTANTS
  Node,            \* the nodes of the cluster
  Key,             \* keys
  Put, Get,        \* client requests; their numbers bound a behaviour
  N,               \* the cluster size of the configuration
  InitialQuorums,  \* configurations [r |-> ..., w |-> ...] to start from
  MaxDrift,        \* HLC_MAX_DRIFT
  MaxStaleness,    \* MAX_STALENESS
  MaxTime,         \* bound on the machines' times
  None             \* no value, no node, no key

Op == Put \cup Get
Time == 0 .. MaxTime
Timestamp == [physical : Nat, logical : Nat, nodeID : Node]
VersionedValue == [value : Put, hlc : Timestamp]
Stored == VersionedValue \cup {None}

\* What Config.Validate accepts.
ValidQuorum(q) ==
  /\ q.r \in 1 .. N
  /\ q.w \in 1 .. N
  /\ q.r + q.w > N

ASSUME ConfigAssumption ==
  /\ IsFiniteSet(Node)
  /\ N \in Nat
  /\ InitialQuorums \subseteq [r : Int, w : Int]
  /\ \A q \in InitialQuorums : ValidQuorum(q)
  /\ MaxDrift \in Nat /\ MaxStaleness \in Nat /\ MaxTime \in Nat
  /\ Put \cap Get = {}
  /\ None \notin VersionedValue

VARIABLES
  clock,     \* clock[n]: n's hlc.Clock
  store,     \* store[n][k]: n's storage.Store
  quorum,    \* quorum[n]: what GetR and GetW return at n
  peers,     \* peers[n]: the peers n's coordinator is connected to
  pc,        \* pc[o]: where request o stands
  at,        \* at[o]: the node that coordinates o
  key,       \* key[o]: the key o is about
  ts,        \* ts[o]: the timestamp of Put o
  need,      \* need[o]: the W or R that o has read
  rpc,       \* rpc[o][m]: the RPC of o to peer m
  reply,     \* reply[g][m]: what a served GetLocal of g at m answers
  local,     \* local[g]: what Get g found in its own store
  resp,      \* resp[o]: the response of o
  applied,   \* history: the nodes that have stored the value of Put p
  before,    \* history: Puts acknowledged before Get g began
  regressed, \* history: a store has replaced a value by an older one
  refused    \* history: n's clock has refused a timestamp for its drift

reqVars  == <<pc, at, key, ts, need, rpc, reply, local, resp>>
confVars == <<quorum, peers>>
histVars == <<applied, before, regressed, refused>>
vars == <<clock, store, confVars, reqVars, histVars>>

Response(kind, vv) == [kind |-> kind, vv |-> vv]

\* The configured peers of a node, to which NewCoordinator connects: all other
\* nodes.
ConfiguredPeers(n) == Node \ {n}

Init ==
  /\ clock \in [Node -> {NewClock(t) : t \in Time}]
  /\ store = [n \in Node |-> [k \in Key |-> None]]
  /\ \E q \in InitialQuorums : quorum = [n \in Node |-> q]
  /\ peers = [n \in Node |-> ConfiguredPeers(n)]
  /\ pc = [o \in Op |-> "idle"]
  /\ at = [o \in Op |-> None]
  /\ key = [o \in Op |-> None]
  /\ ts = [p \in Put |-> None]
  /\ need = [o \in Op |-> 0]
  /\ rpc = [o \in Op |-> [m \in Node |-> "none"]]
  /\ reply = [g \in Get |-> [m \in Node |-> None]]
  /\ local = [g \in Get |-> None]
  /\ resp = [o \in Op |-> Response("none", None)]
  /\ applied = [p \in Put |-> {}]
  /\ before = [g \in Get |-> {}]
  /\ regressed = FALSE
  /\ refused = [n \in Node |-> FALSE]

-----------------------------------------------------------------------------
(* The store *)

\* Store.PutWithHLC at n: the value replaces whatever the key had.
PutWithHLC(n, p, t) ==
  LET k == key[p]
  IN  /\ store' = [store EXCEPT ![n][k] = [value |-> p, hlc |-> t]]
      /\ applied' = [applied EXCEPT ![p] = @ \cup {n}]
      /\ regressed' = \/ regressed
                      \/ /\ store[n][k] # None
                         /\ HappensBefore(t, store[n][k].hlc)

\* Detector.CheckStrict passes the value at the reading now.
CheckStrict(vv, now) == Age(vv.hlc, now) <= MaxStaleness

-----------------------------------------------------------------------------
(* Put *)

\* Server.Put begins: the timestamp of the write.
StartPut(p, n, k, now) ==
  LET c == Tick(clock[n], now)
  IN  /\ pc[p] = "idle"
      /\ clock' = [clock EXCEPT ![n] = c]
      /\ at' = [at EXCEPT ![p] = n]
      /\ key' = [key EXCEPT ![p] = k]
      /\ ts' = [ts EXCEPT ![p] = Stamp(c, n)]
      /\ pc' = [pc EXCEPT ![p] = "store"]
      /\ UNCHANGED <<store, confVars, need, rpc, reply, local, resp, histVars>>

\* Server.Put writes its own store, before any peer has answered and without
\* undoing it if they do not.
StorePut(p) ==
  /\ pc[p] = "store"
  /\ PutWithHLC(at[p], p, ts[p])
  /\ pc' = [pc EXCEPT ![p] = "send"]
  /\ UNCHANGED <<clock, confVars, at, key, ts, need, rpc, reply, local, resp,
                 before, refused>>

\* The goroutines of a fan-out: one RPC to every peer of the snapshot.
FanOut(o) ==
  rpc' = [rpc EXCEPT ![o] =
            [m \in Node |-> IF m \in peers[at[o]] THEN "sent" ELSE "none"]]

\* Server.Put reads W and Coordinator.Replicate takes its snapshot of the
\* peers.  Without peers it reports one ack and no error, whatever W is.
SendPut(p) ==
  /\ pc[p] = "send"
  /\ need' = [need EXCEPT ![p] = quorum[at[p]].w]
  /\ \/ /\ peers[at[p]] = {}
        /\ pc' = [pc EXCEPT ![p] = "done"]
        /\ resp' = [resp EXCEPT ![p] = Response("success", None)]
        /\ UNCHANGED rpc
     \/ /\ peers[at[p]] # {}
        /\ pc' = [pc EXCEPT ![p] = "wait"]
        /\ FanOut(p)
        /\ UNCHANGED resp
  /\ UNCHANGED <<clock, store, confVars, at, key, ts, reply, local, histVars>>

\* Faulty: the handler does not show the timestamp to its clock.
ServeReplicateWithoutUpdate(p, m, now) ==
  /\ rpc[p][m] = "sent"
  /\ rpc' = [rpc EXCEPT ![p][m] = "seen"]
  /\ UNCHANGED <<clock, store, confVars, pc, at, key, ts, need, reply, local, resp,
                 histVars>>

\* Server.Replicate begins at m: the clock sees the timestamp, and may refuse it
\* for its drift.
ServeReplicate(p, m, now) ==
  /\ rpc[p][m] = "sent"
  /\ clock' = [clock EXCEPT ![m] = Update(@, ts[p], now, MaxDrift)]
  /\ refused' = [refused EXCEPT ![m] =
                   @ \/ DriftTooLarge(ts[p], now, MaxDrift)]
  /\ rpc' = [rpc EXCEPT ![p][m] = "seen"]
  /\ UNCHANGED <<store, confVars, pc, at, key, ts, need, reply, local, resp,
                 applied, before, regressed>>

\* Server.Replicate at m stores the value, also when the clock has refused the
\* timestamp, and answers if the caller still waits.
StoreReplicate(p, m) ==
  /\ rpc[p][m] = "seen"
  /\ PutWithHLC(m, p, ts[p])
  /\ rpc' = [rpc EXCEPT ![p][m] = IF pc[p] = "wait" THEN "served" ELSE "none"]
  /\ UNCHANGED <<clock, confVars, pc, at, key, ts, need, reply, local, resp,
                 before, refused>>

\* The peers whose handler has run for request o.
Served(o) == {m \in Node : rpc[o][m] = "served"}

\* Faulty: a peer that timed out counts as well.
SuccessCountOfAll(p, acked) == 1 + Cardinality({m \in Node : rpc[p][m] # "none"})

\* Faulty: the coordinator counts itself twice.
SuccessCountTwice(p, acked) == 2 + Cardinality(acked)

\* Coordinator.Replicate's successCount: the acks and the node itself.
SuccessCount(p, acked) == 1 + Cardinality(acked)

\* Faulty: RPCs have no timeout.
WaitForAllReplies(o) ==
  pc[o] = "wait" /\ \A m \in Node : rpc[o][m] \notin {"sent", "seen"}

\* The results channel of a fan-out is closed once every RPC has been answered
\* or has timed out.  A timeout may come at any time, so nothing holds a
\* fan-out back.
ResultsClosed(o) == pc[o] = "wait"

\* Coordinator.Replicate has all its results; the RPCs in acked were answered
\* in time.  It counts them and Server.Put answers.  It waits for every peer,
\* not only for the first W.
FinishPut(p, acked) ==
  /\ ResultsClosed(p)
  /\ acked \subseteq Served(p)
  /\ pc' = [pc EXCEPT ![p] = "done"]
  /\ resp' = [resp EXCEPT ![p] =
                IF SuccessCount(p, acked) < need[p]
                THEN Response("error", None)
                ELSE Response("success", None)]
  /\ rpc' = [rpc EXCEPT ![p] =
               [m \in Node |-> IF rpc[p][m] = "served" THEN "none" ELSE rpc[p][m]]]
  /\ UNCHANGED <<clock, store, confVars, at, key, ts, need, reply, local,
                 histVars>>

-----------------------------------------------------------------------------
(* Get *)

\* The Puts of key k that have been acknowledged to their clients.
Acknowledged(k) ==
  {p \in Put : resp[p].kind = "success" /\ key[p] = k}

\* Server.Get begins: it reads its own store before it asks anyone.
StartGet(g, n, k) ==
  /\ pc[g] = "idle"
  /\ at' = [at EXCEPT ![g] = n]
  /\ key' = [key EXCEPT ![g] = k]
  /\ local' = [local EXCEPT ![g] = store[n][k]]
  /\ before' = [before EXCEPT ![g] = Acknowledged(k)]
  /\ pc' = [pc EXCEPT ![g] = "query"]
  /\ UNCHANGED <<clock, store, confVars, ts, need, rpc, reply, resp, applied,
                 regressed, refused>>

\* The response of Server.Get once it has its candidate vv.
Answer(vv, now) ==
  IF vv = None THEN Response("notfound", None)
  ELSE IF CheckStrict(vv, now) THEN Response("value", vv)
  ELSE Response("stale", None)

\* Faulty: off by one.
LocalUpToTwo(r) == r <= 2

\* Server.Get answers from its own store.
LocalOnly(r) == r = 1

\* Server.Get reads R.  With R = 1 it answers from its own store; otherwise
\* Coordinator.QueryReplicas takes its snapshot of the peers and, unless
\* there are none, asks all of them.
QueryGet(g, now) ==
  LET r == quorum[at[g]].r
  IN  /\ pc[g] = "query"
      /\ need' = [need EXCEPT ![g] = r]
      /\ \/ /\ LocalOnly(r)
            /\ pc' = [pc EXCEPT ![g] = "done"]
            /\ resp' = [resp EXCEPT ![g] = Answer(local[g], now)]
            /\ UNCHANGED rpc
         \/ /\ ~ LocalOnly(r)
            /\ peers[at[g]] = {}
            /\ pc' = [pc EXCEPT ![g] = "done"]
            /\ resp' = [resp EXCEPT ![g] =
                          IF r > 1 THEN Response("error", None)
                                   ELSE Answer(local[g], now)]
            /\ UNCHANGED rpc
         \/ /\ ~ LocalOnly(r)
            /\ peers[at[g]] # {}
            /\ pc' = [pc EXCEPT ![g] = "wait"]
            /\ FanOut(g)
            /\ UNCHANGED resp
      /\ UNCHANGED <<clock, store, confVars, at, key, ts, reply, local,
                     histVars>>

\* Server.GetLocal at m.
ServeGetLocal(g, m) ==
  /\ rpc[g][m] = "sent"
  /\ reply' = [reply EXCEPT ![g][m] = store[m][key[g]]]
  /\ rpc' = [rpc EXCEPT ![g][m] = "served"]
  /\ UNCHANGED <<clock, store, confVars, pc, at, key, ts, need, local, resp,
                 histVars>>

\* The peers whose GetLocal for g has found a value; the other replies never
\* become results.
Found(g) == {m \in Served(g) : reply[g][m] # None}

\* Orders in which some of the results of g may have arrived before their
\* timeouts.
Arrivals(g) ==
  UNION {{s \in [1 .. i -> Found(g)] :
            \A j, k \in 1 .. i : s[j] = s[k] => j = k} :
         i \in 0 .. Cardinality(Found(g))}

\* GetMostRecent: of a sequence of values, the first that no other happens
\* after.
GetMostRecent(values) ==
  LET Latest == {i \in DOMAIN values : \A j \in DOMAIN values :
                   ~ HappensAfter(values[j].hlc, values[i].hlc)}
  IN  IF values = <<>> THEN None
      ELSE values[CHOOSE i \in Latest : \A j \in Latest : i <= j]

\* Faulty: the node's own value is left out.
CandidatesWithoutLocal(g, arrived) ==
  [i \in DOMAIN arrived |-> reply[g][arrived[i]]]

\* The candidates of Get g: the peers' values in order of arrival, then its
\* own.
Candidates(g, arrived) ==
  [i \in DOMAIN arrived |-> reply[g][arrived[i]]] \o
    (IF local[g] = None THEN <<>> ELSE <<local[g]>>)

\* Coordinator.QueryReplicas has all its results, in the order arrived.
\* It counts the results and itself, whether or not it has the key, and
\* Server.Get answers with the most recent value.
FinishGet(g, arrived, now) ==
  /\ ResultsClosed(g)
  /\ pc' = [pc EXCEPT ![g] = "done"]
  /\ resp' = [resp EXCEPT ![g] =
                IF Len(arrived) + 1 < need[g]
                THEN Response("error", None)
                ELSE Answer(GetMostRecent(Candidates(g, arrived)), now)]
  /\ rpc' = [rpc EXCEPT ![g] = [m \in Node |-> "none"]]
  /\ reply' = [reply EXCEPT ![g] = [m \in Node |-> None]]
  /\ local' = [local EXCEPT ![g] = None]
  /\ UNCHANGED <<clock, store, confVars, at, key, ts, need, histVars>>

-----------------------------------------------------------------------------
\* All requests have been answered.
AllAnswered ==
  /\ \A o \in Op : pc[o] = "done"
  /\ UNCHANGED vars

Next ==
  \/ \E p \in Put :
       \/ \E n \in Node, k \in Key, now \in Time : StartPut(p, n, k, now)
       \/ StorePut(p)
       \/ SendPut(p)
       \/ \E m \in Node, now \in Time : ServeReplicate(p, m, now)
       \/ \E m \in Node : StoreReplicate(p, m)
       \/ \E acked \in SUBSET Node : FinishPut(p, acked)
  \/ \E g \in Get :
       \/ \E n \in Node, k \in Key : StartGet(g, n, k)
       \/ \E now \in Time : QueryGet(g, now)
       \/ \E m \in Node : ServeGetLocal(g, m)
       \/ \E arrived \in Arrivals(g), now \in Time : FinishGet(g, arrived, now)
  \/ AllAnswered

Spec == Init /\ [][Next]_vars

\* Goroutines run on, and context.WithTimeout ends every RPC of a fan-out.  No
\* fairness for the peers' handlers: a request may never reach its peer.
Fairness ==
  /\ \A p \in Put :
       /\ WF_vars(StorePut(p))
       /\ WF_vars(SendPut(p))
       /\ WF_vars(\E acked \in SUBSET Node : FinishPut(p, acked))
  /\ \A g \in Get :
       /\ WF_vars(\E now \in Time : QueryGet(g, now))
       /\ WF_vars(\E arrived \in Arrivals(g), now \in Time :
                    FinishGet(g, arrived, now))

FairSpec == Spec /\ Fairness

-----------------------------------------------------------------------------
\* Every variable has its type.
TypeOK ==
  /\ clock \in [Node -> [physical : Nat, logical : Nat]]
  /\ store \in [Node -> [Key -> Stored]]
  /\ quorum \in [Node -> [r : Int, w : Int]]
  /\ peers \in [Node -> SUBSET Node]
  /\ pc \in [Op -> {"idle", "store", "send", "query", "wait", "done"}]
  /\ at \in [Op -> Node \cup {None}]
  /\ key \in [Op -> Key \cup {None}]
  /\ ts \in [Put -> Timestamp \cup {None}]
  /\ need \in [Op -> Int]
  /\ rpc \in [Op -> [Node -> {"none", "sent", "seen", "served"}]]
  /\ reply \in [Get -> [Node -> Stored]]
  /\ local \in [Get -> Stored]
  /\ resp \in [Op -> [kind : {"none", "success", "error", "notfound",
                              "stale", "value"},
                      vv : Stored]]
  /\ applied \in [Put -> SUBSET Node]
  /\ before \in [Get -> SUBSET Put]
  /\ regressed \in BOOLEAN
  /\ refused \in [Node -> BOOLEAN]

\* A Put that reports success has been stored by at least the W nodes its
\* coordinator asked for, itself included, whichever replies were lost or
\* came too late (Coordinator.Replicate).
AckedIsStored ==
  \A p \in Put :
    resp[p].kind = "success" => Cardinality(applied[p]) >= need[p]

\* Once a Put has reported success, a later Get of its key, at any node, does
\* not answer that the key is not there (Server.Get): it returns a value or
\* an error.
AckedIsNotMissing ==
  \A g \in Get : resp[g].kind = "notfound" => before[g] = {}

\* A Get answers that a key is not there only from its own store, with R = 1:
\* QueryReplicas makes no result of a peer that has not found the key, so with
\* a larger R such a Get fails (Server.Get).
NotFoundIsLocal ==
  \A g \in Get : resp[g].kind = "notfound" => need[g] <= 1

\* Response g is at least as recent as the write of Put p.
AtLeastAsRecent(g, p) == ~ HappensBefore(resp[g].vv.hlc, ts[p])

\* A Get that returns a value returns nothing older than any Put that had
\* reported success when the Get began: R + W > N makes the nodes of the read
\* and of the write meet.
ReadsAreFresh ==
  \A g \in Get : resp[g].kind = "value" =>
    \A p \in before[g] : AtLeastAsRecent(g, p)

\* The stores are the only thing that can spoil ReadsAreFresh: as long as no
\* PutWithHLC has replaced a value by one that happens before it, every Get
\* returns a value as recent as all Puts acknowledged before it began.
FreshUnlessRegressed == ~ regressed => ReadsAreFresh

\* Until its clock refuses a timestamp for its drift, a node's clock is never
\* behind a value in its store, so its next Put supersedes every value it has
\* (Server.Put, Server.Replicate).
StoreBehindClock ==
  \A n \in Node, k \in Key :
    store[n][k] # None /\ ~ refused[n] =>
      ~ HappensBefore(clock[n], store[n][k].hlc)

\* Every request that begins is answered, although requests and replies are
\* lost and Put and Get wait for all their peers.
EveryRequestAnswered ==
  \A o \in Op : pc[o] # "idle" ~> pc[o] = "done"
=============================================================================
