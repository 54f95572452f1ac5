# ACP-KV in TLA+

This directory models ACP-KV, the replicated in-memory key-value store of this
repository, and go-ycsb, the benchmark harness vendored with it, in TLA+. It
holds the modules, the instances that TLC checks, and theorems whose proofs
TLAPS checks. `PROJECT.json` lists the components, the
runs, the mutants, the source lines behind each definition, the findings, the
hazards and the theorems.

## The system

A cluster has N nodes. Each node runs one process (`cmd/acp-node`), made of:

| Part | Source | What it does |
|---|---|---|
| Hybrid logical clock | `internal/hlc/clock.go` | `Now` stamps writes, `Update` merges received timestamps and refuses those too far ahead of the machine's time |
| Store | `internal/storage/store.go` | a map from keys to values with their HLC |
| Handlers | `internal/server/server.go` | client calls `Put` and `Get`, peer calls `Replicate`, `GetLocal` and `HealthCheck` |
| Coordinator | `internal/replication/coordinator.go` | fans a write or a read out to all peers, waits for all of them, counts; keeps the peer set, with DNS discovery |
| Staleness detector | `internal/staleness/detector.go` | rejects a value older than MAX_STALENESS |
| Adaptive quorum | `internal/adaptive/quorum.go` | the node's R and W with bounds and lockout |
| Adjuster and score | `internal/adaptive/adjuster.go`, `ccs.go` | every tick, score, smooth, and perhaps move one unit between R and W |
| Reconciliation | `internal/reconcile/engine.go`, `log.go` | logs recent writes; after a healing event goes through the log and repairs the store |
| Health probe | `internal/health/probe.go` | one goroutine per peer; status, healing events, its own discovery |
| Configuration, wiring | `internal/config`, `cmd/acp-node/main.go` | validation; which parts are switched on |
| Metrics, client, CLI, adaptive benchmark | `internal/metrics`, `pkg/client`, `cmd/acp-cli`, `benchmark` | output and callers |

A `Put` takes a timestamp from the clock, stores locally, records the write for
reconciliation if that is on, reads W and calls `Replicate` on all peers. A
`Get` reads its own store, reads R, and with R > 1 calls `GetLocal` on all
peers and takes the value with the latest HLC. The adjuster changes R and W
under running requests, discovery changes the peer set under them, and the
probe tells the reconciliation engine which peers have come back.

The load on the cluster comes from go-ycsb (`go-ycsb-vendor`), a process of its
own:

| Part | Source | What it does |
|---|---|---|
| Command | `cmd/go-ycsb` | sets a load or a run up; a signal cancels it, and ten seconds or a second signal later ends the process |
| Client | `pkg/client` | splits the operations among workers, measures calls, runs a goroutine for the warm-up and the interim output |
| Core workload | `pkg/workload/core.go` | which operation, which key, retries of a load, batches |
| Generators | `pkg/generator` | key choosers; the acknowledged counter, which tells them how far insertions have come |
| Bindings | `db/<name>` | Read, Scan, Update, Insert and Delete on one database each, ACP-KV among them |
| Codec and buffers | `pkg/util` | encoded rows in pooled buffers, for the key-value bindings |

Workers meet in three places: the acknowledged counter, which they update
without a common lock; the database, where their calls overlap; and the buffer
pool.

## Modules

| Module | Models | Notes |
|---|---|---|
| `Cluster` | the set of nodes | shared by the modules of a node's parts |
| `HLC` | comparisons and the two steps of a clock | pure operators, used by all modules with timestamps |
| `HLCClocks` | the clocks of a cluster | machine times that jump and step back, restarts, timestamps delivered in any order any number of times |
| `Replication` | `Put`, `Get`, `Replicate`, `GetLocal`, the coordinator's fan-outs, the store, the strict staleness check | fixed peers and quorums |
| `QuorumSteps` | what R and W of the nodes may do, seen from outside | the abstract specification of the adjusters |
| `AdaptiveQuorum` | adjuster, score window, lockout and bounds | implements `QuorumSteps` |
| `DynamicReplication` | `Replication` with the steps of `QuorumSteps` and with peer discovery | composition of requests, adjusters and discovery |
| `Reconcile` | write log, healing queue, engine, with the storing handlers beside them | one node |
| `HealthProbe` | probe goroutines, status, healing events, the probe's discovery | one node |
| `AcknowledgedCounter` | `Next`, `Acknowledge` and `Last` of the acknowledged counter | one step per access to the shared window, lock and limit |
| `Generators` | the numbers each generator may return | sets; probabilities are left out |
| `Ycsb` | main, signals, workers, measurement goroutine and core workload | extends the two above; a call of the database takes any time and may fail |
| `RecordStore` | what a binding promises about the records it writes | the abstract specification of the bindings, with a contract per binding |
| `BindingOps`, `BindingReads` | what Insert, Update, Delete, Create and Read, Scan of each of eighteen bindings make of a row | pure operators, one per operation and binding |
| `SqlSession` | connection and statement cache of one worker of MySQL and PostgreSQL | lost connections, and new ones that cannot be built |
| `Bindings` | workers calling one binding, step by step | composes the three above; implements `RecordStore` |
| `*_proofs` | theorems | see Proofs |
| `MC*` | instances for TLC | constants, symmetry sets and one constraint |

How state and steps correspond to the code:

* **Locks and waits decide the steps.** Whatever the code does under one lock
  is one step; whatever it does after releasing a lock, or after waiting, is
  another. So `Put` is `StartPut` (`Clock.Now`), `StorePut` (`PutWithHLC`),
  `SendPut` (`GetW` and the fan-out) and `FinishPut`, and `Get` is `StartGet`,
  `QueryGet` and `FinishGet`. A peer serves `Replicate` in `ServeReplicate`
  (`Clock.Update`, whose error is only logged) and `StoreReplicate`
  (`PutWithHLC`), since the clock's lock is released before the store's is
  taken. Reading R or W and taking the snapshot of the
  peers are one step in `SendPut` and `QueryGet`. Only the adjuster changes the
  one and only discovery the other, so a change of either between the two
  readings is a change before or after the step. Left out is the case that both
  change in between and another request of the node sees just one of them
  changed; no property compares what two requests of a node have read of both.
* **Messages.** An RPC is *sent*, then *served*, and a `Replicate` in between
  *seen*; the timeout of the caller may
  come at any time. Which served RPCs were answered in time is chosen when the
  fan-out ends, because nothing reads the results before. A `Replicate` that is
  still under way when its caller gives up may be served at any later time, or
  never.
* **Machine times.** In `Replication` every step that calls `time.Now` picks
  its reading from a set, so times of a machine may also stand still or step
  back. In `HLCClocks` they are variables, since its properties are about them.
* **Data.** A value is named by the `Put` that writes it. Of a stored value the
  model keeps value and HLC. `Version` and `Timestamp` repeat the physical part
  of the HLC, and `NodeID` its node.
* **Scores** are integers in percent and an input of the adjuster; averages are
  compared by cross-multiplying, so there is no rounding in the model.
  The code's average is a float64. A score whose average meets a threshold
  exactly in one and not in the other is outside the model.
* **The peer set.** `ReconcilePeers` replaces the whole set in one step where
  the code removes and adds one peer at a time. Discovery may return any set of
  other nodes, so the sets in between are results of other discoveries.
* **Reconcile** splits `reconcileWithPeer` between its look at the store
  (`Look`) and its write (`Apply`), since no lock spans them. The probe's checks
  are split between reading the status and setting it for the same reason.
* **The acknowledged counter.** `Acknowledge` marks a slot of the window without
  a lock, then tries a spin lock, and whoever gets it clears slots and moves
  `limit` on. `Check`, `Mark`, `TryLock`, `Sweep` (one slot each), `Store` and
  `Unlock` are its steps. A slot is a Go `bool`, so the races on it have no
  outcome but the interleavings of whole reads and writes.
* **A worker of go-ycsb** goes through `NewWorker`, then for each operation
  `TakeKey` (load) or `Choose` (run), for an insertion in a run `TakeID`, then
  `Call`, `CallUpdate` for the second half of a read-modify-write,
  `AcknowledgeID` for each step of `Acknowledge`, and `Count`. The panics of the
  code (`PanicOnScan`, `PanicOnSlot`) end the process.
* **A call through a binding** is one step where the binding sends one request,
  and otherwise as many as the binding takes: `Prepare` and `ExecStmt` for
  MySQL and PostgreSQL, with `Panic` when an earlier reconnection has failed and
  left no connection to prepare on, `ReadAndEncode` and `Write` for bindings that read or
  encode first, with `Abort` and `CommitUnknown` for their transactions. A
  request may fail before or after it took effect. The databases themselves are
  external: a request acts on one row at once, and a transaction fails if its
  row was written since it began. A read is answered with the row that is
  stored if `conf.consistent`; DynamoDB's is not unless
  `dynamodb.consistent.reads` is set, nor is Redis's with `redis.read_only`, and
  no property is stated of such reads. The binding for ACP-KV is not among these
  bindings: its database is the one `Replication` models, where its `Insert` and
  `Update` are a `Put` and its `Read` is a `Get`.
* **Contracts.** The bindings disagree about an insertion of a row that exists
  (replaced, merged, kept, refused), an update of a row that does not, and what
  an update keeps of the row. `Contract` says for each binding which of these
  it does, `RecordStore` what then has to hold, and `ImplementsRecordStore` that
  the binding's own steps keep to it. Three fields of a contract admit what no
  binding should do, and each is set where the code does it: `silent` for raw
  TiKV, `again` for FoundationDB, `torn` for Badger with several workers (see
  Findings). A torn row is the whole row of another call: the mixture of two rows
  that a copy made during the race could hold is left out.
* **History variables**, marked as such, only record what properties speak of.

Definitions whose comment begins with "Faulty" are variants with a plausible
bug. No specification uses them: each is put in the place of the definition
that follows it, to see that the property it is meant for fails.

## What TLC checks

Every run is `tlc -config <cfg> <module>`.

| Run | Module, cfg | Checks | Shows |
|---|---|---|---|
| `hlc` | `MCHLCClocks` | `CausalOrder`, `AheadIsBounded`, `RefusalNeedsSkew`, `ClockNeverRegresses` | timestamps follow causality whatever machine times do; a clock never runs further ahead than the drift bound; only real skew makes `Update` refuse |
| `requests` | `MCReplication` | `AckedIsStored`, `AckedIsNotMissing`, `NotFoundIsLocal`, `FreshUnlessRegressed` | an acknowledged `Put` has W copies, later `Get`s do not miss it, not-found is only ever a node's own answer, and nothing but a store going back in time makes a read stale |
| `answers` | `MCReplication_live.cfg` | `StoreBehindClock`, `EveryRequestAnswered` | timeouts end every request, with all messages lost too; a node's clock is behind its store only after it has refused a timestamp |
| `adaptive` | `MCAdaptiveQuorum` | `SumIsKept`, `BoundsAreKept`, `AdjustmentsAreApart`, `ImplementsQuorumSteps`, `HealthyTightens`, `UnhealthyRelaxes` | adjusting keeps R + W, the bounds and the lockout, refines `QuorumSteps`, and reaches a bound when scores stay good or bad |
| `dynamic` | `MCDynamicReplication` | `ShortOnlyWhenAlone`, `FreshWhenQuorumsMeet` | while quorums and peer sets change, the W and R that two requests have really read decide whether the read meets the write, and a `Put` is short of copies only without any peer |
| `reconcile` | `MCReconcile` | `TypeOK`, `LogIsRecent`, `LoggedKeyIsStored`, `RunRepairs`, `EngineMovesForward`, `HealLeadsToRun` | the log has the latest writes, a run repairs every key that no handler has stored meanwhile, the engine goes back only when a handler raced with it, no healing event stays without a later run |
| `probe` | `MCHealthProbe` | `ProbeTypeOK`, `PeerIsProbed`, `EventsAreSeparated`, `RemovedIsLeft`, `DownIsNoticed` | a connected peer always has a goroutine, those of a removed peer end, a lasting failure is noticed, one healing event per outage |
| `ycsb` | `MCYcsb` | `LastIsAcknowledged`, `UnreportedOnlyIfMissed`, `ChosenWasTried`, `LoadIsExact`, `OneEscapes`, `SignalEndsProcess`, `RunEnds` | the counter reports only what was acknowledged and loses track of an id only by a failed `TryLock`; "latest" over four records or more and "exponential" go to keys whose insertion has returned; a load inserts its records and how far it may run past them; the process ends |
| `bindings` | `MCBindings` | `AckedFieldsAreRead`, `AckedRowsAreScanned`, `OneRefusalPerFault`, `ImplementsRecordStore` | each binding keeps its contract under overlapping calls, faults, retries and lost connections; what it acknowledged it reads and scans again; a connection that is lost, or cannot be built, costs a statement one failure |
| `stale_read` | `MCReplication_fresh.cfg` | `ReadsAreFresh`, **violated** | see Findings |
| `missing_read` | `MCDynamicReplication_missing.cfg` | `AckedIsNotMissing`, **violated** | see Findings |
| `alone` | `MCDynamicReplication_alone.cfg` | `AckedIsStored`, **violated** | see Findings |

`MCReplication` also assumes, and TLC evaluates on sequences of up to four
values, that the loop of `GetMostRecent` finds what `Replication` defines by
quantifiers: the first of the latest values.

### Bounds

* `hlc`: two nodes, machine times 0 to 3, drift 1, two timestamps, logical
  counters up to 1. Two nodes suffice for a timestamp to go out, come back and
  be compared; three for none of the properties, which relate a node to itself
  or to one other. Skews of 0, 1 (accepted) and 2 (refused) all occur.
* `requests`, `stale_read`: three nodes, two `Put`s and one `Get` of one key,
  all minimal quorums (1,3), (2,2), (3,1), or (2,2) for the violation. Two
  writers are needed for a store to go back; a third would only add another
  late message. Keys do not influence each other except through clocks, so one
  is enough. The machine's time stands still: HLCs then order writes by their
  logical parts, and a `Get` is never too late for the staleness check, whose
  rejections `answers` has.
* `answers`: one `Put`, one `Get`, machine times 0 and 1, no drift and no
  staleness allowed, so timestamps are refused and values too old.
* `dynamic`, `missing_read`, `alone`: quorums and bounds of
  `k8s/statefulset.yaml` (R = W = 2, R in 1..3, W in 2..3). `Budgets` bounds what
  happens beside the `Get`: two `Put`s and an adjustment, or one `Put`, one
  adjustment and one discovery; in the violations one of each suffices. The
  constraint `GetsFollowPuts` of `dynamic` leaves out `Get`s that begin before
  any `Put` of their key is acknowledged: `FreshWhenQuorumsMeet` promises them
  nothing, and a `Get` changes nothing a `Put` reads.
* `adaptive`: two nodes, a window of two samples, a lockout of two units of
  time, scores below, between and above the thresholds. The window fills, wraps
  and mixes scores; cycles fall inside, at and after the lockout.
* `reconcile`: three writes of one key, with an earlier and a later timestamp
  and two equal ones of different nodes, a log of two slots (so it wraps), a
  queue of one event (so it overflows), entries that expire or do not.
* `probe`: one peer, three goroutines, four rounds of discovery, two changes of
  reachability. Peers share only the lock, so one is enough. Three goroutines
  allow a legacy one, one added after a removal, and one after a second removal
  while both earlier ones still run. `AddPeer` is blocked when the three are
  used up, which only cuts behaviours short.
* `ycsb`: two workers, a window of two slots, four records before a run and
  five ids, one retry. Two
  workers make `TryLock` fail, overtake each other and leave gaps; a window of
  two wraps and overruns, and five ids go round it twice. The configurations
  combine load and run, batches of two with and without batch operations,
  warm-ups that operations fall into, odd totals (so shares differ), every
  request distribution, and signals. Total 1 with two workers is the error of
  `newWorker`.
* `bindings`: one row that is written and one that is only scanned, rows of two
  fields, two workers with two overlapping calls and one fault for each binding,
  Badger included, and for DynamoDB with consistent reads and without; three
  overlapping calls for those that take several steps; a load and a run by one
  worker with and without `dropdata`; updates of all fields; two lost connections
  within three calls for MySQL and PostgreSQL, and any number that cannot be
  built. Calls on different rows meet only in the buffers, of which there are
  two.

Symmetry (`Permutations`) is used only where no liveness is checked, and only
for nodes, `Put`s, workers and buffers, which nothing orders in those modules.

Deadlock is checked except in `reconcile`, `probe` and `bindings`, whose bounded
inputs run out. `Replication` has the step `AllAnswered` for that, `Ycsb` the
step `Over`.

### Fairness

Only the runs with liveness properties use it.

* `Replication!Fairness`: goroutines go on, and a fan-out ends, because
  `context.WithTimeout` bounds each RPC. The peers' handlers are *not* fair: a
  message may be lost.
* `AdaptiveQuorum!FairSpec`: the ticker of each adjuster keeps firing.
* `Reconcile!FairSpec`: the engine's goroutine goes on. Handlers and healing
  events are not fair.
* `HealthProbe!FairProbeSpec`: each probe goroutine takes some step: tickers fire
  and checks end after two seconds. Discovery and peers are not fair, and which
  of two ready cases a `select` takes is not either.
* `Ycsb!Fairness`: workers outside calls of the database, main, the measurement
  goroutine and its timer go on, and so does the goroutine that ends the process
  ten seconds after a signal. Nothing makes a call of the database return:
  `RunEnds` takes that as its premise and `SignalEndsProcess` does without it.

## Findings

1. `stale_read`. `Store.PutWithHLC` replaces whatever the key has, also a value
   with a later HLC. Two `Replicate`s that arrive in the opposite order of
   their timestamps take a node back, and a quorum `Get` returns an older value
   than a `Put` acknowledged before it began. The repository's README calls
   R + W > N "quorum intersection for strong consistency".
   `FreshUnlessRegressed` shows that nothing else breaks it.
2. `missing_read`. Each node adjusts its own R and W. R + W > N holds on every
   node but not between one node's R and another's W, so after one adjustment a
   `Get` with R = 1 misses a key that a `Put` with W = 2 has written.
   `FreshWhenQuorumsMeet` states what remains true.
3. `alone`. Without peers `Coordinator.Replicate` returns one ack and no error
   without looking at W, and `Put` reports success. `test/integration_test.go`
   expects a failure. `ShortOnlyWhenAlone` shows that this is the only case.

Further observations have no run of their own. A handler's write between
`reconcileWithPeer`'s look and its store is overwritten by an older one (the
exception in `EngineMovesForward`). The engine works on its own node's log and
never contacts the healed peer. The probe keeps the status of a removed peer,
and the first successful check of any peer counts as a healing.

In go-ycsb, Badger's binding defers the release of its buffer inside the function
it passes to `Update`, and Badger reads the buffer when it commits, after that
function has returned. With two workers the model then writes one worker's row
under the other's key: with `torn` false in Badger's contract, TLC finds
`ImplementsRecordStore` violated. When MySQL's or PostgreSQL's binding cannot
build a new connection it keeps a nil one, and the next statement that has to be
prepared panics (`Panic`). A batch of insertions acknowledges its ids before it
inserts them, which is why `ChosenWasTried` is about single insertions. A load
keeps inserting while the measurement's warm-up flag is still set, although a
load has no warm-up, and those insertions come on top of its records
(`LoadIsExact`). `Zipfian` recomputes `eta` from the number of items it was built
with, so "latest" after a load of one or two records asks for keys that do not
exist, -1 among them, and after one of three it may while another worker is
recomputing `eta`. Raw TiKV's `Update` reports success when its read has
failed.

## Proofs

`tlapm` checks every theorem below for all values of the constants that meet
the modules' assumptions: any set of nodes and keys, any number of requests.

| Theorem | Says | Argument |
|---|---|---|
| `Background_proofs!ClockTypeCorrect` | types of the clocks | one step per action |
| `CausalOrderHolds` | `CausalOrder` | `CausalInv`: a clock is never before anything in its process's causal past. Needed because the order of issued timestamps says nothing of the next one |
| `AheadIsBoundedHolds`, `RefusalNeedsSkewHolds` | the two bounds on drift | `SkewInv`: every clock and every timestamp is within the highest time some machine has shown |
| `ClockNeverRegressesHolds` | action property | lemmas on `Tick` and `Update`: both move a clock forward |
| `TypeCorrect`, `SumIsKeptHolds`, `BoundsAreKeptHolds` | R + W and the bounds | an adjustment is `Relax`, `Tighten` or nothing and passes `Validate` |
| `AdjustmentsAreApartHolds` | lockout | the time counted from `lastAdjustTime` is the time since the last change |
| `Refinement` | `Spec => QuorumSteps!Spec` | initial states agree, every cycle is a step of `QuorumSteps` or leaves `quorum` alone |
| `ProbeTypeCorrect` | types of the health probe | one lemma for what any step of a goroutine does, one for `AddPeer` |
| `PeerIsProbedHolds` | `PeerIsProbed` | `ProbedInv`, below |
| `EventsAreSeparatedHolds` | action property | `SeparatedInv`, below |
| `Reconcile_proofs!ReconcileTypeCorrect`, `LoggedKeyIsStoredHolds` | types; what is logged is stored | `StoredInv`, below |
| `LogIsRecentHolds` | the circular buffer has the latest writes | `LogInv`, below |
| `RunRepairsHolds`, `EngineMovesForwardHolds` | what a run leaves, and an action property | `RunInv`, below |
| `Replication_proofs!TypeCorrect` | types | with `Started`: a request that has begun has its node, key and timestamp |
| `StoreBehindClockHolds` | clock and store | `ClockInv`: neither the timestamp of a `Put` that is not stored yet nor that of a `Replicate` that is seen is ahead of the node's clock |
| `NotFoundIsLocalHolds` | not-found is a node's own answer | `LocalInv`: a running `Get` has no response. No candidates means no results, and then only R = 1 is enough |
| `Stores_proofs!AckedIsStoredHolds` | W copies, with fixed peers and quorums | `CopiesInv`, below, with `StaticInv`: a node has peers, or W is 1 |
| `Freshness_proofs!ShortOnlyWhenAloneHolds` | the same of `DynSpec`: W copies, or only the own one | `CopiesInv` |
| `FreshWhenQuorumsMeetHolds` | of `DynSpec`: reads meet writes if the R and W they have read do | `FreshInv`, below |
| `AckedIsNotMissingHolds`, `FreshUnlessRegressedHolds` | reads meet writes, with fixed peers and quorums | `FreshInv` and `StaticInv`: then no `Put` is short and every R and W meet |
| `Ycsb_proofs!AckInvariant`, `LastIsAcknowledgedHolds`, `UnreportedOnlyIfMissedHolds` | what `Last` reports and what it may leave out | `IInv`, below |
| `UsesCounter`, `RunReportsAcknowledged` | `Spec => AckSpec`: go-ycsb uses the counter as specified, so the two hold of every load and run | every step of a worker takes an id, is a step of `Acknowledge`, or leaves the counter alone |
| `ChosenWasTriedHolds` | `ChosenWasTried` | `CInv`, below |
| `OneEscapesHolds` | `OneEscapes` | `EscapeInv`, below |
| `Load_proofs!LoadIsExactHolds` | `LoadIsExact`, with at least one worker | `LoadInv`, below |
| `Bindings_proofs!OneRefusalPerFaultHolds` | `OneRefusalPerFault` | `SessionInv`, below |

`CopiesInv` (`Stores_proofs`) counts copies without looking at the present R, W
and peers, so that it survives their changes. A `Put` stores at its node before
it asks, what is served is stored, and no RPC goes to the node itself, so acks
and own copy are different nodes (`Copies`). An acknowledged `Put` has as many
copies as it needed, or is `Short`: it has only its own and no RPC that could
still add one (`AckedOrShort`). The last part is needed because a late
`Replicate` may add copies after the response; a short `Put` has none under way.

`FreshInv` (`Freshness_proofs`) follows a write to a read. Where a `Put` has been
stored, the store keeps a value that covers it (`StoresCover`). For every `Put`
that a running `Get` comes after, unless it is short, there is a set of as many
of its copies as it needed from which all that the `Get` has heard covers the
`Put` (`ReadsCover`). The set exists when the `Get` begins, by `AckedOrShort`,
and each reply keeps it. A `Get` that counts R answers has heard from one of
them if R and the `Put`'s W add up to more than N (`QuorumsMeet`), and
`GetMostRecent` returns nothing older than any of its candidates. `MustSee`
names these `Put`s, and `Responses` says that the `Get`'s response respects
them. A step of `DynSpec` is a step of `Spec` or changes only R, W or peers
(`DynSteps`), which none of this reads.

`ProbedInv` (`Background_proofs`): every connected peer has a goroutine that
checks it and is not canceled, and a registered cancel function belongs to a
goroutine of its own peer (`Registered`). Without the second part a removal
might cancel another peer's goroutine. `SeparatedInv` says of a peer that was
never removed that it has at most one goroutine, and that its status is down,
or a healing event is due, only after a failed check. One goroutine is the point:
two could both read the status before either sets it.

`StoredInv` (`Reconcile_proofs`): the key of every write that is logged, or that
a handler has stored and will log, is in the store; exactly the slots below
`count` are in use. `LogInv` places each entry of the circular buffer in the
sequence of all recorded writes, from `index` on once it has wrapped, with
`NextIndexIs` for the arithmetic of `%`. `RunInv`: a write that a run began with
is still to be looked at or does not win over the store, unless a handler has
touched its key; it rests on `Supersedes` being a strict order that
replacing a value by a winning one respects (`SupersedesIsOrder`,
`SupersedesIsStrict`), and on `GetAll` returning logged entries.

`IInv` (`Ycsb_proofs`) is about the frontier, the id that is swept
next: `limit + 1`, or further on while somebody holds the lock. Every id below
it was acknowledged, and within one window from it a slot is set exactly if its
id was acknowledged and not yet swept (`SlotsAreAcked`, `AckedHaveSlots`). That
different ids of one window have different slots is arithmetic on `%`
(`SlotsApart`, `SlotWraps`). For `UnreportedOnlyIfMissed` it adds that when the frontier itself was
acknowledged, somebody is still to try the lock or is sweeping, unless a
`TryLock` has failed (`SomeoneScans`). All of it is conditional on no id having
run a window ahead, which the code does not exclude.

`CInv` (`Ycsb_proofs`) adds what a worker does between taking an id and
acknowledging it: the id is the only key of its insertion, and `Acknowledge`
begins after the insertion has returned. So acknowledged ids were tried, `Last`
is the end of a prefix of them, and "latest" and "exponential" choose within it.
`EscapeInv` says that once an operation of a worker was counted and not measured
the warm-up is over, and whatever that worker counts later is measured.

`LoadInv` (`Load_proofs`) counts keys: every key taken was tried or is held by a
worker (`NoKeyLost`), and the number of keys taken lies between those of the
operations counted and of the batches under way and the same with the warm-up's
added (`KeysTaken`). A sum over the workers is the cardinality of a disjoint
union, and the facts about it that are needed (adding up shares, changing one
worker's number) are lemmas from the library's theorems about finite sets.

`SessionInv` (`Bindings_proofs`): the failed calls a query has had, and those it
may still have, are no more than the faults. What it may still have (`Owed`) is
one call for each connection lost since the statement was prepared, and none if
it is not cached, unless nobody has noticed the last loss. `SessionMoves` says
which changes of a session keep to that, and every outcome of `getAndCacheStmt`
and `execQuery` is one of them.

Assumptions: what `Config.Validate` tests (R and W between 1 and N, R + W > N),
natural numbers for times and bounds, and finite sets of nodes and workers. The
theorems
about copies and freshness also assume that the cluster has the N nodes of its
configuration. The counter's window and first id are positive. In `Reconcile`
timestamps have natural parts and an integer for their node, and in `HealthProbe`
the configured peers are peers; `None` and `Nil` are none of the values they
stand beside. Nothing else is assumed. The theorems of
`Replication_proofs` and `Stores_proofs` are about `Replication`, with fixed peers and quorums;
`ShortOnlyWhenAloneHolds` and `FreshWhenQuorumsMeetHolds` are about
`DynamicReplication`, where both change.

The conjuncts of `CopiesInv` and `FreshInv` were first checked by TLC as
invariants of the instance of `dynamic`.

Only model-checked:

* liveness and everything under fairness, which is beyond the prover
  (`EveryRequestAnswered`, `HealthyTightens`, `UnhealthyRelaxes`,
  `HealLeadsToRun`, `RemovedIsLeft`, `DownIsNoticed`, `SignalEndsProcess`,
  `RunEnds`);
* the equivalence of the loop of `GetMostRecent` with its definition, which needs
  induction over sequences;
* `AckedFieldsAreRead`, `AckedRowsAreScanned` and `ImplementsRecordStore` of
  `Bindings`, which are not proved.

## Not modelled

* The computation of the score (`ComputeCCS`, `internal/metrics/reader.go`):
  floating point over Prometheus histograms. Its result is an input.
* Metrics, logging, HTTP servers, signals and shutdown (`Stop`, `Close`) of the
  node.
* HLC conversion to and from protobuf: a copy of three fields.
* The client library, the CLI, the adaptive benchmark and the ACP-KV binding of
  go-ycsb: callers without a protocol of their own.
* Of go-ycsb: the shell, throttling (a wait of any length in the model), the
  histograms and their output, the construction and verification of values, how
  likely a generator's numbers are. Key names are taken to be as different as
  their numbers.
* Of the bindings: batch operations of MySQL, PostgreSQL, SQLite and TiKV,
  Redis's JSON type, and three bindings as a whole: MinIO keeps a single field,
  Elasticsearch hands writes to a bulk indexer that sends them later, and
  `basic` prints. The databases behind the bindings are external.
* Methods that nothing in the node calls: `Store.Put`, `Store.GetConflicts`,
  `RecentWriteLog.Cleanup`, `Detector.CheckMultiple` and others.
* Crashes in `Replication`: stores are in memory and nothing recovers them.
  Restarts of clocks are in `HLCClocks`.
* Overflow of the 64-bit counters, which count nanoseconds and events.

## Plan

1. Compose `HealthProbe` with `Reconcile`, and `Reconcile` with `Replication`
   on two or three nodes: what a healing really restores after a partition.
2. Crash and restart of a node in `Replication`: which promises survive the
   loss of a store, and how many losses they survive.
3. A cluster that grows beyond its configured N.
4. Stale reads with skewed machine times: what the staleness bound promises.
5. The score in scaled integers: range and monotonicity of `ComputeCCS`.
6. Proofs: `ImplementsRecordStore`, first for the bindings that take one step.
7. Batch operations of the bindings, and the Elasticsearch binding with its
   indexer.
