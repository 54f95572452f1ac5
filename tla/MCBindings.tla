----------------------------- MODULE MCBindings -----------------------------
(***************************************************************************)
(* Instances of Bindings for TLC: every binding, two workers, one key that *)
(* is written and one that is only scanned, rows of two fields.            *)
(***************************************************************************)
EXTENDS BindingReads, TLC

MCColumn == [f \in Field |-> IF f = "field0" THEN 0 ELSE 1]

MCQuery == {<<"insert", Field>>, <<"delete", {}>>}
           \cup {<<"update", S>> : S \in (SUBSET Field) \ {{}}}

Config(d) ==
  [db |-> d, load |-> FALSE, drop |-> FALSE, all |-> FALSE, alone |-> FALSE,
   consistent |-> TRUE, calls |-> 2, faults |-> 1, losses |-> 0]

\* Two calls that overlap, one of which may fail, and DynamoDB as it is read by
\* default.
Overlapping ==
  {Config(d) : d \in Databases} \cup {[Config("dynamodb") EXCEPT !.consistent = FALSE]}

\* Three calls that overlap, by the bindings that take several steps.
Interleaved ==
  {[Config(d) EXCEPT !.calls = 3, !.faults = 0] :
     d \in {"redis_string", "aerospike", "tikv_raw", "tikv_txn", "foundationdb", "rocksdb",
          "badger"}}

\* A load and a run by one worker, with and without dropdata.
LoadThenRun ==
  {[Config(d) EXCEPT !.load = TRUE, !.drop = drop, !.alone = TRUE, !.calls = 3] :
     d \in Databases, drop \in BOOLEAN}

\* Updates of all fields.
AllFields ==
  {[Config(d) EXCEPT !.all = TRUE] : d \in {"redis_string", "etcd", "mysql", "tikv_raw"}}

\* Connections that are lost and not built again, by one worker.
Disconnected ==
  {[Config(d) EXCEPT !.alone = TRUE, !.calls = 3, !.faults = 0, !.losses = 2] :
     d \in {"mysql", "pg"}}

SmallConfigs == Overlapping \cup Interleaved \cup LoadThenRun \cup AllFields \cup Disconnected

Workers == Permutations(Thread) \cup Permutations(Buffer)
=============================================================================
