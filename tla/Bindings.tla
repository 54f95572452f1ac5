------------------------------ MODULE Bindings ------------------------------
(***************************************************************************)
(* The workers of go-ycsb writing records through a database binding: each *)
(* call goes through the steps its binding takes (one request; a statement *)
(* and its execution; a read and a write; a transaction), the steps of     *)
(* different workers interleave, requests fail before or after they took   *)
(* effect, connections are lost, and a load is followed by a run in a new  *)
(* process.  The binding for ACP itself is not among them: its database is *)
(* the one that Replication models, and is no table of single rows.        *)
(***************************************************************************)
EXTENDS BindingOps, SqlSession

CONSTANTS
  Configs,    \* records: db, the binding; load, whether a load precedes the run;
              \* drop, the property dropdata; all, writeallfields; alone, whether
              \* there is only one worker; consistent, whether reads see the
              \* newest row (dynamodb.consistent.reads, and no redis.read_only);
              \* and the bounds calls, faults, losses
  Buffer,     \* the buffers of the pool
  WriteKey,   \* the keys that are written (the others are only scanned)
  MaxCalls    \* no configuration allows more calls

VARIABLES
  conf, phase,
  store,      \* the rows in the database
  call,       \* call[t]: the call of worker t, or None
  stage,      \* stage[t]: how far it is
  result,     \* result[t]: whether it succeeded
  slice,      \* slice[t]: the buffer its encoded row is in
  held,       \* held[t]: the buffer it has taken from the pool, or None
  bytes,      \* the contents of the buffers
  conflict,   \* conflict[t]: the row was written since t's transaction began
  calls, faults,
  seen, done, \* history: the rows of the key during the call; whether it took effect
  clash,      \* history: fields that calls overlapping t's may change
  fact        \* history: field values acknowledged and not touched since

work == <<store, stage, result, slice, held, bytes, conflict, faults>>
history == <<seen, done, clash, fact>>
vars == <<conf, phase, call, calls, work, history, session>>

db == conf.db
Databases ==
  {"mysql", "pg", "sqlite", "redis_hash", "redis_string", "spanner", "cassandra", "dynamodb",
   "mongodb", "pegasus", "aerospike", "boltdb", "etcd", "tikv_raw", "tikv_txn", "foundationdb",
   "rocksdb", "badger"}
SqlBindings == {"mysql", "pg"}
Transactional == {"tikv_txn", "foundationdb", "badger"}
\* Bindings that read or encode first and write in a step of its own.
Staged == Transactional \cup {"tikv_raw", "rocksdb"}
\* Bindings whose encoded row lies in a buffer that others get after Put.
Pooled == {"tikv_raw", "tikv_txn", "badger"}
Idle == \A t \in Thread : stage[t] = "idle"
Pending(k) == {t \in Thread : stage[t] # "idle" /\ call[t].key = k}
Pool == Buffer \ {held[t] : t \in Thread}
\* What a field holds: the number of the call that wrote it.
Value == 0 .. MaxCalls

ASSUME ConfigAssumption ==
  /\ MaxCalls \in Nat
  /\ \A c \in Configs : /\ c.db \in Databases /\ c.calls \in 0 .. MaxCalls
                        /\ {c.load, c.drop, c.all, c.alone, c.consistent} \subseteq BOOLEAN

ASSUME PoolAssumption ==
  WriteKey \subseteq Key /\ Buffer \cap Thread = {} /\ None \notin Buffer \cup Thread

\* SQL texts differ in the operation and the fields.
Statement(c) == <<c.op, DOMAIN c.values>>

-----------------------------------------------------------------------------
(***************************************************************************)
(* What each binding makes of the contract of ycsb.DB (see RecordStore).   *)
(***************************************************************************)
Promise(insert, base, absent) ==
  [insert |-> insert, base |-> base, absent |-> absent,
   under |-> FALSE, silent |-> FALSE, again |-> FALSE, torn |-> FALSE]

Contract(d) ==
  CASE d \in {"etcd", "pegasus"}           -> Promise("put", "none", "create")
    [] d \in {"mysql", "pg", "sqlite"}     -> Promise("keep", "current", "ignore")
    [] d \in {"redis_hash", "cassandra"}   -> Promise("merge", "current", "create")
    [] d = "redis_string"                  -> Promise("put", "seen", "full")
    [] d = "spanner"                       -> Promise("merge", "current", "refuse")
    [] d = "dynamodb"                      -> Promise("put", "current", "create")
    [] d = "mongodb"                       -> Promise("new", "current", "refuse")
    [] d = "boltdb"                        -> Promise("put", "current", "refuse")
    [] d = "badger"       -> [Promise("put", "current", "refuse") EXCEPT !.torn = ~ conf.alone]
    [] d = "tikv_txn"                      -> Promise("put", "current", "ignore")
    [] d = "rocksdb"                       -> Promise("put", "seen", "create")
    [] d = "tikv_raw"     -> [Promise("put", "seen", "create") EXCEPT !.silent = TRUE]
    [] d = "foundationdb" -> [Promise("put", "current", "ignore") EXCEPT !.again = TRUE]
    [] d = "aerospike"    -> [Promise("merge", "seen", "create") EXCEPT !.under = TRUE]

\* The fields a call may change; an update that read the row may write back
\* every field it read, and a torn call anything.
Touches(c) ==
  IF c.op = "update" /\ Contract(db).base # "none" /\ ~ Contract(db).torn
  THEN DOMAIN c.values ELSE Field
Endangers(c) ==
  IF c.op = "update" /\ Contract(db).base = "seen" THEN Field ELSE Touches(c)

\* The calls that may spoil, or be spoilt by, a call of key k.
Rivals(k) == IF Contract(db).torn THEN {t \in Thread : stage[t] # "idle"} ELSE Pending(k)

RestrictTo(row, S) == [f \in DOMAIN row \cap S |-> row[f]]

-----------------------------------------------------------------------------
Init ==
  /\ conf \in Configs
  /\ phase = "new"
  /\ \E row \in {NoRow, [f \in Field |-> 0]} :
       store = [k \in Key |-> IF k \in WriteKey THEN row ELSE [f \in Field |-> 0]]
  /\ call = [t \in Thread |-> None]
  /\ stage = [t \in Thread |-> "idle"]
  /\ result = [t \in Thread |-> FALSE]
  /\ slice = [t \in Thread |-> None]
  /\ held = [t \in Thread |-> None]
  /\ bytes = [b \in Buffer \cup Thread |-> {}]
  /\ conflict = [t \in Thread |-> FALSE]
  /\ calls = 0 /\ faults = 0
  /\ seen = [t \in Thread |-> {}]
  /\ done = [t \in Thread |-> "no"]
  /\ clash = [t \in Thread |-> {}]
  /\ fact = [k \in Key |-> Fields(store[k])]
  /\ InitThread

\* A go-ycsb process creates its binding, for a load and later for a run.
Create(command) ==
  /\ Idle
  /\ phase = (IF command = "run" /\ conf.load THEN "load" ELSE "new")
  /\ command = "load" => conf.load
  /\ phase' = command
  /\ store' = IF Drops(db, command, conf.drop) THEN [k \in Key |-> NoRow] ELSE store
  /\ fact' = IF Drops(db, command, conf.drop) THEN [k \in Key |-> EmptyRow] ELSE fact
  /\ link' = [t \in Thread |-> "up"]
  /\ conn' = [t \in Thread |-> 1]
  /\ stmtCache' = [t \in Thread |-> NoStmts]
  /\ UNCHANGED <<conf, call, calls, stage, result, slice, held, bytes, conflict, faults,
                 seen, done, clash, losses, outages, refusals>>

\* What the workload may call: a load only inserts, a row has all fields, and
\* an update writes one field or, with writeallfields, all.
CallsOf(n) ==
  LET Values(S) == [f \in S |-> n]
      Updates == {[op |-> "update", key |-> k, values |-> Values(S)] :
                    k \in WriteKey, S \in IF conf.all THEN {Field} ELSE {{f} : f \in Field}}
      Inserts == {[op |-> "insert", key |-> k, values |-> Values(Field)] : k \in WriteKey}
      Deletes == {[op |-> "delete", key |-> k, values |-> EmptyRow] : k \in WriteKey}
  IN  IF phase = "load" THEN Inserts ELSE Updates \cup Inserts \cup Deletes

Begin(t) ==
  /\ phase \in {"load", "run"}
  /\ calls < conf.calls
  /\ stage[t] = "idle"
  /\ conf.alone => Idle
  /\ \E c \in CallsOf(calls + 1) :
       LET others == Rivals(c.key)
       IN  /\ call' = [call EXCEPT ![t] = c]
           /\ seen' = [seen EXCEPT ![t] = {store[c.key]}]
           /\ clash' = [u \in Thread |->
                          IF u = t THEN UNION {Endangers(call[o]) : o \in others}
                          ELSE IF u \in others THEN clash[u] \cup Endangers(c) ELSE clash[u]]
           /\ fact' = [fact EXCEPT ![c.key] = RestrictTo(@, Field \ Touches(c))]
  /\ calls' = calls + 1
  /\ stage' = [stage EXCEPT ![t] = "called"]
  /\ done' = [done EXCEPT ![t] = "no"]
  /\ UNCHANGED <<conf, phase, store, result, slice, held, bytes, conflict, faults, session>>

Finish(t, ok) ==
  /\ stage' = [stage EXCEPT ![t] = "returning"]
  /\ result' = [result EXCEPT ![t] = ok]

\* The database replaces the row of t's key.
Lands(t, row) ==
  LET k == call[t].key
  IN  /\ store' = [store EXCEPT ![k] = row]
      /\ seen' = [u \in Thread |-> IF u \in Pending(k) THEN seen[u] \cup {row} ELSE seen[u]]
      /\ conflict' = [u \in Thread |-> conflict[u] \/ u \in Pending(k) \ {t}]
      /\ done' = [done EXCEPT ![t] = "written"]

Stays == UNCHANGED <<store, seen, conflict>>

\* One request to the database (external): it is refused, or changes nothing, or
\* takes effect; a fault is reported before or after it took effect.
Request(t, new) ==
  \/ /\ new = Refused
     /\ Finish(t, FALSE) /\ Stays
     /\ UNCHANGED <<done, faults>>
  \/ /\ new # Refused
     /\ \E ok \in BOOLEAN :
          /\ Finish(t, ok)
          /\ ok \/ faults < conf.faults
          /\ faults' = IF ok THEN faults ELSE faults + 1
     /\ IF new = Ignored
        THEN Stays /\ done' = [done EXCEPT ![t] = "ignored"]
        ELSE Lands(t, new)
  \/ /\ faults < conf.faults
     /\ faults' = faults + 1
     /\ Finish(t, FALSE) /\ Stays
     /\ UNCHANGED done

NewRow(t) ==
  LET c == call[t]
  IN  CASE c.op = "insert" -> InsertRow(db, store[c.key], c.values)
        [] c.op = "update" -> UpdateRow(db, store[c.key], c.values)
        [] c.op = "delete" -> DeleteRow(db, store[c.key])

\* Bindings and calls that read or encode in one step and write in another.
TwoSteps(c) ==
  \/ db \in Transactional
  \/ db \in Staged /\ c.op # "delete"
  \/ db \in {"aerospike", "redis_string"} /\ c.op = "update"

\* The call is one request.
Execute(t) ==
  /\ stage[t] = "called" /\ db \notin SqlBindings /\ ~ TwoSteps(call[t])
  /\ Request(t, NewRow(t))
  /\ UNCHANGED <<conf, phase, call, calls, slice, held, bytes, clash, fact, session>>

\* optimisticTx: a commit that found the database busy is tried again.
Retry(t) ==
  /\ stage[t] = "called" /\ db = "sqlite"
  /\ faults < conf.faults
  /\ faults' = faults + 1
  /\ UNCHANGED <<conf, phase, call, calls, store, stage, result, slice, held, bytes, conflict,
                 history, session>>

-----------------------------------------------------------------------------
\* MySQL and PostgreSQL: the statement, then its execution.
Prepare(t) ==
  /\ stage[t] = "called" /\ db \in SqlBindings
  /\ \E ok \in BOOLEAN :
       /\ getAndCacheStmt(t, Statement(call[t]), ok)
       /\ IF ok THEN stage' = [stage EXCEPT ![t] = "prepared"] /\ UNCHANGED result
                ELSE Finish(t, FALSE)
       /\ faults' = IF ~ ok /\ link'[t] = "up" THEN faults + 1 ELSE faults
  /\ faults' <= conf.faults /\ losses'[t] <= conf.losses
  /\ UNCHANGED <<conf, phase, call, calls, store, slice, held, bytes, conflict, history>>

\* There is no connection to prepare the statement on, and the process ends.
Panic(t) ==
  /\ stage[t] = "called" /\ db \in SqlBindings
  /\ Panics(t, Statement(call[t]))
  /\ phase' = "crashed"
  /\ UNCHANGED <<conf, call, calls, work, history, session>>

ExecStmt(t) ==
  /\ stage[t] = "prepared"
  /\ IF Reaches(t, Statement(call[t]))
     THEN Request(t, NewRow(t))
     ELSE Finish(t, FALSE) /\ Stays /\ UNCHANGED <<done, faults>>
  /\ execQuery(t, Statement(call[t]), result'[t])
  /\ UNCHANGED <<conf, phase, call, calls, slice, held, bytes, clash, fact>>

LoseConnection(t) ==
  /\ db \in SqlBindings /\ phase \in {"load", "run"}
  /\ losses[t] < conf.losses
  /\ Lose(t)
  /\ UNCHANGED <<conf, phase, call, calls, work, history>>

-----------------------------------------------------------------------------
\* What a binding that reads first goes on to write.
Draft(t) ==
  LET c == call[t]
  IN  CASE c.op = "insert" -> InsertDraft(db, c.values)
        [] c.op = "update" -> UpdateDraft(db, store[c.key], c.values)
        [] c.op = "delete" -> DeleteRow(db, store[c.key])

\* Faulty: every binding gives the buffer back before the row is written.
ReleasesEarly(d) == FALSE

\* The buffer goes back to the pool when the call returns; in Badger's when the
\* function passed to its Update does, which is before the commit.
ReleasesAtReturn(d) == d # "badger"

\* The row is read and what is to be written is encoded.
ReadAndEncode(t) ==
  /\ stage[t] = "called" /\ TwoSteps(call[t])
  /\ Draft(t) \notin {Refused, Ignored}
  /\ \E b \in (IF db \in Pooled /\ Draft(t) # NoRow THEN Pool ELSE {t}) :
       /\ slice' = [slice EXCEPT ![t] = IF Draft(t) = NoRow THEN None ELSE b]
       /\ bytes' = IF Draft(t) = NoRow THEN bytes ELSE [bytes EXCEPT ![b] = Encode(Draft(t))]
       /\ held' = [held EXCEPT ![t] = IF b \in Buffer /\ ReleasesAtReturn(db) THEN b ELSE None]
  /\ conflict' = [conflict EXCEPT ![t] = FALSE]
  /\ stage' = [stage EXCEPT ![t] = "encoded"]
  /\ UNCHANGED <<conf, phase, call, calls, store, result, faults, history, session>>

\* The row is not there, and the binding reports that as an error or as success.
NothingToUpdate(t) ==
  /\ stage[t] = "called" /\ TwoSteps(call[t])
  /\ Draft(t) \in {Refused, Ignored}
  /\ Finish(t, Draft(t) = Ignored)
  /\ done' = [done EXCEPT ![t] = IF Draft(t) = Ignored THEN "ignored" ELSE @]
  /\ UNCHANGED <<conf, phase, call, calls, store, slice, held, bytes, conflict, faults,
                 seen, clash, fact, session>>

\* The read fails; rawDB.Update of TiKV then returns nil.
ReadFails(t) ==
  /\ stage[t] = "called" /\ TwoSteps(call[t])
  /\ faults < conf.faults
  /\ faults' = faults + 1
  /\ Finish(t, db = "tikv_raw" /\ call[t].op = "update")
  /\ UNCHANGED <<conf, phase, call, calls, store, slice, held, bytes, conflict, history, session>>

\* What the request carries: the bytes that are in the buffer by now.
Content(t) == IF slice[t] = None THEN NoRow ELSE Decode(bytes[slice[t]], {})

Landed(t) ==
  IF db = "aerospike" THEN Over(Content(t), Fields(store[call[t].key])) ELSE Content(t)

\* Faulty: no transaction ever conflicts.
NeverConflicts(t) == FALSE

Conflicts(t) ==
  /\ conflict[t]
  /\ db \in Transactional
  /\ db = "tikv_txn" \/ call[t].op = "update"

Write(t) ==
  /\ stage[t] = "encoded" /\ ~ Conflicts(t)
  /\ Request(t, Landed(t))
  /\ UNCHANGED <<conf, phase, call, calls, slice, held, bytes, clash, fact, session>>

\* A transaction whose row was written meanwhile fails, and Transact of
\* FoundationDB (external) runs its function again.
Abort(t) ==
  /\ stage[t] = "encoded" /\ Conflicts(t)
  /\ IF db = "foundationdb"
     THEN stage' = [stage EXCEPT ![t] = "called"] /\ UNCHANGED result
     ELSE Finish(t, FALSE)
  /\ UNCHANGED <<conf, phase, call, calls, store, slice, held, bytes, conflict, faults,
                 history, session>>

\* Transact also runs its function again when it cannot tell whether the
\* transaction was committed; here it was.
CommitUnknown(t) ==
  /\ stage[t] = "encoded" /\ ~ Conflicts(t) /\ db = "foundationdb"
  /\ faults < conf.faults
  /\ faults' = faults + 1
  /\ Lands(t, Landed(t))
  /\ stage' = [stage EXCEPT ![t] = "called"]
  /\ UNCHANGED <<conf, phase, call, calls, result, slice, held, bytes, clash, fact, session>>

-----------------------------------------------------------------------------
\* The call returns: what it wrote is a fact from now on, unless a call that
\* overlapped it may have changed it.
Return(t) ==
  LET c == call[t]
      known == IF result[t] /\ done[t] = "written"
               THEN RestrictTo(c.values, Field \ clash[t]) ELSE EmptyRow
  IN  /\ stage[t] = "returning"
      /\ stage' = [stage EXCEPT ![t] = "idle"]
      /\ call' = [call EXCEPT ![t] = None]
      /\ result' = [result EXCEPT ![t] = FALSE]
      /\ slice' = [slice EXCEPT ![t] = None]
      /\ held' = [held EXCEPT ![t] = None]
      /\ bytes' = [b \in DOMAIN bytes |->
                     IF \E u \in Thread \ {t} : slice[u] = b THEN bytes[b] ELSE {}]
      /\ conflict' = [conflict EXCEPT ![t] = FALSE]
      /\ seen' = [seen EXCEPT ![t] = {}]
      /\ done' = [done EXCEPT ![t] = "no"]
      /\ clash' = [clash EXCEPT ![t] = {}]
      /\ fact' = [fact EXCEPT ![c.key] = Over(known, @)]
      /\ UNCHANGED <<conf, phase, calls, store, faults, session>>

Next ==
  \/ \E command \in {"load", "run"} : Create(command)
  \/ /\ phase # "crashed"
     /\ \E t \in Thread :
          \/ Begin(t) \/ Execute(t) \/ Retry(t) \/ Return(t)
          \/ Prepare(t) \/ Panic(t) \/ ExecStmt(t) \/ LoseConnection(t)
          \/ ReadAndEncode(t) \/ NothingToUpdate(t) \/ ReadFails(t)
          \/ Write(t) \/ Abort(t) \/ CommitUnknown(t)

Spec == Init /\ [][Next]_vars

-----------------------------------------------------------------------------
RS == INSTANCE RecordStore WITH
        contract <- Contract(db),
        done <- [t \in Thread |-> done[t] # "no"]

\* Every binding keeps its contract, whatever the interleaving of the workers'
\* steps and the faults: a call takes effect at most once, only with the values
\* it was given and on a row the contract allows, and success means it did.
\* The exceptions are in the contract: TiKV's raw binding reports success for an
\* update whose read failed (silent), FoundationDB's may repeat a call (again),
\* and Badger's, with several workers, may store another call's row (torn).
ImplementsRecordStore == RS!Spec
=============================================================================
