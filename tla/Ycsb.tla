-------------------------------- MODULE Ycsb --------------------------------
(***************************************************************************)
(* A run of go-ycsb: main and its signal goroutine (cmd/go-ycsb), the      *)
(* client with its workers and its measurement goroutine (pkg/client,      *)
(* pkg/measurement), and the core workload (pkg/workload/core.go), over a  *)
(* database whose calls take any time and may fail.                        *)
(*                                                                         *)
(* Keys are their numbers (buildKeyName is taken to be injective), values  *)
(* and fields are left out.  A call of the database and the measurement    *)
(* that DbWrapper makes of it when it returns are one step: what the call  *)
(* changes is not read by the measurement.                                 *)
(***************************************************************************)
EXTENDS AcknowledgedCounter, Generators, Functions, FiniteSets, Sequences

CONSTANTS
  Configs,      \* properties of the runs: command, batchsize, a bound on a
                \* worker's operations during the warm-up (0 if there is
                \* none), whether the database has batch operations, the
                \* total number of operations, the request distribution,
                \* the proportions, whether signals come
  Rank,         \* Rank[t]: the threadID of worker t
  RetryLimit    \* core.insertionretrylimit

ASSUME YcsbAssumption ==
  /\ RetryLimit \in Nat
  /\ IsFiniteSet(Thread) /\ Rank \in Bijection(Thread, 0 .. Cardinality(Thread) - 1)
  /\ \A c \in Configs : c.batch \in Nat \ {0} /\ c.total \in Nat

VARIABLES
  conf,      \* the properties of this run
  mainPc,    \* main: "run", "drain", "close", "end", or "exit" (os.Exit, panic)
  sigPc,     \* the signal goroutine: "wait" or "armed"
  canceled,  \* globalContext is done
  warmUp,    \* measurement.warmUp
  measPc,    \* the measurement goroutine: "warming", "ticking" or "gone"
  wpc,       \* wpc[t]: where worker t stands
  op,        \* op[t]: its operation
  keys,      \* keys[t]: the keys of the operation
  retries,   \* retries[t]: numOfRetries of DoInsert
  opsDone,   \* opsDone[t]
  sequence,  \* core.keySequence
  tried,     \* history: keys whose insertion has returned
  warmOps,   \* warmOps[t]: operations t began before the warm-up was over
  measured,  \* history: the last call of t was measured
  escaped    \* history: operations t counted whose last call was not measured

runVars == <<conf, mainPc, sigPc, canceled, warmUp, measPc>>
workVars == <<wpc, op, keys, retries, opsDone, sequence, tried, warmOps,
              measured, escaped>>
vars == <<ackVars, runVars, workVars>>

Threads == Cardinality(Thread)
Running == mainPc \notin {"end", "exit"}

\* initialGlobal has called InitMeasure, core.Create and the database's Create,
\* and Client.Run has started its goroutines.  The keys of the load are
\* 0 .. Start - 1.
Init ==
  /\ AckInit
  /\ conf \in Configs
  /\ mainPc = "run"
  /\ sigPc = "wait"
  /\ canceled = FALSE
  /\ warmUp = (conf.warm > 0)
  /\ measPc = "warming"
  /\ wpc = [t \in Thread |-> "new"]
  /\ op = [t \in Thread |-> "none"]
  /\ keys = [t \in Thread |-> <<>>]
  /\ retries = [t \in Thread |-> 0]
  /\ opsDone = [t \in Thread |-> 0]
  /\ sequence = 0
  /\ tried = {}
  /\ warmOps = [t \in Thread |-> 0]
  /\ measured = [t \in Thread |-> FALSE]
  /\ escaped = [t \in Thread |-> 0]

\* The process ends at once: os.Exit, a panic.
Exit ==
  /\ mainPc' = "exit"
  /\ UNCHANGED <<ackVars, conf, sigPc, canceled, warmUp, measPc, workVars>>

-----------------------------------------------------------------------------
(* A worker *)

Goto(t, label) == wpc' = [wpc EXCEPT ![t] = label]

\* Faulty: the operations left over are nobody's.
EvenShare(t) == conf.total \div Threads

\* newWorker's opCount: an even share, the first workers taking the rest.
OpCount(t) ==
  conf.total \div Threads + (IF Rank[t] < conf.total % Threads THEN 1 ELSE 0)

\* newWorker, InitThread of the workload and of the database.
NewWorker(t) ==
  /\ wpc[t] = "new"
  /\ \/ conf.total < Threads /\ Exit
     \/ /\ conf.total >= Threads
        /\ Goto(t, "op")
        /\ UNCHANGED <<ackVars, runVars, op, keys, retries, opsDone, sequence,
                       tried, warmOps, measured, escaped>>

\* Worker t begins an operation; the bound applies while the warm-up lasts,
\* when operations are not counted.
Begins(t) ==
  /\ wpc[t] = "op"
  /\ warmUp => warmOps[t] < conf.warm
  /\ warmOps' = [warmOps EXCEPT ![t] = IF warmUp THEN @ + 1 ELSE @]

\* DoInsert and DoBatchInsert take a key.  The keys of a batch are taken one by
\* one, between those of other workers.
TakeKey(t) ==
  /\ conf.command = "load"
  /\ \/ keys[t] = <<>> /\ Begins(t)
     \/ keys[t] # <<>> /\ wpc[t] = "op" /\ UNCHANGED warmOps
  /\ sequence' = sequence + 1
  /\ keys' = [keys EXCEPT ![t] = Append(@, sequence)]
  /\ op' = [op EXCEPT ![t] = "load"]
  /\ Goto(t, IF Len(keys'[t]) = conf.batch THEN "call" ELSE "op")
  /\ UNCHANGED <<ackVars, runVars, retries, opsDone, tried, measured,
                 escaped>>

\* createOperationGenerator: the operations with a proportion above 0.
OperationChooser == Discrete(conf.proportion)

\* Faulty: the newest key is the one handed out last.
KeysUpToIssued ==
  CASE conf.distribution = "uniform"     -> Uniform(0, Start - 1)
    [] conf.distribution = "sequential"  -> Sequential(0, Start - 1)
    [] conf.distribution = "zipfian"     -> ScrambledZipfian(0, Start + conf.total)
    [] conf.distribution = "latest"      -> SkewedLatest(Start - 1, LastIssued)
    [] conf.distribution = "hotspot"     -> Hotspot(0, Start - 1, 1)
    [] conf.distribution = "exponential" -> ExponentialKey(LastIssued)

\* nextKeyNum: the keys a request may go to.  The range of "zipfian" is wider
\* than the keys there are: it makes room for the expected insertions.
NextKeyNum ==
  CASE conf.distribution = "uniform"     -> Uniform(0, Start - 1)
    [] conf.distribution = "sequential"  -> Sequential(0, Start - 1)
    [] conf.distribution = "zipfian"     -> ScrambledZipfian(0, Start + conf.total)
    [] conf.distribution = "latest"      -> SkewedLatest(Start - 1, Last)
    [] conf.distribution = "hotspot"     -> Hotspot(0, Start - 1, 1)
    [] conf.distribution = "exponential" -> ExponentialKey(Last)

\* DoTransaction and DoBatchTransaction choose an operation and, unless it
\* inserts, its keys.  A batch of read-modify-writes does nothing.
Choose(t, o) ==
  /\ conf.command = "run"
  /\ o = "scan" => conf.batch = 1
  /\ Begins(t)
  /\ op' = [op EXCEPT ![t] = o]
  /\ \/ /\ o = "insert"
        /\ Goto(t, "next")
        /\ UNCHANGED <<keys, measured>>
     \/ /\ o = "rmw" /\ conf.batch > 1
        /\ Goto(t, "count")
        /\ measured' = [measured EXCEPT ![t] = FALSE]
        /\ UNCHANGED keys
     \/ /\ o # "insert"
        /\ o = "rmw" => conf.batch = 1
        /\ \E ks \in [1 .. conf.batch -> NextKeyNum] :
             keys' = [keys EXCEPT ![t] = ks]
        /\ Goto(t, "call")
        /\ UNCHANGED measured
  /\ UNCHANGED <<ackVars, runVars, retries, opsDone, sequence, tried,
                 escaped>>

\* DoBatchTransaction panics when it has chosen a scan.
PanicOnScan(t) ==
  /\ conf.command = "run" /\ conf.batch > 1
  /\ wpc[t] = "op"
  /\ "scan" \in OperationChooser
  /\ Exit

\* doTransactionInsert and doBatchTransactionInsert take the next id.  In a
\* batch it is acknowledged at once, before anything is inserted.
TakeID(t) ==
  /\ wpc[t] = "next"
  /\ NextID(t)
  /\ keys' = [keys EXCEPT ![t] = Append(@, counter)]
  /\ Goto(t, IF conf.batch = 1 THEN "call" ELSE "ack")
  /\ UNCHANGED <<runVars, op, retries, opsDone, sequence, tried, warmOps,
                 measured, escaped>>

Inserts(t) == op[t] \in {"load", "insert"}

\* The keys whose insertion has been tried when the call returns: of a database
\* without batch operations, DbWrapper inserts the keys one by one and gives
\* up at the first that fails.
Attempts(t, ok) ==
  IF ~ Inserts(t) THEN {{}}
  ELSE IF ok \/ conf.inner THEN {Range(keys[t])}
  ELSE {{keys[t][j] : j \in 1 .. i} : i \in 1 .. Len(keys[t])}

\* DbWrapper measures a call when it returns, unless it has to do the calls of
\* a batch one by one; Measure drops it during the warm-up.
Measured == ~ warmUp /\ (conf.batch > 1 => conf.inner)

\* Where a worker goes when the call of its operation has returned: a
\* read-modify-write goes on to its update; a load whose insertion failed
\* returns at once when the run has been canceled, and otherwise tries again
\* as often as it may; an insertion of one key is then acknowledged, also when
\* it failed.
AfterCall(t, ok) ==
  IF op[t] = "rmw" /\ ok THEN "update"
  ELSE IF op[t] = "load" /\ ~ ok /\ ~ canceled /\ retries[t] < RetryLimit
       THEN "call"
  ELSE IF op[t] = "insert" /\ conf.batch = 1 THEN "ack"
  ELSE "count"

\* The call of the operation returns, with or without an error.
Call(t, ok) ==
  /\ wpc[t] = "call"
  /\ \E attempted \in Attempts(t, ok) : tried' = tried \cup attempted
  /\ measured' = [measured EXCEPT ![t] = Measured]
  /\ Goto(t, AfterCall(t, ok))
  /\ retries' = [retries EXCEPT ![t] =
                   IF AfterCall(t, ok) = "call" THEN @ + 1 ELSE 0]
  /\ UNCHANGED <<ackVars, runVars, op, keys, opsDone, sequence, warmOps,
                 escaped>>

\* doTransactionReadModifyWrite: the update returns.
CallUpdate(t) ==
  /\ wpc[t] = "update"
  /\ measured' = [measured EXCEPT ![t] = Measured]
  /\ Goto(t, "count")
  /\ UNCHANGED <<ackVars, runVars, op, keys, retries, opsDone, sequence,
                 tried, warmOps, escaped>>

\* The insertion's Acknowledge, step by step.
AcknowledgeID(t) ==
  /\ wpc[t] = "ack" /\ apc[t] # "panic"
  /\ Acknowledge(t)
  /\ Goto(t, IF apc'[t] # "idle" THEN "ack"
             ELSE IF conf.batch = 1 THEN "count"
             ELSE IF Len(keys[t]) < conf.batch THEN "next"
             ELSE "call")
  /\ UNCHANGED <<runVars, op, keys, retries, opsDone, sequence, tried,
                 warmOps, measured, escaped>>

\* A panic of Acknowledge ends the process.
PanicOnSlot(t) == apc[t] = "panic" /\ Exit

\* Faulty: operations of the warm-up are counted.
Counts == TRUE

\* worker.run counts an operation, failed or not, once the warm-up is over.
\* It asks again: the warm-up may have ended since the call was measured.
CountsNow == ~ warmUp

\* After throttle, which waits for a time or for the end of the context, the
\* loop of worker.run goes on unless the context is done.
Count(t) ==
  /\ wpc[t] = "count"
  /\ opsDone' = [opsDone EXCEPT ![t] =
                   IF CountsNow THEN @ + conf.batch ELSE @]
  /\ escaped' = [escaped EXCEPT ![t] =
                   IF CountsNow /\ ~ measured[t] THEN @ + 1 ELSE @]
  /\ keys' = [keys EXCEPT ![t] = <<>>]
  /\ Goto(t, IF ~ canceled /\ opsDone'[t] < OpCount(t) THEN "op" ELSE "done")
  /\ UNCHANGED <<ackVars, runVars, op, retries, sequence, tried, warmOps,
                 measured>>

\* The steps of t that wait for nobody.
Work(t) ==
  \/ NewWorker(t)
  \/ TakeKey(t)
  \/ \E o \in OperationChooser : Choose(t, o)
  \/ TakeID(t)
  \/ AcknowledgeID(t)
  \/ PanicOnScan(t)
  \/ PanicOnSlot(t)
  \/ Count(t)

-----------------------------------------------------------------------------
(* The measurement goroutine of Client.Run *)

\* The end of the warm-up; a load has none.  If the run is canceled first, the
\* goroutine ends and the warm-up never does.
WarmUpEnds ==
  /\ measPc = "warming"
  /\ \/ warmUp' = FALSE /\ measPc' = "ticking"
     \/ /\ conf.command = "run" /\ canceled
        /\ measPc' = "gone"
        /\ UNCHANGED warmUp
  /\ UNCHANGED <<ackVars, conf, mainPc, sigPc, canceled, workVars>>

\* Faulty: the goroutine listens to the run's context only.
MeasureEndsOnCancel ==
  /\ measPc = "ticking"
  /\ canceled
  /\ measPc' = "gone"
  /\ UNCHANGED <<ackVars, conf, mainPc, sigPc, canceled, warmUp, workVars>>

\* measureCtx is done: Client.Run has called measureCancel, or its parent is.
MeasureEnds ==
  /\ measPc = "ticking"
  /\ mainPc = "drain" \/ canceled
  /\ measPc' = "gone"
  /\ UNCHANGED <<ackVars, conf, mainPc, sigPc, canceled, warmUp, workVars>>

-----------------------------------------------------------------------------
(* main *)

\* Client.Run has waited for the workers; after a load it analyses the table.
WorkersDone ==
  /\ mainPc = "run"
  /\ \A t \in Thread : wpc[t] = "done"
  /\ mainPc' = "drain"
  /\ UNCHANGED <<ackVars, conf, sigPc, canceled, warmUp, measPc, workVars>>

\* Client.Run has waited for the measurement goroutine; the results are put
\* out and main cancels the context.
RunReturns ==
  /\ mainPc = "drain"
  /\ measPc = "gone"
  /\ mainPc' = "close"
  /\ canceled' = TRUE
  /\ UNCHANGED <<ackVars, conf, sigPc, warmUp, measPc, workVars>>

\* main closes the database and the workload and ends.
MainEnds ==
  /\ mainPc = "close"
  /\ mainPc' = "end"
  /\ UNCHANGED <<ackVars, conf, sigPc, canceled, warmUp, measPc, workVars>>

\* The first signal cancels the context.
Signal ==
  /\ conf.signals
  /\ sigPc = "wait"
  /\ sigPc' = "armed"
  /\ canceled' = TRUE
  /\ UNCHANGED <<ackVars, conf, mainPc, warmUp, measPc, workVars>>

\* Faulty: the exit waits for the workers.
ExitAfterWorkers ==
  /\ sigPc = "armed"
  /\ mainPc # "run"
  /\ Exit

\* A second signal, or ten seconds after the first.
ForceExit ==
  /\ sigPc = "armed"
  /\ Exit

Over == ~ Running /\ UNCHANGED vars

Next ==
  \/ /\ Running
     /\ \/ \E t \in Thread : Work(t)
        \/ \E t \in Thread, ok \in BOOLEAN : Call(t, ok)
        \/ \E t \in Thread : CallUpdate(t)
        \/ WarmUpEnds
        \/ MeasureEnds
        \/ WorkersDone
        \/ RunReturns
        \/ MainEnds
        \/ Signal
        \/ ForceExit
  \/ Over

\* Goroutines run on and timers fire.  Nothing makes a call of the database
\* return, or the user send a signal.
Fairness ==
  /\ \A t \in Thread : WF_vars(Running /\ Work(t))
  /\ WF_vars(Running /\ WarmUpEnds)
  /\ WF_vars(Running /\ MeasureEnds)
  /\ WF_vars(Running /\ WorkersDone)
  /\ WF_vars(Running /\ RunReturns)
  /\ WF_vars(Running /\ MainEnds)
  /\ WF_vars(Running /\ ForceExit)

Spec == Init /\ [][Next]_vars /\ Fairness

-----------------------------------------------------------------------------
\* With the distributions that follow the newest key ("latest" and
\* "exponential"), a request goes only to keys of the load and to keys whose
\* insertion has returned: the key chooser asks AcknowledgedCounter.Last, not
\* the counter.  It does not hold of batches, which acknowledge their ids
\* before they insert them (doBatchTransactionInsert), nor of "latest" over a
\* load of fewer than four records, whose Zipfian passes the count it is given.
ChosenWasTried ==
  /\ conf.batch = 1 /\ ~ overrun
  /\ conf.distribution = "exponential" \/ (conf.distribution = "latest" /\ Start > 3)
  => \A t \in Thread : wpc[t] = "call" /\ ~ Inserts(t) =>
       Range(keys[t]) \subseteq (0 .. Start - 1) \cup tried

\* The sum of f over the workers: the pairs of a worker and one of what f counts.
Sum(f) == Cardinality(UNION {{t} \X (1 .. f[t]) : t \in Thread})

\* The operations begun during the warm-up, by all workers.
WarmUpOps == Sum(warmOps)

\* A load that was not interrupted has tried to insert every record, except
\* those behind a failure in a batch that DbWrapper inserts one by one.  It runs
\* past them, into the keys that the inserts of a later run will use, only by
\* the rest of each worker's last batch and by whatever was inserted before the
\* warm-up was over, although a load needs none.
LoadIsExact ==
  conf.command = "load" /\ mainPc \in {"drain", "close", "end"} /\ sigPc = "wait" =>
    /\ conf.batch = 1 \/ conf.inner => 0 .. conf.total - 1 \subseteq tried
    /\ conf.total <= sequence
    /\ sequence <= conf.total + Threads * (conf.batch - 1) + conf.batch * WarmUpOps

\* Measure and worker.run each ask whether the warm-up is over.  It may end
\* between the two, but that loses each worker at most one measurement.
OneEscapes == conf.batch = 1 => \A t \in Thread : escaped[t] <= 1

\* Once a signal has come the process ends, although calls of the database may
\* never return.
SignalEndsProcess == sigPc = "armed" ~> ~ Running

\* If the calls of the database return, every run ends.
RunEnds ==
  (\A t \in Thread : []<>(wpc[t] \notin {"call", "update"})) => <>(~ Running)
=============================================================================
