---------------------------- MODULE RecordStore ----------------------------
(***************************************************************************)
(* What a database binding of go-ycsb promises for the records it writes   *)
(* (pkg/ycsb/db.go and each binding's own reading of it): every call takes *)
(* effect at most once, between its beginning and its end, and a call that *)
(* reports success has taken effect.  What the effect is differs from      *)
(* binding to binding and is given by the contract:                        *)
(*   insert: what becomes of an existing row: "put" replaces it, "merge"   *)
(*           keeps its other fields, "keep" leaves it as it is, "new"      *)
(*           refuses the insertion;                                        *)
(*   base:   the row whose fields an update keeps: "current", one "seen"   *)
(*           since the call began, or "none";                              *)
(*   absent: an update of an absent row: "ignore" it, "create" the row,    *)
(*           "full" creates it if all fields are given, or "refuse";       *)
(*   under:  the update is written over the fields that are there;         *)
(*   silent: success may be reported although nothing was written;         *)
(*   again:  the call may take effect more than once;                      *)
(*   torn:   what an insertion or an update leaves may be any row.         *)
(***************************************************************************)
EXTENDS Integers

CONSTANTS Thread, Key, Field, Value, NoRow, None

VARIABLES
  contract,
  store,  \* store[k]: the row of k, a function on some of the fields, or NoRow
  call,   \* call[t]: what thread t has called, or None
  seen,   \* seen[t]: the rows its key has had since the call began
  done,   \* done[t]: whether the call has taken effect
  result  \* result[t]: whether the call reports success

vars == <<contract, store, call, seen, done, result>>

Row == UNION {[S -> Value] : S \in SUBSET Field}
EmptyRow == [f \in {} |-> None]
Over(values, row) ==
  [f \in DOMAIN values \cup DOMAIN row |-> IF f \in DOMAIN values THEN values[f] ELSE row[f]]
Fields(row) == IF row = NoRow THEN EmptyRow ELSE row
Call == [op : {"insert", "update", "delete"}, key : Key, values : Row]

Contract ==
  [insert : {"put", "merge", "keep", "new"}, base : {"current", "seen", "none"},
   absent : {"ignore", "create", "full", "refuse"},
   under : BOOLEAN, silent : BOOLEAN, again : BOOLEAN, torn : BOOLEAN]

Init ==
  /\ contract \in Contract
  /\ store \in [Key -> Row \cup {NoRow}]
  /\ call = [t \in Thread |-> None]
  /\ seen = [t \in Thread |-> {}]
  /\ done = [t \in Thread |-> FALSE]
  /\ result = [t \in Thread |-> FALSE]

Begin(t) ==
  /\ call[t] = None
  /\ \E c \in Call :
       /\ call' = [call EXCEPT ![t] = c]
       /\ seen' = [seen EXCEPT ![t] = {store[c.key]}]
  /\ done' = [done EXCEPT ![t] = FALSE]
  /\ UNCHANGED <<contract, store, result>>

Inserted(row, values) ==
  CASE contract.insert = "put"   -> {values}
    [] contract.insert = "merge" -> {Over(values, Fields(row))}
    [] contract.insert = "keep"  -> {IF row = NoRow THEN values ELSE row}
    [] contract.insert = "new"   -> IF row = NoRow THEN {values} ELSE {}

Creates(values) ==
  \/ contract.absent = "create"
  \/ contract.absent = "full" /\ DOMAIN values = Field

Bases(t) ==
  CASE contract.base = "current" -> {store[call[t].key]}
    [] contract.base = "seen"    -> seen[t]
    [] contract.base = "none"    -> {EmptyRow}

Updated(t, values) ==
  LET row == store[call[t].key]
      Written(base) ==
        Over(Over(values, Fields(base)), IF contract.under THEN Fields(row) ELSE EmptyRow)
  IN  {Written(base) : base \in Bases(t) \ {NoRow}}
      \cup (IF NoRow \in Bases(t) /\ Creates(values) THEN {Written(NoRow)} ELSE {})
      \cup (IF NoRow \in Bases(t) /\ contract.absent = "ignore" THEN {row} ELSE {})

Effects(t) ==
  LET c == call[t]
  IN  CASE c.op = "delete" -> {NoRow}
        [] c.op # "delete" /\ contract.torn -> Row
        [] c.op = "insert" /\ ~ contract.torn -> Inserted(store[c.key], c.values)
        [] c.op = "update" /\ ~ contract.torn -> Updated(t, c.values)

\* The call takes effect; it may report success or failure at once.
Effect(t) ==
  /\ call[t] # None /\ (done[t] => contract.again)
  /\ \E row \in Effects(t) :
       /\ store' = [store EXCEPT ![call[t].key] = row]
       /\ seen' = [u \in Thread |->
                     IF call[u] # None /\ call[u].key = call[t].key
                     THEN seen[u] \cup {row} ELSE seen[u]]
  /\ done' = [done EXCEPT ![t] = TRUE]
  /\ \E ok \in BOOLEAN : result' = [result EXCEPT ![t] = ok]
  /\ UNCHANGED <<contract, call>>

\* The call reports success only when it has taken effect.
Report(t) ==
  /\ call[t] # None
  /\ \E ok \in BOOLEAN :
       /\ ok => done[t] \/ contract.silent
       /\ result' = [result EXCEPT ![t] = ok]
  /\ UNCHANGED <<contract, store, call, seen, done>>

Return(t) ==
  /\ call[t] # None
  /\ call' = [call EXCEPT ![t] = None]
  /\ seen' = [seen EXCEPT ![t] = {}]
  /\ done' = [done EXCEPT ![t] = FALSE]
  /\ result' = [result EXCEPT ![t] = FALSE]
  /\ UNCHANGED <<contract, store>>

\* A new process drops the table before it makes any call.
Drop ==
  /\ \A t \in Thread : call[t] = None
  /\ store' = [k \in Key |-> NoRow]
  /\ UNCHANGED <<contract, call, seen, done, result>>

Next ==
  \/ \E t \in Thread : Begin(t) \/ Effect(t) \/ Report(t) \/ Return(t)
  \/ Drop

Spec == Init /\ [][Next]_vars
=============================================================================
