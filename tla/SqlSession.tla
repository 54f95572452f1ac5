----------------------------- MODULE SqlSession -----------------------------
(***************************************************************************)
(* The session of one worker of the MySQL and PostgreSQL bindings: a       *)
(* connection and the statements prepared on it (db/mysql/db.go,           *)
(* db/pg/db.go).  A statement belongs to the connection it was prepared    *)
(* on.  database/sql (external) reports the loss of a connection to the    *)
(* first call that uses it and ErrConnDone to every later one.  When no    *)
(* new connection can be built either, the session is left without one.    *)
(***************************************************************************)
EXTENDS Integers

CONSTANTS Thread, Query

VARIABLES
  link,      \* link[t]: the connection is "up", "bad" (lost, not yet noticed) or
             \* "done"; "none" if state.conn is nil
  conn,      \* conn[t]: its number
  stmtCache, \* stmtCache[t]: the connection each cached statement belongs to
  losses,    \* losses[t]: connections of t that were lost
  outages,   \* outages[t]: connections that t could not build
  refusals   \* refusals[t][q]: calls of q that failed for want of a connection

session == <<link, conn, stmtCache, losses, outages, refusals>>

NoStmts == [q \in {} |-> 0]

InitThread ==
  /\ link = [t \in Thread |-> "up"]
  /\ conn = [t \in Thread |-> 1]
  /\ stmtCache = [t \in Thread |-> NoStmts]
  /\ losses = [t \in Thread |-> 0]
  /\ outages = [t \in Thread |-> 0]
  /\ refusals = [t \in Thread |-> [q \in Query |-> 0]]

\* The connection is lost, by the server or on the way.
Lose(t) ==
  /\ link[t] = "up"
  /\ link' = [link EXCEPT ![t] = "bad"]
  /\ losses' = [losses EXCEPT ![t] = @ + 1]
  /\ UNCHANGED <<conn, stmtCache, outages, refusals>>

With(stmts, q, c) == [p \in DOMAIN stmts \cup {q} |-> IF p = q THEN c ELSE stmts[p]]
Without(stmts, q) == [p \in DOMAIN stmts \ {q} |-> stmts[p]]

\* PrepareContext on connection c, which is up; the server may refuse the query.
PrepareContext(t, q, c, ok) ==
  /\ conn' = [conn EXCEPT ![t] = c]
  /\ link' = [link EXCEPT ![t] = "up"]
  /\ stmtCache' = [stmtCache EXCEPT ![t] = IF ok THEN With(@, q, c) ELSE @]
  /\ UNCHANGED <<losses, outages, refusals>>

\* The call of q fails for want of a connection, and l becomes of the session's.
Refuse(t, q, l) ==
  /\ link' = [link EXCEPT ![t] = l]
  /\ refusals' = [refusals EXCEPT ![t][q] = @ + 1]
  /\ UNCHANGED stmtCache

\* ErrConnDone: a new connection is built and the statement prepared on it.  The
\* connection cannot be built, and what Conn returns, nil, replaces the old one;
\* or it is lost again before the statement is prepared.
Reconnect(t, q, ok) ==
  \/ PrepareContext(t, q, conn[t] + 1, ok)
  \/ /\ ~ ok
     /\ Refuse(t, q, "none")
     /\ outages' = [outages EXCEPT ![t] = @ + 1]
     /\ UNCHANGED <<conn, losses>>
  \/ /\ ~ ok
     /\ Refuse(t, q, "done")
     /\ conn' = [conn EXCEPT ![t] = @ + 1]
     /\ losses' = [losses EXCEPT ![t] = @ + 1]
     /\ UNCHANGED outages

Cached(t, q) == q \in DOMAIN stmtCache[t]

\* A cached statement is taken without a look at its connection; otherwise it is
\* prepared, on a new connection if the present one is known to be done.
getAndCacheStmt(t, q, ok) ==
  \/ Cached(t, q) /\ ok /\ UNCHANGED session
  \/ ~ Cached(t, q) /\ link[t] = "up" /\ PrepareContext(t, q, conn[t], ok)
  \/ ~ Cached(t, q) /\ link[t] = "bad" /\ ~ ok
     /\ Refuse(t, q, "done") /\ UNCHANGED <<conn, losses, outages>>
  \/ ~ Cached(t, q) /\ link[t] = "done" /\ Reconnect(t, q, ok)

\* PrepareContext of a nil connection panics.
Panics(t, q) == ~ Cached(t, q) /\ link[t] = "none"

\* Whether the statement reaches the server (external).
Reaches(t, q) == stmtCache[t][q] = conn[t] /\ link[t] = "up"

\* Faulty: a failed statement stays in the cache.
KeepsStmt(t, q, ok) == stmtCache' = stmtCache

\* A statement that failed, for whatever reason, is dropped from the cache.
clearCacheIfFailed(t, q, ok) ==
  stmtCache' = [stmtCache EXCEPT ![t] = IF ok THEN @ ELSE Without(@, q)]

\* An execution that reached the server and succeeded or not, or did not reach it.
execQuery(t, q, ok) ==
  /\ ok => Reaches(t, q)
  /\ link' = [link EXCEPT ![t] = IF stmtCache[t][q] = conn[t] /\ @ = "bad" THEN "done" ELSE @]
  /\ refusals' = [refusals EXCEPT ![t][q] = IF Reaches(t, q) THEN @ ELSE @ + 1]
  /\ clearCacheIfFailed(t, q, ok)
  /\ UNCHANGED <<conn, losses, outages>>

-----------------------------------------------------------------------------
\* The loss of a connection costs every query at most one failed call, and a
\* failure to build a new one one more: clearCacheIfFailed drops the dead
\* statement, and the next getAndCacheStmt prepares it on a connection that is
\* not known to be done.
OneRefusalPerFault ==
  \A t \in Thread, q \in Query : refusals[t][q] <= losses[t] + outages[t]
=============================================================================
