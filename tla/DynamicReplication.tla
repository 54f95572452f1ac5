------------------------- MODULE DynamicReplication -------------------------
(***************************************************************************)
(* Replication on a cluster whose nodes change, each on its own, their     *)
(* quorum sizes (ADAPTIVE_ENABLED, the steps of QuorumSteps) and their set *)
(* of peers (HEADLESS_SERVICE, DNS discovery), while requests are running. *)
(***************************************************************************)
EXTENDS Replication

CONSTANTS
  MinR, MaxR, MinW, MaxW,  \* bounds on the quorum sizes
  Budgets                  \* bounds [puts, adjustments, discoveries] to explore

ASSUME BoundsAssumption ==
  /\ {MinR, MaxR, MinW, MaxW} \subseteq Int
  /\ Budgets \subseteq [puts : Nat, adjustments : Nat, discoveries : Nat]

VARIABLES
  budget  \* the Puts in all, the adjustments and the discoveries left

dynVars == <<vars, budget>>

Q == INSTANCE QuorumSteps

DynInit == Init /\ budget \in Budgets

\* A step of the requests.
Request ==
  /\ Next
  /\ Cardinality({p \in Put : pc'[p] # "idle"}) <= budget.puts
  /\ UNCHANGED budget

\* The adjuster of n moves a unit between R and W.
Adjust(n) ==
  /\ budget.adjustments > 0
  /\ \/ Q!SetQuorum(n, Q!Relax(quorum[n]))
     \/ Q!SetQuorum(n, Q!Tighten(quorum[n]))
  /\ budget' = [budget EXCEPT !.adjustments = @ - 1]
  /\ UNCHANGED <<clock, store, peers, reqVars, histVars>>

\* What DiscoverPeersDNS may return at n: the ready pods other than n, less
\* those whose reverse lookup fails, so any set of other nodes.
DiscoverPeersDNS(n) == SUBSET (Node \ {n})

\* Coordinator.reconcilePeers at n after a discovery.  Peers are removed and
\* added one by one; each set in between is the result of some other discovery.
ReconcilePeers(n, found) ==
  /\ budget.discoveries > 0
  /\ peers' = [peers EXCEPT ![n] = found]
  /\ budget' = [budget EXCEPT !.discoveries = @ - 1]
  /\ UNCHANGED <<clock, store, quorum, reqVars, histVars>>

\* All requests of the budget have been answered.
BudgetSpent ==
  /\ \A g \in Get : pc[g] = "done"
  /\ \A p \in Put : pc[p] \in {"idle", "done"}
  /\ Cardinality({p \in Put : pc[p] = "done"}) = budget.puts
  /\ UNCHANGED dynVars

DynNext ==
  \/ Request
  \/ BudgetSpent
  \/ \E n \in Node : Adjust(n)
  \/ \E n \in Node : \E found \in DiscoverPeersDNS(n) :
       ReconcilePeers(n, found)

DynSpec == DynInit /\ [][DynNext]_dynVars

-----------------------------------------------------------------------------
\* Put p had peers to ask, and its success means that W nodes stored it.
Replicated(p) == Cardinality(applied[p]) >= need[p]

\* A Put with fewer than W copies reports success only if its coordinator had
\* no peer at all (Coordinator.Replicate returns early); losing some peers,
\* before or during the Put, never lowers the number of acks it needs.
ShortOnlyWhenAlone ==
  \A p \in Put :
    resp[p].kind = "success" /\ ~ Replicated(p) => applied[p] = {at[p]}

\* What is left of quorum intersection when R and W change under the
\* requests: the W a Put has read and the R a later Get has read decide.  If
\* they add up to more than N, the Put had peers, and no store has replaced a
\* value by an older one, the Get does not miss the write.
FreshWhenQuorumsMeet ==
  \A g \in Get : \A p \in before[g] :
    need[g] + need[p] > N /\ Replicated(p) =>
      /\ resp[g].kind # "notfound"
      /\ ~ regressed /\ resp[g].kind = "value" => AtLeastAsRecent(g, p)
=============================================================================
