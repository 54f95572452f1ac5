---------------------------- MODULE HealthProbe ----------------------------
(***************************************************************************)
(* The health probe of one node (internal/health): goroutines that check   *)
(* the peers, and peer discovery, which removes and adds peers meanwhile.  *)
(*                                                                         *)
(* Probe.Start has a goroutine for every configured peer ("legacy"), and   *)
(* discovery starts one for every peer it adds ("dynamic"), which first    *)
(* registers its cancel function in the map probes and deletes that entry, *)
(* whosever it is by then, when it ends.  Each of these steps holds the    *)
(* lock of the probe; a check lets go of it between reading the status of  *)
(* the peer and setting it.  A check of an open connection succeeds if the *)
(* peer is up, and may always fail.  A peer that answers "unhealthy" is    *)
(* treated as one that does not answer.  Marking a peer up and notifying   *)
(* the healing listener, which is set when reconciliation is on, are one   *)
(* step: the order of the two matters to no other goroutine.  addPeer does *)
(* not fail: grpc.NewClient does not wait for the peer.  Probe.Stop, at    *)
(* shutdown, is left out.                                                  *)
(***************************************************************************)
EXTENDS Integers, FiniteSets

CONSTANTS
  Peer,         \* addresses of peers
  InitialPeers, \* sets of configured peers to start from
  MaxProbes,    \* bound on the goroutines ever started
  MaxChanges,   \* bound on the rounds of discovery
  MaxFlips,     \* bound on how often peers go down or come up
  Nil           \* no goroutine, no set of peers

Id == 1 .. MaxProbes
GoroutineState ==
  [peer : Peer, kind : {"legacy", "dynamic"},
   pc : {"spawned", "wait", "check", "fail", "up", "heal", "leaving", "gone"}]

ASSUME ProbeAssumption ==
  /\ InitialPeers \subseteq SUBSET Peer
  /\ MaxProbes \in Nat /\ MaxChanges \in Nat /\ MaxFlips \in Nat
  /\ \A P \in InitialPeers : IsFiniteSet(P) /\ Cardinality(P) <= MaxProbes
  /\ Nil \notin Id /\ Nil \notin GoroutineState

VARIABLES
  peers,      \* the peers the probe is connected to
  closed,     \* closed[i]: the connection goroutine i's check uses is closed
  probes,     \* probes[a]: the goroutine whose cancel function a has
  peerStatus, \* peerStatus[a]: a was up when last checked
  gor,        \* gor[i]: peer, kind and state of goroutine i, or Nil
  canceled,   \* the goroutines whose contexts are canceled
  found,      \* the peers the current round of discovery has found
  phase,      \* where discovery stands: "sleep", "remove" or "add"
  up,         \* up[a]: peer a can be reached
  rounds, flips,
  notified,   \* the number of healing events, per peer
  failed,     \* history: a check of a has failed since a's last event
  removed     \* history: peers discovery has ever removed

discVars == <<found, phase, rounds>>
envVars == <<up, flips>>
histVars == <<failed, removed>>
probeVars == <<peers, closed, probes, peerStatus, gor, canceled, discVars, envVars,
               notified, histVars>>

Live == {i \in Id : gor[i] # Nil /\ gor[i].pc # "gone"}
Goroutine(a, kind, pc) == [peer |-> a, kind |-> kind, pc |-> pc]

\* NewProbe connects to the configured peers and Start has one goroutine for
\* each of them.
ProbeInit ==
  /\ peers \in InitialPeers
  /\ gor \in [Id -> {Nil} \cup {Goroutine(a, "legacy", "wait") : a \in peers}]
  /\ \A a \in peers : Cardinality({i \in Live : gor[i].peer = a}) = 1
  /\ Live = 1 .. Cardinality(peers)
  /\ closed = [i \in Id |-> FALSE]
  /\ probes = [a \in Peer |-> Nil]
  /\ peerStatus = [a \in Peer |-> FALSE]
  /\ canceled = {}
  /\ found = Nil
  /\ phase = "sleep"
  /\ up = [a \in Peer |-> TRUE]
  /\ rounds = 0
  /\ flips = 0
  /\ notified = [a \in Peer |-> 0]
  /\ failed = [a \in Peer |-> TRUE]
  /\ removed = {}

-----------------------------------------------------------------------------
(* A goroutine *)

Goto(i, pc) == gor' = [gor EXCEPT ![i] = Goroutine(@.peer, @.kind, pc)]

\* probePeer begins: its cancel function takes its peer's place in probes.
Register(i) ==
  /\ gor[i].pc = "spawned"
  /\ probes' = [probes EXCEPT ![gor[i].peer] = i]
  /\ Goto(i, "wait")
  /\ UNCHANGED <<peers, closed, peerStatus, canceled, discVars, envVars,
                 notified, histVars>>

\* A goroutine that ends; a dynamic one has its deferred function to run.
End(i) == Goto(i, IF gor[i].kind = "legacy" THEN "gone" ELSE "leaving")

\* Faulty: the goroutine does not look whether its peer is still there.
PeerGoneNever(i) == FALSE

\* The peer of goroutine i is no longer in the map.
PeerGone(i) == gor[i].peer \notin peers

\* The ticker: end if the peer has been removed, or else check it.  The select
\* may choose the ticker over a canceled context.
TickerFires(i) ==
  /\ gor[i].pc = "wait"
  /\ \/ PeerGone(i) /\ End(i) /\ UNCHANGED closed
     \/ /\ ~ PeerGone(i)
        /\ Goto(i, "check")
        /\ closed' = [closed EXCEPT ![i] = FALSE]
  /\ UNCHANGED <<peers, probes, peerStatus, canceled, discVars, envVars,
                 notified, histVars>>

\* The context is done.
Canceled(i) ==
  /\ gor[i].pc = "wait"
  /\ i \in canceled
  /\ End(i)
  /\ UNCHANGED <<peers, closed, probes, peerStatus, canceled, discVars, envVars,
                 notified, histVars>>

\* Faulty: the deferred function calls the cancel function it deletes.
LeaveCanceling(i) ==
  /\ gor[i].pc = "leaving"
  /\ canceled' = canceled \cup ({probes[gor[i].peer]} \ {Nil})
  /\ probes' = [probes EXCEPT ![gor[i].peer] = Nil]
  /\ Goto(i, "gone")
  /\ UNCHANGED <<peers, closed, peerStatus, discVars, envVars, notified, histVars>>

\* The deferred function of probePeer.
Leave(i) ==
  /\ gor[i].pc = "leaving"
  /\ probes' = [probes EXCEPT ![gor[i].peer] = Nil]
  /\ Goto(i, "gone")
  /\ UNCHANGED <<peers, closed, peerStatus, canceled, discVars, envVars,
                 notified, histVars>>

\* The HealthCheck of checkPeer has ended, and the status before is read.
CheckEnds(i, ok) ==
  LET a == gor[i].peer
  IN  /\ gor[i].pc = "check"
      /\ ok => up[a] /\ ~ closed[i]
      /\ Goto(i, IF ~ ok THEN "fail" ELSE IF peerStatus[a] THEN "up" ELSE "heal")
      /\ failed' = [failed EXCEPT ![a] = @ \/ ~ ok]
      /\ UNCHANGED <<peers, closed, probes, peerStatus, canceled, discVars,
                     envVars, notified, removed>>

\* Faulty: the status is only ever set.
SetStatusUp(a, status) == peerStatus' = [peerStatus EXCEPT ![a] = @ \/ status]

\* Faulty: the status is only ever reset.
SetStatusDown(a, status) == peerStatus' = [peerStatus EXCEPT ![a] = @ /\ status]

SetStatus(a, status) == peerStatus' = [peerStatus EXCEPT ![a] = status]

\* checkPeer marks the peer down.
MarkDown(i) ==
  /\ gor[i].pc = "fail"
  /\ SetStatus(gor[i].peer, FALSE)
  /\ Goto(i, "wait")
  /\ UNCHANGED <<peers, closed, probes, canceled, discVars, envVars, notified,
                 histVars>>

\* checkPeer marks the peer up and, if it was down before, notifies the
\* listener.  Only whether an event happens is kept (notified alternates).
MarkUp(i) ==
  LET a == gor[i].peer
  IN  /\ gor[i].pc \in {"up", "heal"}
      /\ SetStatus(a, TRUE)
      /\ notified' = [notified EXCEPT ![a] = IF gor[i].pc = "heal" THEN 1 - @ ELSE @]
      /\ failed' = [failed EXCEPT ![a] = @ /\ gor[i].pc = "up"]
      /\ Goto(i, "wait")
      /\ UNCHANGED <<peers, closed, probes, canceled, discVars, envVars, removed>>

-----------------------------------------------------------------------------
(* Discovery *)

\* StartPeerDiscovery's ticker: DNS finds some peers.
Discover(S) ==
  /\ phase = "sleep"
  /\ rounds < MaxChanges
  /\ rounds' = rounds + 1
  /\ found' = S
  /\ phase' = "remove"
  /\ UNCHANGED <<peers, closed, probes, peerStatus, gor, canceled, envVars,
                 notified, histVars>>

\* Faulty: the cancel function is called without looking whether there is one.
CancelUnchecked(a) == {probes[a]}

\* The goroutine removePeer cancels, if one is registered.
Cancel(a) == {probes[a]} \ {Nil}

\* reconcilePeers removes a peer DNS has not found: removePeer cancels the
\* goroutine registered for it, if any, and closes the connection.  The
\* status of the peer stays.
RemovePeer(a) ==
  /\ phase = "remove"
  /\ a \in peers \ found
  /\ canceled' = canceled \cup Cancel(a)
  /\ probes' = [probes EXCEPT ![a] = Nil]
  /\ peers' = peers \ {a}
  /\ closed' = [i \in Id |-> i \in Live /\ (closed[i] \/ gor[i].peer = a)]
  /\ removed' = removed \cup {a}
  /\ UNCHANGED <<peerStatus, gor, discVars, envVars, notified, failed>>

\* ... then come the new peers.
StartAdding ==
  /\ phase = "remove"
  /\ peers \subseteq found
  /\ phase' = "add"
  /\ UNCHANGED <<peers, closed, probes, peerStatus, gor, canceled, found, rounds,
                 envVars, notified, histVars>>

\* reconcilePeers adds a peer: addPeer connects and a goroutine starts.
AddPeer(a) ==
  /\ phase = "add"
  /\ a \in found \ peers
  /\ peers' = peers \cup {a}
  /\ \E i \in Id :
       /\ gor[i] = Nil /\ \A j \in 1 .. i - 1 : gor[j] # Nil
       /\ gor' = [gor EXCEPT ![i] = Goroutine(a, "dynamic", "spawned")]
  /\ UNCHANGED <<closed, probes, peerStatus, canceled, discVars, envVars,
                 notified, histVars>>

EndRound ==
  /\ phase = "add"
  /\ found \subseteq peers
  /\ phase' = "sleep"
  /\ found' = Nil
  /\ UNCHANGED <<peers, closed, probes, peerStatus, gor, canceled, rounds,
                 envVars, notified, histVars>>

-----------------------------------------------------------------------------
\* A peer goes down or comes up.
Flip(a) ==
  /\ flips < MaxFlips
  /\ flips' = flips + 1
  /\ up' = [up EXCEPT ![a] = ~ @]
  /\ UNCHANGED <<peers, closed, probes, peerStatus, gor, canceled, discVars,
                 notified, histVars>>

Step(i) ==
  /\ gor[i] # Nil
  /\ \/ Register(i)
     \/ TickerFires(i)
     \/ Canceled(i)
     \/ Leave(i)
     \/ \E ok \in BOOLEAN : CheckEnds(i, ok)
     \/ MarkDown(i)
     \/ MarkUp(i)

ProbeNext ==
  \/ \E i \in Id : Step(i)
  \/ \E S \in SUBSET Peer : Discover(S)
  \/ \E a \in Peer : RemovePeer(a) \/ AddPeer(a) \/ Flip(a)
  \/ StartAdding
  \/ EndRound

ProbeSpec == ProbeInit /\ [][ProbeNext]_probeVars

\* Every goroutine runs on: tickers tick and checks time out.
FairProbeSpec == ProbeSpec /\ \A i \in Id : WF_probeVars(Step(i))

-----------------------------------------------------------------------------
\* Every variable has its type.
ProbeTypeOK ==
  /\ peers \in SUBSET Peer
  /\ closed \in [Id -> BOOLEAN]
  /\ probes \in [Peer -> Id \cup {Nil}]
  /\ peerStatus \in [Peer -> BOOLEAN]
  /\ gor \in [Id -> {Nil} \cup GoroutineState]
  /\ canceled \in SUBSET Id
  /\ found \in {Nil} \cup SUBSET Peer
  /\ phase \in {"sleep", "remove", "add"}
  /\ up \in [Peer -> BOOLEAN]
  /\ rounds \in 0 .. MaxChanges /\ flips \in 0 .. MaxFlips
  /\ notified \in [Peer -> 0 .. 1]
  /\ failed \in [Peer -> BOOLEAN]
  /\ removed \in SUBSET Peer

\* Every connected peer has a goroutine that checks it and that nothing has
\* told to end, however removals, returns and late registrations of cancel
\* functions interleave (reconcilePeers, probePeer).
PeerIsProbed ==
  \A a \in peers : \E i \in Live \ canceled :
    gor[i].peer = a /\ gor[i].pc # "leaving"

\* Between two healing events of a peer that has never been removed, a check
\* of it has failed (checkPeer): the listener hears of no partition twice.
EventsAreSeparated ==
  [][\A a \in Peer \ removed : notified'[a] # notified[a] => failed[a]]_probeVars

\* The goroutines of a peer that stays removed end, also those whose cancel
\* function was lost (probePeer, probePeerLegacy).
RemovedIsLeft ==
  \A a \in Peer :
    <>[](a \notin peers) => <>[](\A i \in Live : gor[i].peer # a)

\* A connected peer that stays down is marked down for good (checkPeer).
DownIsNoticed ==
  \A a \in Peer :
    <>[](a \in peers /\ ~ up[a]) => <>[](~ peerStatus[a])
=============================================================================
