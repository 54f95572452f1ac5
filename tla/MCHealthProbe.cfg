CONSTANTS
  Peer = {a}
  InitialPeers <- NoneOrAll
  MaxProbes = 3
  MaxChanges = 4
  MaxFlips = 2
  Nil = Nil
SPECIFICATION FairProbeSpec
INVARIANTS ProbeTypeOK PeerIsProbed
PROPERTIES EventsAreSeparated RemovedIsLeft DownIsNoticed
CHECK_DEADLOCK FALSE
