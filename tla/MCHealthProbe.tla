--------------------------- MODULE MCHealthProbe ---------------------------
(* With and without configured peers.                                      *)
EXTENDS HealthProbe

NoneOrAll == {{}, Peer}
=============================================================================
