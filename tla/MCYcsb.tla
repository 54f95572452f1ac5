------------------------------- MODULE MCYcsb -------------------------------
(* Two workers, loads and runs of a few operations. *)
EXTENDS Ycsb

CONSTANTS t1, t2

Ranks == [t \in Thread |-> IF t = t1 THEN 0 ELSE 1]
Config(command, batch, warm, inner, signals, total, distribution, ops) ==
  [command |-> command, batch |-> batch, warm |-> warm, inner |-> inner,
   signals |-> signals, total |-> total, distribution |-> distribution,
   proportion |-> [o \in {"read", "update", "insert", "scan", "rmw"} |->
                     IF o \in ops THEN 1 ELSE 0]]

SmallConfigs ==
  {Config("load", 1, warm, FALSE, warm = 1, 3, "uniform", {}) : warm \in 0 .. 2}
  \cup {Config("load", 2, 0, inner, FALSE, 3, "uniform", {}) : inner \in BOOLEAN}
  \cup {Config("load", 1, 0, FALSE, TRUE, 1, "uniform", {})}
  \cup {Config("run", 1, 1, FALSE, FALSE, 2, d, {"read", "insert"}) :
          d \in {"latest", "exponential"}}
  \cup {Config("run", 1, 0, FALSE, TRUE, 3, "latest", {"update", "insert"})}
  \cup {Config("run", 2, 0, TRUE, FALSE, 2, "zipfian",
               {"read", "insert", "scan", "rmw"})}
  \cup {Config("run", 1, 0, FALSE, TRUE, 2, d, {"rmw", "scan"}) :
          d \in {"uniform", "sequential", "hotspot"}}
=============================================================================
