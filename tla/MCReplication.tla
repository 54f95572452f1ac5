--------------------------- MODULE MCReplication ---------------------------
(* Small instances of Replication. *)
EXTENDS Replication, SequencesExt

Minimal == {[r |-> 1, w |-> 3], [r |-> 2, w |-> 2], [r |-> 3, w |-> 1]}
Majority == {[r |-> 2, w |-> 2]}
Symmetry == Permutations(Node) \cup Permutations(Put)

\* GetMostRecent as the code computes it: the first value is the most recent
\* until one that happens after it comes.
Scan(values) ==
  LET Newer(best, v) == IF HappensAfter(v.hlc, best.hlc) THEN v ELSE best
  IN  IF values = <<>> THEN None
      ELSE FoldLeft(Newer, values[1], Tail(values))

\* On up to four values, ties included, the loop finds what GetMostRecent in
\* Replication defines.
ASSUME ScanIsGetMostRecent ==
  LET SmallHLC == [physical : 0 .. 1, logical : 0 .. 1, nodeID : {0}]
  IN  \A s \in BoundedSeq([value : 1 .. 2, hlc : SmallHLC], 4) :
        Scan(s) = GetMostRecent(s)
=============================================================================
