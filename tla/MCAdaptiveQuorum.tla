-------------------------- MODULE MCAdaptiveQuorum --------------------------
(* Small instances of AdaptiveQuorum, with N = 3. *)
EXTENDS AdaptiveQuorum

\* Two configurations with R + W = 4 and R + W = 5, inside the bounds.
WithinBounds == {[r |-> 2, w |-> 2], [r |-> 3, w |-> 2]}
=============================================================================
