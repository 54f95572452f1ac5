---------------------------- MODULE MCReconcile ----------------------------
(* Timestamps that are before, after and equal to one another.             *)
EXTENDS Reconcile

Stamp3 == {Stamp(NewClock(1), 1), Stamp(NewClock(1), 2), Stamp(NewClock(2), 1)}
=============================================================================
