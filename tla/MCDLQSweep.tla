----------------------------- MODULE MCDLQSweep ------------------------------
(* Finite instances of DLQSweep.                                           *)
EXTENDS DLQSweep

AllKinds == {"dated", "unknown", "corrupt"}
SomeLimits == {NoLimit, 1, 2}
=============================================================================
