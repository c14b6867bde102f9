--------------------------- MODULE MCUsageConsumer ---------------------------
(* Finite instances of UsageConsumer.                                      *)
EXTENDS UsageConsumer, TLC

TwoPartitions == {0, 1}
MixedKinds == 0 :> (0 :> "valid" @@ 1 :> "invalid") @@ 1 :> (0 :> "null" @@ 1 :> "valid")
=============================================================================
