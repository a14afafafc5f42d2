------------------------------ MODULE MCCollect ------------------------------
(* Instances of Collect for TLC.                                              *)
EXTENDS Collect

AllCollectFaults == CollectFaultKinds
NoCollectFaults  == {}
=============================================================================
