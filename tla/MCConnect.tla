------------------------------ MODULE MCConnect ------------------------------
(* Instances of Connect for TLC.                                              *)
EXTENDS ConnectProperties

AllFaults == FaultKinds
NoFaults  == {}
=============================================================================
