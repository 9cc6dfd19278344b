-------------------------- MODULE MCBrokerConnect ---------------------------
(* Connection establishment for TLC: see the .cfg files for the instances.   *)
EXTENDS BrokerConnect
=============================================================================
