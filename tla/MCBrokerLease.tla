---------------------------- MODULE MCBrokerLease ----------------------------
(* Instances of BrokerLease for TLC. *)
EXTENDS BrokerLease
CONSTANTS s1, s2, c1
=============================================================================
