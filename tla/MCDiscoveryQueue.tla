-------------------------- MODULE MCDiscoveryQueue --------------------------
(* Instances of the discovery queue for TLC. *)
EXTENDS DiscoveryQueue

==============================================================================
