------------------------------- MODULE MCStartup -------------------------------
(* Instances of the start for TLC. *)
EXTENDS Startup

CONSTANTS p1, p2, u1, u2

\* Two processes that were configured with different devpi servers.
DifferentServers(p) == IF p = p1 THEN u1 ELSE u2

==============================================================================
