------------------------------ MODULE MCPower ------------------------------
(***************************************************************************)
(* Power for TLC.  Once a new limit has ended the sleep neither property   *)
(* says anything more, so TLC goes no further.                             *)
(***************************************************************************)
EXTENDS Power

NotRaised == ~raised

=============================================================================
