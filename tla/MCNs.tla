-------------------------------- MODULE MCNs --------------------------------
(* The network service for TLC; the values of the constants are in Ns.cfg. *)
EXTENDS Ns
=============================================================================
