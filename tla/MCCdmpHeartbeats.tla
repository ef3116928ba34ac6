-------------------------- MODULE MCCdmpHeartbeats --------------------------
(* An instance of CdmpHeartbeats for TLC, in units of 500 ms. *)
EXTENDS CdmpHeartbeats
=============================================================================
