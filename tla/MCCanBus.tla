------------------------------- MODULE MCCanBus -------------------------------
(* An instance of CanBus for TLC: one CAN ID is also the number of a filter. *)
EXTENDS CanBus
MCRates == <<500, 250>>
=============================================================================
