------------------------ MODULE MCConfigurationStore ------------------------
(* Instances of ConfigurationStore for TLC. *)
EXTENDS ConfigurationStore
CONSTANTS c0, c1
=============================================================================
