--------------------------- MODULE MCCdmpNetwork ---------------------------
(* Instances of CdmpNetwork for TLC: the values of its function constants. *)
EXTENDS CdmpNetwork

CONSTANTS a, b, c

\* The order of the UIDs decides who restarts its back-offs.
DistinctUids == [d \in Device |-> IF d = a THEN 3 ELSE IF d = b THEN 1 ELSE 2]
EqualUids == [d \in Device |-> 1]

SameVersion == [d \in Device |-> 1]
MixedVersions == [d \in Device |-> IF d = a THEN 1 ELSE 2]
=============================================================================
