------------------------- MODULE MCSensorProcessing -------------------------
(* An instance of SensorProcessing for TLC. *)
EXTENDS SensorProcessing

CONSTANTS a, v, c

\* an analog input, a virtual sensor made from it, and a signal of a CAN frame
\* whose script updates the analog input
InputFirst == <<a, v, c>>
Types == [s \in Sensors |-> CASE s = a -> "PHYSICAL_ANALOG"
                             [] s = v -> "VIRTUAL_ANALOG"
                             [] OTHER -> "CANBUS_ANALOG"]
VFromA == [s \in Sensors |-> IF s = v THEN {a} ELSE {}]
CWritesA == [s \in Sensors |-> IF s = c THEN {a} ELSE {}]
NoWrites == [s \in Sensors |-> {}]
=============================================================================
