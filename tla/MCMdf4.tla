------------------------------ MODULE MCMdf4 ------------------------------
(***************************************************************************)
(* Files of up to two data groups and three channel groups for TLC.        *)
(***************************************************************************)
EXTENDS Mdf4

MCChannelTypes == [Float32 |-> 32, Float64 |-> 64]
\* The third group may have the first one's ID, in another data group, or one
\* that a byte does not tell from it.
MCRecordIds == <<{1}, {2}, {1, 257}, {3}>>
MCValues == {<<5>>, <<5, 70001>>}
MCFrames ==
  {[id |-> 2 ^ 28, transmit |-> TRUE, fd |-> FALSE, data |-> <<7, 0, 255>>],
   [id |-> 2047, transmit |-> FALSE, fd |-> TRUE, data |-> [k \in 1 .. 20 |-> k]]}
=============================================================================
