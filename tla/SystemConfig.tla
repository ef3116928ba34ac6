----------------------------- MODULE SystemConfig -----------------------------
(***************************************************************************)
(* The system configuration: [device, hw, sw, build], its CBOR codec, and  *)
(* what SystemConfigurationManager does to it when a firmware starts.      *)
(* There is no JSON document of it, its checksum is 0, and nothing of it   *)
(* is ever refused.                                                        *)
(***************************************************************************)
EXTENDS Wire

DefaultSystem(device) == [device |-> device, hw |-> 0, sw |-> 0, build |-> 0]

SystemToCbor(c) ==
  [device |-> c.device, hw |-> c.hw, sw |-> c.sw, build |-> c.build, sum |-> 0]
SystemFromCbor(c) == [device |-> c.device, hw |-> c.hw, sw |-> c.sw, build |-> c.build]

EncodeSystem(c) ==
  Ok(List(<<Uint(c.device), Uint(c.hw), Uint(c.sw), Uint(c.build), Uint(c.sum)>>))
DecodeSystem(item) ==
  LET c == Members(item, [i \in 1 .. 5 |-> Must({"uint"})]) IN
  IF ~c.ok THEN Thrown
  ELSE Ok([device |-> c.v[1], hw |-> c.v[2], sw |-> c.v[3], build |-> c.v[4], sum |-> c.v[5]])
SizeOfSystem(c) ==
  IndefiniteArrayStart + SizeOfUint(c.device) + SizeOfUint(c.hw) + SizeOfUint(c.sw)
  + SizeOfUint(c.build) + SizeOfUint(c.sum)

UpdateHwVersion(c, hw) == [c EXCEPT !.hw = hw]
\* Mutant: the builds go on counting.
UpdateSwVersionKeeps(c, sw) == [c EXCEPT !.sw = sw]
\* A new software version starts counting its builds again.
UpdateSwVersion(c, sw) == IF c.sw = sw THEN c ELSE [c EXCEPT !.sw = sw, !.build = 0]
UpdateBuildNumber(c, build) == [c EXCEPT !.build = build]
=============================================================================
