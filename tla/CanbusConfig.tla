----------------------------- MODULE CanbusConfig -----------------------------
(***************************************************************************)
(* The CAN bus configuration in its four forms, as SensorsConfig has the   *)
(* sensors'.  In memory it is [channels, com]: a map from bus channels to  *)
(* [type, extended, bus, bitrate, data, dbc, messages], and the channel    *)
(* the devices talk over, if any.  A message is [frame, interval, script,  *)
(* name, size, signals], a signal [start, bits, factor, offset, name,      *)
(* unit].  A DBC file is there or not, and reads or not.                   *)
(***************************************************************************)
EXTENDS Wire, FiniteSets

CONSTANTS
  ClassicalRates, FdRates,   \* Canbus::IsBitrateSupported, 0 (to be detected) included
  BrokenDbc                  \* the DBC files dbcppp cannot read

CanbusType == <<"NONE", "CLASSICAL_CAN", "CANFD">>
CanbusTypeNumber(type) == CHOOSE i \in 0 .. 2 : CanbusType[i + 1] = type
Supported(type, rate) == rate \in (IF type = "CANFD" THEN FdRates ELSE ClassicalRates)
-----------------------------------------------------------------------------
(***************************************************************************)
(* CanbusConfigurationValidator.                                           *)
(***************************************************************************)
ValidName(text) == text.n \in 1 .. 32 /\ text.word
ValidSignals(m) ==
  /\ \A i \in DOMAIN m.signals :
       LET s == m.signals[i] IN
       /\ s.start < m.size * 8
       /\ s.bits \in 1 .. m.size * 8
       /\ ValidName(s.name)
       /\ s.name.n <= 32          \* ValidateSignalUnit looks at the name again
  /\ \A i, j \in DOMAIN m.signals : m.signals[i].name = m.signals[j].name => i = j
ValidMessage(m, type, files) ==
  /\ m.interval # None => m.interval[1] > 0
  /\ m.script = NoText \/ m.script.t \in files
  /\ ValidName(m.name)
  /\ m.size \in 1 .. (IF type = "CLASSICAL_CAN" THEN 8 ELSE 64)
  /\ ValidSignals(m)
ValidRates(c) ==
  /\ Supported(c.type, c.bitrate)
  /\ c.data > 0 => /\ c.type # "CLASSICAL_CAN"
                   /\ c.data >= c.bitrate
                   /\ Supported(c.type, c.data)
ValidChannelConfiguration(c, files) ==
  /\ c.type \in {"CLASSICAL_CAN", "CANFD"}
  /\ c.extended => c.type = "CANFD"
  /\ ValidRates(c)
  /\ c.dbc = NoText \/ c.dbc.t \in files
  /\ \A i, j \in DOMAIN c.messages : c.messages[i].frame = c.messages[j].frame => i = j
  /\ \A i \in DOMAIN c.messages : ValidMessage(c.messages[i], c.type, files)
ValidCanbus(config, files) ==
  \A bus \in DOMAIN config.channels : ValidChannelConfiguration(config.channels[bus], files)

\* LoadDbcConfiguration throws at a file that is there and does not read.
DbcLoads(dbc, files) == dbc = NoText \/ dbc.t \notin files \/ dbc.t \notin BrokenDbc
\* Mutant: the first channel of a number is kept.
ChannelMapFirst(channels) ==
  Ok([bus \in {channels[i].bus : i \in DOMAIN channels} |->
        channels[CHOOSE i \in DOMAIN channels : channels[i].bus = bus]])
\* emplace: the second channel of a number is an exception.
ChannelMap(channels) ==
  IF \E i, j \in DOMAIN channels : i # j /\ channels[i].bus = channels[j].bus THEN Thrown
  ELSE Ok([bus \in {channels[i].bus : i \in DOMAIN channels} |->
             channels[CHOOSE i \in DOMAIN channels : channels[i].bus = bus]])
\* A map in the order an unordered container yields it.
Channels(config) ==
  SetToSortSeq(DOMAIN config.channels, LAMBDA a, b : a > b)
Interval(m) == IF m.interval # None /\ m.interval[1] > 0 THEN m.interval[1] ELSE -1
IntervalFrom(i) == IF i > 0 THEN Some(i) ELSE None
-----------------------------------------------------------------------------
(***************************************************************************)
(* The JSON document.                                                      *)
(***************************************************************************)
SignalToJson(s) ==
  [start_bit |-> s.start, size_bits |-> s.bits, factor |-> s.factor, offset |-> s.offset,
   name |-> s.name, unit |-> s.unit]
MessageToJson(m) ==
  [frame_id |-> m.frame, send_interval_ms |-> Interval(m), script_path |-> m.script,
   name |-> m.name, message_size |-> m.size, signal_configs |-> Map(SignalToJson, m.signals)]
ChannelToJson(c) ==
  [type |-> c.type, is_extended_id |-> c.extended, bus_channel |-> c.bus,
   bitrate |-> c.bitrate, data_bitrate |-> c.data, dbc_file_path |-> c.dbc,
   message_configs |-> Map(MessageToJson, c.messages)]
CanbusToJson(config, files) ==
  IF ValidCanbus(config, files)
  THEN Ok([channel_configs |-> Map(LAMBDA bus : ChannelToJson(config.channels[bus]),
                                   Channels(config)),
           com_bus_channel |-> IF config.com = None THEN -1 ELSE config.com[1]])
  ELSE Thrown

SignalReads(doc) ==
  HasMembers(doc, {"start_bit", "size_bits", "factor", "offset", "name", "unit"})
MessageReads(doc) ==
  /\ HasMembers(doc, {"frame_id", "send_interval_ms", "script_path", "name", "message_size",
                      "signal_configs"})
  /\ \A i \in DOMAIN doc.signal_configs : SignalReads(doc.signal_configs[i])
ChannelReads(doc) ==
  /\ HasMembers(doc, {"type", "is_extended_id", "bus_channel", "bitrate", "data_bitrate",
                      "dbc_file_path", "message_configs"})
  /\ \A i \in DOMAIN doc.message_configs : MessageReads(doc.message_configs[i])
CanbusDocumentReads(doc) ==
  /\ HasMembers(doc, {"channel_configs", "com_bus_channel"})
  /\ \A i \in DOMAIN doc.channel_configs : ChannelReads(doc.channel_configs[i])
  /\ doc.com_bus_channel <= 255

SignalFromJson(doc) ==
  [start |-> doc.start_bit, bits |-> doc.size_bits, factor |-> doc.factor,
   offset |-> doc.offset, name |-> doc.name, unit |-> doc.unit]
MessageFromJson(doc) ==
  [frame |-> doc.frame_id, interval |-> IntervalFrom(doc.send_interval_ms),
   script |-> doc.script_path, name |-> doc.name, size |-> doc.message_size,
   signals |-> Map(SignalFromJson, doc.signal_configs)]
ChannelFromJson(doc, files) ==
  IF doc.type \notin Range(CanbusType) \/ ~DbcLoads(doc.dbc_file_path, files) THEN Thrown
  ELSE Ok([type |-> doc.type, extended |-> doc.is_extended_id, bus |-> doc.bus_channel % 256,
           bitrate |-> doc.bitrate, data |-> doc.data_bitrate, dbc |-> doc.dbc_file_path,
           messages |-> Map(MessageFromJson, doc.message_configs)])
CanbusFromJson(doc, files) ==
  LET all == MapOk(LAMBDA c : ChannelFromJson(c, files), doc.channel_configs)
      map == IF all.ok THEN ChannelMap(all.v) ELSE Thrown
      config == [channels |-> map.v,
                 com |-> IF doc.com_bus_channel >= 0 THEN Some(doc.com_bus_channel) ELSE None]
  IN IF map.ok /\ ValidCanbus(config, files) THEN Ok(config) ELSE Thrown
-----------------------------------------------------------------------------
(***************************************************************************)
(* The CBOR structure, CborCanbusConfig.                                   *)
(***************************************************************************)
MessageToCbor(m) ==
  [frame |-> m.frame, interval |-> Interval(m), script |-> m.script, name |-> m.name,
   size |-> m.size, signals |-> m.signals]
ChannelToCbor(c) ==
  [c EXCEPT !.type = CanbusTypeNumber(@), !.messages = Map(MessageToCbor, @)]
CanbusToCbor(config, files, sum) ==
  IF ValidCanbus(config, files)
  THEN Ok([channels |-> Map(LAMBDA bus : ChannelToCbor(config.channels[bus]), Channels(config)),
           com |-> IF config.com = None THEN -1 ELSE config.com[1],
           sum |-> sum])
  ELSE Thrown

MessageFromCbor(m) == [m EXCEPT !.interval = IntervalFrom(@)]
ChannelFromCbor(c, files) ==
  IF ~DbcLoads(c.dbc, files) THEN Thrown
  ELSE Ok([c EXCEPT !.type = IF @ \in 1 .. 2 THEN CanbusType[@ + 1] ELSE "NONE",
                    !.bus = @ % 256,
                    !.messages = Map(MessageFromCbor, @)])
CanbusFromCbor(c, files) ==
  LET all == MapOk(LAMBDA ch : ChannelFromCbor(ch, files), c.channels)
      map == IF all.ok THEN ChannelMap(all.v) ELSE Thrown
      config == [channels |-> map.v, com |-> IF c.com >= 0 THEN Some(c.com % 256) ELSE None]
  IN IF map.ok /\ ValidCanbus(config, files) THEN Ok(config) ELSE Thrown
-----------------------------------------------------------------------------
(***************************************************************************)
(* The generated codec and the size its buffer is given.                   *)
(***************************************************************************)
EncodeSignal(s) ==
  List(<<Uint(s.start), Uint(s.bits), Float(s.factor), Float(s.offset),
         Tstr(s.name), Tstr(s.unit)>>)
EncodeMessage(m) ==
  List(<<Uint(m.frame), Integer(m.interval), Tstr(m.script), Tstr(m.name), Uint(m.size),
         List(Map(EncodeSignal, m.signals))>>)
EncodeChannel(c) ==
  List(<<Uint(c.type), Bool(c.extended), Uint(c.bus), Uint(c.bitrate), Uint(c.data),
         Tstr(c.dbc), List(Map(EncodeMessage, c.messages))>>)
EncodeCanbus(c) ==
  Ok(List(<<List(Map(EncodeChannel, c.channels)), Integer(c.com), Uint(c.sum)>>))

DecodeSignal(item) ==
  LET s == Members(item, <<Must({"uint"}), Must({"uint"}), Must({"float"}), Must({"float"}),
                           Must({"tstr"}), Must({"tstr"})>>)
  IN IF ~s.ok THEN Thrown
     ELSE Ok([start |-> s.v[1], bits |-> s.v[2], factor |-> s.v[3], offset |-> s.v[4],
              name |-> s.v[5], unit |-> s.v[6]])
DecodeMessage(item) ==
  LET m == Members(item, <<Must({"uint"}), Must(IntegerKinds), Must({"tstr"}), Must({"tstr"}),
                           Must({"uint"}), Must({"list"})>>)
      signals == MapOk(DecodeSignal, m.v[6])
  IN IF ~m.ok \/ ~signals.ok THEN Thrown
     ELSE Ok([frame |-> m.v[1], interval |-> m.v[2], script |-> m.v[3], name |-> m.v[4],
              size |-> m.v[5], signals |-> signals.v])
DecodeChannel(item) ==
  LET c == Members(item, <<Must({"uint"}), Must({"bool"}), Must({"uint"}), Must({"uint"}),
                           Must({"uint"}), Must({"tstr"}), Must({"list"})>>)
      messages == MapOk(DecodeMessage, c.v[7])
  IN IF ~c.ok \/ ~messages.ok THEN Thrown
     ELSE Ok([type |-> c.v[1], extended |-> c.v[2], bus |-> c.v[3], bitrate |-> c.v[4],
              data |-> c.v[5], dbc |-> c.v[6], messages |-> messages.v])
DecodeCanbus(item) ==
  LET c == Members(item, <<Must({"list"}), Must(IntegerKinds), Must({"uint"})>>)
      channels == MapOk(DecodeChannel, c.v[1])
  IN IF ~c.ok \/ ~channels.ok THEN Thrown
     ELSE Ok([channels |-> channels.v, com |-> c.v[2], sum |-> c.v[3]])

SizeOfSignal(s) ==
  IndefiniteArrayStart + SizeOfUint(s.start) + SizeOfUint(s.bits) + 2 * SizeOfFloat
  + SizeOfTstr(s.name) + SizeOfTstr(s.unit)
SizeOfMessage(m) ==
  IndefiniteArrayStart + SizeOfUint(m.frame) + SizeOfInt(m.interval) + SizeOfTstr(m.script)
  + SizeOfTstr(m.name) + SizeOfUint(m.size)
  + IndefiniteArrayStart + SumOver(SizeOfSignal, m.signals)
SizeOfChannel(c) ==
  IndefiniteArrayStart + SizeOfUint(c.type) + SizeOfBool + SizeOfUint(c.bus)
  + SizeOfUint(c.bitrate) + SizeOfUint(c.data) + SizeOfTstr(c.dbc)
  + IndefiniteArrayStart + SumOver(SizeOfMessage, c.messages)
SizeOfCanbus(c) ==
  IndefiniteArrayStart + IndefiniteArrayStart + SumOver(SizeOfChannel, c.channels)
  + SizeOfInt(c.com) + SizeOfUint(c.sum)
=============================================================================
