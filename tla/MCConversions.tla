---------------------------- MODULE MCConversions ----------------------------
(***************************************************************************)
(* Documents for TLC.  Sensors: three that read each other in every way;   *)
(* one with every combination of what a sensor may have; one with every    *)
(* length where a limit or a header changes; incomplete ones.              *)
(***************************************************************************)
EXTENDS Conversions

Text(t, n) == [t |-> t, n |-> n, word |-> TRUE]
Odd(t, n) == [t |-> t, n |-> n, word |-> FALSE]
MCOrders == {<<"a", "b", "c", "d">>, <<"d", "c", "b", "a">>, <<"b", "d", "c", "a">>}
Sources(names) == [t |-> "f", n |-> 30, vars |-> names, parses |-> TRUE]
Tables == {<<>>, <<[voltage |-> 1, value |-> 2]>>,
           <<[voltage |-> 3, value |-> 4], [voltage |-> 1, value |-> 2], [voltage |-> 2, value |-> 5]>>,
           <<[voltage |-> 1, value |-> 1], [voltage |-> 2, value |-> 2],
             [voltage |-> 4, value |-> 3], [voltage |-> 5, value |-> 5]>>}

Plain == [type |-> "USER_ANALOG", channel |-> 0, connection_string |-> NoConnection,
          script_path |-> NoText, sampling_rate_ms |-> 0, interpolation_method |-> "NONE",
          calibration_table |-> <<>>, expression |-> NoExpression]
Metadata == [name |-> Odd("n", 5), unit |-> NoText, description |-> NoText]
Doc(id, c) == [id |-> Text(id, 1), metadata |-> Metadata, configuration |-> c]
Reads(id, names) ==
  Doc(id, IF names = {} THEN Plain
          ELSE [Plain EXCEPT !.type = "VIRTUAL_ANALOG", !.expression = Sources(names)])

Graphs3 == {[sensors |-> <<Reads("a", va), Reads("b", vb), Reads("c", vc)>>] :
              va \in SUBSET {"a", "b", "c"}, vb \in SUBSET {"a", "b", "c"},
              vc \in SUBSET {"a", "b", "x"}}
Odd3 == {[sensors |-> s] : s \in {<<>>, <<Reads("a", {"d"}), Reads("b", {"a"})>>,
           <<Reads("a", {"x"}), Reads("b", {"a", "x"}), Reads("a", {"b"})>>,
           <<Reads("a", {"b"}), Reads("b", {}), Reads("b", {"a"})>>}}

Connections == {NoConnection, [n |-> 3, parts |-> <<1, 7>>], [n |-> 9, parts |-> <<257, 77, Text("s", 3)>>],
                [n |-> 13, parts |-> <<0, 1000, Text("s", 3), Text("r", 3)>>],
                [n |-> 3, parts |-> <<-1, 7>>], [n |-> 1, parts |-> <<1>>]}
OneSensor ==
  {[sensors |-> <<Doc("a", [type |-> t, channel |-> ch, connection_string |-> cs, script_path |-> sc,
                            sampling_rate_ms |-> r, interpolation_method |-> m,
                            calibration_table |-> tb, expression |-> e])>>] :
     t \in Range(SensorType), ch \in {0, 2}, cs \in Connections,
     sc \in {NoText, Text("s.lua", 20)}, r \in {-1, 300}, m \in {"NONE", "LINEAR", "CUBIC_SPLINE"},
     tb \in Tables, e \in {NoExpression, Sources({"x"})}}
Lengths ==
  {[sensors |-> <<[id |-> Text("a", i),
                   metadata |-> [name |-> Odd("n", n), unit |-> Odd("u", u), description |-> Odd("d", d)],
                   configuration |-> [Plain EXCEPT !.expression = [Sources({}) EXCEPT !.n = e]]]>>] :
     i \in {0, 1, 24, 256}, n \in {0, 23, 32, 33}, u \in {0, 32, 33}, d \in {24, 128, 129},
     e \in {0, 23, 255, 256}}
Without(record, name) == [m \in DOMAIN record \ {name} |-> record[m]]
Broken ==
  LET doc == Reads("a", {"x"})
      unread == [doc EXCEPT !.configuration.expression.parses = FALSE]
  IN {[sensors |-> <<[doc EXCEPT !.configuration = Without(@, m)]>>] : m \in DOMAIN Plain}
     \cup {[sensors |-> <<[doc EXCEPT !.metadata = Without(@, m)]>>] : m \in DOMAIN Metadata}
     \cup {[sensors |-> <<Without(doc, m)>>] : m \in DOMAIN doc}
     \cup {[sensors |-> <<unread>>], [sensors |-> <<[doc EXCEPT !.configuration.type = "OTHER"], unread>>],
           [sensors |-> <<[doc EXCEPT !.id = Odd("a", 3)]>>], [sensor |-> <<>>]}
MCSensorsDocuments == Graphs3 \cup Odd3 \cup OneSensor \cup Lengths \cup Broken
-----------------------------------------------------------------------------
Signal == [start_bit |-> 0, size_bits |-> 8, factor |-> 2, offset |-> 0, name |-> Text("s", 1),
           unit |-> Odd("u", 1)]
Message == [frame_id |-> 7, send_interval_ms |-> -1, script_path |-> NoText, name |-> Text("m", 1),
            message_size |-> 8, signal_configs |-> <<Signal>>]
Channel == [type |-> "CLASSICAL_CAN", is_extended_id |-> FALSE, bus_channel |-> 0, bitrate |-> 500000,
            data_bitrate |-> 0, dbc_file_path |-> NoText, message_configs |-> <<Message>>]
Buses(channels, com) == [channel_configs |-> channels, com_bus_channel |-> com]

SignalVariants ==
  {<<[Signal EXCEPT !.start_bit = st, !.size_bits = b, !.name = n, !.unit = u]>> :
     st \in {0, 63, 64}, b \in {0, 1, 64, 65}, n \in {NoText, Text("s", 1), Text("s", 32), Text("s", 33), Odd("s", 2)},
     u \in {NoText, Odd("u", 24), Odd("u", 33)}}
  \cup {<<>>, <<Signal, [Signal EXCEPT !.start_bit = 8]>>, <<Signal, [Signal EXCEPT !.name = Text("r", 23)]>>}
MessageVariants ==
  {[Message EXCEPT !.signal_configs = s] : s \in SignalVariants}
  \cup {[Message EXCEPT !.frame_id = f, !.send_interval_ms = i, !.script_path = sc, !.message_size = size, !.name = n] :
          f \in {0, 70000}, i \in {-1, 0, 30}, sc \in {NoText, Text("s.lua", 20)}, size \in {0, 8, 9, 64, 65},
          n \in {NoText, Text("m", 32), Text("m", 33)}}
ChannelVariants ==
  {[Channel EXCEPT !.message_configs = <<m>>] : m \in MessageVariants}
  \cup {[Channel EXCEPT !.message_configs = <<Message, m>>] :
          m \in {Message, [Message EXCEPT !.frame_id = 8, !.send_interval_ms = 20]}}
  \cup {[Channel EXCEPT !.type = t, !.is_extended_id = x, !.bitrate = b, !.data_bitrate = d, !.dbc_file_path = f] :
          t \in {"NONE", "CLASSICAL_CAN", "CANFD", "OTHER"}, x \in BOOLEAN, b \in {0, 500000, 2000000},
          d \in {0, 250000, 2000000}, f \in {NoText, Text("a.dbc", 5), Text("b.dbc", 5)}}
MCCanbusDocuments ==
  {Buses(<<c>>, -1) : c \in ChannelVariants}
  \cup {Buses(<<Channel, [Channel EXCEPT !.bus_channel = b]>>, com) : b \in {0, 1, 24, 256}, com \in {-1, 0, 255, 256}}
  \cup {Buses(<<>>, 1), Without(Buses(<<>>, 1), "com_bus_channel")}
  \cup {Buses(<<Without(Channel, m)>>, -1) : m \in DOMAIN Channel}
  \cup {Buses(<<[Channel EXCEPT !.message_configs = <<Without(Message, m)>>]>>, -1) : m \in DOMAIN Message}
  \cup {Buses(<<[Channel EXCEPT !.message_configs = <<[Message EXCEPT !.signal_configs = <<Without(Signal, m)>>]>>]>>, -1) :
          m \in DOMAIN Signal}
-----------------------------------------------------------------------------
AdcTables == Tables \cup {<<[voltage |-> 2, value |-> 1], [voltage |-> 2, value |-> 3], [voltage |-> 3, value |-> 4]>>,
                          <<[voltage |-> 4, value |-> 6], [voltage |-> 0, value |-> 1]>>,
                          <<[voltage |-> 5, value |-> 5], [voltage |-> 1, value |-> 2], [voltage |-> 3, value |-> 3]>>}
AdcChannelDocuments ==
  {[interpolation_method |-> m, calibration_table |-> t] :
     m \in {"NONE", "LINEAR", "CUBIC_SPLINE"}, t \in AdcTables}
MCAdcDocuments ==
  {[samples |-> s, channel_configs |-> cs] :
     s \in {0, 1, 24, 65535, 65536, 65537},
     cs \in {<<>>} \cup {<<c>> : c \in AdcChannelDocuments}}
  \cup {[samples |-> s, channel_configs |-> [i \in 1 .. n |-> c]] :
          s \in {3, 2049}, n \in 3 .. 5, c \in AdcChannelDocuments}
  \cup {[samples |-> 40, channel_configs |-> <<c, d>>] : c \in AdcChannelDocuments, d \in AdcChannelDocuments}
  \cup {[samples |-> 1], [channel_configs |-> <<>>]}
  \cup {[samples |-> 1, channel_configs |-> <<Without(c, "interpolation_method")>>] : c \in AdcChannelDocuments}
\* One ADC; two and an empty one between them; one with internal references, the
\* last of which comes after an input that cannot be set up.
Input(pin, reference) == [pin |-> pin, reference |-> reference, internal |-> FALSE, ready |-> TRUE]
Internal(pin) == [Input(pin, 0) EXCEPT !.internal = TRUE]
MCBoards ==
  {<<<<Input(3, 3300)>>>>,
   <<<<Input(0, 3300), Input(5, 2500)>>, <<>>, <<Input(0, 1800), Internal(1)>>>>,
   <<<<Internal(2)>>, <<Input(1, 3300), [Input(2, 3300) EXCEPT !.ready = FALSE], Internal(4)>>>>}
-----------------------------------------------------------------------------
Uids == {0, 1, 255, 16909060, 2130771967}
Ids == {1, 7, 254, 255}
Datas == {SubSeq([i \in 1 .. 60 |-> (5 * i) % 256], 1, n) : n \in {0, 1, 4, 5, 6, 9, 20, 60}}
Carried ==
  {[kind |-> "DISCOVERY_REQUEST", uid |-> u] : u \in Uids}
  \cup {[kind |-> "DISCOVERY_RESPONSE", device_id |-> d, uid |-> u, device_type |-> t] :
          d \in Ids, u \in Uids, t \in {0, 3}}
  \cup {[kind |-> "ID_CLAIM", claiming_device_id |-> d, uid |-> u, device_type |-> t, protocol_version |-> v] :
          d \in Ids, u \in Uids, t \in {0, 3}, v \in {16, 32}}
  \cup {[kind |-> "ID_CLAIM_RESPONSE", responding_device_id |-> d, claiming_device_id |-> c,
         claiming_device_uid |-> u, result |-> r] : d \in Ids, c \in Ids, u \in Uids, r \in 0 .. 2}
  \cup {[kind |-> "HEARTBEAT", device_id |-> d, health_status |-> h, sequence_number |-> s, capability_flags |-> c] :
          d \in Ids, h \in 0 .. 2, s \in {0, 255}, c \in {0, 7, 258}}
  \cup {[kind |-> "COMMAND_REQUEST", target_device_id |-> d, command_code |-> c, transaction_id |-> t, data |-> b] :
          d \in Ids, c \in {16, 33}, t \in {1, 255}, b \in Datas}
  \cup {[kind |-> "COMMAND_RESPONSE", source_device_id |-> d, command_code |-> c, transaction_id |-> t,
         result_code |-> r, data |-> b] : d \in Ids, c \in {16, 33}, t \in {1, 255}, r \in {0, 3}, b \in Datas}
  \cup {LoggingRequest(d, t, b) : d \in Ids, t \in {1, 255}, b \in BOOLEAN}
  \cup {StatusResponse(d, 1, s, 16, h) : d \in Ids, s \in 0 .. 5, h \in 0 .. 2}
MCMessages == [bus : {"CLASSICAL_CAN", "CANFD"}, message : Carried]
=============================================================================
