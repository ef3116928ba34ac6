---------------------------- MODULE SensorsConfig ----------------------------
(***************************************************************************)
(* The sensors configuration in its four forms: the sensors in memory, the *)
(* JSON document (SensorsJsonParser, JsonSerializer), the CBOR structure   *)
(* (SensorsCborParser) and the CBOR items (the generated codec).           *)
(*                                                                         *)
(* A sensor is [id, name, unit, description, type, channel, source,        *)
(* connection, script, rate, interpolator, expression].  A connection      *)
(* string is [n, parts], its length and the parts between its slashes, a   *)
(* number each or a text; an expression is [t, n, vars, parses]: which     *)
(* text, its length, the names the parser finds in it, whether it can be   *)
(* read at all.                                                            *)
(***************************************************************************)
EXTENDS Wire, FiniteSets

CONSTANTS
  GpioChannels, AdcChannels    \* gpio_channel_count, adc_channel_count

Canbus == {"CANBUS_RAW", "CANBUS_ANALOG", "CANBUS_INDICATOR"}
Physical == {"PHYSICAL_ANALOG", "PHYSICAL_INDICATOR"}
Virtual == {"VIRTUAL_ANALOG", "VIRTUAL_INDICATOR"}
SensorType == <<"NONE", "PHYSICAL_ANALOG", "VIRTUAL_ANALOG", "PHYSICAL_INDICATOR",
                "VIRTUAL_INDICATOR", "CANBUS_RAW", "CANBUS_ANALOG", "CANBUS_INDICATOR",
                "USER_ANALOG", "USER_INDICATOR">>
TypeNumber(type) == CHOOSE i \in 0 .. 9 : SensorType[i + 1] = type
NoConnection == [n |-> 0, parts |-> <<>>]
-----------------------------------------------------------------------------
(***************************************************************************)
(* The connection string of a CAN bus sensor.                              *)
(***************************************************************************)
Digits(n) == CASE n < 10 -> 1 [] n \in 10 .. 99 -> 2 [] n \in 100 .. 999 -> 3 [] OTHER -> 4
\* Mutant: the signal is not written.
ToConnectionStringOfFrame(source) ==
  [n |-> Digits(source.bus) + 1 + Digits(source.frame), parts |-> <<source.bus, source.frame>>]
ToConnectionString(source) ==
  LET signal == IF source.signal = NoText THEN <<>> ELSE <<source.signal>> IN
  [n |-> Digits(source.bus) + 1 + Digits(source.frame)
           + SumOver(LAMBDA s : 1 + s.n, signal),
   parts |-> <<source.bus, source.frame>> \o signal]
\* Mutant: the whole number of the bus is kept.
FromConnectionStringWide(connection) ==
  LET parts == connection.parts IN
  IF Len(parts) < 2 \/ parts[1] = -1 \/ parts[2] = -1 THEN Thrown
  ELSE Ok([bus |-> parts[1], frame |-> parts[2],
           signal |-> IF Len(parts) = 2 THEN NoText ELSE parts[3]])
\* A part that is not a number (a string of characters, here -1) makes
\* stoul throw; bus_channel is a uint8_t.
FromConnectionString(connection) ==
  LET parts == connection.parts IN
  IF Len(parts) < 2 \/ parts[1] = -1 \/ parts[2] = -1 THEN Thrown
  ELSE Ok([bus |-> parts[1] % 256, frame |-> parts[2],
           signal |-> IF Len(parts) = 2 THEN NoText ELSE parts[3]])
UpdateConnectionString(sensor) ==
  [sensor EXCEPT !.connection =
     IF sensor.type \in Canbus THEN ToConnectionString(sensor.source[1]) ELSE NoConnection]
\* UnwrapConnectionString
Source(type, connection) ==
  IF type \notin Canbus THEN Ok(None)
  ELSE LET source == FromConnectionString(connection) IN
       IF source.ok THEN Ok(Some(source.v)) ELSE Thrown
-----------------------------------------------------------------------------
(***************************************************************************)
(* SensorValidator.  `files` is what Exists finds on the card.             *)
(***************************************************************************)
ValidMetadata(s) == s.name.n <= 32 /\ s.unit.n <= 32 /\ s.description.n <= 128
ValidChannel(s) ==
  /\ s.type \in Physical <=> s.channel # None
  /\ s.type = "PHYSICAL_INDICATOR" => s.channel[1] < GpioChannels
  /\ s.type = "PHYSICAL_ANALOG" => s.channel[1] < AdcChannels
ValidConnectionString(s) ==
  /\ s.type \in Canbus <=> s.connection # NoConnection
  /\ s.type \in {"CANBUS_ANALOG", "CANBUS_INDICATOR"} => s.source[1].signal # NoText
ValidScriptPath(s, files) == s.script = NoText \/ s.script.t \in files
ValidInterpolation(s) ==
  /\ s.type = "PHYSICAL_ANALOG" <=> s.interpolator # None
  /\ s.interpolator # None => Len(s.interpolator[1].table) >= 2
ValidExpression(s) ==
  /\ s.type \in Virtual => s.expression # None
  /\ s.type = "CANBUS_RAW" => s.expression = None
ValidSensor(s, files) ==
  /\ s.id.n > 0 /\ s.id.word
  /\ ValidMetadata(s)
  /\ s.type # "NONE"
  /\ ValidChannel(s)
  /\ ValidConnectionString(s)
  /\ ValidScriptPath(s, files)
  /\ s.rate # None => s.rate[1] > 0
  /\ ValidInterpolation(s)
  /\ ValidExpression(s)
ValidSensors(sensors, files) == \A i \in DOMAIN sensors : ValidSensor(sensors[i], files)
-----------------------------------------------------------------------------
(***************************************************************************)
(* SensorsOrderResolver.  Both of its maps keep the first sensor of an ID. *)
(***************************************************************************)
Added(sensors) ==
  LET ids == {sensors[i].id.t : i \in DOMAIN sensors} IN
  [id \in ids |->
     sensors[CHOOSE i \in DOMAIN sensors :
               sensors[i].id.t = id /\ \A j \in 1 .. i - 1 : sensors[j].id.t # id]]
Dependencies(sensor) ==
  IF sensor.expression = None THEN {} ELSE sensor.expression[1].vars \ {"x"}
\* The members of a set, as unordered containers that hash in order yield them.
Iterate(ids, hash) == SelectSeq(hash, LAMBDA id : id \in ids)

\* HasCyclicDependency: verdict is "no", "cyclic", or "missing" when a
\* dependency is no sensor; visited and temp are its reference parameters.
RECURSIVE HasCyclicDependency(_, _, _, _)
\* Mutant: a sensor stays among those being walked through.
HasCyclicDependencyStays(added, hash, id, walk) ==
  IF walk.verdict # "no" THEN walk
  ELSE IF id \in walk.temp THEN [walk EXCEPT !.verdict = "cyclic"]
  ELSE FoldLeft(
         LAMBDA w, dep :
           IF w.verdict = "no" /\ dep \notin DOMAIN added
           THEN [w EXCEPT !.verdict = "missing"] ELSE HasCyclicDependency(added, hash, dep, w),
         [walk EXCEPT !.temp = @ \cup {id}],
         Iterate(Dependencies(added[id]), hash))
HasCyclicDependency(added, hash, id, walk) ==
  IF walk.verdict # "no" \/ id \in walk.visited \ walk.temp THEN walk
  ELSE IF id \in walk.temp THEN [walk EXCEPT !.verdict = "cyclic"]
  ELSE
    LET inside == FoldLeft(
          LAMBDA w, dep :
            IF w.verdict = "no" /\ dep \notin DOMAIN added
            THEN [w EXCEPT !.verdict = "missing"] ELSE HasCyclicDependency(added, hash, dep, w),
          [walk EXCEPT !.temp = @ \cup {id}],
          Iterate(Dependencies(added[id]), hash))
    IN IF inside.verdict # "no" THEN inside
       ELSE [inside EXCEPT !.temp = @ \ {id}, !.visited = @ \cup {id}]

RECURSIVE ResolveDependencies(_, _, _, _)
\* Mutant: the sensor comes before its inputs.
ResolveDependenciesFirst(added, hash, id, order) ==
  IF id \in order.visited THEN order
  ELSE FoldLeft(LAMBDA o, dep : ResolveDependencies(added, hash, dep, o),
                [visited |-> order.visited \cup {id},
                 sensors |-> Append(order.sensors, added[id])],
                Iterate(Dependencies(added[id]), hash))
ResolveDependencies(added, hash, id, order) ==
  IF id \in order.visited THEN order
  ELSE
    LET inside == FoldLeft(LAMBDA o, dep : ResolveDependencies(added, hash, dep, o),
                           [order EXCEPT !.visited = @ \cup {id}],
                           Iterate(Dependencies(added[id]), hash))
    IN [inside EXCEPT !.sensors = Append(@, added[id])]

GetProcessingOrder(sensors, hash) ==
  LET added == Added(sensors)
      ids == Iterate(DOMAIN added, hash)
      walk == FoldLeft(LAMBDA w, id : HasCyclicDependency(added, hash, id, w),
                       [verdict |-> "no", visited |-> {}, temp |-> {}], ids)
  IN IF walk.verdict # "no" THEN Thrown
     ELSE Ok(FoldLeft(LAMBDA o, id : ResolveDependencies(added, hash, id, o),
                      [visited |-> {}, sensors |-> <<>>], ids).sensors)
-----------------------------------------------------------------------------
(***************************************************************************)
(* The JSON document: [sensors], a sequence of [id, metadata,              *)
(* configuration].  Serialize sorts the tables of the sensors themselves;  *)
(* it leaves an absent channel uninitialised (`junk`).                     *)
(***************************************************************************)
Method(s) == IF s.interpolator = None THEN "NONE" ELSE s.interpolator[1].method
Table(s) == IF s.interpolator = None THEN <<>> ELSE SortedTable(s.interpolator[1].table)
Rate(s) == IF s.rate # None /\ s.rate[1] > 0 THEN s.rate[1] ELSE -1
NoExpression == [t |-> "", n |-> 0, vars |-> {}, parses |-> FALSE]

SensorToJson(s, junk) ==
  [id |-> s.id,
   metadata |-> [name |-> s.name, unit |-> s.unit, description |-> s.description],
   configuration |->
     [type |-> s.type,
      channel |-> IF s.channel = None THEN junk ELSE s.channel[1],
      connection_string |-> s.connection, script_path |-> s.script,
      sampling_rate_ms |-> Rate(s), interpolation_method |-> Method(s),
      calibration_table |-> Table(s),
      expression |-> IF s.expression = None THEN NoExpression ELSE s.expression[1]]]

SensorsToJson(sensors, files, hash, junk) ==
  LET updated == Map(UpdateConnectionString, sensors) IN
  IF ValidSensors(updated, files) /\ GetProcessingOrder(updated, hash).ok
  THEN Ok([sensors |-> Map(LAMBDA s : SensorToJson(s, junk), updated)])
  ELSE Thrown

\* JsonSerializer::Deserialize catches what value_to throws.
SensorDocumentReads(doc) ==
  /\ HasMembers(doc, {"id", "metadata", "configuration"})
  /\ HasMembers(doc.metadata, {"name", "unit", "description"})
  /\ HasMembers(doc.configuration,
                {"type", "channel", "connection_string", "script_path", "sampling_rate_ms",
                 "interpolation_method", "calibration_table", "expression"})
SensorsDocumentReads(doc) ==
  /\ HasMembers(doc, {"sensors"})
  /\ \A i \in DOMAIN doc.sensors : SensorDocumentReads(doc.sensors[i])

SensorFromJson(doc) ==
  LET c == doc.configuration
      source == Source(c.type, c.connection_string)
      curve == IF c.type # "PHYSICAL_ANALOG" \/ c.interpolation_method = "NONE"
                    \/ c.calibration_table = <<>>
               THEN Ok(None)
               ELSE LET made == Interpolator(c.interpolation_method, c.calibration_table) IN
                    IF made.ok THEN Ok(Some(made.v)) ELSE Thrown
  IN IF c.type \notin Range(SensorType) \/ ~source.ok \/ ~curve.ok THEN Thrown
     ELSE Ok([id |-> doc.id, name |-> doc.metadata.name, unit |-> doc.metadata.unit,
              description |-> doc.metadata.description, type |-> c.type,
              channel |-> IF c.type \in Physical THEN Some(c.channel) ELSE None,
              source |-> source.v, connection |-> c.connection_string,
              script |-> c.script_path,
              rate |-> IF c.sampling_rate_ms > 0 THEN Some(c.sampling_rate_ms) ELSE None,
              interpolator |-> curve.v,
              expression |-> IF c.expression.n = 0 THEN None ELSE Some(c.expression)])

\* The ExpressionEvaluator of a text muparser cannot read throws mu::ParserError,
\* which is no std::exception and which nobody up to main catches.
Unreadable(doc) ==
  \E i \in DOMAIN doc.sensors :
    /\ doc.sensors[i].configuration.expression.n > 0
    /\ ~doc.sensors[i].configuration.expression.parses
    /\ \A j \in 1 .. i : SensorFromJson(doc.sensors[j]).ok

SensorsFromJson(doc, files, hash) ==
  LET sensors == MapOk(SensorFromJson, doc.sensors)
      order == IF sensors.ok THEN GetProcessingOrder(sensors.v, hash) ELSE Thrown
  IN IF order.ok /\ ValidSensors(order.v, files) THEN order ELSE Thrown
-----------------------------------------------------------------------------
(***************************************************************************)
(* The CBOR structure, CborSensorsConfig.                                  *)
(***************************************************************************)
SensorToCbor(s) ==
  [id |-> s.id, name |-> s.name, unit |-> s.unit, description |-> s.description,
   type |-> TypeNumber(s.type), channel |-> s.channel,
   connection |-> s.connection, script |-> s.script, rate |-> Rate(s),
   method |-> MethodNumber(Method(s)),
   table |-> IF Method(s) = "NONE" THEN None ELSE Some(Table(s)),
   expression |-> s.expression]

SensorsToCbor(sensors, files, hash, sum) ==
  LET updated == Map(UpdateConnectionString, sensors) IN
  IF ValidSensors(updated, files) /\ GetProcessingOrder(updated, hash).ok
  THEN Ok([sensors |-> Map(SensorToCbor, updated), sum |-> sum])
  ELSE Thrown

SensorFromCbor(c) ==
  LET type == IF c.type < 10 THEN SensorType[c.type + 1] ELSE "NONE"
      source == Source(type, c.connection)
      curve == IF c.method = 0 \/ c.table = None THEN Ok(None)
               ELSE IF c.method > 2 THEN Thrown
               ELSE LET made == Interpolator(InterpolationMethod[c.method + 1], c.table[1]) IN
                    IF made.ok THEN Ok(Some(made.v)) ELSE Thrown
  IN IF ~source.ok \/ ~curve.ok THEN Thrown
     ELSE Ok([id |-> c.id, name |-> c.name, unit |-> c.unit, description |-> c.description,
              type |-> type, channel |-> c.channel, source |-> source.v,
              connection |-> c.connection, script |-> c.script,
              rate |-> IF c.rate > 0 THEN Some(c.rate) ELSE None,
              interpolator |-> curve.v, expression |-> c.expression])

SensorsFromCbor(config, files, hash) ==
  LET sensors == MapOk(SensorFromCbor, config.sensors)
      order == IF sensors.ok THEN GetProcessingOrder(sensors.v, hash) ELSE Thrown
  IN IF order.ok /\ ValidSensors(order.v, files) THEN order ELSE Thrown
-----------------------------------------------------------------------------
(***************************************************************************)
(* The generated codec and the size its buffer is given.                   *)
(***************************************************************************)
EncodeSensorMetadata(c) == List(<<Tstr(c.name), Tstr(c.unit), Tstr(c.description)>>)
EncodeSensorConfiguration(c) ==
  List(<<Uint(c.type), Integer(c.rate), Uint(c.method)>> \o OptionalItem(Uint, c.channel)
       \o <<Tstr(c.connection), Tstr(c.script)>> \o OptionalItem(FloatMap, c.table)
       \o OptionalItem(Tstr, c.expression))
EncodeSensor(c) == List(<<Tstr(c.id), EncodeSensorMetadata(c), EncodeSensorConfiguration(c)>>)
EncodeSensors(config) ==
  IF \E i \in DOMAIN config.sensors :
       config.sensors[i].table # None /\ ~TableEncodes(config.sensors[i].table[1])
  THEN Thrown
  ELSE Ok(List(<<List(Map(EncodeSensor, config.sensors)), Uint(config.sum)>>))

\* Mutant: the rate is read as an unsigned integer.
DecodeSensorConfigurationUnsigned(item) ==
  Members(item, <<Must({"uint"}), Must({"uint"}), Must({"uint"}), May({"uint"}),
                  Must({"tstr"}), Must({"tstr"}), May({"map"}), May({"tstr"})>>)
DecodeSensorConfiguration(item) ==
  Members(item, <<Must({"uint"}), Must(IntegerKinds), Must({"uint"}), May({"uint"}),
                  Must({"tstr"}), Must({"tstr"}), May({"map"}), May({"tstr"})>>)
DecodeSensor(item) ==
  LET sensor == Members(item, <<Must({"tstr"}), Must({"list"}), Must({"list"})>>)
      metadata == Members(List(sensor.v[2]), <<Must({"tstr"}), Must({"tstr"}), Must({"tstr"})>>)
      c == DecodeSensorConfiguration(List(sensor.v[3]))
  IN IF ~sensor.ok \/ ~metadata.ok \/ ~c.ok THEN Thrown
     ELSE Ok([id |-> sensor.v[1], name |-> metadata.v[1], unit |-> metadata.v[2],
              description |-> metadata.v[3], type |-> c.v[1], rate |-> c.v[2],
              method |-> c.v[3], channel |-> c.v[4], connection |-> c.v[5],
              script |-> c.v[6], table |-> Map(Pairs, c.v[7]),
              expression |-> c.v[8]])
DecodeSensors(item) ==
  LET config == Members(item, <<Must({"list"}), Must({"uint"})>>)
      sensors == MapOk(DecodeSensor, config.v[1])
  IN IF ~config.ok \/ ~sensors.ok THEN Thrown
     ELSE Ok([sensors |-> sensors.v, sum |-> config.v[2]])

SizeOfSensor(c) ==
  IndefiniteArrayStart + SizeOfTstr(c.id)
  + IndefiniteArrayStart + SizeOfTstr(c.name) + SizeOfTstr(c.unit) + SizeOfTstr(c.description)
  + IndefiniteArrayStart + SizeOfUint(c.type) + SizeOfInt(c.rate) + SizeOfUint(c.method)
  + SizeOfOptional(SizeOfUint, c.channel)
  + SizeOfTstr(c.connection) + SizeOfTstr(c.script)
  + SizeOfOptional(SizeOfTable, c.table)
  + SizeOfOptional(SizeOfTstr, c.expression)
SizeOfSensors(config) ==
  IndefiniteArrayStart + IndefiniteArrayStart + SumOver(SizeOfSensor, config.sensors)
  + SizeOfUint(config.sum)
=============================================================================
