----------------------------- MODULE Conversions -----------------------------
(***************************************************************************)
(* One configuration on its way through its forms: a document on the card  *)
(* is imported, the configuration in memory is saved as CBOR structure and *)
(* bytes, loaded again, and exported as a document.  What each step does   *)
(* is in SensorsConfig, CanbusConfig, AdcConfig and SystemConfig; who      *)
(* takes the steps when is ConfigurationStore's matter.  A device may be   *)
(* switched off and on again anywhere, with other files on its card.  A    *)
(* CDMP message goes a shorter way: frame, bus, handler (CdmpMessages).  An *)
(* ADC configuration in use is the ADC manager's (Adc).                    *)
(***************************************************************************)
EXTENDS SensorsConfig, CanbusConfig, AdcConfig, Adc, SystemConfig, CdmpMessages

CONSTANTS
  SensorsDocuments, CanbusDocuments, AdcDocuments,   \* the documents users write
  Messages,       \* CDMP's messages, each on a classical and on an FD bus
  Files,          \* the scripts and DBC files there may be on the card
  Orders,         \* the orders in which an unordered container may yield IDs
  Junk,           \* what an uninitialised integer may hold
  Sums,           \* checksums of a document
  Devices, Versions, Builds,
  CalibrationSamples   \* CONFIG_EERIE_LEAP_ADC_CALIBRATION_SAMPLES_COUNT

VARIABLES
  domain,   \* "sensors", "canbus", "adc", "system", "message"
  files,    \* the files on the card
  form,     \* "json", "parsed", "cbor", "bytes", "decoded", "config" (in use), or
            \* how the way ended: "ignored", "refused", "too_small", "down";
            \* of a message: "message", "frame", "heard", "too_long"
  value,    \* the configuration in this form
  first,    \* the configuration as it was first accepted, if it was
  firmware  \* for system: the version that runs (0: none yet), and the one that
            \* gave the build number
vars == <<domain, files, form, value, first, firmware>>
kept == <<domain, files, first, firmware>>

Documents(d) ==
  CASE d = "sensors" -> SensorsDocuments [] d = "canbus" -> CanbusDocuments
    [] d = "adc" -> AdcDocuments [] d = "message" -> Messages

Init ==
  /\ domain \in {"sensors", "canbus", "adc", "system", "message"}
  /\ files \in SUBSET Files
  /\ domain \notin {"sensors", "canbus"} => files = {}
  /\ form = CASE domain = "system" -> "config" [] domain = "message" -> "message" [] OTHER -> "json"
  /\ value \in IF domain = "system" THEN {DefaultSystem(d) : d \in Devices} ELSE Documents(domain)
  /\ first = IF domain \in {"system", "message"} THEN Some(value) ELSE None
  /\ firmware = [runs |-> 0, built |-> 0]
-----------------------------------------------------------------------------
DocumentReads ==
  CASE domain = "sensors" -> SensorsDocumentReads(value)
    [] domain = "canbus" -> CanbusDocumentReads(value)
    [] OTHER -> AdcDocumentReads(value)
FromJson(order) ==
  CASE domain = "sensors" -> SensorsFromJson(value, files, order)
    [] domain = "canbus" -> CanbusFromJson(value, files)
    [] OTHER -> AdcFromJson(value)
ToJson(order, junk) ==
  CASE domain = "sensors" -> SensorsToJson(value, files, order, junk)
    [] domain = "canbus" -> CanbusToJson(value, files)
    [] OTHER -> AdcToJson(value)
ToCborStructure(order, sum) ==
  CASE domain = "sensors" -> SensorsToCbor(value, files, order, sum)
    [] domain = "canbus" -> CanbusToCbor(value, files, sum)
    [] domain = "adc" -> AdcToCbor(value, sum)
    [] OTHER -> Ok(SystemToCbor(value))
FromCborStructure(order) ==
  CASE domain = "sensors" -> SensorsFromCbor(value, files, order)
    [] domain = "canbus" -> CanbusFromCbor(value, files)
    [] domain = "adc" -> AdcFromCbor(value)
    [] OTHER -> Ok(SystemFromCbor(value))
Encoded ==
  CASE domain = "sensors" -> EncodeSensors(value)
    [] domain = "canbus" -> EncodeCanbus(value)
    [] domain = "adc" -> EncodeAdc(value)
    [] OTHER -> EncodeSystem(value)
BufferSize ==
  CASE domain = "sensors" -> SizeOfSensors(value)
    [] domain = "canbus" -> SizeOfCanbus(value)
    [] domain = "adc" -> SizeOfAdc(value)
    [] OTHER -> SizeOfSystem(value)
Decoded ==
  CASE domain = "sensors" -> DecodeSensors(value)
    [] domain = "canbus" -> DecodeCanbus(value)
    [] domain = "adc" -> DecodeAdc(value)
    [] OTHER -> DecodeSystem(value)

\* A step that gave `result`: the next form, or refused.
Becomes(next, result) ==
  IF result.ok THEN form' = next /\ value' = result.v ELSE form' = "refused" /\ UNCHANGED value
-----------------------------------------------------------------------------
\* JsonSerializer and the parser of the document; what an expression that
\* cannot be read throws, nobody catches.
ImportJson ==
  /\ form = "json"
  /\ \E order \in Orders :
       IF ~DocumentReads THEN form' = "ignored" /\ UNCHANGED <<value, first>>
       ELSE IF domain = "sensors" /\ Unreadable(value) THEN form' = "down" /\ UNCHANGED <<value, first>>
       ELSE /\ Becomes("parsed", FromJson(order))
            /\ first' = IF form' = "parsed" /\ first = None THEN Some(value') ELSE first
  /\ UNCHANGED <<domain, files, firmware>>
ExportJson ==
  /\ form = "config" /\ domain # "system"
  /\ \E order \in Orders, junk \in Junk : Becomes("json", ToJson(order, junk))
  /\ UNCHANGED kept
ToCbor ==
  /\ form \in {"parsed", "config"}
  /\ \E order \in Orders, sum \in Sums : Becomes("cbor", ToCborStructure(order, sum))
  /\ UNCHANGED kept
\* CborSerializer gives the encoder a buffer of the computed size.
Encode ==
  /\ form = "cbor"
  /\ IF Encoded.ok /\ Bytes(Encoded.v) > BufferSize
     THEN form' = "too_small" /\ UNCHANGED value
     ELSE Becomes("bytes", Encoded)
  /\ UNCHANGED kept
Decode == form = "bytes" /\ Becomes("decoded", Decoded) /\ UNCHANGED kept
FromCbor ==
  /\ form = "decoded"
  /\ \E order \in Orders : Becomes("config", FromCborStructure(order))
  /\ UNCHANGED kept

\* The card comes with other files while the configuration is stored.
FilesChange ==
  /\ form \in {"bytes", "json"} /\ domain \in {"sensors", "canbus"} /\ first # None
  /\ files' \in SUBSET Files
  /\ UNCHANGED <<domain, form, value, first, firmware>>

\* SystemConfigurationManager's constructor, of a firmware of this version.
FirmwareStarts ==
  /\ domain = "system" /\ form = "config"
  /\ \E hw \in Versions, sw \in Versions :
       /\ value' = UpdateSwVersion(UpdateHwVersion(value, hw), sw)
       /\ firmware' = [firmware EXCEPT !.runs = sw]
  /\ first' = Some(value')
  /\ UNCHANGED <<domain, files, form>>
BuildCounted ==
  /\ domain = "system" /\ form = "config" /\ firmware.runs # 0
  /\ \E build \in Builds : value' = UpdateBuildNumber(value, build)
  /\ firmware' = [firmware EXCEPT !.built = firmware.runs]
  /\ first' = Some(value')
  /\ UNCHANGED <<domain, files, form>>
-----------------------------------------------------------------------------
\* A service sends a message: its frame is on the bus, if it has a length.
SendMessage ==
  /\ form = "message"
  /\ LET frames == OnBus(value.bus, FrameOf(value.message)) IN
       IF frames = {} THEN form' = "too_long" /\ UNCHANGED value
       ELSE form' = "frame" /\ value' \in frames
  /\ UNCHANGED kept
\* The handlers of the device that gets the frame read it.
HearMessage ==
  /\ form = "frame"
  /\ form' = "heard" /\ value' = Heard(value)
  /\ UNCHANGED kept
-----------------------------------------------------------------------------
Next ==
  \/ SendMessage \/ HearMessage
  \/ ImportJson \/ ExportJson \/ ToCbor \/ Encode \/ Decode \/ FromCbor
  \/ FilesChange \/ FirmwareStarts \/ BuildCounted
Spec == Init /\ [][Next]_vars
-----------------------------------------------------------------------------
Held == form \in {"parsed", "config"}   \* value is a configuration in memory

(***************************************************************************)
(* A configuration in memory fits the integers of its C++ types, whatever  *)
(* numbers a document had, and a refused one is not kept.                  *)
(***************************************************************************)
TypeOK ==
  /\ form \in {"json", "parsed", "cbor", "bytes", "decoded", "config",
               "ignored", "refused", "too_small", "down",
               "message", "frame", "heard", "too_long"}
  /\ files \subseteq Files
  /\ Held /\ domain = "sensors" =>
       \A i \in DOMAIN value :
         value[i].source # None => value[i].source[1].bus \in 0 .. 255
  /\ Held /\ domain = "canbus" =>
       \A bus \in DOMAIN value.channels : bus \in 0 .. 255 /\ value.channels[bus].bus = bus
  /\ Held /\ domain = "adc" => value.samples \in 1 .. 65535

\* The same configuration, but for the order of things and the way a
\* connection is written.
Canonical(sensor) ==
  LET curve == sensor.interpolator IN
  [UpdateConnectionString(sensor) EXCEPT
     !.interpolator = IF curve = None THEN None
                      ELSE Some([curve[1] EXCEPT !.table = SortedTable(@)])]
Same(a, b) ==
  CASE domain = "sensors" -> /\ Len(a) = Len(b)
                             /\ {Canonical(a[i]) : i \in DOMAIN a} = {Canonical(b[i]) : i \in DOMAIN b}
    [] domain = "adc" -> /\ a.samples = b.samples
                         /\ Map(Sorted, a.channels) = Map(Sorted, b.channels)
    [] OTHER -> a = b

(***************************************************************************)
(* However often a configuration is saved, loaded, exported and imported,  *)
(* what comes back is what was accepted first.                             *)
(***************************************************************************)
SavedIsRead == Held => Same(value, first[1])

\* The files a configuration names.
Named(v) ==
  CASE domain = "sensors" -> {v[i].script.t : i \in DOMAIN v}
    [] domain = "canbus" ->
         UNION {{v.channels[bus].dbc.t} \cup Range(Map(LAMBDA m : m.script.t, v.channels[bus].messages))
                  : bus \in DOMAIN v.channels}
    [] OTHER -> {}
(***************************************************************************)
(* What was accepted once is never refused later, by no form it takes, as  *)
(* long as the files it names are on the card.                             *)
(***************************************************************************)
AcceptedStays ==
  form = "refused" /\ first # None => ~(Named(first[1]) \ {""} \subseteq files)

\* The buffer an encoder gets holds what it writes: nothing fails to be saved
\* because its texts, numbers or tables are long.
BufferFits == form # "too_small"

(***************************************************************************)
(* The order in which sensors are processed: each once, and after every    *)
(* sensor its expression reads.                                            *)
(***************************************************************************)
InputsComeFirst ==
  Held /\ domain = "sensors" =>
    \A i \in DOMAIN value :
      /\ \A j \in DOMAIN value : value[i].id = value[j].id => i = j
      /\ \A input \in Dependencies(value[i]) : \E j \in 1 .. i - 1 : value[j].id.t = input

\* A document's sensors, the first of each ID.
Meant == Added(Map(LAMBDA doc : SensorFromJson(doc).v, value.sensors))
Converts == \A i \in DOMAIN value.sensors : SensorFromJson(value.sensors[i]).ok
(***************************************************************************)
(* A document is refused for a reason only: a sensor that does not convert *)
(* or is not valid, an input that is no sensor, or a real cycle, sensors   *)
(* each of which reads one of the others.  Two sensors that read the same  *)
(* one are no cycle.                                                       *)
(***************************************************************************)
RefusedForAReason ==
  [][domain = "sensors" /\ form = "json" /\ form' = "refused" /\ Converts =>
       \/ \E id \in DOMAIN Meant : ~ValidSensor(Meant[id], files)
       \/ \E id \in DOMAIN Meant : ~(Dependencies(Meant[id]) \subseteq DOMAIN Meant)
       \/ \E ring \in SUBSET DOMAIN Meant \ {{}} :
            \A id \in ring : Dependencies(Meant[id]) \cap ring # {}]_vars

\* Every channel of a document gets into the configuration: none is merged
\* with another because their numbers are equal, or equal in eight bits.
NothingDropped ==
  [][form = "json" /\ form' = "parsed" =>
       /\ domain = "canbus" =>
            Cardinality(DOMAIN value'.channels) = Len(value.channel_configs)
       /\ domain = "adc" => Len(value'.channels) = Len(value.channel_configs)]_vars

Rises(table) ==
  \A i \in 1 .. Len(table) - 1 : table[i].voltage < table[i + 1].voltage
CurvesInUse ==
  IF form # "config" THEN {}
  ELSE CASE domain = "sensors" ->
              {value[i].interpolator[1] : i \in {j \in DOMAIN value : value[j].interpolator # None}}
         [] domain = "adc" -> Range(value.channels)
         [] OTHER -> {}
Distinct(table) ==
  \A i, j \in DOMAIN table : table[i].voltage = table[j].voltage => i = j
(***************************************************************************)
(* The curve of a table in use passes through the table's points and stays *)
(* at the ends outside them, in whatever order the document had its        *)
(* points; a voltage given twice has no curve.                             *)
(***************************************************************************)
CurveHitsPoints ==
  \A curve \in CurvesInUse :
    Distinct(curve.table) =>
      LET table == Points(curve.table)
          At(voltage) == Interpolate(curve.method, table, voltage, TRUE)
      IN /\ Rises(curve.table)
         /\ \A i \in DOMAIN table : At(table[i].voltage) = Inside(table[i].value)
         /\ At(Minus(table[1].voltage, Whole(1))) = Inside(table[1].value)
         /\ At(Plus(table[Len(table)].voltage, Whole(1))) = Inside(table[Len(table)].value)

\* The pieces of a spline meet with one slope and one curvature, and the
\* curvature is nothing at both ends.
SplineIsSmooth ==
  \A curve \in CurvesInUse :
    curve.method = "CUBIC_SPLINE" /\ Distinct(curve.table) =>
      LET table == Points(curve.table)
          Bend(piece, dx) == Plus(piece.c, Times(Whole(3), Times(dx, piece.d)))
          Smooth(s) ==
            /\ \A i \in 1 .. Len(s) - 1 :
                 /\ Slope(s[i], H(table, i)) = s[i + 1].b
                 /\ Bend(s[i], H(table, i)) = s[i + 1].c
            /\ s[1].c = Whole(0)
            /\ Bend(s[Len(s)], H(table, Len(s))) = Whole(0)
      IN Smooth(Segments(table))

(***************************************************************************)
(* A calibrated channel gives the voltage of a calibration point when the  *)
(* ADC reads what that point's voltage makes it read: at every point but   *)
(* the two ends, where the code may read outside its table.                *)
(***************************************************************************)
CalibrationInverts ==
  form = "config" /\ domain = "adc" =>
    \A c \in DOMAIN value.channels :
      LET channel == value.channels[c]
          table == channel.table
          rising == /\ Rises(table)
                    /\ \A i \in 1 .. Len(table) - 1 : table[i].value < table[i + 1].value
                    /\ table[1].value > 0
      IN rising => \A i \in 2 .. Len(table) - 1 :
           InterpolateToCalibratedRange(channel, AdcReading(table[i].value).v)
             = Inside(Whole(table[i].voltage))

\* The inputs of a board in the order of the device tree: ADC and index on it.
Inputs(board) ==
  FlattenSeq([k \in DOMAIN board |-> [i \in DOMAIN board[k] |-> <<k, i - 1>>]])
\* Configured channels read their inputs, as many samples as configured.
ReadRightly(m, board, config) ==
  LET Sampled(inputs) ==
        \A n \in DOMAIN inputs : n <= Len(config.channels) =>
          LET input == inputs[n]
              adc == board[input[1]]
              In_mV(raw) == Millivolts(Reference(adc[input[2] + 1]), raw)
              Reading(lows, failed) == ReadingOf(m, n - 1, <<100, 900>>, lows, failed)
          IN /\ GetAdcForChannel(m, n - 1) = Some(input)
             /\ input[2] < m.adcs[input[1]].sequences
             /\ (\A i \in 1 .. input[2] + 1 : ~Stops(adc[i])) =>
                  /\ Reading(0, 0) = In_mV(900)
                  /\ Reading(config.samples, 0) = In_mV(100)
                  /\ Reading(1, 0) \in In_mV(100) .. In_mV(900)
  IN Sampled(Inputs(board))
(***************************************************************************)
(* A channel in use reads the input that the device tree lists in its      *)
(* place over all ADCs, with that input's reference; a steady voltage is   *)
(* read as itself from any number of samples, a changing one as something  *)
(* in between.  A calibration takes its own number of samples and gives    *)
(* them back.  The default configuration has every input of the board.     *)
(***************************************************************************)
ChannelsAreRead ==
  form = "config" /\ domain = "adc" =>
    \A board \in Boards :
      LET default == DefaultAdc(NewManager(board)) IN
      /\ Len(default.channels) = Len(Inputs(board))
      /\ \A config \in {value, default} :
           LET InUse(m) ==
                 /\ ReadRightly(m, board, config)
                 /\ ReadRightly(ResetSamplesCount(UpdateSamplesCount(m, CalibrationSamples)), board, config)
           IN InUse(UpdateConfiguration(NewManager(board), config))

\* A stored build number is one of the software version stored beside it.
BuildBelongs ==
  domain = "system" /\ Held /\ value.build # 0 => firmware.built = value.sw

\* A message as its receiver can know it: the answer to a claim loses the UID that
\* the document puts into it (ClaimAnswerAsDocumented), and the data of a long
\* frame has zeros after it.
WithoutUid(m) == IF m.kind = "ID_CLAIM_RESPONSE" THEN [m EXCEPT !.claiming_device_uid = 0] ELSE m
Padded(data, sent) ==
  /\ Len(data) >= Len(sent) /\ SubSeq(data, 1, Len(sent)) = sent
  /\ \A i \in Len(sent) + 1 .. Len(data) : data[i] = 0
(***************************************************************************)
(* What the handlers of another device read is the message that was sent:  *)
(* one message, of the same kind, to the last byte, but for the UID in the *)
(* answer to a claim, which is not sent.  Data that keeps to               *)
(* the limits of i_canbus_com_command.h (five bytes to a request, four to  *)
(* a response) goes over a classical bus and comes back with its length;   *)
(* longer data comes back over an FD bus with zeros after it.  A command   *)
(* to start or stop logging is understood.                                 *)
(***************************************************************************)
MessagesAreHeard ==
  domain = "message" =>
    LET sent == first[1].message
        limit == IF sent.kind = "COMMAND_REQUEST" THEN 5 ELSE 4
        short == "data" \notin DOMAIN sent \/ Len(sent.data) <= limit
    IN /\ form = "too_long" => first[1].bus = "CLASSICAL_CAN" /\ ~short
       /\ form = "heard" =>
            IF short THEN value = {WithoutUid(sent)}
            ELSE \E m \in value : /\ value = {m} /\ Padded(m.data, sent.data)
                                 /\ [m EXCEPT !.data = sent.data] = sent
       /\ form = "heard" /\ sent.kind = "COMMAND_REQUEST" /\ sent.command_code = LoggingCode =>
            \A start \in BOOLEAN, m \in value :
              sent.data = LoggingData(start) => LoggingCommand(m.data) = {start}

(***************************************************************************)
(* Does not hold: the answer to a claim has eight bytes, with the claimer's *)
(* UID in bytes 3 to 6 and the result in byte 7 (CDMP README:206-210).     *)
(* cdmp_id_claim_response_message.h:36-45 writes four, the result in byte  *)
(* 3: whoever claims the same ID takes the answer as its own.              *)
(***************************************************************************)
ClaimAnswerAsDocumented ==
  form = "frame" /\ first[1].message.kind = "ID_CLAIM_RESPONSE" =>
    LET sent == first[1].message
    IN /\ Len(value.data) = 8
       /\ NumberAt(value.data, 4) = sent.claiming_device_uid
       /\ value.data[8] = sent.result
(***************************************************************************)
(* Does not hold: the answer to a status request has the status in byte 3, *)
(* the protocol version in byte 4 and the health in byte 5 (CDMP           *)
(* README:409-415, cdmp_command_response_message.h:46-54).  The code has   *)
(* the result code in byte 3, as in every response, and the three after it *)
(* (:34-43, :68-71).                                                       *)
(***************************************************************************)
StatusAnswerAsDocumented ==
  form = "frame" =>
    LET sent == first[1].message
    IN sent.kind = "COMMAND_RESPONSE" /\ Len(sent.data) = 3
         /\ sent.command_code = ServiceCommandCode["STATUS_REQUEST"]
       => SubSeq(value.data, 4, 6) = sent.data

(***************************************************************************)
(* What the validator says of a unit it refuses: "Unit cannot be longer    *)
(* than 32 characters." (canbus_configuration_validator.cpp:334).  The     *)
(* code measures the name.                                                 *)
(***************************************************************************)
UnitsFit ==
  Held /\ domain = "canbus" =>
    \A bus \in DOMAIN value.channels : \A i \in DOMAIN value.channels[bus].messages :
      \A j \in DOMAIN value.channels[bus].messages[i].signals :
        value.channels[bus].messages[i].signals[j].unit.n <= 32

(***************************************************************************)
(* What is saved is what is read, in values of the types that the readers  *)
(* declare, and a build number never parts from its version.               *)
(***************************************************************************)
SavedInv == TypeOK /\ SavedIsRead /\ BuildBelongs

\* What was accepted can always be saved and loaded again.
AcceptedInv == AcceptedStays /\ BufferFits

(***************************************************************************)
(* What becomes of a document: taken whole and in a workable order, or     *)
(* refused, and then for a reason.                                         *)
(***************************************************************************)
DocumentsAreTaken == []InputsComeFirst /\ RefusedForAReason /\ NothingDropped

(***************************************************************************)
(* The curves pass through the points they were made of, without a step,   *)
(* and the channels they belong to read their own inputs.                  *)
(***************************************************************************)
VoltagesInv == CurveHitsPoints /\ SplineIsSmooth /\ CalibrationInverts /\ ChannelsAreRead
=============================================================================
