------------------------------ MODULE AdcConfig ------------------------------
(***************************************************************************)
(* The ADC configuration in its four forms, and what its calibration       *)
(* tables do to a reading (AdcCalibrator).  In memory it is [samples,      *)
(* channels], a channel [method, table]; a channel without a calibrator    *)
(* never gets out of a parser.  The document and the CBOR structure hold   *)
(* the same numbers; only the methods are written differently.             *)
(***************************************************************************)
EXTENDS Wire, Interpolation

CONSTANTS SensorMax, AdcMax   \* the voltages of the two base ranges

ValidAdc(config) ==
  /\ config.samples # 0
  /\ \A i \in DOMAIN config.channels : Len(config.channels[i].table) >= 2
Sorted(channel) == [channel EXCEPT !.table = SortedTable(@)]
-----------------------------------------------------------------------------
AdcToJson(config) ==
  IF ~ValidAdc(config) THEN Thrown
  ELSE Ok([samples |-> config.samples,
           channel_configs |->
             Map(LAMBDA c : [interpolation_method |-> c.method,
                             calibration_table |-> SortedTable(c.table)], config.channels)])

AdcDocumentReads(doc) ==
  /\ HasMembers(doc, {"samples", "channel_configs"})
  /\ \A i \in DOMAIN doc.channel_configs :
       HasMembers(doc.channel_configs[i], {"interpolation_method", "calibration_table"})

AdcChannelFromJson(c) ==
  IF Len(c.calibration_table) < 2 THEN Thrown
  ELSE Interpolator(c.interpolation_method, c.calibration_table)
AdcFromJson(doc) ==
  LET channels == MapOk(AdcChannelFromJson, doc.channel_configs)
      config == [samples |-> doc.samples % 65536, channels |-> channels.v]
  IN IF channels.ok /\ ValidAdc(config) THEN Ok(config) ELSE Thrown
-----------------------------------------------------------------------------
AdcToCbor(config, sum) ==
  IF ~ValidAdc(config) THEN Thrown
  ELSE Ok([samples |-> config.samples, sum |-> sum,
           channels |-> Map(LAMBDA c : [method |-> MethodNumber(c.method),
                                        table |-> Some(SortedTable(c.table))],
                            config.channels)])

AdcChannelFromCbor(c) ==
  IF c.method \notin 1 .. 2 \/ c.table = None THEN Thrown
  ELSE Interpolator(InterpolationMethod[c.method + 1], c.table[1])
AdcFromCbor(c) ==
  LET channels == MapOk(AdcChannelFromCbor, c.channels)
      config == [samples |-> c.samples % 65536, channels |-> channels.v]
  IN IF channels.ok /\ ValidAdc(config) THEN Ok(config) ELSE Thrown
-----------------------------------------------------------------------------
EncodeAdcChannel(c) == List(<<Uint(c.method)>> \o OptionalItem(FloatMap, c.table))
EncodeAdc(c) ==
  IF \E i \in DOMAIN c.channels :
       c.channels[i].table # None /\ ~TableEncodes(c.channels[i].table[1])
  THEN Thrown
  ELSE Ok(List(<<Uint(c.samples), List(Map(EncodeAdcChannel, c.channels)), Uint(c.sum)>>))

DecodeAdcChannel(item) ==
  LET c == Members(item, <<Must({"uint"}), May({"map"})>>) IN
  IF ~c.ok THEN Thrown ELSE Ok([method |-> c.v[1], table |-> Map(Pairs, c.v[2])])
DecodeAdc(item) ==
  LET c == Members(item, <<Must({"uint"}), Must({"list"}), Must({"uint"})>>)
      channels == MapOk(DecodeAdcChannel, c.v[2])
  IN IF ~c.ok \/ ~channels.ok THEN Thrown
     ELSE Ok([samples |-> c.v[1], channels |-> channels.v, sum |-> c.v[3]])

SizeOfAdcChannel(c) ==
  IndefiniteArrayStart + SizeOfUint(c.method) + SizeOfOptional(SizeOfTable, c.table)
SizeOfAdc(c) ==
  IndefiniteArrayStart + SizeOfUint(c.samples)
  + IndefiniteArrayStart + SumOver(SizeOfAdcChannel, c.channels) + SizeOfUint(c.sum)
-----------------------------------------------------------------------------
(***************************************************************************)
(* AdcCalibrator: the table turned round, from what the ADC reads for a    *)
(* value to the voltage it stands for.                                     *)
(***************************************************************************)
InverseBaseRange == Points(<<[voltage |-> 0, value |-> 0],
                             [voltage |-> SensorMax, value |-> AdcMax]>>)
BaseRange == Points(<<[voltage |-> 0, value |-> 0],
                      [voltage |-> AdcMax, value |-> SensorMax]>>)
\* What the ADC reads for a voltage; a voltage outside the range has no reading.
AdcReading(voltage) == Linear(InverseBaseRange, Whole(voltage), FALSE)
\* Mutant: the table as it is.
NormalizedNot(table) ==
  [i \in DOMAIN table |->
     [voltage |-> AdcReading(table[i].voltage).v, value |-> Whole(table[i].value)]]
Normalized(table) ==
  [i \in DOMAIN table |->
     [voltage |-> AdcReading(table[i].value).v, value |-> Whole(table[i].voltage)]]
InterpolateToInputRange(reading) == Linear(BaseRange, reading, FALSE)
InterpolateToCalibratedRange(channel, reading) ==
  Interpolate(channel.method, Normalized(channel.table), reading, FALSE)
=============================================================================
