--------------------------------- MODULE Adc ---------------------------------
(***************************************************************************)
(* AdcManager and its ADCs: which input a channel of the configuration is, *)
(* and what a reading of it is made of.  A board is a sequence of ADCs, an *)
(* ADC a sequence of channels as the device tree describes them: [pin,     *)
(* reference (in mV, 0 if there is none), internal (the reference comes    *)
(* from the ADC), ready (it can be set up)].  Channels of the manager      *)
(* count from 0, positions in a sequence from 1.                           *)
(***************************************************************************)
EXTENDS Wire

CONSTANTS
  Boards,
  InternalReference,    \* adc_ref_internal, 0 if the ADC has none
  Resolution            \* bits of a raw value

\* An ADC as its constructor leaves it.
NewAdc(channels) ==
  [channels |-> channels, references |-> Map(LAMBDA c : c.reference, channels),
   samples |-> 0, sequences |-> 0]

(***************************************************************************)
(* Initialize goes through the channels and stops at the first one that    *)
(* cannot be set up or has no reference; nobody asks for its result.       *)
(***************************************************************************)
Reference(c) == IF c.internal THEN InternalReference ELSE c.reference
Stops(c) == ~c.ready \/ Reference(c) = 0
InitializeAdc(adc) ==
  LET reached(i) == adc.channels[i].ready /\ \A j \in 1 .. i - 1 : ~Stops(adc.channels[j]) IN
  [adc EXCEPT !.references = [i \in DOMAIN @ |->
     IF reached(i) THEN Reference(adc.channels[i]) ELSE @[i]]]

\* Adc::UpdateConfiguration: one sequence for every channel.
UpdateAdc(adc, samples) ==
  [adc EXCEPT !.samples = samples, !.sequences = Len(adc.channels)]

(***************************************************************************)
(* The mean of the samples, in mV: `lows` samples are raw[1], the others   *)
(* raw[2].  One sample that fails makes the reading 0.                     *)
(***************************************************************************)
Millivolts(reference, raw) == (raw * reference) \div 2 ^ Resolution
ReadChannel(adc, channel, raw, lows, failed) ==
  IF failed > 0 THEN 0
  ELSE Millivolts(adc.references[channel + 1],
                  (lows * raw[1] + (adc.samples - lows) * raw[2]) \div adc.samples)
-----------------------------------------------------------------------------
\* The manager: constructor and Initialize; no configuration yet.
NewManager(board) == [adcs |-> Map(LAMBDA c : InitializeAdc(NewAdc(c)), board), config |-> None]

UpdateSamplesCount(m, samples) ==
  [m EXCEPT !.adcs = Map(LAMBDA adc : UpdateAdc(adc, samples), @)]
UpdateConfiguration(m, config) ==
  UpdateSamplesCount([m EXCEPT !.config = Some(config)], config.samples)
\* Mutant: the samples of the calibration stay.
ResetSamplesCountNot(m) == m
ResetSamplesCount(m) == UpdateSamplesCount(m, m.config[1].samples)

GetChannelCount(m) == SumOver(LAMBDA adc : Len(adc.channels), m.adcs)
IsChannelValid(m, channel) ==
  /\ m.config # None
  /\ channel >= 0
  /\ channel < Len(m.config[1].channels)
  /\ channel < GetChannelCount(m)

\* The ADC a channel is on and its index there, looked for from the first ADC.
\* Mutant: the channels of the ADCs passed by are added, as AdcEmulatorManager does.
GetAdcForChannelAdds(m, channel) ==
  LET From[k \in 1 .. Len(m.adcs), index \in 0 .. channel + GetChannelCount(m)] ==
        IF index < Len(m.adcs[k].channels) THEN Some(<<k, index>>)
        ELSE IF k = Len(m.adcs) THEN None
        ELSE From[k + 1, index + Len(m.adcs[k].channels)]
  IN IF IsChannelValid(m, channel) THEN From[1, channel] ELSE None
GetAdcForChannel(m, channel) ==
  LET From[k \in 1 .. Len(m.adcs), index \in 0 .. channel] ==
        IF index < Len(m.adcs[k].channels) THEN Some(<<k, index>>)
        ELSE IF k = Len(m.adcs) THEN None
        ELSE From[k + 1, index - Len(m.adcs[k].channels)]
  IN IF IsChannelValid(m, channel) THEN From[1, channel] ELSE None

\* What the reader of a channel gives: GetChannelReader and the reader's call.
ReadingOf(m, channel, raw, lows, failed) ==
  LET at == GetAdcForChannel(m, channel)[1] IN
  ReadChannel(m.adcs[at[1]], at[2], raw, lows, failed)

\* AdcConfigurationManager::CreateDefaultConfiguration, voltages in mV.
DefaultTable ==
  <<[voltage |-> 501, value |-> 469], [voltage |-> 1000, value |-> 968],
    [voltage |-> 2000, value |-> 1970], [voltage |-> 3002, value |-> 2980],
    [voltage |-> 4003, value |-> 4010], [voltage |-> 5000, value |-> 5000]>>
DefaultAdc(m) ==
  [samples |-> 40,
   channels |-> [i \in 1 .. GetChannelCount(m) |-> [method |-> "LINEAR", table |-> DefaultTable]]]
=============================================================================
