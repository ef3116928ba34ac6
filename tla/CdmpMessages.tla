---------------------------- MODULE CdmpMessages ----------------------------
(***************************************************************************)
(* The frames CDMP's messages travel in: what each message's ToCanFrame    *)
(* writes, what the CAN bus makes of a length it has no code for, which    *)
(* service listens on which CAN ID and what its FromCanFrame reads.  A     *)
(* frame's data is a sequence of bytes, counted from 1; a message is a     *)
(* record of its kind and fields.  When frames are sent, lost and answered *)
(* is the matter of CdmpNetwork, CdmpHeartbeats and CdmpCommands.          *)
(***************************************************************************)
EXTENDS Integers, Sequences, SequencesExt

DefaultBaseCanId == 1792   \* 0x700
ManagementOffset == 0
HeartbeatOffset == 1
CommandOffset == 2
CommandResponseOffset == 3
CanId(offset) == DefaultBaseCanId + offset

ManagementMessageType ==
  [ID_CLAIM |-> 1, ID_CLAIM_RESPONSE |-> 2, DISCOVERY_REQUEST |-> 3, DISCOVERY_RESPONSE |-> 4]
ServiceCommandCode ==
  [STATUS_REQUEST |-> 16, RESET_DEVICE |-> 17, GET_CONFIG_CRC |-> 18, GET_CONFIG |-> 19]
LoggingCode == 32          \* USER_COMMAND_CODE_MIN + 0
SuccessCode == 0
-----------------------------------------------------------------------------
Byte(n, i) == (n \div 256 ^ i) % 256
\* Mutant: the third byte is shifted by as much as the second.
BytesRepeated(n) == <<Byte(n, 0), Byte(n, 1), Byte(n, 1), Byte(n, 3)>>
BytesOf(n) == <<Byte(n, 0), Byte(n, 1), Byte(n, 2), Byte(n, 3)>>
NumberAt(frame, i) ==
  frame[i] + 256 * frame[i + 1] + 65536 * frame[i + 2] + 16777216 * frame[i + 3]
From(frame, i) == SubSeq(frame, i, Len(frame))

DiscoveryRequestFrame(m) == <<ManagementMessageType["DISCOVERY_REQUEST"]>> \o BytesOf(m.uid)
ReadDiscoveryRequest(frame) == [kind |-> "DISCOVERY_REQUEST", uid |-> NumberAt(frame, 2)]

DiscoveryResponseFrame(m) ==
  <<ManagementMessageType["DISCOVERY_RESPONSE"], m.device_id>> \o BytesOf(m.uid) \o <<m.device_type>>
ReadDiscoveryResponse(frame) ==
  [kind |-> "DISCOVERY_RESPONSE", device_id |-> frame[2], uid |-> NumberAt(frame, 3),
   device_type |-> frame[7]]

IdClaimFrame(m) ==
  <<ManagementMessageType["ID_CLAIM"], m.claiming_device_id>> \o BytesOf(m.uid)
    \o <<m.device_type, m.protocol_version>>
ReadIdClaim(frame) ==
  [kind |-> "ID_CLAIM", claiming_device_id |-> frame[2], uid |-> NumberAt(frame, 3),
   device_type |-> frame[7], protocol_version |-> frame[8]]

\* The UID of the device that is answered is a field and is not sent, though CDMP
\* README:209 has it in bytes 3 to 6: two devices that claim one ID both take the
\* answer as theirs.
IdClaimResponseFrame(m) ==
  <<ManagementMessageType["ID_CLAIM_RESPONSE"], m.responding_device_id, m.claiming_device_id, m.result>>
ReadIdClaimResponse(frame) ==
  [kind |-> "ID_CLAIM_RESPONSE", responding_device_id |-> frame[2],
   claiming_device_id |-> frame[3], claiming_device_uid |-> 0, result |-> frame[4]]

HeartbeatFrame(m) ==
  <<m.device_id, m.health_status, m.sequence_number>> \o BytesOf(m.capability_flags)
ReadHeartbeat(frame) ==
  [kind |-> "HEARTBEAT", device_id |-> frame[1], health_status |-> frame[2],
   sequence_number |-> frame[3], capability_flags |-> NumberAt(frame, 4)]

CommandRequestFrame(m) == <<m.target_device_id, m.command_code, m.transaction_id>> \o m.data
ReadCommandRequest(frame) ==
  [kind |-> "COMMAND_REQUEST", target_device_id |-> frame[1], command_code |-> frame[2],
   transaction_id |-> frame[3], data |-> From(frame, 4)]

CommandResponseFrame(m) ==
  <<m.source_device_id, m.command_code, m.transaction_id, m.result_code>> \o m.data
ReadCommandResponse(frame) ==
  [kind |-> "COMMAND_RESPONSE", source_device_id |-> frame[1], command_code |-> frame[2],
   transaction_id |-> frame[3], result_code |-> frame[4], data |-> From(frame, 5)]
-----------------------------------------------------------------------------
\* What a device answers to a status request, on line or not.  CDMP README:412-414
\* has status, version and health in bytes 3 to 5, where the result code is in byte 3.
StatusResponse(device, transaction, status, version, health) ==
  [kind |-> "COMMAND_RESPONSE", source_device_id |-> device,
   command_code |-> ServiceCommandCode["STATUS_REQUEST"], transaction_id |-> transaction,
   result_code |-> SuccessCode, data |-> <<status, version, health>>]

\* The application's command that starts or stops logging, and what its
\* handler gets of it: whether to start, or no command.
LoggingData(start) == <<IF start THEN 1 ELSE 0>>
LoggingCommand(data) == IF data = <<>> THEN {} ELSE {data[1] = 1}
LoggingRequest(device, transaction, start) ==
  [kind |-> "COMMAND_REQUEST", target_device_id |-> device, command_code |-> LoggingCode,
   transaction_id |-> transaction, data |-> LoggingData(start)]
-----------------------------------------------------------------------------
\* A message's CAN ID and data, as the services send it.
FrameOf(m) ==
  CASE m.kind = "DISCOVERY_REQUEST" -> [id |-> CanId(ManagementOffset), data |-> DiscoveryRequestFrame(m)]
    [] m.kind = "DISCOVERY_RESPONSE" -> [id |-> CanId(ManagementOffset), data |-> DiscoveryResponseFrame(m)]
    [] m.kind = "ID_CLAIM" -> [id |-> CanId(ManagementOffset), data |-> IdClaimFrame(m)]
    [] m.kind = "ID_CLAIM_RESPONSE" -> [id |-> CanId(ManagementOffset), data |-> IdClaimResponseFrame(m)]
    [] m.kind = "HEARTBEAT" -> [id |-> CanId(HeartbeatOffset), data |-> HeartbeatFrame(m)]
    [] m.kind = "COMMAND_REQUEST" -> [id |-> CanId(CommandOffset), data |-> CommandRequestFrame(m)]
    [] OTHER -> [id |-> CanId(CommandResponseOffset), data |-> CommandResponseFrame(m)]

\* The lengths CAN FD has codes for beyond eight bytes; a classical frame
\* that is longer is refused by the driver.
FdLengths == {12, 16, 20, 24, 32, 48, 64}
LengthOnBus(n) == IF n <= 8 THEN n ELSE CHOOSE l \in FdLengths : l >= n /\ \A k \in FdLengths : k >= n => l <= k
\* Canbus::SendFrame clears the frame before it copies the data into it.
OnBus(type, frame) ==
  IF Len(frame.data) <= 8 \/ type = "CANFD"
  THEN {[frame EXCEPT !.data = [i \in 1 .. LengthOnBus(Len(@)) |-> IF i <= Len(@) THEN @[i] ELSE 0]]}
  ELSE {}

\* The network service's ProcessFrame, by the type in the first byte.
ReadManagement(frame) ==
  CASE frame[1] = ManagementMessageType["DISCOVERY_REQUEST"] -> {ReadDiscoveryRequest(frame)}
    [] frame[1] = ManagementMessageType["DISCOVERY_RESPONSE"] -> {ReadDiscoveryResponse(frame)}
    [] frame[1] = ManagementMessageType["ID_CLAIM"] -> {ReadIdClaim(frame)}
    [] frame[1] = ManagementMessageType["ID_CLAIM_RESPONSE"] -> {ReadIdClaimResponse(frame)}
    [] OTHER -> {}
\* What the handlers registered for the frame's CAN ID read.
Heard(frame) ==
  (IF frame.id = CanId(ManagementOffset) THEN ReadManagement(frame.data) ELSE {})
    \cup (IF frame.id = CanId(HeartbeatOffset) THEN {ReadHeartbeat(frame.data)} ELSE {})
    \cup (IF frame.id = CanId(CommandOffset) THEN {ReadCommandRequest(frame.data)} ELSE {})
    \cup (IF frame.id = CanId(CommandResponseOffset) THEN {ReadCommandResponse(frame.data)} ELSE {})
=============================================================================
