---------------------------- MODULE CdmpNetwork ----------------------------
(***************************************************************************)
(* How the devices of one CAN bus find each other and take device IDs:     *)
(* CdmpNetworkService, the status machine of CdmpDevice, and the service   *)
(* thread and the work queue that run them                                 *)
(* (subsys/cdmp/services/cdmp_network_service.cpp, cdmp_service.cpp,       *)
(* subsys/cdmp/utilities/cdmp_status_machine.cpp).                         *)
(*                                                                         *)
(* Every device has ONE work queue thread.  The CAN handler, the status    *)
(* callbacks and the validation timer all append jobs to it, and a job     *)
(* that sleeps (k_msleep) holds the queue until it is done.  A job is      *)
(* therefore one step up to its first sleep, then one step per sleep.      *)
(***************************************************************************)
EXTENDS Naturals, Sequences, FiniteSets, CdmpStatus

CONSTANTS
  Device,             \* the devices wired to the bus
  Uid,                \* Uid[d]: the unique identifier burnt into d
  Version,            \* Version[d]: the major protocol version d speaks
  MaxId,              \* the largest assignable device ID (254)
  Backoffs,           \* RETRY_BACKOFFS_MS.size() (3)
  MaxBackoffResets,   \* DISCOVERY_MAX_BACKOFF_RESETS (10)
  ClaimAttempts,      \* ID_CLAIM_MAX_ATTEMPTS (10)
  Timely,             \* TRUE: back-off and claim sleeps outlast all traffic
  MaxLosses,          \* bound: sends that miss a receiver, heartbeats lost
  MaxPowerCycles      \* bound: how often devices may lose power

NoUid == 0            \* no entry; CdmpDevice refuses a zero UID
Unassigned == 0       \* CdmpDevice::DEVICE_ID_UNASSIGNED
Id == 1 .. MaxId
UidValue == {Uid[d] : d \in Device}

ASSUME UidAssumption == Uid \in [Device -> Nat \ {NoUid}]
ASSUME VersionAssumption == Version \in [Device -> Nat]
ASSUME SizeAssumption ==
  /\ MaxId \in Nat \ {0}
  /\ Backoffs \in Nat \ {0}
  /\ ClaimAttempts \in Nat \ {0}
  /\ MaxBackoffResets \in Nat
ASSUME BoundAssumption ==
  /\ Timely \in BOOLEAN
  /\ MaxLosses \in Nat
  /\ MaxPowerCycles \in Nat

VARIABLES
  dev,                \* dev[d]: everything device d keeps in RAM
  losses,             \* sends and runs of heartbeats lost so far
  cycles              \* power losses so far

vars == <<dev, losses, cycles>>
-----------------------------------------------------------------------------
(***************************************************************************)
(* Jobs of the work queue: CAN frames wrapped by the frame handler, and    *)
(* the functions the status callbacks and the timer enqueue.               *)
(***************************************************************************)
ClaimResult == {"ACCEPT", "REJECT", "VERSION_INCOMPATIBLE"}
NoResult == "none"

Frame ==
  [type : {"DISCOVERY_REQUEST"}, uid : UidValue]
    \cup [type : {"DISCOVERY_RESPONSE"}, id : Id, uid : UidValue]
    \cup [type : {"ID_CLAIM"}, id : Id, uid : UidValue, version : Nat]
    \cup [type : {"ID_CLAIM_RESPONSE"}, id : Id, result : ClaimResult]

Task == {"StartInitialization", "SendDiscoveryResponse", "SendIdClaim",
         "PeriodicValidation"}
Job == Frame \cup [type : Task]

DiscoveryRequest(d) == [type |-> "DISCOVERY_REQUEST", uid |-> Uid[d]]
DiscoveryResponse(d, id) ==
  [type |-> "DISCOVERY_RESPONSE", id |-> id, uid |-> Uid[d]]
IdClaim(d, id) ==
  [type |-> "ID_CLAIM", id |-> id, uid |-> Uid[d], version |-> Version[d]]
IdClaimResponse(id, result) ==
  [type |-> "ID_CLAIM_RESPONSE", id |-> id, result |-> result]

Sleeper == {"StartInitialization", "SendDiscoveryResponse", "SendIdClaim"}
Idle == "idle"

\* The state of one device.  "thread" is the progress of CdmpService's thread,
\* "sleeping" the job that holds the work queue, "index" its loop variable.
DeviceState ==
  [thread : {"off", "starting", "running"},
   status : Status,
   id : Id \cup {Unassigned},              \* CdmpDevice::device_id_
   lowest : BOOLEAN,                       \* is_lowest_id_on_network_
   table : [Id -> UidValue \cup {NoUid}],  \* network_devices_
   requesting : Seq(UidValue),             \* discovery_requesting_uids_
   answered : BOOLEAN,                     \* discovery_response_received_
   claiming : Id \cup {Unassigned},        \* claiming_device_id_
   result : ClaimResult \cup {NoResult},   \* id_claim_result_
   validating : BOOLEAN,                   \* is_validation_task_running_
   armed : BOOLEAN,                        \* the validation delay is running
   listening : BOOLEAN,                    \* the CAN handler is registered
   queue : Seq(Job),
   sleeping : Sleeper \cup {Idle},
   index : Nat,
   resets : Nat]

PoweredOff ==
  [thread |-> "off", status |-> "OFFLINE", id |-> Unassigned, lowest |-> FALSE,
   table |-> [i \in Id |-> NoUid], requesting |-> <<>>, answered |-> FALSE,
   claiming |-> Unassigned, result |-> NoResult, validating |-> FALSE,
   armed |-> FALSE, listening |-> FALSE, queue |-> <<>>, sleeping |-> Idle,
   index |-> 0, resets |-> 0]

Known(r) == {i \in Id : r.table[i] # NoUid}
Enqueue(r, job) == [r EXCEPT !.queue = Append(@, job)]
Dequeue(r) == [r EXCEPT !.queue = Tail(@)]
\* The places of the jobs of these types in the queue.
Queued(r, types) == {k \in DOMAIN r.queue : r.queue[k].type \in types}
-----------------------------------------------------------------------------
(***************************************************************************)
(* What the handlers do to their own device, one operator per method.      *)
(***************************************************************************)
\* Mutant: the flag is raised and never taken back.
StickyLowest(r) == [r EXCEPT !.lowest = @ \/ \A i \in Known(r) : r.id <= i]
UpdateNetworkDevices(r) == [r EXCEPT !.lowest = \A i \in Known(r) : r.id <= i]

\* Mutant: an addition does not refresh the flag.
AddWithoutRefresh(r, id, uid) ==
  IF id \in Known(r) THEN r ELSE [r EXCEPT !.table[id] = uid]

\* A known ID only has its heartbeat refreshed: its UID is not replaced.
AddOrUpdateDevice(r, id, uid) ==
  IF id \in Known(r) THEN r
  ELSE UpdateNetworkDevices([r EXCEPT !.table[id] = uid])

AvailableId(r) == {i \in Id : i > r.claiming /\ i \notin Known(r)}

\* The cancelled task leaves the queue; a work item is queued at most once.
WithoutValidation(queue) ==
  LET Pending == {k \in DOMAIN queue : queue[k].type = "PeriodicValidation"}
  IN  IF Pending = {} THEN queue
      ELSE LET k == CHOOSE k \in Pending : TRUE
           IN  SubSeq(queue, 1, k - 1) \o SubSeq(queue, k + 1, Len(queue))

\* Mutant: the flag is cleared, the task is not cancelled.
StopWithoutCancel(r) ==
  [r EXCEPT !.validating = FALSE,
            !.table = [i \in Id |-> NoUid],
            !.listening = FALSE]

\* CdmpNetworkService::Stop: cancel the task, clear the table, leave the bus.
Stop(r) ==
  [r EXCEPT !.validating = FALSE,
            !.armed = FALSE,
            !.queue = WithoutValidation(@),
            !.table = [i \in Id |-> NoUid],
            !.listening = FALSE]

StartValidationTask(r) ==
  IF r.validating THEN r
  ELSE Enqueue([r EXCEPT !.validating = TRUE], [type |-> "PeriodicValidation"])

OnDeviceStatusChanged(r) ==
  CASE r.status = "INIT" -> Enqueue(r, [type |-> "StartInitialization"])
    [] r.status = "CLAIMING" -> Enqueue(r, [type |-> "SendIdClaim"])
    [] r.status = "ONLINE" -> StartValidationTask(r)
    [] r.status \in {"VERSION_MISMATCH", "ERROR"} -> Stop(r)
    [] OTHER -> r

\* Setting the status a device has, or one it may not enter, does nothing.
SetStatus(r, status) ==
  IF <<r.status, status>> \in IsValidTransition
  THEN OnDeviceStatusChanged([r EXCEPT !.status = status])
  ELSE r
-----------------------------------------------------------------------------
(***************************************************************************)
(* The bus.  A frame reaches every device whose handler is registered; a   *)
(* lost send (no acknowledgement, a full message queue of four frames)     *)
(* misses some of them.  The CAN thread has the highest priority, so that  *)
(* a frame that arrives is on the work queue at once.                      *)
(***************************************************************************)
Listeners(d) == {e \in Device \ {d} : dev[e].listening}

Send(d, r, frame) ==
  \E missed \in SUBSET Listeners(d) :
    /\ missed # {} => losses < MaxLosses
    /\ losses' = IF missed = {} THEN losses ELSE losses + 1
    /\ dev' = [e \in Device |->
                 IF e = d THEN r
                 ELSE IF e \in Listeners(d) \ missed THEN Enqueue(dev[e], frame)
                 ELSE dev[e]]
    /\ UNCHANGED cycles

Become(d, r) == dev' = [dev EXCEPT ![d] = r] /\ UNCHANGED <<losses, cycles>>

\* Mutant: a sleeping job does not hold the queue.
ReadyAnyway(d, type) ==
  dev[d].queue # <<>> /\ Head(dev[d].queue).type = type

\* The work queue of d is free and its next job has this type.
Ready(d, type) ==
  /\ dev[d].sleeping = Idle
  /\ dev[d].queue # <<>>
  /\ Head(dev[d].queue).type = type

\* With Timely, the back-off and claim sleeps (50 ms and more) end only when
\* no other device still has something to do that is not such a sleep itself.
SleepOver(d) ==
  Timely => \A e \in Device \ {d} :
              \/ dev[e].sleeping \in {"StartInitialization", "SendIdClaim"}
              \/ dev[e].sleeping = Idle /\ dev[e].queue = <<>>
-----------------------------------------------------------------------------
(***************************************************************************)
(* Power and the service thread (CdmpService::ThreadEntry).                *)
(***************************************************************************)
PowerOn(d) ==
  /\ dev[d].thread = "off"
  /\ Become(d, [dev[d] EXCEPT !.thread = "starting", !.listening = TRUE])

StartDiscovery(d) ==
  /\ dev[d].thread = "starting"
  /\ Become(d, SetStatus([dev[d] EXCEPT !.thread = "running"], "INIT"))

\* Power loss: the RAM of the device is gone, the others learn nothing of it.
PowerOff(d) ==
  /\ dev[d].thread # "off"
  /\ cycles < MaxPowerCycles
  /\ cycles' = cycles + 1
  /\ dev' = [dev EXCEPT ![d] = PoweredOff]
  /\ UNCHANGED losses
-----------------------------------------------------------------------------
(***************************************************************************)
(* Discovery.                                                              *)
(***************************************************************************)
Discover(d, r, index, resets) ==
  Send(d, [r EXCEPT !.requesting = <<>>, !.sleeping = "StartInitialization",
                    !.index = index, !.resets = resets], DiscoveryRequest(d))

StartInitialization(d) ==
  LET r == [Dequeue(dev[d]) EXCEPT !.answered = FALSE]
  IN  /\ Ready(d, "StartInitialization")
      /\ IF r.status = "INIT" THEN Discover(d, r, 0, 0) ELSE Become(d, r)

\* How many of the devices heard during this back-off yield to d.
Yielding(d) ==
  Cardinality({k \in DOMAIN dev[d].requesting : Uid[d] > dev[d].requesting[k]})

\* Mutant: a single discovery request.
WakeAfterOneRequest(d) ==
  /\ dev[d].sleeping = "StartInitialization"
  /\ SleepOver(d)
  /\ Become(d, SetStatus([dev[d] EXCEPT !.sleeping = Idle], "CLAIMING"))

WakeInitialization(d) ==
  LET r == [dev[d] EXCEPT !.sleeping = Idle]
      restart == Yielding(d) > 0 /\ r.resets < MaxBackoffResets
      resets == IF r.resets + Yielding(d) < MaxBackoffResets
                THEN r.resets + Yielding(d) ELSE MaxBackoffResets
      index == IF restart THEN 1 ELSE r.index + 1  \* reset to 0, then ++
  IN  /\ dev[d].sleeping = "StartInitialization"
      /\ SleepOver(d)
      /\ IF r.answered \/ index >= Backoffs
         THEN Become(d, SetStatus(r, "CLAIMING"))
         ELSE IF r.status = "INIT" THEN Discover(d, r, index, resets)
         ELSE Become(d, r)

ProcessDiscoveryRequestFrame(d) ==
  /\ Ready(d, "DISCOVERY_REQUEST")
  /\ LET uid == Head(dev[d].queue).uid
     IN  Become(d, Enqueue([Dequeue(dev[d]) EXCEPT !.requesting = Append(@, uid)],
                           [type |-> "SendDiscoveryResponse"]))

\* The reply is built before the stagger sleep and sent after it.
SendDiscoveryResponse(d) ==
  LET r == Dequeue(dev[d])
  IN  /\ Ready(d, "SendDiscoveryResponse")
      /\ Become(d, IF r.status = "ONLINE"
                   THEN [r EXCEPT !.sleeping = "SendDiscoveryResponse"] ELSE r)

WakeDiscoveryResponse(d) ==
  /\ dev[d].sleeping = "SendDiscoveryResponse"
  /\ Send(d, [dev[d] EXCEPT !.sleeping = Idle], DiscoveryResponse(d, dev[d].id))

\* Mutant: the responder is not added to the table.
IgnoreResponder(d) ==
  /\ Ready(d, "DISCOVERY_RESPONSE")
  /\ Become(d, [Dequeue(dev[d]) EXCEPT !.answered = TRUE])

ProcessDiscoveryResponseFrame(d) ==
  /\ Ready(d, "DISCOVERY_RESPONSE")
  /\ LET frame == Head(dev[d].queue)
         r == [Dequeue(dev[d]) EXCEPT !.answered = TRUE]
     IN  Become(d, IF frame.uid = Uid[d] THEN SetStatus(r, "ERROR")
                   ELSE AddOrUpdateDevice(r, frame.id, frame.uid))
-----------------------------------------------------------------------------
(***************************************************************************)
(* Claiming an ID.                                                         *)
(***************************************************************************)
Claim(d, r, attempt) ==
  Send(d, [r EXCEPT !.sleeping = "SendIdClaim", !.index = attempt],
       IdClaim(d, r.claiming))

SendIdClaim(d) ==
  LET r == Dequeue(dev[d])
  IN  /\ Ready(d, "SendIdClaim")
      /\ IF AvailableId(r) = {}
         THEN Become(d, [SetStatus(r, "ERROR") EXCEPT !.claiming = Unassigned])
         ELSE \E id \in AvailableId(r) :
                /\ \A i \in AvailableId(r) : id <= i
                /\ Claim(d, [r EXCEPT !.claiming = id], 0)

GoOnline(r) == SetStatus([r EXCEPT !.id = r.claiming], "ONLINE")

\* What SendIdClaim does once it stops claiming.
ClaimDecided(r) ==
  CASE r.result = "VERSION_INCOMPATIBLE" -> SetStatus(r, "VERSION_MISMATCH")
    [] r.result = "ACCEPT" ->
         SetStatus(UpdateNetworkDevices([r EXCEPT !.id = r.claiming]), "ONLINE")
    [] r.result = "REJECT" -> SetStatus(r, "ERROR")
    [] OTHER -> GoOnline(r)

\* Mutant: claiming_device_id_ is not reset.
KeepClaiming(d) ==
  /\ dev[d].sleeping = "SendIdClaim"
  /\ SleepOver(d)
  /\ Become(d, ClaimDecided([dev[d] EXCEPT !.sleeping = Idle]))
\* Mutant: the attempt is not counted.
ClaimForever(d) ==
  /\ dev[d].sleeping = "SendIdClaim"
  /\ SleepOver(d)
  /\ Claim(d, [dev[d] EXCEPT !.sleeping = Idle], dev[d].index)

WakeIdClaim(d) ==
  LET r == [dev[d] EXCEPT !.sleeping = Idle]
      decided == r.result \in {"VERSION_INCOMPATIBLE", "ACCEPT"}
  IN  /\ dev[d].sleeping = "SendIdClaim"
      /\ SleepOver(d)
      /\ IF decided \/ r.index + 1 >= ClaimAttempts
         THEN Become(d, [ClaimDecided(r) EXCEPT !.claiming = Unassigned])
         ELSE Claim(d, r, r.index + 1)

IsProtocolCompatible(d, version) == Version[d] = version

\* The answer of an online device to a claim, NoResult when it keeps silent.
Verdict(d, frame) ==
  IF dev[d].lowest /\ ~IsProtocolCompatible(d, frame.version)
  THEN "VERSION_INCOMPATIBLE"
  ELSE IF dev[d].id = frame.id THEN "REJECT"
  ELSE IF dev[d].lowest THEN "ACCEPT" ELSE NoResult

\* Mutants: the claimer is filed under the ID of the responder; it is not filed.
FileUnderResponder(d) ==
  /\ Ready(d, "ID_CLAIM")
  /\ LET frame == Head(dev[d].queue)
         verdict == Verdict(d, frame)
         r == Dequeue(dev[d])
     IN  IF dev[d].status # "ONLINE" \/ verdict = NoResult THEN Become(d, r)
         ELSE Send(d, AddOrUpdateDevice(r, dev[d].id, frame.uid),
                   IdClaimResponse(frame.id, verdict))
\* Mutant: a claim is refused in the answer only.
AcceptOnly(d) ==
  /\ Ready(d, "ID_CLAIM")
  /\ LET frame == Head(dev[d].queue)
         verdict == Verdict(d, frame)
         r == Dequeue(dev[d])
     IN  IF dev[d].status # "ONLINE" \/ verdict = NoResult THEN Become(d, r)
         ELSE Send(d, r, IdClaimResponse(frame.id, verdict))

ProcessIdClaimRequestFrame(d) ==
  /\ Ready(d, "ID_CLAIM")
  /\ LET frame == Head(dev[d].queue)
         verdict == Verdict(d, frame)
         r == Dequeue(dev[d])
     IN  IF dev[d].status # "ONLINE" \/ verdict = NoResult THEN Become(d, r)
         ELSE Send(d, IF verdict = "ACCEPT"
                      THEN AddOrUpdateDevice(r, frame.id, frame.uid) ELSE r,
                   IdClaimResponse(frame.id, verdict))

ProcessIdClaimResponseFrame(d) ==
  /\ Ready(d, "ID_CLAIM_RESPONSE")
  /\ LET frame == Head(dev[d].queue)
         r == Dequeue(dev[d])
     IN  Become(d, IF r.status # "ONLINE" /\ frame.id = r.claiming
                   THEN [r EXCEPT !.result = frame.result] ELSE r)
-----------------------------------------------------------------------------
(***************************************************************************)
(* Periodic validation.                                                    *)
(***************************************************************************)
\* An entry is stale after 9 s without a heartbeat: its owner is gone, or its
\* heartbeats were lost, which counts as one of the losses.
Owns(e, i) == (dev[e].status = "ONLINE" /\ dev[e].id = i) \/ dev[e].claiming = i
Alive(i) == \E e \in Device : Owns(e, i)

Forget(ids) ==
  /\ (\E i \in ids : Alive(i)) => losses < MaxLosses
  /\ losses' = IF \E i \in ids : Alive(i) THEN losses + 1 ELSE losses

RemoveDevices(r, ids) ==
  [r EXCEPT !.table = [i \in Id |-> IF i \in ids THEN NoUid ELSE @[i]]]

ProcessPeriodicValidation(d) ==
  LET r == Dequeue(dev[d])
  IN  /\ Ready(d, "PeriodicValidation")
      /\ IF ~r.validating THEN Become(d, r)
         ELSE \E stale \in SUBSET Known(r) :
                /\ Forget(stale)
                /\ dev' = [dev EXCEPT ![d] =
                             [UpdateNetworkDevices(RemoveDevices(r, stale))
                                EXCEPT !.armed = TRUE]]
                /\ UNCHANGED cycles

ValidationDue(d) ==
  /\ dev[d].armed
  /\ Become(d, Enqueue([dev[d] EXCEPT !.armed = FALSE],
                       [type |-> "PeriodicValidation"]))
-----------------------------------------------------------------------------
Init ==
  /\ dev = [d \in Device |-> PoweredOff]
  /\ losses = 0
  /\ cycles = 0

\* One step of the work queue thread of d.
WorkQueueStep(d) ==
  \/ StartInitialization(d) \/ WakeInitialization(d)
  \/ ProcessDiscoveryRequestFrame(d) \/ ProcessDiscoveryResponseFrame(d)
  \/ SendDiscoveryResponse(d) \/ WakeDiscoveryResponse(d)
  \/ SendIdClaim(d) \/ WakeIdClaim(d)
  \/ ProcessIdClaimRequestFrame(d) \/ ProcessIdClaimResponseFrame(d)
  \/ ProcessPeriodicValidation(d)

Background(d) ==
  PowerOff(d) \/ StartDiscovery(d) \/ WorkQueueStep(d) \/ ValidationDue(d)

Next == \E d \in Device : PowerOn(d) \/ Background(d)

Spec == Init /\ [][Next]_vars

\* Zephyr runs every ready thread and expires every timeout.
Fairness ==
  \A d \in Device : /\ WF_vars(StartDiscovery(d))
                    /\ WF_vars(WorkQueueStep(d))
                    /\ WF_vars(ValidationDue(d))

FairSpec == Spec /\ Fairness

\* The bring-up the protocol is used with: a device is switched on only when
\* those already running have nothing left to do.
Settled ==
  \A d \in Device : /\ dev[d].thread # "starting"
                    /\ dev[d].sleeping = Idle
                    /\ dev[d].queue = <<>>

OneByOneSpec ==
  Init /\ [][\E d \in Device : (Settled /\ PowerOn(d)) \/ Background(d)]_vars
-----------------------------------------------------------------------------
(***************************************************************************)
(* Properties.                                                             *)
(***************************************************************************)
TypeOK ==
  /\ dev \in [Device -> DeviceState]
  /\ losses \in Nat
  /\ cycles \in Nat

Online(d) == dev[d].status = "ONLINE"
Knows(d, e) == dev[d].table[dev[e].id] = Uid[e]

\* No answer to an ID claim ever takes effect.  id_claim_result_ is written by
\* ProcessIdClaimResponseFrame, which needs the work queue that SendIdClaim
\* holds until it has gone online and has reset claiming_device_id_.
NoAnswerCounts == \A d \in Device : dev[d].result = NoResult

\* What a device claims stays the lowest ID its own table leaves free until the
\* claim is decided (CDMP README:153: "Select lowest available ID, filling gaps"):
\* no answer, claim or validation handled in between changes the table under it.
ClaimsLowestFree ==
  \A d \in Device : dev[d].sleeping = "SendIdClaim" =>
    /\ dev[d].claiming \notin Known(dev[d])
    /\ \A i \in Id : i < dev[d].claiming => i \in Known(dev[d])

\* Does not hold, though CDMP README:151 says "If no responses received, retry
\* with backoff", and cdmp_network_service.cpp:143 breaks on a response: after
\* one, no further request is sent.  The response waits in the queue behind the
\* job that sends the requests, so that the test at :143 never sees it.
AnswerEndsDiscovery ==
  [][\A d \in Device :
       /\ dev[d].sleeping = "StartInitialization"
       /\ Queued(dev[d], {"DISCOVERY_RESPONSE"}) # {}
       => ~(dev'[d].sleeping = "StartInitialization" /\ dev'[d].index > dev[d].index)]_vars

\* Once an online device has validated its table, is_lowest_id_on_network_ says
\* exactly whether its ID is at most every ID in the table: additions refresh
\* the flag, and RemoveDevice (which does not) runs only before a refresh.
LowestFlagExact ==
  \A d \in Device : dev[d].armed =>
    (dev[d].lowest <=> \A i \in Known(dev[d]) : dev[d].id <= i)

\* A network service that was stopped by an error stays stopped: no handler, no
\* timer and no queued validation are left behind by the jobs still queued.
StoppedStaysStopped ==
  \A d \in Device : dev[d].status \in {"ERROR", "VERSION_MISMATCH"} =>
    /\ ~dev[d].listening /\ ~dev[d].validating /\ ~dev[d].armed
    /\ \A k \in DOMAIN dev[d].queue : dev[d].queue[k].type # "PeriodicValidation"

\* Every table entry names a device that took or is claiming that ID.  It holds
\* while no device loses power: entries are never rewritten.
TableTruthful ==
  \A d \in Device : \A i \in Known(dev[d]) :
    \E e \in Device : /\ Uid[e] = dev[d].table[i]
                      /\ i \in {dev[e].id, dev[e].claiming}

\* Two online devices never have the same ID.
UniqueIds ==
  \A d, e \in Device : d # e /\ Online(d) /\ Online(e) => dev[d].id # dev[e].id

\* When the network is at rest, of two online devices the one that came later
\* knows the other, unless a frame was lost.  The one with the lowest ID knows
\* everybody, unless a device lost power, whose successor it may not hear.
LaterKnowsEarlier ==
  Settled /\ losses = 0 => \A d, e \in Device :
    d # e /\ Online(d) /\ Online(e) => Knows(d, e) \/ Knows(e, d)
LowestKnowsAll ==
  Settled /\ losses = 0 /\ cycles = 0 => \A d, e \in Device :
    d # e /\ Online(d) /\ Online(e) /\ dev[d].lowest => Knows(d, e)

\* At rest at most one online device takes itself for the lowest, with no frame
\* lost and at most one loss of power: a second one can leave two.
OneLowest ==
  Settled /\ losses = 0 /\ cycles <= 1 => \A d, e \in Device :
    Online(d) /\ Online(e) /\ dev[d].lowest /\ dev[e].lowest => d = e

\* What the devices know of each other when the network is at rest: of two, the
\* later one knows the earlier; the lowest knows all; and one is the lowest.
KnowledgeInv == LaterKnowsEarlier /\ LowestKnowsAll /\ OneLowest

\* A device in ERROR has no transmission under way.
ErrorIsSilent == \A d \in Device : dev[d].status = "ERROR" => dev[d].sleeping = Idle

\* A device that is switched on comes to an end: online, or in error.
JoinTerminates ==
  \A d \in Device : dev[d].thread = "starting" ~>
    dev[d].status \in {"ONLINE", "ERROR"} \/ dev[d].thread = "off"
-----------------------------------------------------------------------------
(***************************************************************************)
(* The inductive invariant.  It is about one device at a time: a device    *)
(* learns of the others through the frames in its queue, whose contents    *)
(* TypeOK bounds.                                                          *)
(***************************************************************************)
JoinTask == {"StartInitialization", "SendIdClaim"}

\* What the sleeping job implies, and where the results of a claim can be.
SleepInv(r) ==
  /\ r.result = NoResult
  /\ r.claiming # Unassigned <=> r.sleeping = "SendIdClaim"
  /\ r.sleeping = "StartInitialization" =>
       r.status = "INIT" /\ ~r.answered /\ r.requesting = <<>> /\ r.index < Backoffs
  /\ r.sleeping = "SendDiscoveryResponse" => r.status = "ONLINE"
  /\ r.sleeping = "SendIdClaim" => r.status \in {"CLAIMING", "ERROR"}
  /\ r.status = "ONLINE" => r.id # Unassigned

\* Joining is one thread of control: at most one of its jobs is queued or asleep.
JoinInv(r) ==
  /\ \A j, k \in Queued(r, JoinTask) : j = k
  /\ r.status \in {"OFFLINE", "ONLINE"} \/ r.sleeping \in JoinTask =>
       Queued(r, JoinTask) = {}
  /\ Queued(r, {"SendIdClaim"}) # {} => r.status \in {"CLAIMING", "ERROR"}
  /\ r.thread # "running" => /\ r.status \in {"OFFLINE", "ERROR"}
                             /\ r.sleeping = Idle
                             /\ Queued(r, JoinTask) = {}
  /\ r.thread = "off" => r.status = "OFFLINE" /\ r.queue = <<>> /\ ~r.listening

\* The validation task is queued, delayed or cancelled, never two of these.
ValidationInv(r) ==
  /\ r.validating <=> r.status = "ONLINE"
  /\ \A j, k \in Queued(r, {"PeriodicValidation"}) : j = k
  /\ r.armed => r.validating
  /\ r.armed \/ ~r.validating => Queued(r, {"PeriodicValidation"}) = {}
  /\ r.armed => (r.lowest <=> \A i \in Known(r) : r.id <= i)
  /\ r.status \in {"ERROR", "VERSION_MISMATCH"} => ~r.listening

InductiveInv ==
  TypeOK /\ \A d \in Device :
              SleepInv(dev[d]) /\ JoinInv(dev[d]) /\ ValidationInv(dev[d])
=============================================================================
