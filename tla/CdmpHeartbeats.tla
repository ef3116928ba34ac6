---------------------------- MODULE CdmpHeartbeats ----------------------------
(***************************************************************************)
(* CDMP heartbeats (subsys/cdmp/services/cdmp_heartbeat_service.cpp): the  *)
(* task that a device on the bus sends its heartbeats from, as the status  *)
(* of the device and the owner of the service start and stop it, and the   *)
(* entry of that device in the table of a peer, which ages, is refreshed   *)
(* by heartbeats and removed by the peer's periodic validation.            *)
(*                                                                         *)
(* The status changes come from the network service (module CdmpNetwork),  *)
(* whose jobs run on the same work queue; here a job is one step that may  *)
(* come whenever the queue is idle.  Time passes in whole units, only when *)
(* the queue is idle, and never past the next timer.                       *)
(***************************************************************************)
EXTENDS Naturals, WorkQueue, CdmpStatus

CONSTANTS
  Interval,       \* HEARTBEAT_INTERVAL_MS
  Timeout,        \* HEARTBEAT_TIMEOUT_MS
  Validation,     \* NETWORK_VALIDATION_INTERVAL_MS
  Staggers,       \* the staggered delays a device may have
  MaxLosses,      \* bound: heartbeats lost on the bus
  MaxToggles      \* bound: calls of SetHeartbeatEnabled

\* The constants of the code: an interval of 3000 ms, a timeout of three of them and
\* delays of 5 ms for each of at most 254 devices with a lower ID.
ASSUME TimingAssumption ==
  /\ Interval \in Nat \ {0} /\ Timeout \in Nat /\ Validation \in Nat \ {0}
  /\ Staggers \subseteq Nat /\ Staggers # {}
  /\ \A k \in Staggers : 2 * (Interval + k) <= Timeout
  /\ 3 * Interval <= Timeout
  /\ MaxLosses \in Nat /\ MaxToggles \in Nat

VARIABLES
  status,       \* of the device
  enabled,      \* heartbeat_enabled_
  running,      \* is_heartbeat_task_running_
  registered,   \* the handler of the service is in the table of the bus
  started,      \* the service thread has started the service
  wq,           \* the work queue of the device
  sent,         \* the running item has sent, or has found heartbeats disabled
  timer,        \* time until the heartbeat task is due, when it is delayed
  plan,         \* what is left of a call of Stop
  powered,      \* the device has power
  late,         \* what a stopped service may still be doing, and why
  known,        \* the peer has an entry for the device
  age,          \* GetLastHeartbeatDeltaMs of that entry
  check,        \* time until the peer validates its table
  lost,         \* heartbeats lost since the entry was refreshed
  staggered,    \* a delay since the entry was refreshed was longer than Interval
  losses,       \* heartbeats lost in all
  toggles

device == <<status, enabled, running, registered, started, wq, sent, timer, plan,
            powered, late, toggles>>
peer == <<known, age, check, lost, staggered, losses>>
vars == <<device, peer>>

Heartbeat == <<"heartbeat">>
QueueIdle == wq.running = NoItem /\ wq.fifo = <<>>

Init ==
  /\ status = "OFFLINE"
  /\ enabled = TRUE /\ running = FALSE /\ registered = FALSE /\ started = "no"
  /\ wq = EmptyQueue /\ sent = FALSE /\ timer = 0
  /\ plan = <<>> /\ powered = TRUE /\ late = {}
  /\ known = FALSE /\ age = 0 /\ check = Validation /\ lost = 0 /\ staggered = FALSE
  /\ losses = 0 /\ toggles = 0

(***************************************************************************)
(* Starting and stopping.                                                  *)
(***************************************************************************)
\* Mutant: the mark of the task is set whether or not the task is scheduled.
StartHeartbeatTaskMarks(to) ==
  /\ running' = TRUE
  /\ wq' = IF enabled /\ ~running /\ to = "ONLINE" THEN Schedule(wq, Heartbeat, FALSE) ELSE wq

\* in the status to
StartHeartbeatTask(to) ==
  IF enabled /\ ~running /\ to = "ONLINE"
  THEN running' = TRUE /\ wq' = Schedule(wq, Heartbeat, FALSE)
  ELSE UNCHANGED <<running, wq>>

\* The service thread: RegisterCanHandlers and StartHeartbeatTask of every
\* service, and then StartDiscovery.  Frames are heard in between.
Start ==
  /\ powered /\ started = "no" /\ plan = <<>>
  /\ started' = "services" /\ registered' = TRUE
  /\ StartHeartbeatTask(status)
  /\ UNCHANGED <<status, enabled, sent, timer, plan, powered, late, toggles, peer>>

StartDiscovery ==
  /\ powered /\ started = "services"
  /\ started' = "discovery"
  /\ status' = IF <<status, "INIT">> \in IsValidTransition THEN "INIT" ELSE status
  /\ late' = IF status = "ERROR" THEN late \cup {"error"} ELSE late
  /\ UNCHANGED <<enabled, running, registered, wq, sent, timer, plan, powered,
                 toggles, peer>>

\* Mutant: whatever is not online stops the service.
StopsUnlessOnline(to) == to # "ONLINE"

\* the statuses in which OnDeviceStatusChanged stops the service
Stops(to) == to \in {"VERSION_MISMATCH", "ERROR"}

\* A job of the network service sets the status, which calls
\* OnDeviceStatusChanged on the work queue: there is nothing to wait for there.
\* Nothing in the code leads out of an error or a version mismatch, or offline.
\* A device that comes online, its claim filed, is in the table of the peer; a
\* lost claim leaves it out.
StatusChanges(to) ==
  /\ powered /\ started # "no" /\ QueueIdle
  /\ <<status, to>> \in IsValidTransition /\ to # "OFFLINE"
  /\ to = "INIT" => status = "CLAIMING"
  /\ status' = to
  /\ IF to = "ONLINE"
     THEN /\ StartHeartbeatTask(to)
          /\ late' = IF plan = <<>> /\ "stopped" \notin late THEN late ELSE late \cup {"online"}
          /\ \/ known' = TRUE /\ age' = 0 /\ lost' = 0 /\ staggered' = FALSE
             \/ UNCHANGED <<known, age, lost, staggered>>
          /\ UNCHANGED <<registered, timer, check, losses>>
     ELSE /\ IF Stops(to)
             THEN /\ running' = FALSE /\ registered' = FALSE
                  /\ wq' = Cancel(wq, Heartbeat) /\ timer' = 0
             ELSE UNCHANGED <<running, registered, wq, timer>>
          /\ UNCHANGED <<late, peer>>
  /\ UNCHANGED <<enabled, started, sent, plan, powered, toggles>>

\* Stop of the service on another thread, from CdmpService::Stop; the call that
\* joins the service thread does not return after it.
StopCalled ==
  /\ powered /\ started # "no" /\ plan = <<>> /\ "stopped" \notin late
  /\ plan' = <<"mark", "cancel", "wait", "unregister">>
  /\ UNCHANGED <<status, enabled, running, registered, started, wq, sent, timer,
                 powered, late, toggles, peer>>

Step(step) == powered /\ plan # <<>> /\ Head(plan) = step /\ plan' = Tail(plan)

StopMarks ==
  /\ Step("mark")
  /\ running' = FALSE
  /\ UNCHANGED <<status, enabled, registered, started, wq, sent, timer, powered,
                 late, toggles, peer>>

\* Mutant: the task is not cancelled.
StopCancelsNothing ==
  /\ Step("cancel")
  /\ late' = late \cup {"stopped"}
  /\ UNCHANGED <<status, enabled, running, registered, started, wq, sent, timer,
                 powered, toggles, peer>>

\* A handler that is running when it is cancelled schedules itself again
StopCancels ==
  /\ Step("cancel")
  /\ wq' = Cancel(wq, Heartbeat)
  /\ timer' = 0
  /\ late' = late \cup {"stopped"}
               \cup (IF wq.running = Heartbeat THEN {"handler"} ELSE {})
               \cup (IF running THEN {"online"} ELSE {})
  /\ UNCHANGED <<status, enabled, running, registered, started, sent, powered,
                 toggles, peer>>

StopWaits ==
  /\ Step("wait") /\ ~CancelWaits(wq, Heartbeat)
  /\ UNCHANGED <<status, enabled, running, registered, started, wq, sent, timer,
                 powered, late, toggles, peer>>

StopUnregisters ==
  /\ Step("unregister")
  /\ registered' = FALSE
  /\ UNCHANGED <<status, enabled, running, started, wq, sent, timer, powered, late,
                 toggles, peer>>

SetHeartbeatEnabled ==
  /\ powered /\ toggles < MaxToggles
  /\ toggles' = toggles + 1
  /\ enabled' = ~enabled
  /\ UNCHANGED <<status, running, registered, started, wq, sent, timer, plan,
                 powered, late, peer>>

(***************************************************************************)
(* ProcessPeriodicHeartbeat, and the heartbeat at the peer.                *)
(***************************************************************************)
StartItem ==
  /\ powered /\ wq.running = NoItem /\ wq.fifo # <<>>
  /\ wq' = Take(wq)
  /\ sent' = FALSE
  /\ UNCHANGED <<status, enabled, running, registered, started, timer, plan, powered,
                 late, toggles, peer>>

\* Mutant: a heartbeat of an unknown device refreshes nothing and so does one of
\* a known device.
HeartbeatArrivesUnread == UNCHANGED peer

\* UpdateDeviceFromHeartbeat of the peer: an unknown device stays unknown
HeartbeatArrives ==
  /\ age' = 0 /\ lost' = 0 /\ staggered' = FALSE
  /\ UNCHANGED <<known, check, losses>>

HeartbeatIsLost ==
  /\ losses < MaxLosses
  /\ losses' = losses + 1
  /\ lost' = IF known THEN lost + 1 ELSE 0
  /\ UNCHANGED <<known, age, check, staggered>>

SendHeartbeat ==
  /\ powered /\ wq.running = Heartbeat /\ ~sent
  /\ sent' = TRUE
  /\ IF enabled THEN HeartbeatArrives \/ HeartbeatIsLost ELSE UNCHANGED peer
  /\ UNCHANGED <<status, enabled, running, registered, started, wq, timer, plan,
                 powered, late, toggles>>

\* Mutant: the interval is counted twice.
DelayTwice(k) == 2 * Interval + k

Delay(k) == Interval + k

\* Mutant: the handler does not schedule itself again.
HandlerEndsOnce ==
  /\ powered /\ wq.running = Heartbeat /\ sent
  /\ wq' = Retire(wq)
  /\ sent' = FALSE
  /\ UNCHANGED <<status, enabled, running, registered, started, timer, plan, powered,
                 late, toggles, peer>>

\* The handler ends as heartbeats are enabled then
HandlerEnds ==
  /\ powered /\ wq.running = Heartbeat /\ sent
  /\ \E k \in Staggers :
       /\ wq' = Retire(TaskDone(wq, Heartbeat, enabled))
       /\ timer' = IF enabled THEN Delay(k) ELSE timer
       /\ staggered' = (staggered \/ k > 0)
  /\ sent' = FALSE
  /\ UNCHANGED <<status, enabled, running, registered, started, plan, powered,
                 late, toggles, known, age, check, lost, losses>>

(***************************************************************************)
(* Time, and the peer's validation.                                        *)
(***************************************************************************)
\* Mutant: the age of an entry is compared with three timeouts.
RemoveOfflineDevicesLate(a) == known /\ a <= 3 * Timeout

\* whether an entry of age a stays
RemoveOfflineDevices(a) == known /\ a <= Timeout

\* Mutant: an entry that stays is taken for one that was heard.
PeerValidatesRefreshes ==
  /\ check = 0
  /\ check' = Validation
  /\ known' = RemoveOfflineDevices(age)
  /\ age' = 0
  /\ lost' = IF known' THEN lost ELSE 0
  /\ UNCHANGED <<device, staggered, losses>>

PeerValidates ==
  /\ check = 0
  /\ check' = Validation
  /\ known' = RemoveOfflineDevices(age)
  /\ age' = IF known' THEN age ELSE 0
  /\ lost' = IF known' THEN lost ELSE 0
  /\ UNCHANGED <<device, staggered, losses>>

TimerExpires ==
  /\ powered /\ Heartbeat \in wq.delayed /\ timer = 0
  /\ wq' = Expire(wq, Heartbeat)
  /\ UNCHANGED <<status, enabled, running, registered, started, sent, timer, plan,
                 powered, late, toggles, peer>>

Tick ==
  /\ ~powered \/ QueueIdle
  /\ check > 0
  /\ Heartbeat \in wq.delayed /\ powered => timer > 0
  /\ LET d == IF Heartbeat \in wq.delayed /\ powered /\ timer < check THEN timer ELSE check
     IN /\ check' = check - d
        /\ timer' = IF Heartbeat \in wq.delayed /\ powered THEN timer - d ELSE timer
        /\ age' = IF known THEN age + d ELSE 0
  /\ UNCHANGED <<status, enabled, running, registered, started, wq, sent, plan,
                 powered, late, known, lost, staggered, losses, toggles>>

PowerLoss ==
  /\ powered
  /\ powered' = FALSE
  /\ UNCHANGED <<status, enabled, running, registered, started, wq, sent, timer,
                 plan, late, toggles, peer>>

Work == StartItem \/ SendHeartbeat \/ HandlerEnds
StopStep == StopMarks \/ StopCancels \/ StopWaits \/ StopUnregisters

Next ==
  \/ Start \/ StartDiscovery \/ \E to \in Status : StatusChanges(to)
  \/ StopCalled \/ StopStep \/ SetHeartbeatEnabled
  \/ Work \/ TimerExpires \/ Tick \/ PeerValidates \/ PowerLoss

\* The work queue, the timers and the clock go on; a thread that stops the
\* service gets to its next step.
FairSpec ==
  /\ Init /\ [][Next]_vars
  /\ WF_vars(Work) /\ WF_vars(TimerExpires) /\ WF_vars(StopStep)
  /\ WF_vars(Tick) /\ WF_vars(PeerValidates)

(***************************************************************************)
(* Properties.                                                             *)
(***************************************************************************)
\* the call of Stop, and what is left of it after each step
StopPlans ==
  {<<"mark", "cancel", "wait", "unregister">>, <<"cancel", "wait", "unregister">>,
   <<"wait", "unregister">>, <<"unregister">>, <<>>}

\* a queue that has one item, which waits once at most
HeartbeatQueue ==
  [fifo : {<<>>, <<Heartbeat>>}, running : {NoItem, Heartbeat},
   delayed : SUBSET {Heartbeat}, cancelling : SUBSET {Heartbeat},
   tasks : {{}}, completed : {{}}]

TypeOK ==
  /\ status \in Status
  /\ enabled \in BOOLEAN /\ running \in BOOLEAN /\ registered \in BOOLEAN
  /\ started \in {"no", "services", "discovery"} /\ sent \in BOOLEAN /\ powered \in BOOLEAN
  /\ wq \in HeartbeatQueue
  /\ timer \in UNION {0..Delay(k) : k \in Staggers}
  /\ plan \in StopPlans
  /\ late \subseteq {"stopped", "handler", "online", "error"}
  /\ known \in BOOLEAN /\ age \in Nat /\ check \in 0..Validation
  /\ lost \in 0..MaxLosses /\ staggered \in BOOLEAN /\ losses \in 0..MaxLosses /\ toggles \in 0..MaxToggles

\* A service that has been stopped sends no more, unless Stop found the handler
\* running, which schedules itself again, or the device came online during or
\* after the call.
StoppedIsSilent ==
  "stopped" \in late /\ late \subseteq {"stopped", "error"} => ~Busy(wq, Heartbeat)

\* On a service nobody stops, a task that is running or due has its mark, however
\* often heartbeats are disabled and enabled; and as long as they never are, the
\* mark has its task.
MarkIsTrue ==
  plan = <<>> /\ late = {} =>
    /\ Busy(wq, Heartbeat) => running
    /\ toggles = 0 /\ running => Busy(wq, Heartbeat)

\* Does not hold: an online device that heartbeats are enabled for has a task that
\* sends them.  The handler that finds them disabled ends the task and leaves its
\* mark set (cdmp_heartbeat_service.cpp:131-145); SetHeartbeatEnabled (:126) starts
\* no other, so that heartbeats enabled again stay away.
EnabledSends ==
  status = "ONLINE" /\ enabled /\ plan = <<>> /\ late = {} => Busy(wq, Heartbeat)

\* A device that is online hears the heartbeats of the others, unless an error
\* came before its discovery started, which then goes on with the handlers gone.
OnlineHears == status = "ONLINE" /\ plan = <<>> /\ late = {} => registered

\* The reasons besides lost heartbeats why a device may be silent: its task was
\* stopped, disabled or without power, or it is not online.
Silent == ~powered \/ late # {} \/ plan # <<>> \/ toggles > 0 \/ status # "ONLINE"

\* The peer forgets a device only after three heartbeats in a row have not come, or
\* two if one of the delays since the last was staggered, or a silent one.
ForgottenOnlyIfSilent ==
  [][known /\ ~known' => lost >= 3 \/ (lost = 2 /\ staggered) \/ Silent]_vars

\* Does not hold, though CDMP README:280 says "missing 3 consecutive = presumed
\* offline": the delays are staggered on top of the interval, the timeout is three
\* intervals exactly (constants.h:14), so that after two lost heartbeats the third
\* can come after a validation that finds the entry too old.
ForgottenAfterThree == [][known /\ ~known' => lost >= 3 \/ Silent]_vars

\* No entry is older than a timeout and one period of the validation.
ForgottenInTime == known => age <= Timeout + Validation

\* A device without power is forgotten.
DeadIsForgotten == ~powered ~> ~known

\* A device that is online and stays so, with heartbeats never disabled, sends
\* again and again.
SendsForEver ==
  status = "ONLINE" /\ late = {} /\ plan = <<>>
    ~> sent \/ ~powered \/ toggles > 0 \/ plan # <<>> \/ late # {} \/ status # "ONLINE"

\* The heartbeat task agrees with what the service knows of it: silent when it is
\* stopped, marked as running when it runs, its handler there when it is online.
TaskInv == TypeOK /\ StoppedIsSilent /\ MarkIsTrue /\ OnlineHears

\* The peer's table: an entry goes only when the device was silent, and never grows
\* older than it may.
ForgottenRightly == ForgottenOnlyIfSilent /\ []ForgottenInTime

\* Nothing stalls: who is online sends again and again, and who is gone is forgotten.
NothingStalls == SendsForEver /\ DeadIsForgotten

(***************************************************************************)
(* The inductive invariant.                                                *)
(***************************************************************************)
\* A cancellation that waits, waits for the item that runs.
CancelInv == wq.cancelling \subseteq {wq.running} /\ lost <= losses

\* Nothing happens before the service thread has started the service, and a call of
\* Stop has cancelled the task exactly when only its wait and the rest are left.
StopInv ==
  /\ started = "no" =>
       status = "OFFLINE" /\ late = {} /\ plan = <<>> /\ wq = EmptyQueue /\ ~running
  /\ plan \in {<<"wait", "unregister">>, <<"unregister">>} => "stopped" \in late
  /\ plan # <<>> /\ Head(plan) \in {"mark", "cancel"} => "stopped" \notin late
  /\ started # "no" /\ plan = <<>> /\ late = {} /\ ~Stops(status) => registered
  /\ toggles = 0 => enabled

\* The task as the code means it to be: heartbeats have never been disabled, nobody
\* stops the service or has stopped it.
Undisturbed == toggles = 0 /\ plan = <<>> /\ late = {}

\* An undisturbed task is busy in one way at most, and for sure when the device is
\* online; one that is not online yet has no task and no entry in the peer's table.
UndisturbedInv ==
  Undisturbed =>
    /\ wq.running = Heartbeat => wq.fifo = <<>> /\ wq.delayed = {}
    /\ wq.fifo # <<>> => wq.delayed = {}
    /\ status = "ONLINE" => running
    /\ status \in {"OFFLINE", "INIT", "CLAIMING"} => ~known /\ ~running

\* Half a timeout is left for each heartbeat that has come or was lost: when the
\* next one is due, in work or just sent, the entry is no older than that.
AgeInv ==
  Undisturbed /\ powered /\ status = "ONLINE" /\ known /\ lost < 2 =>
    /\ Heartbeat \in wq.delayed => 2 * (age + timer) <= (lost + 1) * Timeout
    /\ wq.fifo # <<>> \/ (wq.running = Heartbeat /\ ~sent) => 2 * age <= (lost + 1) * Timeout
    /\ wq.running = Heartbeat /\ sent => 2 * age <= lost * Timeout

\* Without a stagger it is one interval for each of them.
PunctualInv ==
  Undisturbed /\ powered /\ status = "ONLINE" /\ known /\ ~staggered =>
    /\ Heartbeat \in wq.delayed => age + timer <= (lost + 1) * Interval
    /\ wq.fifo # <<>> \/ (wq.running = Heartbeat /\ ~sent) => age <= (lost + 1) * Interval
    /\ wq.running = Heartbeat /\ sent => age <= lost * Interval

\* The age of an entry and the time to the next validation add up to no more than
\* what a validation leaves.
PeerInv == known => age + check <= Timeout + Validation

InductiveInv ==
  /\ TaskInv /\ CancelInv /\ StopInv /\ UndisturbedInv
  /\ AgeInv /\ PunctualInv /\ PeerInv
=============================================================================
