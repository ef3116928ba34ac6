-------------------------- MODULE SensorProcessing --------------------------
(***************************************************************************)
(* Sensor processing: domain/sensor_domain.  Readers put readings into a   *)
(* frame that everything shares; a chain of processors turns them into     *)
(* published values.  A sensor with a sampling rate is read by a task of   *)
(* the scheduler service, a sensor on a CAN bus by a reader whose handler  *)
(* gets the frames and appends a job; both run on one work queue.  The     *)
(* application starts, stops, pauses and resumes the service, and          *)
(* calibrates an analog channel while the service is paused.               *)
(*                                                                         *)
(* A value is what has been done to it.  A reading, a value and the memory *)
(* an expression has bound to are read and written in the steps the code   *)
(* takes the semaphore of the frame in, so that the calls of other threads *)
(* come between them.                                                      *)
(***************************************************************************)
EXTENDS Naturals, WorkQueue

CONSTANTS
  Sensors,
  Order,          \* the sensors in the order SensorsOrderResolver gives them
  Type,           \* SensorType of each sensor
  Sampled,        \* the sensors with sampling_rate_ms
  Inputs,         \* the sensors whose values a sensor's expression uses
  Formula,        \* the sensors with an expression evaluator
  WithX,          \* those whose expression has the variable x
  Creates,        \* the user sensors whose script has create_sensor_value
  Known,          \* the CAN sensors whose bus, message and signal exist
  PreWrites,      \* the sensors pre_process_sensor_value updates
  PostWrites,     \* the sensors post_process_sensor_value updates
  Slow,           \* the sensors with a sampling_rate_ms longer than a cancelling sleep
  MaxStarts       \* bound: how often the readers are created

CanTypes == {"CANBUS_RAW", "CANBUS_ANALOG", "CANBUS_INDICATOR"}
VirtualTypes == {"VIRTUAL_ANALOG", "VIRTUAL_INDICATOR"}
UserTypes == {"USER_ANALOG", "USER_INDICATOR"}
SensorType ==
  CanTypes \cup VirtualTypes \cup UserTypes
    \cup {"PHYSICAL_ANALOG", "PHYSICAL_INDICATOR"}

ASSUME SensorAssumption ==
  /\ Type \in [Sensors -> SensorType]
  /\ Order \in Seq(Sensors) /\ ItemsOf(Order) = Sensors
  /\ \A i, j \in DOMAIN Order : i # j => Order[i] # Order[j]
  /\ Inputs \in [Sensors -> SUBSET Sensors]
  /\ PreWrites \in [Sensors -> SUBSET Sensors]
  /\ PostWrites \in [Sensors -> SUBSET Sensors]
  /\ Sampled \subseteq Sensors /\ Formula \subseteq Sensors
  /\ WithX \subseteq Formula
  /\ Creates \subseteq Sensors /\ Known \subseteq Sensors /\ Slow \subseteq Sensors
  /\ MaxStarts \in Nat
  \* SensorValidator
  /\ \A s \in Sensors : Type[s] \in VirtualTypes => s \in Formula
  /\ \A s \in Sensors : Inputs[s] # {} => s \in Formula

GetReadingUpdateMethod(s) ==
  CASE s \in Sampled       -> "SCHEDULER"
    [] s \notin Sampled /\ Type[s] \in CanTypes -> "ISR"
    [] OTHER               -> "NONE"

\* SensorReaderFactory::Create has no reader for a sensor on a CAN bus
HasTask(s) == GetReadingUpdateMethod(s) = "SCHEDULER" /\ Type[s] \notin CanTypes

HasIsrReader(s) == GetReadingUpdateMethod(s) = "ISR" /\ s \in Known

\* SensorsOrderResolver: inputs come first
ASSUME OrderAssumption ==
  \A i, j \in DOMAIN Order : Order[j] \in Inputs[Order[i]] => j < i

TaskOf(s) == <<"task", s>>
\* A job is an object: a is its address among those of its reader.  Three are
\* enough as long as no semaphore is given twice; after that they are a bound.
JobOf(s, n, a) == <<"job", s, n, a>>
Addresses == 1..3
Calibration == <<"calibration">>
Tasks == {TaskOf(s) : s \in {x \in Sensors : HasTask(x)}}
Jobs == {JobOf(s, n, a) : s \in {x \in Sensors : HasIsrReader(x)},
                          n \in 1..MaxStarts, a \in Addresses}

VARIABLES
  frame,      \* SensorReadingsFrame
  wq,         \* the work queue of the service
  chain,      \* where the item that runs is
  reader,     \* the reader of each ISR sensor: its number, 0 when there is none
  gate,       \* processing_semaphore_ of that reader: TRUE when it can be taken
  starts,     \* the number of times the readers have been created
  plan,       \* what is left of the call the application is in
  phase,      \* what the application has asked for
  cq,         \* the work queue of the calibration service
  samples,    \* the samples count of the ADCs
  bound,      \* the variables of each expression: unbound, live, null, dangling
  faults,     \* the undefined behaviour met so far
  missed      \* a task has missed a cycle: its read failed, or a call cancelled it first

vars == <<frame, wq, chain, reader, gate, starts, plan, phase, cq, samples,
          bound, faults, missed>>

(***************************************************************************)
(* The frame.                                                              *)
(***************************************************************************)
Status == <<"UNINITIALIZED", "RAW", "INTERPOLATED", "EXPRESSION_EVALUATED", "PROCESSED">>
Rank(st) == CHOOSE i \in DOMAIN Status : Status[i] = st

Value == [has : BOOLEAN, done : SUBSET {"interpolated", "evaluated"}]
NoValue == [has |-> FALSE, done |-> {}]
Fresh == [has |-> TRUE, done |-> {}]
Did(v, what) == [has |-> TRUE, done |-> v.done \cup {what}]

NoReading == [status |-> "none", value |-> NoValue]
Reading == [status : ItemsOf(Status), value : Value] \cup {NoReading}

EmptyFrame ==
  [isr |-> [s \in Sensors |-> NoReading],
   readings |-> [s \in Sensors |-> NoReading],
   processed |-> [s \in Sensors |-> NoReading],
   values |-> [s \in Sensors |-> NoValue]]

\* Mutant: a value is published as soon as there is one.
PublishEarly(f, s, r) ==
  IF r.value.has
  THEN [f EXCEPT !.values[s] = r.value, !.processed[s] = r] ELSE f

\* the end of both AddOrUpdateReading functions
Publish(f, s, r) ==
  IF r.status = "PROCESSED" /\ r.value.has
  THEN [f EXCEPT !.values[s] = r.value, !.processed[s] = r] ELSE f

AddOrUpdateReadingIsr(f, s, r) == Publish([f EXCEPT !.isr[s] = r], s, r)

AddOrUpdateReadingProcessing(f, s, r) ==
  Publish([f EXCEPT !.isr[s] = NoReading, !.readings[s] = r], s, r)

(***************************************************************************)
(* The stages of an item.  A processor takes the reading of its sensor out *)
(* of the frame in one step and puts it back in another.                   *)
(***************************************************************************)
Processors == <<"pre", "adc", "expression", "post">>
Stages == {"idle", "read", "frame", "collect", "publish", "done", "sleep",
           "retire", "halted"} \cup ItemsOf(Processors)

\* A processor that leaves the readings of its sensor as they are has no step
Acts(s, stage) ==
  CASE stage = "pre"        -> PreWrites[s] # {}
    [] stage = "post"       -> PostWrites[s] # {}
    [] stage = "adc"        -> Type[s] = "PHYSICAL_ANALOG"
    [] stage = "expression" -> Type[s] # "CANBUS_RAW"

\* The first processor that acts on s behind the one where the chain is
NextStage(s) ==
  LET here  == {i \in DOMAIN Processors : Processors[i] = chain.stage}
      later == {i \in DOMAIN Processors : Acts(s, Processors[i]) /\ \A h \in here : h < i}
  IN IF later = {} THEN "publish"
     ELSE Processors[CHOOSE i \in later : \A j \in later : i <= j]

\* local is the reading taken out, of the sensor of; left are the sensors
\* that the script still has to update
At(stage) == [stage |-> stage, fetched |-> FALSE, local |-> NoReading, of |-> NoItem,
              left |-> {}]
Idle == At("idle")

Running(s) == wq.running # NoItem /\ wq.running[2] = s
IsJob == wq.running # NoItem /\ wq.running[1] = "job"
EndStage == IF IsJob THEN "sleep" ELSE "done"

\* What a reader finds.  A virtual sensor has no value before its expression.
MeasuredReading == [status |-> "RAW", value |-> Fresh]
VirtualReading == [status |-> "UNINITIALIZED", value |-> NoValue]
UserReading(s) == IF s \in Creates THEN MeasuredReading ELSE VirtualReading
RawFrameReading == [status |-> "RAW", value |-> NoValue]
SignalReading == [RawFrameReading EXCEPT !.value = Fresh]

NewReading(s) ==
  CASE Type[s] \in {"PHYSICAL_ANALOG", "PHYSICAL_INDICATOR"} -> MeasuredReading
    [] Type[s] = "CANBUS_RAW"    -> RawFrameReading
    [] Type[s] \in CanTypes \ {"CANBUS_RAW"} -> SignalReading
    [] Type[s] \in UserTypes     -> UserReading(s)
    [] OTHER                     -> VirtualReading

CanFail(s) == Type[s] \in {"PHYSICAL_ANALOG", "PHYSICAL_INDICATOR"} \/ s \in Creates

Init ==
  /\ frame = EmptyFrame
  /\ wq = EmptyQueue /\ cq = EmptyQueue
  /\ chain = Idle
  /\ reader = [s \in Sensors |-> 0]
  /\ gate = [s \in Sensors |-> TRUE]
  /\ starts = 0
  /\ plan = <<>>
  /\ phase = "stopped"
  /\ samples = "configured"
  /\ bound = [s \in Sensors |-> "unbound"]
  /\ faults = {}
  /\ missed = FALSE

(***************************************************************************)
(* The work queue thread.                                                  *)
(***************************************************************************)
\* bound: after undefined behaviour no item starts, no frame comes and no call is
\* made; what is under way goes on
Defined == faults = {}

StartItem ==
  /\ Defined /\ wq.running = NoItem /\ wq.fifo # <<>>
  /\ wq' = Take(wq)
  /\ chain' = At(IF Head(wq.fifo)[1] = "job" THEN "frame" ELSE "read")
  /\ UNCHANGED <<frame, reader, gate, starts, plan, phase, cq, samples, bound,
                 faults, missed>>

\* A read that throws ends the task's cycle; an old reading stays
Read(s) ==
  /\ Running(s) /\ chain.stage = "read"
  /\ \/ /\ frame' = AddOrUpdateReadingProcessing(frame, s, NewReading(s))
        /\ chain' = At(NextStage(s))
        /\ UNCHANGED missed
     \/ /\ CanFail(s)
        /\ chain' = At("done")
        /\ missed' = TRUE
        /\ UNCHANGED frame
  /\ UNCHANGED <<wq, reader, gate, starts, plan, phase, cq, samples, bound, faults>>

\* The reader of a job may have been destroyed since the frame came: the job
\* then works on freed memory, which may still hold what was there.
ReaderGone(s) == wq.running[3] # reader[s]

\* The job up to its callback: the reading of the frame.  An empty frame has none
IsrFrame(s) ==
  /\ Running(s) /\ chain.stage = "frame"
  /\ \/ /\ frame' \in {frame, AddOrUpdateReadingIsr(frame, s, NewReading(s))}
        /\ chain' = At("collect")
        /\ faults' = IF ReaderGone(s) THEN faults \cup {"reader"} ELSE faults
     \/ /\ ReaderGone(s)
        /\ faults' = faults \cup {"reader"}
        /\ chain' = At("halted")
        /\ UNCHANGED frame
  /\ UNCHANGED <<wq, reader, gate, starts, plan, phase, cq, samples, bound, missed>>

\* ProcessSensor up to the processors: HasIsrReading, CollectIsrReadingProcessor
Collect(s) ==
  /\ Running(s) /\ chain.stage = "collect"
  /\ LET r == IF chain.fetched THEN chain.local ELSE frame.isr[s] IN
     \/ /\ ~chain.fetched /\ r # NoReading
        /\ chain' = [chain EXCEPT !.fetched = TRUE, !.local = r]
        /\ UNCHANGED frame
     \/ /\ ~chain.fetched /\ r = NoReading
        /\ chain' = At("sleep")
        /\ UNCHANGED frame
     \/ /\ chain.fetched
        /\ frame' = AddOrUpdateReadingProcessing(frame, s, r)
        /\ chain' = At(NextStage(s))
  /\ UNCHANGED <<wq, reader, gate, starts, plan, phase, cq, samples, bound,
                 faults, missed>>

\* TryGetReading of a processor, or of the last step of the chain
Fetch(s) ==
  /\ Running(s) /\ ~chain.fetched
  /\ chain.stage \in ItemsOf(Processors) \cup {"publish"}
  /\ chain' = IF frame.readings[s] # NoReading
              THEN [chain EXCEPT !.fetched = TRUE, !.local = frame.readings[s],
                                 !.left = CASE chain.stage = "pre"  -> PreWrites[s]
                                            [] chain.stage = "post" -> PostWrites[s]
                                            [] OTHER                -> {}]
              ELSE IF chain.stage = "publish" THEN At(EndStage)
              ELSE At(NextStage(s))
  /\ UNCHANGED <<frame, wq, reader, gate, starts, plan, phase, cq, samples, bound,
                 faults, missed>>

InStage(s, stage) == Running(s) /\ chain.stage = stage /\ chain.fetched

\* ScriptProcessor, before and after the values are made.  The script calls
\* update_sensor_value, which gets a reading and puts it back with a new value.
ScriptGets(s, t) ==
  /\ InStage(s, "pre") \/ InStage(s, "post")
  /\ chain.of = NoItem /\ t \in chain.left
  /\ chain' = [chain EXCEPT !.left = @ \ {t}, !.local = frame.readings[t],
                            !.of = IF frame.readings[t] = NoReading THEN NoItem ELSE <<t>>]
  /\ UNCHANGED <<frame, wq, reader, gate, starts, plan, phase, cq, samples, bound,
                 faults, missed>>

ScriptPuts ==
  /\ chain.of # NoItem
  /\ frame' = AddOrUpdateReadingProcessing(frame, chain.of[1],
                                           [chain.local EXCEPT !.value.has = TRUE])
  /\ chain' = [chain EXCEPT !.of = NoItem]
  /\ UNCHANGED <<wq, reader, gate, starts, plan, phase, cq, samples, bound,
                 faults, missed>>

ScriptReturns(s) ==
  /\ InStage(s, "pre") \/ InStage(s, "post")
  /\ chain.of = NoItem /\ chain.left = {}
  /\ chain' = At(NextStage(s))
  /\ UNCHANGED <<frame, wq, reader, gate, starts, plan, phase, cq, samples, bound,
                 faults, missed>>

\* Mutant: a voltage outside the calibration table throws.
InterpolateThrows(s) ==
  /\ InStage(s, "adc")
  /\ frame' = AddOrUpdateReadingProcessing(frame, s,
                [status |-> "ERROR", value |-> chain.local.value])
  /\ chain' = At(NextStage(s))
  /\ UNCHANGED <<wq, reader, gate, starts, plan, phase, cq, samples, bound,
                 faults, missed>>

\* AdcReadingProcessor; the ends of the table are clamped, so that it does not throw
Interpolate(s) ==
  /\ InStage(s, "adc")
  /\ frame' = IF chain.local.status = "RAW"
              THEN AddOrUpdateReadingProcessing(frame, s,
                     [status |-> "INTERPOLATED",
                      value |-> Did(chain.local.value, "interpolated")])
              ELSE frame
  /\ chain' = At(NextStage(s))
  /\ UNCHANGED <<wq, reader, gate, starts, plan, phase, cq, samples, bound,
                 faults, missed>>

\* The variables of an expression are bound when it is first evaluated
Binding(s) ==
  IF bound[s] # "unbound" THEN bound[s]
  ELSE IF \A i \in Inputs[s] : frame.values[i].has THEN "live" ELSE "null"

\* ProcessReading takes the value of most types, Evaluate that of a formula with x
NeedsValue(s) == Type[s] \notin VirtualTypes \cup UserTypes \/ s \in WithX

\* Whether ExpressionProcessor gets past its checks: the others throw or return
Evaluable(s, r) ==
  /\ Rank(r.status) <= Rank("INTERPOLATED")
  /\ NeedsValue(s) => r.value.has

Evaluated(s, r) ==
  [status |-> "EXPRESSION_EVALUATED",
   value |-> IF Type[s] \in UserTypes /\ s \notin Formula THEN r.value
             ELSE Did(r.value, "evaluated")]

\* Only CreateSensorTask gives an expression access to other sensors.  For the
\* others muparser throws a ParserError, which is no std::exception: nothing
\* catches it, and the program terminates.
Unreachable(s) == ~HasTask(s) /\ Inputs[s] # {}

Evaluate(s) ==
  /\ InStage(s, "expression")
  /\ IF ~Evaluable(s, chain.local)
     THEN /\ chain' = At(NextStage(s))
          /\ UNCHANGED <<frame, bound, faults>>
     ELSE IF Unreachable(s)
     THEN /\ chain' = At("halted")
          /\ faults' = faults \cup {"unknown"}
          /\ UNCHANGED <<frame, bound>>
     ELSE LET b   == IF s \in Formula THEN Binding(s) ELSE bound[s]
              bad == s \in Formula /\ b \in {"null", "dangling"}
          IN /\ bound' = [bound EXCEPT ![s] = b]
             /\ faults' = IF bad THEN faults \cup {b} ELSE faults
             /\ \/ /\ frame' = AddOrUpdateReadingProcessing(frame, s,
                                                            Evaluated(s, chain.local))
                   /\ chain' = At(NextStage(s))
                \/ /\ bad
                   /\ chain' = At("halted")
                   /\ UNCHANGED frame
  /\ UNCHANGED <<wq, reader, gate, starts, plan, phase, cq, samples, missed>>

\* The end of ProcessSensorWorkTask and of ProcessSensor
MarkProcessed(s) ==
  /\ InStage(s, "publish")
  /\ frame' = IF Rank(chain.local.status) < Rank("PROCESSED")
              THEN AddOrUpdateReadingProcessing(frame, s,
                     [chain.local EXCEPT !.status = "PROCESSED"])
              ELSE frame
  /\ chain' = At(EndStage)
  /\ UNCHANGED <<wq, reader, gate, starts, plan, phase, cq, samples, bound,
                 faults, missed>>

\* TaskHandler schedules the task again
TaskEnds ==
  /\ chain.stage = "done" /\ ~IsJob
  /\ wq' = TaskDone(wq, wq.running, TRUE)
  /\ chain' = At("retire")
  /\ UNCHANGED <<frame, reader, gate, starts, plan, phase, cq, samples, bound,
                 faults, missed>>

\* Mutant: the job ends without giving the semaphore of its reader.
GiveNever(s) ==
  /\ Running(s) /\ chain.stage = "sleep"
  /\ chain' = At("done")
  /\ UNCHANGED <<frame, wq, reader, gate, starts, plan, phase, cq, samples, bound,
                 faults, missed>>

\* The job sleeps and gives the semaphore of its reader.  The memory of a
\* reader that is gone may be that of the next one.
Give(s) ==
  /\ Running(s) /\ chain.stage = "sleep"
  /\ \/ /\ gate' = IF ReaderGone(s) THEN gate ELSE [gate EXCEPT ![s] = TRUE]
        /\ chain' = At("done")
     \/ /\ ReaderGone(s) /\ reader[s] # 0
        /\ gate' = [gate EXCEPT ![s] = TRUE]
        /\ chain' = At("done")
     \/ /\ ReaderGone(s)
        /\ chain' = At("halted")
        /\ UNCHANGED gate
  /\ faults' = IF ReaderGone(s) THEN faults \cup {"reader"} ELSE faults
  /\ UNCHANGED <<frame, wq, reader, starts, plan, phase, cq, samples, bound, missed>>

JobEnds ==
  /\ chain.stage = "done" /\ IsJob
  /\ wq' = RunnerDone(wq)
  /\ chain' = At("retire")
  /\ UNCHANGED <<frame, reader, gate, starts, plan, phase, cq, samples, bound,
                 faults, missed>>

ItemRetires ==
  /\ chain.stage = "retire"
  /\ wq' = Retire(wq)
  /\ chain' = Idle
  /\ UNCHANGED <<frame, reader, gate, starts, plan, phase, cq, samples, bound,
                 faults, missed>>

(***************************************************************************)
(* Timers and frames.                                                      *)
(***************************************************************************)
TimerExpires(w) ==
  /\ w \in wq.delayed
  /\ wq' = Expire(wq, w)
  /\ UNCHANGED <<frame, chain, reader, gate, starts, plan, phase, cq, samples,
                 bound, faults, missed>>

\* Mutant: the handler does not take the semaphore of its reader.
FrameReceivedUngated(s) ==
  /\ Defined /\ reader[s] # 0
  /\ LET free == {a \in Addresses :
                    JobOf(s, reader[s], a) \notin wq.tasks \cup wq.completed}
     IN /\ free # {}
        /\ wq' = Run(wq, JobOf(s, reader[s], CHOOSE a \in free : TRUE))
  /\ UNCHANGED <<frame, chain, reader, gate, starts, plan, phase, cq, samples,
                 bound, faults, missed>>

\* The handler of CanbusSensorReaderRaw, on the thread of the bus.  A frame
\* that finds the semaphore taken is dropped.
FrameReceived(s) ==
  /\ Defined /\ reader[s] # 0 /\ gate[s]
  /\ gate' = [gate EXCEPT ![s] = FALSE]
  /\ LET free == {a \in Addresses :
                    JobOf(s, reader[s], a) \notin wq.tasks \cup wq.completed}
     IN /\ free # {}
        /\ wq' = Run(wq, JobOf(s, reader[s], CHOOSE a \in free : TRUE))
  /\ UNCHANGED <<frame, chain, reader, starts, plan, phase, cq, samples, bound,
                 faults, missed>>

(***************************************************************************)
(* The application.  A call is a plan: the steps it takes, in order.       *)
(***************************************************************************)
\* The places in Order of some sensors, from first to last
Positions(some) ==
  LET at == {i \in DOMAIN Order : Order[i] \in some}
  IN CHOOSE p \in UNION {[1..n -> at] : n \in 0..Len(Order)} :
       /\ ItemsOf(p) = at
       /\ \A i, j \in DOMAIN p : i < j => p[i] < p[j]

\* Mutant: the sensors are taken in the opposite order.
StepsForBackwards(step, some) ==
  LET p == Positions(some) IN [i \in DOMAIN p |-> <<step, Order[p[Len(p) + 1 - i]]>>]

\* One step for each of some sensors
StepsFor(step, some) ==
  LET p == Positions(some) IN [i \in DOMAIN p |-> <<step, Order[p[i]]>>]

WithTask == {s \in Sensors : HasTask(s)}
WithReader == {s \in Sensors : HasIsrReader(s)}

PauseSteps == <<<<"drop readers">>>> \o StepsFor("cancel", WithTask)
ResumeSteps ==
  <<<<"make readers">>>> \o StepsFor("make reader", WithReader)
                         \o StepsFor("schedule", WithTask)
StopSteps == PauseSteps \o <<<<"clear">>>>
CalibrateSteps == PauseSteps \o <<<<"many samples">>, <<"calibrate">>>>

\* Mutant: the service resumes before the samples count is set back.
EndCalibrationStepsEarly ==
  <<<<"end calibration">>>> \o ResumeSteps \o <<<<"reset samples">>>>

EndCalibrationSteps ==
  <<<<"end calibration">>, <<"reset samples">>>> \o ResumeSteps

Call(from, to, steps) ==
  /\ Defined /\ plan = <<>> /\ phase \in from
  /\ phase' = to
  /\ plan' = steps
  /\ UNCHANGED <<frame, wq, chain, reader, gate, starts, cq, samples, bound,
                 faults, missed>>

Start == starts < MaxStarts /\ Call({"stopped"}, "running", ResumeSteps)
Stop == Call({"running", "paused", "failed"}, "stopped", StopSteps)
Pause == Call({"running"}, "paused", PauseSteps)
Resume == starts < MaxStarts /\ Call({"paused"}, "running", ResumeSteps)
StartCalibration ==
  starts < MaxStarts /\ Call({"running", "calibrating"}, "calibrating", CalibrateSteps)
StopCalibration == Call({"calibrating"}, "running", EndCalibrationSteps)

Step(step) == plan # <<>> /\ Head(plan)[1] = step
Goes == plan' = Tail(plan)

\* readers_.clear() of ProcessingIsrService
DropReaders ==
  /\ Step("drop readers") /\ Goes
  /\ reader' = [s \in Sensors |-> 0]
  /\ UNCHANGED <<frame, wq, chain, gate, starts, phase, cq, samples, bound,
                 faults, missed>>

\* ProcessingIsrService::Start before its loop
MakeReaders ==
  /\ Step("make readers") /\ Goes
  /\ starts' = starts + 1
  /\ reader' = [s \in Sensors |-> 0]
  /\ UNCHANGED <<frame, wq, chain, gate, phase, cq, samples, bound, faults, missed>>

\* One turn of the loop, with the constructor of the reader.  When its handler is
\* not registered the constructor throws, and the call ends there.
MakeReader ==
  /\ Step("make reader")
  /\ LET s == Head(plan)[2]
     IN \/ /\ Goes
           /\ reader' = [reader EXCEPT ![s] = starts]
           /\ gate' = [gate EXCEPT ![s] = TRUE]
           /\ UNCHANGED phase
        \/ /\ plan' = <<>> /\ phase' = "failed"
           /\ UNCHANGED <<reader, gate>>
  /\ UNCHANGED <<frame, wq, chain, starts, cq, samples, bound, faults, missed>>

ScheduleTask ==
  /\ Step("schedule") /\ Goes
  /\ wq' = Schedule(wq, TaskOf(Head(plan)[2]), FALSE)
  /\ UNCHANGED <<frame, chain, reader, gate, starts, phase, cq, samples, bound,
                 faults, missed>>

\* Mutant: a task is cancelled once, whatever Cancel returns.
CancelTaskOnce ==
  /\ Step("cancel") /\ Goes
  /\ LET w == TaskOf(Head(plan)[2])
     IN /\ ~CancelWaits(wq, w) /\ wq' = Cancel(wq, w)
        /\ missed' = (missed \/ w \in ItemsOf(wq.fifo))
  /\ UNCHANGED <<frame, chain, reader, gate, starts, phase, cq, samples, bound, faults>>

\* Mutant: the task is left on the queue until it is idle.
CancelTaskPolls ==
  /\ Step("cancel") /\ Goes
  /\ ~Busy(wq, TaskOf(Head(plan)[2]))
  /\ UNCHANGED <<frame, wq, chain, reader, gate, starts, phase, cq, samples, bound,
                 faults, missed>>

\* One turn of: while(Cancel()) sleep
CancelTask ==
  /\ Step("cancel")
  /\ LET w == TaskOf(Head(plan)[2])
     IN /\ ~CancelWaits(wq, w)
        /\ wq' = Cancel(wq, w)
        /\ missed' = (missed \/ w \in ItemsOf(wq.fifo))
        /\ IF Busy(wq, w) THEN UNCHANGED plan ELSE Goes
  /\ UNCHANGED <<frame, chain, reader, gate, starts, phase, cq, samples, bound, faults>>

\* Mutant: the values stay when the service stops.
ClearReadingsButValues ==
  /\ Step("clear") /\ Goes
  /\ frame' = [EmptyFrame EXCEPT !.values = frame.values]
  /\ UNCHANGED <<wq, chain, reader, gate, starts, phase, cq, samples, bound,
                 faults, missed>>

\* The end of Stop: the tasks and the readings go, and with them the memory
\* the expressions have bound to
ClearReadings ==
  /\ Step("clear") /\ Goes
  /\ frame' = EmptyFrame
  /\ bound' = [s \in Sensors |->
                 IF bound[s] = "live" /\ Inputs[s] # {} THEN "dangling" ELSE bound[s]]
  /\ UNCHANGED <<wq, chain, reader, gate, starts, phase, cq, samples, faults, missed>>

(***************************************************************************)
(* Calibration: CalibrationService has a work queue and a frame of its own *)
(***************************************************************************)
UpdateSamples ==
  /\ \/ Step("many samples") /\ samples' = "calibration"
     \/ Step("reset samples") /\ samples' = "configured"
  /\ Goes
  /\ UNCHANGED <<frame, wq, chain, reader, gate, starts, phase, cq, bound,
                 faults, missed>>

\* The new task is moved over the old one.  When that is busy, its item is in the
\* lists of the kernel, which may keep it or lose what they hold.
ScheduleCalibration ==
  /\ Step("calibrate") /\ Goes
  /\ LET lost == [EmptyQueue EXCEPT !.running = cq.running]
     IN IF Busy(cq, Calibration)
        THEN /\ \E q \in {cq, lost} : cq' = Schedule(q, Calibration, FALSE)
             /\ faults' = faults \cup {"calibration"}
        ELSE cq' = Schedule(cq, Calibration, FALSE) /\ UNCHANGED faults
  /\ UNCHANGED <<frame, wq, chain, reader, gate, starts, phase, samples, bound, missed>>

CancelCalibration ==
  /\ Step("end calibration")
  /\ ~CancelWaits(cq, Calibration)
  /\ cq' = Cancel(cq, Calibration)
  /\ IF Busy(cq, Calibration) THEN UNCHANGED plan ELSE Goes
  /\ UNCHANGED <<frame, wq, chain, reader, gate, starts, phase, samples, bound,
                 faults, missed>>

\* The thread of the calibration: its item starts, reads and schedules itself
Calibrates ==
  /\ \/ cq.running = NoItem /\ cq.fifo # <<>> /\ cq' = Take(cq)
     \/ cq.running = Calibration /\ cq' = Retire(TaskDone(cq, Calibration, TRUE))
     \/ Calibration \in cq.delayed /\ cq' = Expire(cq, Calibration)
  /\ UNCHANGED <<frame, wq, chain, reader, gate, starts, plan, phase, samples,
                 bound, faults, missed>>

(***************************************************************************)
(* The specification.                                                      *)
(***************************************************************************)
WorkStep ==
  \/ StartItem \/ TaskEnds \/ JobEnds \/ ItemRetires \/ ScriptPuts
  \/ \E s \in Sensors :
       \/ Read(s) \/ IsrFrame(s) \/ Collect(s) \/ Fetch(s) \/ ScriptReturns(s)
       \/ \E t \in Sensors : ScriptGets(s, t)
       \/ Interpolate(s) \/ Evaluate(s) \/ MarkProcessed(s) \/ Give(s)

CallStep ==
  \/ DropReaders \/ MakeReaders \/ MakeReader \/ ScheduleTask \/ CancelTask \/ ClearReadings
  \/ UpdateSamples \/ ScheduleCalibration \/ CancelCalibration

Next ==
  \/ WorkStep \/ CallStep \/ Calibrates
  \/ \E w \in Tasks : TimerExpires(w)
  \/ \E s \in Sensors : FrameReceived(s)
  \/ Start \/ Stop \/ Pause \/ Resume \/ StartCalibration \/ StopCalibration

Spec == Init /\ [][Next]_vars

\* The turn of a cancellation that comes before the timer of a slow task
CancelsInTime ==
  \/ CancelTask /\ Head(plan)[2] \in Slow /\ TaskOf(Head(plan)[2]) \in wq.delayed
  \/ CancelCalibration /\ Calibration \in cq.delayed

\* The threads run when they can.  A cancellation tries again after a sleep of one
\* millisecond: a try meets the timer of a task that waits for longer than that,
\* in the end.  The calibration waits for a hundred (Kconfig.adc:21-23); of
\* sampling_rate_ms the validator asks that it is not zero, and a task that waits
\* for one millisecond may be met running for ever.
FairSpec ==
  /\ Spec
  /\ WF_vars(WorkStep) /\ WF_vars(CallStep) /\ WF_vars(Calibrates)
  /\ \A w \in Tasks : WF_vars(TimerExpires(w))
  /\ SF_vars(CancelsInTime)

(***************************************************************************)
(* Properties.                                                             *)
(***************************************************************************)
Chain ==
  [stage : Stages, fetched : BOOLEAN, local : Reading,
   of : {NoItem} \cup {<<s>> : s \in Sensors}, left : SUBSET Sensors]

QueueOf(Items, Heap) ==
  [fifo : Seq(Items), running : Items \cup {NoItem}, delayed : SUBSET Items,
   cancelling : SUBSET Items, tasks : SUBSET Heap, completed : SUBSET Heap]

PlainSteps == {"drop readers", "clear", "many samples", "calibrate",
               "end calibration", "reset samples", "make readers"}

Steps ==
  {<<step>> : step \in PlainSteps}
    \cup {"cancel", "schedule"} \X WithTask
    \cup {"make reader"} \X WithReader

TypeOK ==
  /\ frame \in [isr : [Sensors -> Reading], readings : [Sensors -> Reading],
                processed : [Sensors -> Reading], values : [Sensors -> Value]]
  /\ wq \in QueueOf(Tasks \cup Jobs, Jobs)
  /\ cq \in QueueOf({Calibration}, {})
  /\ chain \in Chain
  /\ reader \in [Sensors -> 0..MaxStarts]
  /\ gate \in [Sensors -> BOOLEAN]
  /\ starts \in 0..MaxStarts
  /\ plan \in Seq(Steps)
  /\ phase \in {"stopped", "running", "paused", "calibrating", "failed"}
  /\ samples \in {"configured", "calibration"}
  /\ bound \in [Sensors -> {"unbound", "live", "null", "dangling"}]
  /\ faults \subseteq {"reader", "null", "dangling", "unknown", "calibration"}
  /\ missed \in BOOLEAN

\* Once a pause, a stop or the start of a calibration has got past a task,
\* the task neither runs nor waits to run, although it schedules itself again
\* at the end of every cycle, the one that was being cancelled included.
PausedIsQuiet ==
  phase # "running" =>
    \A s \in Sensors : HasTask(s) /\ <<"cancel", s>> \notin ItemsOf(plan)
                        => ~Busy(wq, TaskOf(s))

Unfinished(j) == \/ j \in ItemsOf(wq.fifo)
                 \/ wq.running = j /\ chain.stage \notin {"done", "retire"}

\* As long as no job has outlived its reader: a reader has one frame in work at
\* most, and its semaphore is taken exactly while it has.
GateInv ==
  "reader" \notin faults =>
    \A s \in Sensors : reader[s] # 0 =>
      LET mine == {j \in Jobs : j[2] = s /\ j[3] = reader[s] /\ Unfinished(j)}
      IN IF gate[s] THEN mine = {} ELSE \E j \in Jobs : mine = {j}

\* The job of a frame is an object the kernel still uses when the job is done:
\* it is freed only when the kernel has let go of it.
JobsAllocated == Allocated(wq, Jobs)

\* Jobs that are done do not pile up: one at most is kept, the last.
CompletedBounded == \A i, j \in wq.completed : i = j

\* What ExpressionProcessor lets through, and what it applies a formula to: neither
\* a formula with x for a sensor that has no value yet, nor a raw frame.
Passes(s) == Type[s] # "CANBUS_RAW" /\ (NeedsValue(s) => NewReading(s).value.has)
Evaluates(s) == s \in Formula /\ Passes(s)

\* The sensors whose every cycle that does not fail leaves a value.
Makes(s) == HasTask(s) /\ (NewReading(s).value.has \/ Evaluates(s))

\* An expression meets a value that is not there only if a task has missed a cycle
\* or one of its inputs has no task that makes a value: the order of the sensors
\* makes the first cycle of an input come first.
InputsArrive ==
  \A s \in Sensors : bound[s] = "null" => missed \/ \E i \in Inputs[s] : ~Makes(i)

\* Nobody sees a half-made value: a published value of an analog input has been
\* interpolated and the formula of its sensor has been applied to it.
PublishedComplete ==
  \A s \in Sensors : frame.values[s].has =>
    /\ Type[s] = "PHYSICAL_ANALOG" => "interpolated" \in frame.values[s].done
    /\ Evaluates(s) => "evaluated" \in frame.values[s].done

\* The calibration never shares the ADC: while it may read, no task may, and a
\* task reads with the number of samples that the configuration asks for.
CalibrationAlone ==
  /\ Busy(cq, Calibration) =>
       samples = "calibration" /\ \A w \in Tasks : ~Busy(wq, w)
  /\ chain.stage = "read" => samples = "configured"

\* A script that runs for a frame may have a reading in its hands
InHands == UNION {PreWrites[s] \cup PostWrites[s] : s \in {x \in Sensors : HasIsrReader(x)}}

\* After a stop the frame stays empty of what the tasks made, until the next start.
StoppedStaysClear ==
  phase = "stopped" /\ plan = <<>> =>
    \A s \in Sensors : HasTask(s) /\ s \notin InHands =>
      /\ frame.readings[s] = NoReading /\ frame.processed[s] = NoReading
      /\ ~frame.values[s].has

\* Every call of the application returns, or is at a task that is too fast for it:
\* the loop that cancels a slow task meets it, in the end, while it waits.
CallEnds ==
  plan # <<>> ~> \/ plan = <<>> \/ faults # {}
                 \/ Step("cancel") /\ Head(plan)[2] \notin Slow
                                   /\ Busy(wq, TaskOf(Head(plan)[2]))

\* A reader whose semaphore is taken gets it back: no sensor goes deaf.
GateOpens ==
  \A s \in {x \in Sensors : HasIsrReader(x)} : ~gate[s] ~> gate[s] \/ faults # {}

\* Readers, their semaphores and the jobs of their frames agree at every moment:
\* one frame in work to a reader, no job freed that is in use, none piled up.
ReadersInv == TypeOK /\ GateInv /\ JobsAllocated /\ CompletedBounded

\* What others see of the values: inputs before the sensors that read them, values
\* that went through every step, and nothing that a stop should have cleared.
ValuesInv == PublishedComplete /\ StoppedStaysClear /\ InputsArrive

\* No caller and no sensor waits for ever: calls return and semaphores come back.
NothingWaitsForEver == CallEnds /\ GateOpens

(***************************************************************************)
(* These do not hold of the code.                                          *)
(***************************************************************************)
\* The script of a user sensor makes its first value: script_domain/README.md:33 says
\* that a sensor whose script does not is not added to the schedule.  It is added
\* (processing_scheduler_service.cpp:98-109) and gets a reading without a value
\* (sensor_reader_user_value_type.cpp:41-46).
ScheduledSensorsCreate ==
  \A s \in Sensors : Type[s] \in UserTypes /\ s \notin Creates =>
    frame.readings[s] = NoReading

\* A job is done before its reader is destroyed: nobody waits for it.
JobsKeepTheirReader == "reader" \notin faults

\* A calibration that runs is not replaced: Start does not ask whether one does.
CalibrationNotReplaced == "calibration" \notin faults

\* After a stop nothing is left of what the tasks made: the script of a CAN sensor
\* may have a reading in its hands across the stop, and puts it back.
StopLeavesNothing ==
  phase = "stopped" /\ plan = <<>> =>
    \A s \in WithTask : frame.readings[s] = NoReading

\* Every call returns, at whatever rate the tasks are sampled.
EveryCallEnds == plan # <<>> ~> plan = <<>> \/ faults # {}

(***************************************************************************)
(* The inductive invariant.                                                *)
(***************************************************************************)
\* The place of a step in the calls that take it.
PlaceOf(step) ==
  CASE step = "drop readers"    -> 1
    [] step = "cancel"          -> 2
    [] step = "clear"           -> 3
    [] step = "many samples"    -> 4
    [] step = "calibrate"       -> 5
    [] step = "end calibration" -> 6
    [] step = "reset samples"   -> 7
    [] step = "make readers"    -> 8
    [] step = "make reader"     -> 9
    [] OTHER                    -> 10

StepsTo(to) ==
  CASE to = "running"     -> {"end calibration", "reset samples", "make readers",
                              "make reader", "schedule"}
    [] to = "failed"      -> {}
    [] to = "paused"      -> {"drop readers", "cancel"}
    [] to = "stopped"     -> {"drop readers", "cancel", "clear"}
    [] to = "calibrating" -> {"drop readers", "cancel", "many samples", "calibrate"}

HasStep(step) == \E i \in DOMAIN plan : plan[i][1] = step

\* Steps of these kinds in their order, each once; only the steps for sensors come
\* more than once, each for another sensor.
StepsForSensors == {"cancel", "schedule", "make reader"}

InOrder(steps, kinds) ==
  /\ \A i \in DOMAIN steps : steps[i][1] \in kinds
  /\ \A i, j \in DOMAIN steps : i < j =>
       \/ PlaceOf(steps[i][1]) < PlaceOf(steps[j][1])
       \/ /\ steps[i][1] = steps[j][1] /\ steps[i][1] \in StepsForSensors
          /\ steps[i] # steps[j]

\* The loop that makes the readers is under way and has not come to that of s.
NotMade(s) == <<"make reader", s>> \in ItemsOf(plan) /\ ~HasStep("make readers")

\* What is left of a call are steps of that call, in their order.  No task is busy
\* until the readers are made.
PlanInv ==
  /\ InOrder(plan, StepsTo(phase))
  /\ HasStep("make readers") \/ phase = "calibrating" => starts < MaxStarts
  /\ HasStep("make readers") \/ HasStep("make reader") => \A w \in Tasks : ~Busy(wq, w)

\* The ADCs have the samples count of the calibration from the step of its call
\* that sets it to the one that resets it, and no task is busy in between; the
\* calibration is busy in a part of that time.
CalibrationInv ==
  /\ samples = "calibration" =>
       /\ phase = "calibrating" \/ (phase = "running" /\ HasStep("reset samples"))
       /\ \A w \in Tasks : ~Busy(wq, w)
  /\ phase = "calibrating" /\ ~HasStep("many samples") => samples = "calibration"
  /\ Busy(cq, Calibration) =>
       /\ samples = "calibration"
       /\ phase = "calibrating" \/ (phase = "running" /\ HasStep("end calibration"))

\* The stage belongs to the item that runs; the stages of a job are no task's.
StageInv ==
  /\ chain.stage = "idle" <=> wq.running = NoItem
  /\ chain.stage = "read" => wq.running \in Tasks
  /\ chain.stage \in {"frame", "collect", "sleep"} => wq.running \in Jobs
  /\ chain.of # NoItem => chain.stage \in {"pre", "post"} /\ chain.local # NoReading

\* An item waits once at most.  A job waits or runs on the heap, and is completed
\* only as its handler is about to return; only a task has a timer or is cancelled.
Distinct(f) == \A i, j \in DOMAIN f : f[i] = f[j] => i = j

QueueInv ==
  /\ Distinct(wq.fifo) /\ Distinct(cq.fifo)
  /\ wq.delayed \subseteq Tasks /\ wq.cancelling \subseteq Tasks
  /\ \A j \in Jobs :
       /\ j \in ItemsOf(wq.fifo) => j \in wq.tasks /\ wq.running # j
       /\ wq.running = j =>
            IF chain.stage = "retire" THEN j \in wq.completed ELSE j \in wq.tasks
       /\ j \in wq.tasks \cup wq.completed =>
            j[3] <= starts /\ (j[3] = starts => ~NotMade(j[2]))
  /\ wq.tasks \cap wq.completed = {}

\* A reader is one of the last start, of a sensor that has readers.
ReaderInv ==
  \A s \in Sensors : reader[s] # 0 =>
    HasIsrReader(s) /\ reader[s] <= starts /\ ~NotMade(s)

InductiveInv ==
  /\ ReadersInv /\ PausedIsQuiet /\ CalibrationAlone
  /\ PlanInv /\ CalibrationInv /\ StageInv /\ QueueInv /\ ReaderInv

(***************************************************************************)
(* The inductive invariant of the values.                                  *)
(***************************************************************************)
\* What a published value has been through.
Complete(s, v) ==
  /\ Type[s] = "PHYSICAL_ANALOG" => "interpolated" \in v.done
  /\ Evaluates(s) => "evaluated" \in v.done

\* A reading that says it is processed is, whether it has a value or a script
\* is about to give it one.
Consistent(s, r) == r.status = "PROCESSED" => Complete(s, r.value)

\* The status of a reading of s that has reached a stage.  A script may give a value
\* to a reading that would not get past the expression without it.
StatusAt(s, stage) ==
  CASE stage \in {"post", "publish"} ->
         IF Passes(s) THEN {"EXPRESSION_EVALUATED"}
         ELSE {NewReading(s).status, "EXPRESSION_EVALUATED"}
    [] stage = "expression" /\ Type[s] = "PHYSICAL_ANALOG" -> {"INTERPOLATED"}
    [] OTHER                                               -> {NewReading(s).status}

\* A reading of s that has reached a stage: what the stages before have done.
Reached(s, stage, r) ==
  /\ r # NoReading /\ r.status \in StatusAt(s, stage)
  /\ NewReading(s).value.has => r.value.has
  /\ stage \in {"expression", "post", "publish"} /\ Type[s] = "PHYSICAL_ANALOG"
       => "interpolated" \in r.value.done
  /\ stage \in {"post", "publish"} /\ Evaluates(s)
       => r.value.has /\ "evaluated" \in r.value.done

FrameInv ==
  \A s \in Sensors :
    /\ frame.isr[s] \in {NoReading, NewReading(s)}
    /\ Consistent(s, frame.readings[s])
    /\ frame.values[s].has => Complete(s, frame.values[s])

OnTheWay == ItemsOf(Processors) \cup {"publish"}

\* The reading of the item that runs has come as far as the item.  The reading of
\* a frame may have been cleared on the way, that of a task may not.
ChainOf(s) ==
  /\ chain.stage \in ItemsOf(Processors) => Acts(s, chain.stage)
  /\ chain.stage = "collect" /\ chain.fetched => chain.local = NewReading(s)
  /\ chain.stage \in OnTheWay =>
       \/ Reached(s, chain.stage, frame.readings[s])
       \/ wq.running \in Jobs /\ frame.readings[s] = NoReading
  /\ chain.stage \in OnTheWay \ {"pre", "post"} /\ chain.fetched =>
       Reached(s, chain.stage, chain.local)
  /\ chain.left \subseteq PreWrites[s] \cup PostWrites[s]
  /\ chain.of # NoItem => chain.fetched
  /\ \A t \in Sensors : chain.of = <<t>> =>
       /\ t \in PreWrites[s] \cup PostWrites[s]
       /\ Consistent(t, chain.local)
       /\ t = s => Reached(s, chain.stage, chain.local)

ChainInv == wq.running # NoItem => ChainOf(wq.running[2])

\* A stop ends by clearing what the tasks made.
ClearedInv ==
  /\ phase = "stopped" /\ plan # <<>> => plan[Len(plan)] = <<"clear">>
  /\ StoppedStaysClear

\* The value of i is there, or its task makes it or waits to.
Arrived(i) == frame.values[i].has
Making(i) == wq.running = TaskOf(i) /\ chain.stage \notin {"done", "retire"}

\* The task of s has a turn only when the values that s reads are there, those
\* that a task makes.
InTurn(s) ==
  \A i \in {x \in Inputs[s] : Makes(x)} :
    /\ TaskOf(s) \in wq.delayed \cup {wq.running} => Arrived(i)
    /\ \A q \in DOMAIN wq.fifo : wq.fifo[q] = TaskOf(s) =>
         \/ Arrived(i) \/ Making(i)
         \/ \E p \in DOMAIN wq.fifo : p < q /\ wq.fifo[p] = TaskOf(i)

\* A task that has had its turn has left a value, and one that is scheduled has
\* left it or will.
Delivers(s) ==
  /\ TaskOf(s) \in wq.delayed => Arrived(s)
  /\ wq.running = TaskOf(s) => Making(s) \/ Arrived(s)
  /\ phase = "running" /\ <<"schedule", s>> \notin ItemsOf(plan)
       => Arrived(s) \/ Making(s) \/ TaskOf(s) \in ItemsOf(wq.fifo)

\* The tasks are scheduled behind those of the sensors they read.
InputsFirst(steps) ==
  \A s \in Sensors : \A i \in Inputs[s] : \A p, q \in DOMAIN steps :
    steps[p] = <<"schedule", i>> /\ steps[q] = <<"schedule", s>> => p < q

ArrivalInv ==
  /\ InputsArrive
  /\ phase = "running" => wq.cancelling = {}
  /\ InputsFirst(plan)
  /\ ~missed => \A s \in WithTask : InTurn(s) /\ (Makes(s) => Delivers(s))

ValuesInductiveInv == FrameInv /\ ChainInv /\ ClearedInv /\ ArrivalInv
=============================================================================
