------------------------- MODULE CdmpNetworkProofs -------------------------
(***************************************************************************)
(* What holds of CdmpNetwork for every number of devices and every value   *)
(* of the constants.  The invariant is about one device at a time: the     *)
(* lemmas first show that the helpers preserve it, then each action; two   *)
(* lemmas, BecomeInv and SendInv, lift it to the network.                  *)
(***************************************************************************)
EXTENDS CdmpNetwork, FiniteSetTheorems, SequenceTheorems, TLAPS

(***************************************************************************)
(* The work queue of one device.                                           *)
(***************************************************************************)
\* Appending a job keeps the type and adds at most the new last position.
LEMMA EnqueueLemma ==
  ASSUME NEW r \in DeviceState, NEW job \in Job
  PROVE  /\ Enqueue(r, job) \in DeviceState
         /\ \A T : job.type \notin T => Queued(Enqueue(r, job), T) = Queued(r, T)
         /\ \A T : Queued(r, T) = {} =>
              \A j, k \in Queued(Enqueue(r, job), T) : j = k
<1>1. r.queue \in Seq(Job)
  BY DEF DeviceState
<1>2. Append(r.queue, job) \in Seq(Job)
  BY <1>1
<1>3. Enqueue(r, job) \in DeviceState
  BY <1>2 DEF Enqueue, DeviceState
<1>4. Enqueue(r, job).queue = Append(r.queue, job)
  BY DEF Enqueue, DeviceState
<1>5. /\ DOMAIN Append(r.queue, job) = 1 .. Len(r.queue) + 1
      /\ DOMAIN r.queue = 1 .. Len(r.queue)
      /\ Len(r.queue) \in Nat
      /\ \A k \in 1 .. Len(r.queue) : Append(r.queue, job)[k] = r.queue[k]
      /\ Append(r.queue, job)[Len(r.queue) + 1] = job
  BY <1>1
<1>6. ASSUME NEW T, job.type \notin T
      PROVE  Queued(Enqueue(r, job), T) = Queued(r, T)
  BY <1>4, <1>5, <1>6 DEF Queued
<1>7. ASSUME NEW T, Queued(r, T) = {}, NEW j \in Queued(Enqueue(r, job), T)
      PROVE  j = Len(r.queue) + 1
  BY <1>4, <1>5, <1>7 DEF Queued
<1>8. QED
  BY <1>3, <1>6, <1>7

\* Taking the first job keeps the type and moves every other job one place up.
LEMMA DequeueLemma ==
  ASSUME NEW r \in DeviceState, r.queue # <<>>
  PROVE  /\ Dequeue(r) \in DeviceState
         /\ Head(r.queue) \in Job
         /\ \A T : Queued(r, T) = {} => Queued(Dequeue(r), T) = {}
         /\ \A T : (\A j, k \in Queued(r, T) : j = k) =>
              /\ \A j, k \in Queued(Dequeue(r), T) : j = k
              /\ Head(r.queue).type \in T => Queued(Dequeue(r), T) = {}
<1>1. r.queue \in Seq(Job)
  BY DEF DeviceState
<1>2. Tail(r.queue) \in Seq(Job) /\ Head(r.queue) \in Job
  BY <1>1
<1>3. Dequeue(r) \in DeviceState /\ Dequeue(r).queue = Tail(r.queue)
  BY <1>2 DEF Dequeue, DeviceState
<1>4. /\ Len(r.queue) \in Nat \ {0}
      /\ DOMAIN r.queue = 1 .. Len(r.queue)
      /\ DOMAIN Tail(r.queue) = 1 .. Len(r.queue) - 1
      /\ \A k \in 1 .. Len(r.queue) - 1 : Tail(r.queue)[k] = r.queue[k + 1]
      /\ Head(r.queue) = r.queue[1]
  BY <1>1
<1>5. ASSUME NEW T, NEW k \in Queued(Dequeue(r), T)
      PROVE  k \in Nat \ {0} /\ k + 1 \in Queued(r, T)
  BY <1>3, <1>4 DEF Queued
<1>6. ASSUME NEW T, Head(r.queue).type \in T
      PROVE  1 \in Queued(r, T)
  BY <1>4, <1>6 DEF Queued
<1>7. QED
  BY <1>2, <1>3, <1>5, <1>6

\* Cancelling the validation task removes its one place in the queue, and
\* Stop leaves every other job where it was.
LEMMA StopLemma ==
  ASSUME NEW r \in DeviceState,
         \A j, k \in Queued(r, {"PeriodicValidation"}) : j = k
  PROVE  /\ Stop(r) \in DeviceState
         /\ Queued(Stop(r), {"PeriodicValidation"}) = {}
         /\ \A T : Queued(r, T) = {} => Queued(Stop(r), T) = {}
         /\ \A T : (\A j, k \in Queued(r, T) : j = k) =>
              \A j, k \in Queued(Stop(r), T) : j = k
<1> DEFINE Pending == {k \in DOMAIN r.queue : r.queue[k].type = "PeriodicValidation"}
           q == WithoutValidation(r.queue)
<1>1. r.queue \in Seq(Job) /\ Pending = Queued(r, {"PeriodicValidation"})
  BY DEF DeviceState, Queued
<1>2. CASE Pending = {}
  <2>1. q = r.queue
    BY <1>2 DEF WithoutValidation
  <2>2. Stop(r) \in DeviceState /\ Stop(r).queue = r.queue
    BY <1>1, <2>1 DEF Stop, DeviceState, UidValue
  <2>3. \A T : Queued(Stop(r), T) = Queued(r, T)
    BY <2>2 DEF Queued
  <2>4. QED
    BY <1>1, <1>2, <2>2, <2>3
<1>3. CASE Pending # {}
  <2>1. PICK m \in Pending : m = CHOOSE k \in Pending : TRUE
    BY <1>3
  <2> DEFINE before == SubSeq(r.queue, 1, m - 1)
             after == SubSeq(r.queue, m + 1, Len(r.queue))
  <2>2. q = before \o after
    BY <1>3, <2>1 DEF WithoutValidation
  <2>3. Len(r.queue) \in Nat /\ m \in 1 .. Len(r.queue)
    BY <1>1, <2>1
  <2>4. /\ before \in Seq(Job) /\ Len(before) = m - 1
        /\ \A k \in 1 .. m - 1 : before[k] = r.queue[k]
    BY <1>1, <2>3
  <2>5. /\ after \in Seq(Job) /\ Len(after) = Len(r.queue) - m
        /\ \A k \in 1 .. Len(r.queue) - m : after[k] = r.queue[m + k]
    <3>1. m + 1 \in Nat /\ Len(r.queue) \in Nat /\ m + 1 <= Len(r.queue) + 1
      BY <2>3
    <3>2. after \in Seq(Job) /\ Len(after) = Len(r.queue) - m
      BY <1>1, <2>3, <3>1
    <3>3. \A k \in 1 .. Len(r.queue) - m : after[k] = r.queue[m + k]
      BY <1>1, <2>3, <3>1
    <3>4. QED
      BY <3>2, <3>3
  <2> HIDE DEF before, after, q
  <2>6. /\ q \in Seq(Job)
        /\ DOMAIN q = 1 .. Len(r.queue) - 1
        /\ \A k \in 1 .. m - 1 : q[k] = r.queue[k]
        /\ \A k \in m .. Len(r.queue) - 1 : q[k] = r.queue[k + 1]
    <3>0. /\ q \in Seq(Job)
          /\ Len(q) = Len(before) + Len(after)
          /\ \A k \in 1 .. Len(before) + Len(after) :
               q[k] = IF k <= Len(before) THEN before[k] ELSE after[k - Len(before)]
      <4>1. before \in Seq(Job) /\ after \in Seq(Job)
        BY <2>4, <2>5
      <4>2. QED
        BY <2>2, <4>1, ConcatProperties
    <3>1. q \in Seq(Job) /\ Len(q) = Len(r.queue) - 1
      BY <2>3, <2>4, <2>5, <3>0
    <3>2. \A k \in 1 .. Len(q) :
            q[k] = IF k <= m - 1 THEN before[k] ELSE after[k - (m - 1)]
      BY <2>3, <2>4, <2>5, <3>0
    <3>3. ASSUME NEW k \in 1 .. m - 1
          PROVE  q[k] = r.queue[k]
      <4>1. k \in 1 .. Len(q) /\ k <= m - 1
        BY <2>3, <3>1
      <4>2. q[k] = before[k]
        BY <3>2, <4>1
      <4>3. QED
        BY <2>4, <4>2
    <3>4. ASSUME NEW k \in m .. Len(r.queue) - 1
          PROVE  q[k] = r.queue[k + 1]
      <4>1. k - (m - 1) \in 1 .. Len(r.queue) - m /\ m + (k - (m - 1)) = k + 1
        BY <2>3
      <4>2. q[k] = after[k - (m - 1)]
        BY <2>3, <3>1, <3>2
      <4>3. QED
        BY <2>5, <4>1, <4>2
    <3>5. QED
      BY <3>1, <3>3, <3>4
  <2>7. Stop(r) \in DeviceState /\ Stop(r).queue = q
    BY <2>6 DEF Stop, DeviceState, UidValue, q
  <2>8. ASSUME NEW T, NEW k \in Queued(Stop(r), T)
        PROVE  /\ k \in Nat
               /\ k < m => k \in Queued(r, T)
               /\ k >= m => k + 1 \in Queued(r, T)
    <3>1. k \in 1 .. Len(r.queue) - 1 /\ q[k].type \in T
      BY <2>6, <2>7 DEF Queued
    <3>2. DOMAIN r.queue = 1 .. Len(r.queue)
      BY <1>1
    <3>3. ASSUME k < m PROVE k \in Queued(r, T)
      <4>1. k \in 1 .. m - 1 /\ k \in 1 .. Len(r.queue)
        BY <2>3, <3>1, <3>3
      <4>2. QED
        BY <2>6, <3>1, <3>2, <4>1 DEF Queued
    <3>4. ASSUME k >= m PROVE k + 1 \in Queued(r, T)
      <4>1. k \in m .. Len(r.queue) - 1 /\ k + 1 \in 1 .. Len(r.queue)
        BY <2>3, <3>1, <3>4
      <4>2. QED
        BY <2>6, <3>1, <3>2, <4>1 DEF Queued
    <3>5. QED
      BY <3>1, <3>3, <3>4
  <2>9. Queued(Stop(r), {"PeriodicValidation"}) = {}
    <3>1. m \in Queued(r, {"PeriodicValidation"})
      BY <1>1
    <3> m \in Nat
      BY <2>3
    <3>2. SUFFICES ASSUME NEW k \in Queued(Stop(r), {"PeriodicValidation"})
                   PROVE  FALSE
      OBVIOUS
    <3>3. QED
      BY <2>8, <3>1
  <2>10. ASSUME NEW T, \A j, k \in Queued(r, T) : j = k,
                NEW j \in Queued(Stop(r), T), NEW k \in Queued(Stop(r), T)
         PROVE  j = k
    <3>1. j \in Nat /\ k \in Nat /\ m \in Nat
      BY <2>3, <2>8
    <3>2. CASE j < m /\ k < m
      BY <2>8, <2>10, <3>2
    <3>3. CASE j >= m /\ k >= m
      BY <2>8, <2>10, <3>1, <3>3
    <3>4. CASE j < m /\ k >= m
      BY <2>8, <2>10, <3>1, <3>4
    <3>5. CASE j >= m /\ k < m
      BY <2>8, <2>10, <3>1, <3>5
    <3>6. QED
      BY <3>1, <3>2, <3>3, <3>4, <3>5
  <2>11. \A T : Queued(r, T) = {} => Queued(Stop(r), T) = {}
    BY <2>3, <2>8
  <2>12. QED
    BY <2>7, <2>9, <2>10, <2>11
<1>4. QED
  BY <1>2, <1>3
-----------------------------------------------------------------------------
(***************************************************************************)
(* What the helpers preserve: the invariant of one device.                 *)
(***************************************************************************)
DeviceInv(r) == r \in DeviceState /\ SleepInv(r) /\ JoinInv(r) /\ ValidationInv(r)

\* The queued jobs that the invariant speaks of.
Tracked == JoinTask \cup {"PeriodicValidation"}

\* A frame received, or a response to send, joins the queue unnoticed.
LEMMA EnqueueInv ==
  ASSUME NEW r, DeviceInv(r), r.thread # "off",
         NEW job \in Job, job.type \notin Tracked
  PROVE  DeviceInv(Enqueue(r, job))
<1> DEFINE e == Enqueue(r, job)
<1>1. r \in DeviceState /\ e \in DeviceState
  BY EnqueueLemma DEF DeviceInv
<1>2. /\ Queued(e, JoinTask) = Queued(r, JoinTask)
      /\ Queued(e, {"SendIdClaim"}) = Queued(r, {"SendIdClaim"})
      /\ Queued(e, {"PeriodicValidation"}) = Queued(r, {"PeriodicValidation"})
  <2>1. job.type \notin JoinTask /\ job.type \notin {"SendIdClaim"}
        /\ job.type \notin {"PeriodicValidation"}
    BY DEF Tracked, JoinTask
  <2>2. QED
    BY <1>1, <2>1, EnqueueLemma
<1>3. e = [r EXCEPT !.queue = e.queue]
  BY <1>1 DEF Enqueue, DeviceState
<1> HIDE DEF e
<1>4. SleepInv(e)
  BY <1>1, <1>3 DEF DeviceInv, SleepInv, DeviceState
<1>5. JoinInv(e)
  BY <1>1, <1>2, <1>3 DEF DeviceInv, JoinInv, DeviceState
<1>6. ValidationInv(e)
  BY <1>1, <1>2, <1>3 DEF DeviceInv, ValidationInv, DeviceState, Known
<1>7. QED
  BY <1>1, <1>4, <1>5, <1>6 DEF DeviceInv, e

\* Taking a job keeps the invariant; of a tracked kind it was the only one.
LEMMA DequeueInv ==
  ASSUME NEW r, DeviceInv(r), r.queue # <<>>
  PROVE  /\ DeviceInv(Dequeue(r)) /\ r.thread # "off"
         /\ Dequeue(r) = [r EXCEPT !.queue = Dequeue(r).queue]
         /\ Head(r.queue) \in Job
         /\ Head(r.queue).type \in JoinTask => Queued(Dequeue(r), JoinTask) = {}
         /\ Head(r.queue).type = "PeriodicValidation" =>
              Queued(Dequeue(r), {"PeriodicValidation"}) = {}
<1> DEFINE e == Dequeue(r)
<1>1. r \in DeviceState /\ e \in DeviceState /\ Head(r.queue) \in Job
  BY DequeueLemma DEF DeviceInv
<1>2. /\ \A T : Queued(r, T) = {} => Queued(e, T) = {}
      /\ \A j, k \in Queued(e, JoinTask) : j = k
      /\ \A j, k \in Queued(e, {"PeriodicValidation"}) : j = k
      /\ Head(r.queue).type \in JoinTask => Queued(e, JoinTask) = {}
      /\ Head(r.queue).type = "PeriodicValidation" =>
           Queued(e, {"PeriodicValidation"}) = {}
  <2>1. /\ \A j, k \in Queued(r, JoinTask) : j = k
        /\ \A j, k \in Queued(r, {"PeriodicValidation"}) : j = k
    BY DEF DeviceInv, JoinInv, ValidationInv
  <2>2. QED
    BY <1>1, <2>1, DequeueLemma
<1>3. e = [r EXCEPT !.queue = e.queue]
  BY <1>1 DEF Dequeue, DeviceState
<1> HIDE DEF e
<1>4. SleepInv(e)
  BY <1>1, <1>3 DEF DeviceInv, SleepInv, DeviceState
<1>4a. r.thread # "off"
  BY DEF DeviceInv, JoinInv
<1>5. JoinInv(e)
  BY <1>1, <1>2, <1>3, <1>4a DEF DeviceInv, JoinInv, DeviceState
<1>6. ValidationInv(e)
  <2>1. Known(e) = Known(r) /\ e.id = r.id /\ e.lowest = r.lowest
    BY <1>1, <1>3 DEF Known, DeviceState
  <2>2. Queued(r, {"PeriodicValidation"}) = {} =>
          Queued(e, {"PeriodicValidation"}) = {}
    BY <1>2
  <2>3. QED
    BY <1>1, <1>2, <1>3, <2>1, <2>2 DEF DeviceInv, ValidationInv, DeviceState
<1>7. QED
  BY <1>1, <1>2, <1>3, <1>4, <1>4a, <1>5, <1>6 DEF DeviceInv, e

\* Learning of a device keeps the invariant: an addition refreshes the flag.
LEMMA AddOrUpdateInv ==
  ASSUME NEW r, DeviceInv(r), NEW id \in Id, NEW uid \in UidValue
  PROVE  DeviceInv(AddOrUpdateDevice(r, id, uid))
<1>1. CASE id \in Known(r)
  BY <1>1 DEF AddOrUpdateDevice
<1>2. CASE id \notin Known(r)
  <2> DEFINE s == [r EXCEPT !.table[id] = uid]
             e == UpdateNetworkDevices(s)
  <2>1. r \in DeviceState
    BY DEF DeviceInv
  <2>2. s \in DeviceState
    BY <2>1 DEF DeviceState
  <2>3. /\ e \in DeviceState
        /\ e.lowest <=> \A i \in Known(s) : s.id <= i
        /\ e = [s EXCEPT !.lowest = e.lowest]
    BY <2>2 DEF DeviceState, UpdateNetworkDevices
  <2>4. Known(e) = Known(s) /\ e.id = s.id
    <3>1. e.table = s.table /\ e.id = s.id
      BY <2>2 DEF DeviceState, UpdateNetworkDevices
    <3>2. QED
      BY <3>1 DEF Known
  <2>5. e = [r EXCEPT !.table = e.table, !.lowest = e.lowest]
    BY <2>1, <2>2, <2>3 DEF DeviceState
  <2>6. AddOrUpdateDevice(r, id, uid) = e
    BY <1>2 DEF AddOrUpdateDevice
  <2> HIDE DEF e, s
  <2>7. \A T : Queued(e, T) = Queued(r, T)
    BY <2>1, <2>5 DEF Queued, DeviceState
  <2>8. SleepInv(e)
    BY <2>1, <2>5 DEF DeviceInv, SleepInv, DeviceState
  <2>9. JoinInv(e)
    BY <2>1, <2>5, <2>7 DEF DeviceInv, JoinInv, DeviceState
  <2>10. ValidationInv(e)
    <3>1. e.armed => (e.lowest <=> \A i \in Known(e) : e.id <= i)
      BY <2>3, <2>4
    <3>2. QED
      BY <2>1, <2>5, <2>7, <3>1 DEF DeviceInv, ValidationInv, DeviceState
  <2>11. QED
    BY <2>3, <2>6, <2>8, <2>9, <2>10 DEF DeviceInv
<1>3. QED
  BY <1>1, <1>2

\* Entering ERROR from the work queue stops the network service for good.
LEMMA ErrorInv ==
  ASSUME NEW r, DeviceInv(r), r.sleeping = Idle, r.thread # "off"
  PROVE  /\ DeviceInv(SetStatus(r, "ERROR"))
         /\ SetStatus(r, "ERROR").claiming = Unassigned
<1>0. r \in DeviceState /\ r.claiming = Unassigned
  BY DEF DeviceInv, SleepInv, Idle
<1>1. CASE <<r.status, "ERROR">> \notin IsValidTransition
  BY <1>0, <1>1 DEF SetStatus
<1>2. CASE <<r.status, "ERROR">> \in IsValidTransition
  <2> DEFINE s == [r EXCEPT !.status = "ERROR"]
             e == Stop(s)
  <2>1. s \in DeviceState
    BY <1>0 DEF DeviceState, Status
  <2>2. \A T : Queued(s, T) = Queued(r, T)
    BY <1>0 DEF Queued, DeviceState
  <2>3. SetStatus(r, "ERROR") = e
    BY <1>2, <2>1 DEF SetStatus, OnDeviceStatusChanged, DeviceState
  <2>4. /\ \A j, k \in Queued(s, {"PeriodicValidation"}) : j = k
        /\ \A j, k \in Queued(s, JoinTask) : j = k
    BY <2>2 DEF DeviceInv, ValidationInv, JoinInv
  <2> HIDE DEF s
  <2>5. /\ e \in DeviceState
        /\ Queued(e, {"PeriodicValidation"}) = {}
        /\ \A T : Queued(s, T) = {} => Queued(e, T) = {}
        /\ \A j, k \in Queued(e, JoinTask) : j = k
    BY <2>1, <2>4, StopLemma
  <2>6. e = [s EXCEPT !.validating = FALSE, !.armed = FALSE, !.queue = e.queue,
                      !.table = e.table, !.listening = FALSE]
    BY <2>1 DEF Stop, DeviceState
  <2> HIDE DEF e
  <2>7. e = [r EXCEPT !.status = "ERROR", !.validating = FALSE, !.armed = FALSE,
                      !.queue = e.queue, !.table = e.table, !.listening = FALSE]
    BY <1>0, <2>6 DEF s, DeviceState
  <2>8. SleepInv(e)
    BY <1>0, <2>7 DEF DeviceInv, SleepInv, DeviceState, Idle
  <2>9. JoinInv(e)
    <3>1. Queued(r, JoinTask) = {} => Queued(e, JoinTask) = {}
      BY <2>2, <2>5
    <3>2. /\ e.status = "ERROR" /\ e.thread = r.thread
          /\ e.sleeping = Idle /\ Idle \notin JoinTask
      BY <1>0, <2>7 DEF DeviceState, Idle, JoinTask
    <3>3. QED
      BY <2>5, <3>1, <3>2 DEF DeviceInv, JoinInv
  <2>10. ValidationInv(e)
    BY <1>0, <2>5, <2>7 DEF DeviceInv, ValidationInv, DeviceState
  <2>11. e.claiming = Unassigned
    BY <1>0, <2>7 DEF DeviceState
  <2>12. QED
    BY <2>3, <2>5, <2>8, <2>9, <2>10, <2>11 DEF DeviceInv
<1>3. QED
  BY <1>1, <1>2
-----------------------------------------------------------------------------
(***************************************************************************)
(* One step of one device changes that device, and, when it sends, the     *)
(* queues of the devices that hear it.                                     *)
(***************************************************************************)
\* The inductive invariant as a statement about each device.
LEMMA DeviceByDevice ==
  InductiveInv <=> /\ dev \in [Device -> DeviceState]
                   /\ losses \in Nat /\ cycles \in Nat
                   /\ \A d \in Device : DeviceInv(dev[d])
BY DEF InductiveInv, TypeOK, DeviceInv

\* A step that changes one device, and counts what it counts.
LEMMA OneDeviceInv ==
  ASSUME InductiveInv, NEW d \in Device, NEW r, DeviceInv(r),
         dev' = [dev EXCEPT ![d] = r], losses' \in Nat, cycles' \in Nat
  PROVE  InductiveInv'
<1>1. r \in DeviceState
  BY DEF DeviceInv
<1>2. dev' \in [Device -> DeviceState]
  BY <1>1, DeviceByDevice
<1>3. \A e \in Device : dev'[e] = IF e = d THEN r ELSE dev[e]
  BY DeviceByDevice
<1>4. \A e \in Device : DeviceInv(dev[e])
  BY DeviceByDevice
<1>5. \A e \in Device : DeviceInv(dev'[e])
  BY <1>3, <1>4
<1>6. TypeOK'
  BY <1>2 DEF TypeOK
<1>7. QED
  BY <1>5, <1>6 DEF InductiveInv, DeviceInv

\* A step that changes its own device only.
LEMMA BecomeInv ==
  ASSUME InductiveInv, NEW d \in Device, NEW r, DeviceInv(r), Become(d, r)
  PROVE  InductiveInv'
<1>1. /\ dev' = [dev EXCEPT ![d] = r]
      /\ losses' \in Nat /\ cycles' \in Nat
  BY DeviceByDevice DEF Become
<1>2. QED
  BY <1>1, OneDeviceInv

\* A step that sends a frame, whoever hears it.
LEMMA SendInv ==
  ASSUME InductiveInv, NEW d \in Device, NEW r, DeviceInv(r),
         NEW frame \in Frame, Send(d, r, frame)
  PROVE  InductiveInv'
<1>1. frame \in Job /\ frame.type \notin Tracked
  BY DEF Frame, Job, Tracked, JoinTask
<1>2. PICK missed \in SUBSET Listeners(d) :
        /\ losses' = IF missed = {} THEN losses ELSE losses + 1
        /\ dev' = [e \in Device |->
                     IF e = d THEN r
                     ELSE IF e \in Listeners(d) \ missed THEN Enqueue(dev[e], frame)
                     ELSE dev[e]]
        /\ cycles' = cycles
  BY DEF Send
<1>3. ASSUME NEW e \in Device
      PROVE  DeviceInv(dev'[e])
  <2>1. DeviceInv(dev[e])
    BY DeviceByDevice
  <2>2. CASE e \in Listeners(d) \ missed /\ e # d
    <3>1. dev[e].thread # "off"
      BY <2>1, <2>2 DEF Listeners, DeviceInv, JoinInv
    <3>2. QED
      BY <1>1, <1>2, <2>1, <2>2, <3>1, EnqueueInv
  <2>3. CASE ~(e \in Listeners(d) \ missed /\ e # d)
    BY <1>2, <2>1, <2>3
  <2>4. QED
    BY <2>2, <2>3
<1>4. dev' \in [Device -> DeviceState]
  <2>1. dev' = [e \in Device |-> dev'[e]]
    BY <1>2
  <2>2. \A e \in Device : dev'[e] \in DeviceState
    BY <1>3 DEF DeviceInv
  <2>3. QED
    BY <2>1, <2>2
<1>5. losses' \in Nat /\ cycles' \in Nat
  BY <1>2, DeviceByDevice
<1>6. TypeOK'
  BY <1>4, <1>5 DEF TypeOK
<1>7. QED
  BY <1>3, <1>6 DEF InductiveInv, DeviceInv

\* The frames that the actions send are frames.
LEMMA FrameLemma ==
  ASSUME NEW d \in Device, NEW id \in Id, NEW result \in ClaimResult
  PROVE  /\ DiscoveryRequest(d) \in Frame /\ DiscoveryResponse(d, id) \in Frame
         /\ IdClaim(d, id) \in Frame /\ IdClaimResponse(id, result) \in Frame
<1>1. Uid[d] \in UidValue /\ Version[d] \in Nat
  BY VersionAssumption DEF UidValue
<1>2. QED
  BY <1>1 DEF Frame, DiscoveryRequest, DiscoveryResponse, IdClaim, IdClaimResponse

\* A device whose work queue is about to run a job.
LEMMA ReadyLemma ==
  ASSUME InductiveInv, NEW d \in Device, NEW type, Ready(d, type)
  PROVE  LET r == Dequeue(dev[d])
         IN  /\ DeviceInv(r)
             /\ r.sleeping = Idle
             /\ r.claiming = Unassigned
             /\ r.thread # "off"
             /\ Head(dev[d].queue) \in Job
             /\ type \in JoinTask =>
                  Queued(r, JoinTask) = {} /\ dev[d].thread = "running"
             /\ type = "PeriodicValidation" =>
                  Queued(r, {"PeriodicValidation"}) = {}
             /\ type = "SendIdClaim" => r.status \in {"CLAIMING", "ERROR"}
<1> DEFINE r == Dequeue(dev[d])
<1>1. /\ DeviceInv(dev[d]) /\ dev[d].queue # <<>> /\ dev[d].sleeping = Idle
      /\ Head(dev[d].queue).type = type
  BY DeviceByDevice DEF Ready
<1>2. /\ DeviceInv(r) /\ dev[d].thread # "off"
      /\ r = [dev[d] EXCEPT !.queue = r.queue]
      /\ Head(dev[d].queue) \in Job
      /\ type \in JoinTask => Queued(r, JoinTask) = {}
      /\ type = "PeriodicValidation" => Queued(r, {"PeriodicValidation"}) = {}
  BY <1>1, DequeueInv
<1>3. dev[d] \in DeviceState
  BY <1>1 DEF DeviceInv
<1> HIDE DEF r
<1>4. r.sleeping = Idle /\ r.status = dev[d].status /\ r.thread = dev[d].thread
  BY <1>1, <1>2, <1>3 DEF DeviceState
<1>5. r.claiming = Unassigned
  BY <1>2, <1>4 DEF DeviceInv, SleepInv, Idle
<1>6. \A T : type \in T => Queued(dev[d], T) # {}
  <2>1. 1 \in DOMAIN dev[d].queue /\ dev[d].queue[1] = Head(dev[d].queue)
    BY <1>1, <1>3 DEF DeviceState
  <2>2. QED
    BY <1>1, <2>1 DEF Queued
<1>7. type \in JoinTask => dev[d].thread = "running"
  BY <1>1, <1>6 DEF DeviceInv, JoinInv
<1>8. type = "SendIdClaim" => r.status \in {"CLAIMING", "ERROR"}
  BY <1>1, <1>4, <1>6 DEF DeviceInv, JoinInv
<1>9. QED
  BY <1>2, <1>4, <1>5, <1>7, <1>8 DEF r
-----------------------------------------------------------------------------
(***************************************************************************)
(* The actions, one lemma each.                                            *)
(***************************************************************************)
\* A device without power satisfies the invariant, before and after.
LEMMA PoweredOffInv == DeviceInv(PoweredOff)
<1>1. PoweredOff \in DeviceState
  BY DEF PoweredOff, DeviceState, Status, Idle, NoResult
<1>2. \A T : Queued(PoweredOff, T) = {}
  BY DEF Queued, PoweredOff
<1>3. QED
  BY <1>1, <1>2 DEF DeviceInv, SleepInv, JoinInv, ValidationInv, PoweredOff, Idle,
                    JoinTask, Unassigned, NoResult

\* The services start: the CAN handler is registered, nothing runs yet.
LEMMA PowerOnInv ==
  ASSUME InductiveInv, NEW d \in Device, PowerOn(d)
  PROVE  InductiveInv'
<1> DEFINE r == [dev[d] EXCEPT !.thread = "starting", !.listening = TRUE]
<1>1. /\ DeviceInv(dev[d]) /\ dev[d] \in DeviceState /\ dev[d].thread = "off"
      /\ dev[d].status = "OFFLINE"
  BY DeviceByDevice DEF PowerOn, DeviceInv, JoinInv
<1>2. r \in DeviceState
  BY <1>1 DEF DeviceState
<1>3. \A T : Queued(r, T) = Queued(dev[d], T)
  BY <1>1 DEF Queued, DeviceState
<1>4. SleepInv(r)
  BY <1>1 DEF DeviceInv, SleepInv, DeviceState
<1>5. JoinInv(r)
  BY <1>1, <1>3 DEF DeviceInv, JoinInv, DeviceState
<1>6. ValidationInv(r)
  BY <1>1, <1>3 DEF DeviceInv, ValidationInv, DeviceState, Known
<1>7. QED
  BY <1>2, <1>4, <1>5, <1>6, BecomeInv DEF PowerOn, DeviceInv

\* Discovery starts from OFFLINE, or from an ERROR entered while starting: the
\* job queued for it is the only one of the join.
LEMMA StartDiscoveryInv ==
  ASSUME InductiveInv, NEW d \in Device, StartDiscovery(d)
  PROVE  InductiveInv'
<1> DEFINE r == [dev[d] EXCEPT !.thread = "running"]
           s == [r EXCEPT !.status = "INIT"]
           job == [type |-> "StartInitialization"]
           e == Enqueue(s, job)
<1>1. /\ DeviceInv(dev[d]) /\ dev[d] \in DeviceState
      /\ dev[d].status \in {"OFFLINE", "ERROR"} /\ dev[d].sleeping = Idle
      /\ Queued(dev[d], JoinTask) = {}
  BY DeviceByDevice DEF StartDiscovery, DeviceInv, JoinInv
<1>2. s \in DeviceState /\ s = [dev[d] EXCEPT !.thread = "running", !.status = "INIT"]
  BY <1>1 DEF DeviceState, Status
<1>3. SetStatus(r, "INIT") = e
  BY <1>1, <1>2 DEF SetStatus, IsValidTransition, OnDeviceStatusChanged, DeviceState
<1>4. \A T : Queued(s, T) = Queued(dev[d], T)
  BY <1>1, <1>2 DEF Queued, DeviceState
<1>5. job \in Job /\ job.type \notin {"SendIdClaim"}
      /\ job.type \notin {"PeriodicValidation"}
  BY DEF Job, Task
<1>6. e \in DeviceState /\ e = [s EXCEPT !.queue = e.queue]
  BY <1>2, <1>5, EnqueueLemma DEF Enqueue, DeviceState
<1>7. /\ \A j, k \in Queued(e, JoinTask) : j = k
      /\ Queued(e, {"SendIdClaim"}) = Queued(dev[d], {"SendIdClaim"})
      /\ Queued(e, {"PeriodicValidation"}) = Queued(dev[d], {"PeriodicValidation"})
  BY <1>1, <1>2, <1>4, <1>5, EnqueueLemma
<1>8. Queued(dev[d], {"SendIdClaim"}) = {}
  BY <1>1 DEF Queued, JoinTask
<1> HIDE DEF e
<1>9. e = [dev[d] EXCEPT !.thread = "running", !.status = "INIT", !.queue = e.queue]
  BY <1>1, <1>2, <1>6 DEF DeviceState
<1>10. SleepInv(e)
  BY <1>1, <1>9 DEF DeviceInv, SleepInv, DeviceState, Idle
<1>11. JoinInv(e)
  BY <1>1, <1>7, <1>8, <1>9 DEF JoinInv, DeviceState, Idle, JoinTask
<1>12. ValidationInv(e)
  BY <1>1, <1>7, <1>9 DEF DeviceInv, ValidationInv, DeviceState, Known
<1>13. QED
  BY <1>3, <1>6, <1>10, <1>11, <1>12, BecomeInv DEF StartDiscovery, DeviceInv, e

\* A device that loses power is as good as new.
LEMMA PowerOffInv ==
  ASSUME InductiveInv, NEW d \in Device, PowerOff(d)
  PROVE  InductiveInv'
<1>1. /\ dev' = [dev EXCEPT ![d] = PoweredOff]
      /\ losses' = losses /\ cycles' = cycles + 1
      /\ dev \in [Device -> DeviceState]
      /\ losses \in Nat /\ cycles \in Nat
      /\ \A e \in Device : DeviceInv(dev[e])
  BY DeviceByDevice DEF PowerOff
<1>2. \A e \in Device : dev'[e] = IF e = d THEN PoweredOff ELSE dev[e]
  BY <1>1
<1>3. \A e \in Device : DeviceInv(dev'[e])
  BY <1>1, <1>2, PoweredOffInv
<1>4. TypeOK'
  BY <1>1, PoweredOffInv DEF TypeOK, DeviceInv
<1>5. QED
  BY <1>3, <1>4 DEF InductiveInv, DeviceInv

\* The device that has just broadcast a discovery request, and sleeps.
LEMMA DiscoverInv ==
  ASSUME InductiveInv, NEW d \in Device, NEW r \in DeviceState,
         r.result = NoResult, r.claiming = Unassigned, r.status = "INIT",
         ~r.answered, r.thread = "running", Queued(r, JoinTask) = {},
         ValidationInv(r),
         NEW index \in Nat, index < Backoffs, NEW resets \in Nat,
         Discover(d, r, index, resets)
  PROVE  InductiveInv'
<1> DEFINE e == [r EXCEPT !.requesting = <<>>, !.sleeping = "StartInitialization",
                          !.index = index, !.resets = resets]
<1>1. e \in DeviceState
  <2>1. <<>> \in Seq(UidValue) /\ "StartInitialization" \in Sleeper
    BY DEF Sleeper
  <2>2. QED
    BY <2>1 DEF DeviceState
<1>2. /\ \A T : Queued(e, T) = Queued(r, T)
      /\ Queued(e, {"SendIdClaim"}) = {}
  BY DEF Queued, DeviceState, JoinTask
<1>3. SleepInv(e)
  BY DEF SleepInv, DeviceState, Unassigned
<1>4. JoinInv(e)
  BY <1>2 DEF JoinInv, DeviceState
<1>5. ValidationInv(e)
  BY <1>2 DEF ValidationInv, DeviceState, Known
<1>6. DiscoveryRequest(d) \in Frame
  BY DEF Frame, DiscoveryRequest, UidValue
<1>7. QED
  BY <1>1, <1>3, <1>4, <1>5, <1>6, SendInv DEF Discover, DeviceInv

\* The first request of a discovery, or none if the device is not in INIT.
LEMMA StartInitializationInv ==
  ASSUME InductiveInv, NEW d \in Device, StartInitialization(d)
  PROVE  InductiveInv'
<1> DEFINE q == Dequeue(dev[d])
           r == [q EXCEPT !.answered = FALSE]
<1>1. /\ DeviceInv(q) /\ q.sleeping = Idle /\ q.claiming = Unassigned
      /\ Queued(q, JoinTask) = {} /\ dev[d].thread = "running"
  BY ReadyLemma DEF StartInitialization, JoinTask
<1>2. q.thread = "running" /\ q \in DeviceState
  BY <1>1, DeviceByDevice DEF Dequeue, DeviceState, DeviceInv
<1> HIDE DEF q
<1>3. r \in DeviceState /\ \A T : Queued(r, T) = Queued(q, T)
  BY <1>2 DEF DeviceState, Queued
<1>4. SleepInv(r)
  BY <1>1, <1>2 DEF DeviceInv, SleepInv, DeviceState, Idle
<1>5. JoinInv(r)
  BY <1>1, <1>2, <1>3 DEF DeviceInv, JoinInv, DeviceState
<1>6. ValidationInv(r)
  <2>1. /\ r.table = q.table /\ r.lowest = q.lowest /\ r.id = q.id
        /\ r.validating = q.validating /\ r.armed = q.armed /\ r.status = q.status
        /\ r.listening = q.listening
    BY <1>2 DEF DeviceState
  <2>2. Known(r) = Known(q)
    BY <2>1, Zenon DEF Known
  <2>3. ValidationInv(q) /\ Queued(r, {"PeriodicValidation"}) = Queued(q, {"PeriodicValidation"})
    BY <1>1, <1>3, Zenon DEF DeviceInv
  <2>4. QED
    BY <2>1, <2>2, <2>3 DEF ValidationInv
<1>7. CASE r.status = "INIT"
  <2>1. Discover(d, r, 0, 0)
    BY <1>7 DEF StartInitialization, q
  <2>2. /\ r.result = NoResult /\ r.claiming = Unassigned /\ ~r.answered
        /\ r.thread = "running" /\ Queued(r, JoinTask) = {}
    BY <1>1, <1>2, <1>3, <1>4 DEF SleepInv, DeviceState
  <2>3. 0 < Backoffs
    BY SizeAssumption
  <2> HIDE DEF r
  <2>4. QED
    BY <1>3, <1>6, <1>7, <2>1, <2>2, <2>3, DiscoverInv
<1>8. CASE r.status # "INIT"
  <2>1. Become(d, r)
    BY <1>8 DEF StartInitialization, q
  <2>2. QED
    BY <1>3, <1>4, <1>5, <1>6, <2>1, BecomeInv DEF DeviceInv
<1>9. QED
  BY <1>7, <1>8

\* A job of the queue that is a frame carries the fields of its type.
LEMMA JobLemma ==
  ASSUME NEW job \in Job
  PROVE  /\ job.type = "DISCOVERY_REQUEST" => job.uid \in UidValue
         /\ job.type \in {"DISCOVERY_RESPONSE", "ID_CLAIM"} =>
              job.id \in Id /\ job.uid \in UidValue
         /\ job.type = "ID_CLAIM_RESPONSE" => job.id \in Id
BY DEF Job, Frame, Task

\* Nobody was heard while the work queue slept, so the back-off is not restarted
\* and the discovery was not answered: the next step is the next request, or
\* the claim.
LEMMA WakeInitializationInv ==
  ASSUME InductiveInv, NEW d \in Device, WakeInitialization(d)
  PROVE  InductiveInv'
<1> DEFINE r == [dev[d] EXCEPT !.sleeping = Idle]
           s == [r EXCEPT !.status = "CLAIMING"]
           job == [type |-> "SendIdClaim"]
           e == Enqueue(s, job)
<1>1. /\ DeviceInv(dev[d]) /\ dev[d] \in DeviceState
      /\ dev[d].sleeping = "StartInitialization"
      /\ dev[d].status = "INIT" /\ ~dev[d].answered /\ dev[d].requesting = <<>>
      /\ dev[d].claiming = Unassigned /\ dev[d].thread = "running"
      /\ Queued(dev[d], JoinTask) = {}
  BY DeviceByDevice DEF WakeInitialization, DeviceInv, SleepInv, JoinInv, JoinTask, Idle
<1>2. Yielding(d) = 0
  <2>1. {k \in DOMAIN dev[d].requesting : Uid[d] > dev[d].requesting[k]} = {}
    BY <1>1
  <2>2. QED
    BY <2>1, FS_EmptySet DEF Yielding
<1>3. /\ r \in DeviceState /\ r.status = "INIT" /\ ~r.answered
      /\ r.index \in Nat /\ r.resets \in Nat
      /\ r.index = dev[d].index /\ r.resets = dev[d].resets
  BY <1>1 DEF DeviceState
<1>4. \A T : Queued(r, T) = Queued(dev[d], T)
  BY <1>1 DEF Queued, DeviceState
<1>5. ValidationInv(r)
  BY <1>1, <1>4 DEF DeviceInv, ValidationInv, DeviceState, Known
<1>6. CASE r.index + 1 >= Backoffs
  <2>1. Become(d, SetStatus(r, "CLAIMING"))
    BY <1>2, <1>3, <1>6 DEF WakeInitialization
  <2>2. /\ s \in DeviceState
        /\ s = [dev[d] EXCEPT !.sleeping = Idle, !.status = "CLAIMING"]
    BY <1>1 DEF DeviceState, Status, Idle
  <2>3. SetStatus(r, "CLAIMING") = e
    BY <1>3, <2>2 DEF SetStatus, IsValidTransition, OnDeviceStatusChanged, DeviceState
  <2>4. \A T : Queued(s, T) = Queued(dev[d], T)
    BY <1>1, <2>2 DEF Queued, DeviceState
  <2>5. job \in Job /\ job.type \notin {"PeriodicValidation"}
    BY DEF Job, Task
  <2>6. e \in DeviceState /\ e = [s EXCEPT !.queue = e.queue]
    BY <2>2, <2>5, EnqueueLemma DEF Enqueue, DeviceState
  <2>7. /\ \A j, k \in Queued(e, JoinTask) : j = k
        /\ Queued(e, {"PeriodicValidation"}) = Queued(dev[d], {"PeriodicValidation"})
    BY <1>1, <2>2, <2>4, <2>5, EnqueueLemma
  <2> HIDE DEF e
  <2>8. e = [dev[d] EXCEPT !.sleeping = Idle, !.status = "CLAIMING", !.queue = e.queue]
    BY <1>1, <2>2, <2>6 DEF DeviceState
  <2>9. SleepInv(e)
    BY <1>1, <2>8 DEF DeviceInv, SleepInv, DeviceState, Idle
  <2>10. JoinInv(e)
    BY <1>1, <2>7, <2>8 DEF JoinInv, DeviceState, Idle, JoinTask
  <2>11. ValidationInv(e)
    BY <1>1, <2>7, <2>8 DEF DeviceInv, ValidationInv, DeviceState, Known
  <2>12. QED
    BY <2>1, <2>3, <2>6, <2>9, <2>10, <2>11, BecomeInv DEF DeviceInv
<1>7. CASE ~(r.index + 1 >= Backoffs)
  <2> DEFINE resets == IF r.resets + Yielding(d) < MaxBackoffResets
                       THEN r.resets + Yielding(d) ELSE MaxBackoffResets
  <2>1. Discover(d, r, r.index + 1, resets)
    BY <1>2, <1>3, <1>7 DEF WakeInitialization
  <2>2. resets \in Nat /\ r.index + 1 \in Nat /\ r.index + 1 < Backoffs
    BY <1>2, <1>3, <1>7, SizeAssumption
  <2>3. /\ r.result = NoResult /\ r.claiming = Unassigned /\ r.thread = "running"
        /\ Queued(r, JoinTask) = {}
    BY <1>1, <1>4 DEF DeviceInv, SleepInv, DeviceState
  <2> HIDE DEF r, resets
  <2>4. QED
    BY <1>3, <1>5, <2>1, <2>2, <2>3, DiscoverInv
<1>8. QED
  BY <1>6, <1>7

\* A request heard: its sender is noted and the response queued.
LEMMA ProcessDiscoveryRequestFrameInv ==
  ASSUME InductiveInv, NEW d \in Device, ProcessDiscoveryRequestFrame(d)
  PROVE  InductiveInv'
<1> DEFINE q == Dequeue(dev[d])
           uid == Head(dev[d].queue).uid
           r == [q EXCEPT !.requesting = Append(@, uid)]
           job == [type |-> "SendDiscoveryResponse"]
<1>1. /\ DeviceInv(q) /\ q.sleeping = Idle /\ q.thread # "off"
      /\ Head(dev[d].queue) \in Job
      /\ Head(dev[d].queue).type = "DISCOVERY_REQUEST"
  BY ReadyLemma DEF ProcessDiscoveryRequestFrame, Ready
<1>2. uid \in UidValue
  BY <1>1, JobLemma
<1>3. q \in DeviceState
  BY <1>1 DEF DeviceInv
<1>4. Become(d, Enqueue(r, job))
  BY DEF ProcessDiscoveryRequestFrame
<1> HIDE DEF q, uid
<1>5. r \in DeviceState /\ r.thread # "off"
  <2>1. Append(q.requesting, uid) \in Seq(UidValue)
    BY <1>2, <1>3 DEF DeviceState
  <2>2. QED
    BY <1>1, <1>3, <2>1 DEF DeviceState
<1>6. \A T : Queued(r, T) = Queued(q, T)
  BY <1>3 DEF Queued, DeviceState
<1>7. SleepInv(r)
  BY <1>1, <1>3 DEF DeviceInv, SleepInv, DeviceState, Idle
<1>8. JoinInv(r)
  BY <1>1, <1>3, <1>6 DEF DeviceInv, JoinInv, DeviceState
<1>9. ValidationInv(r)
  BY <1>1, <1>3, <1>6 DEF DeviceInv, ValidationInv, DeviceState, Known
<1>10. job \in Job /\ job.type \notin Tracked
  BY DEF Job, Task, Tracked, JoinTask
<1> HIDE DEF r
<1>11. DeviceInv(Enqueue(r, job))
  BY <1>5, <1>7, <1>8, <1>9, <1>10, EnqueueInv DEF DeviceInv
<1>12. QED
  BY <1>4, <1>11, BecomeInv

\* Only an online device goes to sleep for its stagger delay.
LEMMA SendDiscoveryResponseInv ==
  ASSUME InductiveInv, NEW d \in Device, SendDiscoveryResponse(d)
  PROVE  InductiveInv'
<1> DEFINE q == Dequeue(dev[d])
           r == [q EXCEPT !.sleeping = "SendDiscoveryResponse"]
<1>1. /\ DeviceInv(q) /\ q.sleeping = Idle /\ q.claiming = Unassigned
  BY ReadyLemma DEF SendDiscoveryResponse
<1>2. q \in DeviceState
  BY <1>1 DEF DeviceInv
<1>3. Become(d, IF q.status = "ONLINE" THEN r ELSE q)
  BY DEF SendDiscoveryResponse
<1> HIDE DEF q
<1>4. CASE q.status = "ONLINE"
  <2>1. r \in DeviceState /\ \A T : Queued(r, T) = Queued(q, T)
    BY <1>2 DEF DeviceState, Sleeper, Queued
  <2>2. SleepInv(r)
    BY <1>1, <1>2, <1>4 DEF DeviceInv, SleepInv, DeviceState, Unassigned
  <2>3. JoinInv(r)
    BY <1>1, <1>2, <1>4, <2>1 DEF DeviceInv, JoinInv, DeviceState, JoinTask
  <2>4. ValidationInv(r)
    BY <1>1, <1>2, <2>1 DEF DeviceInv, ValidationInv, DeviceState, Known
  <2>5. QED
    BY <1>3, <1>4, <2>1, <2>2, <2>3, <2>4, BecomeInv DEF DeviceInv
<1>5. CASE q.status # "ONLINE"
  BY <1>1, <1>3, <1>5, BecomeInv
<1>6. QED
  BY <1>4, <1>5

\* The response carries the ID of a device that is online still.
LEMMA WakeDiscoveryResponseInv ==
  ASSUME InductiveInv, NEW d \in Device, WakeDiscoveryResponse(d)
  PROVE  InductiveInv'
<1> DEFINE r == [dev[d] EXCEPT !.sleeping = Idle]
<1>1. /\ DeviceInv(dev[d]) /\ dev[d] \in DeviceState
      /\ dev[d].sleeping = "SendDiscoveryResponse"
      /\ dev[d].status = "ONLINE" /\ dev[d].id \in Id
      /\ dev[d].claiming = Unassigned
  BY DeviceByDevice DEF WakeDiscoveryResponse, DeviceInv, SleepInv, DeviceState
<1>2. r \in DeviceState /\ \A T : Queued(r, T) = Queued(dev[d], T)
  BY <1>1 DEF DeviceState, Queued
<1>3. SleepInv(r)
  BY <1>1 DEF DeviceInv, SleepInv, DeviceState, Idle
<1>4. JoinInv(r)
  BY <1>1, <1>2 DEF DeviceInv, JoinInv, DeviceState, JoinTask, Idle
<1>5. ValidationInv(r)
  BY <1>1, <1>2 DEF DeviceInv, ValidationInv, DeviceState, Known
<1>6. DiscoveryResponse(d, dev[d].id) \in Frame
  BY <1>1, FrameLemma DEF ClaimResult
<1>7. QED
  BY <1>2, <1>3, <1>4, <1>5, <1>6, SendInv DEF WakeDiscoveryResponse, DeviceInv

\* A response files its sender, or ends in ERROR if it has the own UID.
LEMMA ProcessDiscoveryResponseFrameInv ==
  ASSUME InductiveInv, NEW d \in Device, ProcessDiscoveryResponseFrame(d)
  PROVE  InductiveInv'
<1> DEFINE frame == Head(dev[d].queue)
           q == Dequeue(dev[d])
           r == [q EXCEPT !.answered = TRUE]
<1>1. /\ DeviceInv(q) /\ q.sleeping = Idle /\ q.thread # "off"
      /\ frame \in Job /\ frame.type = "DISCOVERY_RESPONSE"
  BY ReadyLemma DEF ProcessDiscoveryResponseFrame, Ready
<1>2. frame.id \in Id /\ frame.uid \in UidValue
  BY <1>1, JobLemma
<1>3. Become(d, IF frame.uid = Uid[d] THEN SetStatus(r, "ERROR")
                ELSE AddOrUpdateDevice(r, frame.id, frame.uid))
  BY DEF ProcessDiscoveryResponseFrame
<1>4. q \in DeviceState
  BY <1>1 DEF DeviceInv
<1> HIDE DEF q, frame
<1>5. r \in DeviceState /\ \A T : Queued(r, T) = Queued(q, T)
  BY <1>4 DEF DeviceState, Queued
<1>6. r.sleeping = Idle /\ r.thread # "off"
  BY <1>1, <1>4 DEF DeviceState
<1>7. DeviceInv(r)
  <2>1. SleepInv(r)
    BY <1>1, <1>4 DEF DeviceInv, SleepInv, DeviceState, Idle
  <2>2. JoinInv(r)
    <3>1. /\ r.status = q.status /\ r.sleeping = q.sleeping /\ r.thread = q.thread
          /\ r.queue = q.queue /\ r.listening = q.listening
      BY <1>4 DEF DeviceState
    <3>2. JoinInv(q)
      BY <1>1 DEF DeviceInv
    <3>3. QED
      BY <1>5, <3>1, <3>2 DEF JoinInv
  <2>3. ValidationInv(r)
    BY <1>1, <1>4, <1>5 DEF DeviceInv, ValidationInv, DeviceState, Known
  <2>4. QED
    BY <1>5, <2>1, <2>2, <2>3 DEF DeviceInv
<1> HIDE DEF r
<1>8. DeviceInv(SetStatus(r, "ERROR")) /\ DeviceInv(AddOrUpdateDevice(r, frame.id, frame.uid))
  BY <1>2, <1>6, <1>7, ErrorInv, AddOrUpdateInv
<1>9. QED
  BY <1>3, <1>8, BecomeInv

\* The device that has just broadcast a claim, and sleeps.
LEMMA ClaimInv ==
  ASSUME InductiveInv, NEW d \in Device, NEW r \in DeviceState,
         r.result = NoResult, r.claiming \in Id, r.status \in {"CLAIMING", "ERROR"},
         r.thread = "running", Queued(r, JoinTask) = {}, ValidationInv(r),
         NEW attempt \in Nat, Claim(d, r, attempt)
  PROVE  InductiveInv'
<1> DEFINE e == [r EXCEPT !.sleeping = "SendIdClaim", !.index = attempt]
<1>1. e \in DeviceState /\ r.claiming # Unassigned
  <2>1. e \in DeviceState
    BY DEF DeviceState, Sleeper
  <2>2. Unassigned \notin Id
    BY SizeAssumption DEF Id, Unassigned
  <2>3. QED
    BY <2>1, <2>2
<1>2. /\ \A T : Queued(e, T) = Queued(r, T)
      /\ Queued(e, {"SendIdClaim"}) = {}
  BY DEF Queued, DeviceState, JoinTask
<1>3. SleepInv(e)
  BY <1>1 DEF SleepInv, DeviceState
<1>4. JoinInv(e)
  BY <1>2 DEF JoinInv, DeviceState
<1>5. ValidationInv(e)
  BY <1>2 DEF ValidationInv, DeviceState, Known
<1>6. IdClaim(d, r.claiming) \in Frame
  BY FrameLemma DEF ClaimResult
<1>7. QED
  BY <1>1, <1>3, <1>4, <1>5, <1>6, SendInv DEF Claim, DeviceInv

\* The first claim, for an ID that is in the range, or ERROR if there is none.
LEMMA SendIdClaimInv ==
  ASSUME InductiveInv, NEW d \in Device, SendIdClaim(d)
  PROVE  InductiveInv'
<1> DEFINE r == Dequeue(dev[d])
<1>1. /\ DeviceInv(r) /\ r.sleeping = Idle /\ r.claiming = Unassigned
      /\ r.thread # "off" /\ dev[d].thread = "running"
      /\ Queued(r, JoinTask) = {} /\ r.status \in {"CLAIMING", "ERROR"}
  BY ReadyLemma DEF SendIdClaim, JoinTask
<1>2. r \in DeviceState /\ r.thread = "running"
  BY <1>1, DeviceByDevice DEF Dequeue, DeviceState, DeviceInv
<1>3. CASE AvailableId(r) = {}
  <2> DEFINE e == SetStatus(r, "ERROR")
  <2>1. Become(d, [e EXCEPT !.claiming = Unassigned])
    BY <1>3 DEF SendIdClaim
  <2>2. DeviceInv(e) /\ e.claiming = Unassigned
    BY <1>1, ErrorInv
  <2>3. [e EXCEPT !.claiming = Unassigned] = e
    BY <2>2 DEF DeviceInv, DeviceState
  <2>4. QED
    BY <2>1, <2>2, <2>3, BecomeInv
<1>4. CASE AvailableId(r) # {}
  <2>1. PICK id \in AvailableId(r) : Claim(d, [r EXCEPT !.claiming = id], 0)
    BY <1>4 DEF SendIdClaim
  <2> DEFINE e == [r EXCEPT !.claiming = id]
  <2>2. id \in Id
    BY <2>1 DEF AvailableId
  <2> HIDE DEF r
  <2>3. e \in DeviceState /\ \A T : Queued(e, T) = Queued(r, T)
    BY <1>2, <2>2 DEF DeviceState, Queued
  <2>4. /\ e.result = NoResult /\ e.claiming \in Id /\ e.thread = "running"
        /\ e.status \in {"CLAIMING", "ERROR"} /\ Queued(e, JoinTask) = {}
    BY <1>1, <1>2, <2>2, <2>3 DEF DeviceInv, SleepInv, DeviceState
  <2>5. ValidationInv(e)
    BY <1>1, <1>2, <2>3 DEF DeviceInv, ValidationInv, DeviceState, Known
  <2> HIDE DEF e
  <2>6. QED
    BY <2>1, <2>3, <2>4, <2>5, ClaimInv DEF e
<1>5. QED
  BY <1>3, <1>4

\* Nobody's answer was read, so the device claims again or goes online; in
\* ERROR, where going online is refused, it keeps the ID all the same.
LEMMA WakeIdClaimInv ==
  ASSUME InductiveInv, NEW d \in Device, WakeIdClaim(d)
  PROVE  InductiveInv'
<1> DEFINE r == [dev[d] EXCEPT !.sleeping = Idle]
<1>1. /\ DeviceInv(dev[d]) /\ dev[d] \in DeviceState
      /\ dev[d].sleeping = "SendIdClaim"
      /\ dev[d].result = NoResult /\ dev[d].claiming \in Id
      /\ dev[d].status \in {"CLAIMING", "ERROR"} /\ dev[d].thread = "running"
      /\ Queued(dev[d], JoinTask) = {}
  BY DeviceByDevice DEF WakeIdClaim, DeviceInv, SleepInv, JoinInv, JoinTask, Idle,
                        DeviceState
<1>2. /\ r \in DeviceState /\ \A T : Queued(r, T) = Queued(dev[d], T)
      /\ r.result = NoResult /\ r.claiming \in Id /\ r.thread = "running"
      /\ r.status = dev[d].status /\ r.index \in Nat
  BY <1>1 DEF DeviceState, Queued
<1>3. r.result \notin ClaimResult
  BY <1>2 DEF NoResult, ClaimResult
<1>4. ValidationInv(r)
  BY <1>1, <1>2 DEF DeviceInv, ValidationInv, DeviceState, Known
<1>5. CASE r.index + 1 >= ClaimAttempts
  <2> DEFINE s == [r EXCEPT !.id = r.claiming]
             t == GoOnline(r)
             e == [t EXCEPT !.claiming = Unassigned]
  <2>1. Become(d, e)
    BY <1>3, <1>5 DEF WakeIdClaim, ClaimDecided, ClaimResult
  <2>2. /\ s \in DeviceState /\ s.status = dev[d].status /\ ~s.validating
        /\ s = [dev[d] EXCEPT !.sleeping = Idle, !.id = dev[d].claiming]
    BY <1>1, <1>2, <1>4 DEF DeviceState, ValidationInv
  <2>3. CASE dev[d].status = "ERROR"
    <3>1. t = s
      BY <2>2, <2>3 DEF GoOnline, SetStatus, IsValidTransition
    <3>2. /\ e \in DeviceState /\ \A T : Queued(e, T) = Queued(dev[d], T)
          /\ e = [dev[d] EXCEPT !.sleeping = Idle, !.id = dev[d].claiming,
                                !.claiming = Unassigned]
      <4>1. e = [s EXCEPT !.claiming = Unassigned]
        BY <3>1
      <4>2. e \in DeviceState /\ e.queue = s.queue /\ s.queue = dev[d].queue
        <5>1. dev[d] \in DeviceState
          BY <1>1 DEF DeviceInv
        <5>2. s.queue = dev[d].queue
          BY <2>2, <5>1 DEF DeviceState
        <5>3. s \in DeviceState /\ Unassigned \in Id \cup {Unassigned}
          BY <2>2
        <5> HIDE DEF e, s
        <5>4. QED
          BY <4>1, <5>2, <5>3 DEF DeviceState
      <4>3. \A T : Queued(e, T) = Queued(dev[d], T)
        BY <4>2 DEF Queued
      <4>4. QED
        BY <1>1, <2>2, <4>1, <4>2, <4>3 DEF DeviceState
    <3> HIDE DEF e
    <3>3. SleepInv(e)
      BY <1>1, <2>3, <3>2 DEF DeviceInv, SleepInv, DeviceState, Idle
    <3>4. JoinInv(e)
      BY <1>1, <2>3, <3>2 DEF DeviceInv, JoinInv, DeviceState, Idle, JoinTask
    <3>5. ValidationInv(e)
      BY <1>1, <2>3, <3>2 DEF DeviceInv, ValidationInv, DeviceState
    <3>6. QED
      BY <2>1, <3>2, <3>3, <3>4, <3>5, BecomeInv DEF DeviceInv
  <2>4. CASE dev[d].status = "CLAIMING"
    <3> DEFINE job == [type |-> "PeriodicValidation"]
               u == [s EXCEPT !.status = "ONLINE", !.validating = TRUE]
    <3>1. u \in DeviceState
      BY <2>2 DEF DeviceState, Status
    <3>2. t = Enqueue(u, job)
      <4>1. t = OnDeviceStatusChanged([s EXCEPT !.status = "ONLINE"])
        BY <2>2, <2>4 DEF GoOnline, SetStatus, IsValidTransition
      <4>2. [s EXCEPT !.status = "ONLINE"].status = "ONLINE"
            /\ ~[s EXCEPT !.status = "ONLINE"].validating
        BY <2>2 DEF DeviceState
      <4>3. t = StartValidationTask([s EXCEPT !.status = "ONLINE"])
        BY <4>1, <4>2 DEF OnDeviceStatusChanged
      <4>4. [[s EXCEPT !.status = "ONLINE"] EXCEPT !.validating = TRUE] = u
        BY <2>2 DEF DeviceState
      <4>5. QED
        BY <4>2, <4>3, <4>4 DEF StartValidationTask
    <3>3. job \in Job /\ job.type \notin {"SendIdClaim"} /\ job.type \notin JoinTask
      BY DEF Job, Task, JoinTask
    <3>4. \A T : Queued(u, T) = Queued(dev[d], T)
      BY <1>1, <2>2 DEF Queued, DeviceState
    <3>5. Queued(dev[d], {"PeriodicValidation"}) = {}
      BY <1>1, <2>4 DEF DeviceInv, ValidationInv
    <3>6. /\ t \in DeviceState
          /\ Queued(t, JoinTask) = {}
          /\ Queued(t, {"SendIdClaim"}) = Queued(dev[d], {"SendIdClaim"})
          /\ \A j, k \in Queued(t, {"PeriodicValidation"}) : j = k
      BY <1>1, <3>1, <3>2, <3>3, <3>4, <3>5, EnqueueLemma
    <3>7. t = [u EXCEPT !.queue = t.queue]
      BY <3>1, <3>2 DEF Enqueue, DeviceState
    <3> HIDE DEF t
    <3>8. /\ e \in DeviceState /\ \A T : Queued(e, T) = Queued(t, T)
          /\ e = [dev[d] EXCEPT !.sleeping = Idle, !.id = dev[d].claiming,
                                !.status = "ONLINE", !.validating = TRUE,
                                !.queue = e.queue, !.claiming = Unassigned]
      <4>1. t.claiming = dev[d].claiming /\ e = [t EXCEPT !.claiming = Unassigned]
        BY <1>1, <2>2, <3>1, <3>7 DEF DeviceState
      <4>2. e \in DeviceState /\ e.queue = t.queue
        BY <3>6 DEF DeviceState
      <4>3. \A T : Queued(e, T) = Queued(t, T)
        BY <4>2 DEF Queued
      <4>4. e = [u EXCEPT !.queue = e.queue, !.claiming = Unassigned]
        BY <3>1, <3>6, <3>7, <4>2 DEF DeviceState
      <4>5. u = [dev[d] EXCEPT !.sleeping = Idle, !.id = dev[d].claiming,
                               !.status = "ONLINE", !.validating = TRUE]
        BY <1>1, <2>2, <3>1 DEF DeviceState
      <4>6. QED
        BY <1>1, <4>2, <4>3, <4>4, <4>5 DEF DeviceState
    <3>8a. /\ Queued(e, JoinTask) = {} /\ Queued(e, {"SendIdClaim"}) = {}
           /\ \A j, k \in Queued(e, {"PeriodicValidation"}) : j = k
           /\ ~dev[d].armed
      <4>1. Queued(dev[d], {"SendIdClaim"}) = {}
        BY <1>1 DEF Queued, JoinTask
      <4>2. QED
        BY <1>1, <2>4, <3>6, <3>8, <4>1 DEF DeviceInv, ValidationInv
    <3> HIDE DEF e
    <3>9. SleepInv(e)
      BY <1>1, <3>8, SizeAssumption DEF DeviceInv, SleepInv, DeviceState, Idle, Id,
                                        Unassigned
    <3>10. JoinInv(e)
      BY <1>1, <3>8, <3>8a DEF JoinInv, DeviceState, Idle
    <3>11. ValidationInv(e)
      BY <1>1, <2>4, <3>8, <3>8a DEF ValidationInv, DeviceState
    <3>12. QED
      BY <2>1, <3>8, <3>9, <3>10, <3>11, BecomeInv DEF DeviceInv
  <2>5. QED
    BY <1>1, <2>3, <2>4
<1>6. CASE ~(r.index + 1 >= ClaimAttempts)
  <2>1. Claim(d, r, r.index + 1)
    BY <1>3, <1>6 DEF WakeIdClaim, ClaimResult
  <2>2. /\ r.index + 1 \in Nat /\ r.status \in {"CLAIMING", "ERROR"}
        /\ Queued(r, JoinTask) = {}
    BY <1>1, <1>2
  <2> HIDE DEF r
  <2>3. QED
    BY <1>2, <1>4, <2>1, <2>2, ClaimInv
<1>7. QED
  BY <1>5, <1>6

\* A claim answered: the claimer is filed only with ACCEPT.
LEMMA ProcessIdClaimRequestFrameInv ==
  ASSUME InductiveInv, NEW d \in Device, ProcessIdClaimRequestFrame(d)
  PROVE  InductiveInv'
<1> DEFINE frame == Head(dev[d].queue)
           verdict == Verdict(d, frame)
           r == Dequeue(dev[d])
<1>1. DeviceInv(r) /\ frame \in Job /\ frame.type = "ID_CLAIM"
  BY ReadyLemma DEF ProcessIdClaimRequestFrame, Ready
<1>2. frame.id \in Id /\ frame.uid \in UidValue
  BY <1>1, JobLemma
<1>3. DeviceInv(AddOrUpdateDevice(r, frame.id, frame.uid))
  BY <1>1, <1>2, AddOrUpdateInv
<1>4. verdict \in ClaimResult \cup {NoResult}
  BY DEF Verdict, ClaimResult
<1>5. IF dev[d].status # "ONLINE" \/ verdict = NoResult THEN Become(d, r)
      ELSE Send(d, IF verdict = "ACCEPT"
                   THEN AddOrUpdateDevice(r, frame.id, frame.uid) ELSE r,
                IdClaimResponse(frame.id, verdict))
  BY DEF ProcessIdClaimRequestFrame
<1> HIDE DEF frame, verdict, r
<1>6. CASE dev[d].status # "ONLINE" \/ verdict = NoResult
  BY <1>1, <1>5, <1>6, BecomeInv
<1>7. CASE ~(dev[d].status # "ONLINE" \/ verdict = NoResult)
  <2>1. IdClaimResponse(frame.id, verdict) \in Frame
    BY <1>2, <1>4, <1>7, FrameLemma
  <2>2. CASE verdict = "ACCEPT"
    BY <1>3, <1>5, <1>7, <2>1, <2>2, SendInv
  <2>3. CASE verdict # "ACCEPT"
    BY <1>1, <1>5, <1>7, <2>1, <2>3, SendInv
  <2>4. QED
    BY <2>2, <2>3
<1>8. QED
  BY <1>6, <1>7

\* While the device runs this job it claims nothing, so no answer is for it.
LEMMA ProcessIdClaimResponseFrameInv ==
  ASSUME InductiveInv, NEW d \in Device, ProcessIdClaimResponseFrame(d)
  PROVE  InductiveInv'
<1> DEFINE frame == Head(dev[d].queue)
           r == Dequeue(dev[d])
<1>1. /\ DeviceInv(r) /\ r.claiming = Unassigned
      /\ frame \in Job /\ frame.type = "ID_CLAIM_RESPONSE"
  BY ReadyLemma DEF ProcessIdClaimResponseFrame, Ready
<1>2. frame.id # Unassigned
  BY <1>1, JobLemma, SizeAssumption DEF Id, Unassigned
<1>3. Become(d, r)
  BY <1>1, <1>2 DEF ProcessIdClaimResponseFrame
<1>4. QED
  BY <1>1, <1>3, BecomeInv

\* Validation removes entries and refreshes the flag before it waits again.
LEMMA ProcessPeriodicValidationInv ==
  ASSUME InductiveInv, NEW d \in Device, ProcessPeriodicValidation(d)
  PROVE  InductiveInv'
<1> DEFINE q == Dequeue(dev[d])
<1>1. DeviceInv(q) /\ Queued(q, {"PeriodicValidation"}) = {}
  BY ReadyLemma DEF ProcessPeriodicValidation
<1>2. q \in DeviceState
  BY <1>1 DEF DeviceInv
<1>3. CASE ~q.validating
  BY <1>1, <1>3, BecomeInv DEF ProcessPeriodicValidation
<1>4. CASE q.validating
  <2>1. PICK stale \in SUBSET Id :
          /\ dev' = [dev EXCEPT ![d] = [UpdateNetworkDevices(RemoveDevices(q, stale))
                                          EXCEPT !.armed = TRUE]]
          /\ losses' \in {losses, losses + 1} /\ cycles' = cycles
    BY <1>4 DEF ProcessPeriodicValidation, Known, Forget
  <2> DEFINE s == RemoveDevices(q, stale)
             t == UpdateNetworkDevices(s)
             e == [t EXCEPT !.armed = TRUE]
  <2> HIDE DEF q
  <2>2. s \in DeviceState /\ s = [q EXCEPT !.table = s.table]
    BY <1>2 DEF RemoveDevices, DeviceState
  <2> HIDE DEF s
  <2>3. /\ t \in DeviceState /\ t = [s EXCEPT !.lowest = t.lowest]
        /\ t.lowest <=> \A i \in Known(s) : s.id <= i
    <3>1. t = [s EXCEPT !.lowest = \A i \in Known(s) : s.id <= i]
      BY Zenon DEF UpdateNetworkDevices
    <3>2. QED
      BY <2>2, <3>1 DEF DeviceState
  <2> HIDE DEF t
  <2>4. /\ e \in DeviceState
        /\ e.table = s.table /\ e.id = s.id /\ e.lowest = t.lowest
        /\ e = [q EXCEPT !.table = e.table, !.lowest = e.lowest, !.armed = TRUE]
    <3>1. t = [q EXCEPT !.table = s.table, !.lowest = t.lowest]
      BY <1>2, <2>2, <2>3 DEF DeviceState
    <3>2. e = [q EXCEPT !.table = s.table, !.lowest = t.lowest, !.armed = TRUE]
      BY <1>2, <3>1 DEF DeviceState
    <3>3. /\ e \in DeviceState /\ e.table = t.table /\ e.id = t.id
          /\ e.lowest = t.lowest
      BY <2>3 DEF DeviceState
    <3>4. t.table = s.table /\ t.id = s.id
      BY <2>2, <2>3 DEF DeviceState
    <3> HIDE DEF e
    <3>5. QED
      BY <3>2, <3>3, <3>4
  <2> HIDE DEF e
  <2>5. Known(e) = Known(s)
    BY <2>4 DEF Known
  <2>6. e.lowest <=> \A i \in Known(e) : e.id <= i
    BY <2>3, <2>4, <2>5
  <2>7. \A T : Queued(e, T) = Queued(q, T)
    BY <1>2, <2>4 DEF Queued, DeviceState
  <2>8. SleepInv(e)
    <3>1. /\ e.result = q.result /\ e.claiming = q.claiming /\ e.sleeping = q.sleeping
          /\ e.status = q.status /\ e.answered = q.answered /\ e.id = q.id
          /\ e.requesting = q.requesting /\ e.index = q.index
      BY <1>2, <2>4 DEF DeviceState
    <3>2. SleepInv(q)
      BY <1>1 DEF DeviceInv
    <3>3. QED
      BY <3>1, <3>2 DEF SleepInv
  <2>9. JoinInv(e)
    <3>1. /\ Queued(e, JoinTask) = Queued(q, JoinTask)
          /\ Queued(e, {"SendIdClaim"}) = Queued(q, {"SendIdClaim"})
      BY <2>7
    <3>2. /\ e.status = q.status /\ e.thread = q.thread /\ e.queue = q.queue
          /\ e.sleeping = q.sleeping /\ e.listening = q.listening
      BY <1>2, <2>4 DEF DeviceState
    <3>3. JoinInv(q)
      BY <1>1 DEF DeviceInv
    <3>4. QED
      BY <3>1, <3>2, <3>3 DEF JoinInv
  <2>10. ValidationInv(e)
    BY <1>1, <1>2, <1>4, <2>4, <2>6, <2>7 DEF DeviceInv, ValidationInv, DeviceState
  <2>11. DeviceInv(e)
    BY <2>4, <2>8, <2>9, <2>10 DEF DeviceInv
  <2>12. losses' \in Nat /\ cycles' \in Nat
    BY <2>1, DeviceByDevice
  <2>13. dev' = [dev EXCEPT ![d] = e]
    BY <2>1 DEF s, t, e
  <2>14. QED
    BY <2>11, <2>12, <2>13, OneDeviceInv
<1>5. QED
  BY <1>3, <1>4

\* The validation delay ends: the task is queued, once.
LEMMA ValidationDueInv ==
  ASSUME InductiveInv, NEW d \in Device, ValidationDue(d)
  PROVE  InductiveInv'
<1> DEFINE s == [dev[d] EXCEPT !.armed = FALSE]
           job == [type |-> "PeriodicValidation"]
           e == Enqueue(s, job)
<1>1. /\ DeviceInv(dev[d]) /\ dev[d] \in DeviceState /\ dev[d].armed
      /\ dev[d].validating /\ dev[d].status = "ONLINE"
      /\ Queued(dev[d], {"PeriodicValidation"}) = {}
      /\ Become(d, e)
  BY DeviceByDevice DEF ValidationDue, DeviceInv, ValidationInv
<1>2. s \in DeviceState /\ \A T : Queued(s, T) = Queued(dev[d], T)
  BY <1>1 DEF DeviceState, Queued
<1>3. job \in Job /\ job.type \notin JoinTask /\ job.type \notin {"SendIdClaim"}
  BY DEF Job, Task, JoinTask
<1>4. /\ e \in DeviceState
      /\ Queued(e, JoinTask) = Queued(dev[d], JoinTask)
      /\ Queued(e, {"SendIdClaim"}) = Queued(dev[d], {"SendIdClaim"})
      /\ \A j, k \in Queued(e, {"PeriodicValidation"}) : j = k
  <2>1. Queued(s, {"PeriodicValidation"}) = {}
    BY <1>1, <1>2
  <2> HIDE DEF s, job
  <2>2. /\ e \in DeviceState
        /\ \A T : job.type \notin T => Queued(e, T) = Queued(s, T)
        /\ \A j, k \in Queued(e, {"PeriodicValidation"}) : j = k
    BY <1>2, <1>3, <2>1, EnqueueLemma
  <2>3. QED
    BY <1>2, <1>3, <2>2
<1>5. e = [dev[d] EXCEPT !.armed = FALSE, !.queue = e.queue]
  BY <1>1, <1>2 DEF Enqueue, DeviceState
<1> HIDE DEF e
<1>6. SleepInv(e)
  BY <1>1, <1>5 DEF DeviceInv, SleepInv, DeviceState
<1>7. dev[d].thread # "off"
  BY <1>1 DEF DeviceInv, JoinInv
<1>8. JoinInv(e)
  BY <1>1, <1>4, <1>5, <1>7 DEF DeviceInv, JoinInv, DeviceState
<1>9. ValidationInv(e)
  BY <1>1, <1>4, <1>5 DEF ValidationInv, DeviceState, DeviceInv
<1>10. QED
  BY <1>1, <1>4, <1>6, <1>8, <1>9, BecomeInv DEF DeviceInv
-----------------------------------------------------------------------------
(***************************************************************************)
(* The theorems.                                                           *)
(***************************************************************************)
\* The invariant holds of devices without power.
LEMMA InitInv == Init => InductiveInv
<1> SUFFICES ASSUME Init PROVE InductiveInv
  OBVIOUS
<1>1. /\ dev = [d \in Device |-> PoweredOff] /\ losses = 0 /\ cycles = 0
  BY DEF Init
<1>2. TypeOK
  BY <1>1, PoweredOffInv DEF TypeOK, DeviceInv
<1>3. QED
  BY <1>1, <1>2, PoweredOffInv DEF InductiveInv, DeviceInv

\* Every step of the network preserves it.
LEMMA StepInv == InductiveInv /\ [Next]_vars => InductiveInv'
<1> SUFFICES ASSUME InductiveInv, [Next]_vars PROVE InductiveInv'
  OBVIOUS
<1>1. CASE UNCHANGED vars
  BY <1>1 DEF vars, InductiveInv, TypeOK
<1>2. ASSUME NEW d \in Device, PowerOn(d) \/ Background(d)
      PROVE  InductiveInv'
  <2>1. CASE PowerOn(d)
    BY <2>1, PowerOnInv
  <2>2. CASE PowerOff(d)
    BY <2>2, PowerOffInv
  <2>3. CASE StartDiscovery(d)
    BY <2>3, StartDiscoveryInv
  <2>4. CASE ValidationDue(d)
    BY <2>4, ValidationDueInv
  <2>5. CASE StartInitialization(d)
    BY <2>5, StartInitializationInv
  <2>6. CASE WakeInitialization(d)
    BY <2>6, WakeInitializationInv
  <2>7. CASE ProcessDiscoveryRequestFrame(d)
    BY <2>7, ProcessDiscoveryRequestFrameInv
  <2>8. CASE ProcessDiscoveryResponseFrame(d)
    BY <2>8, ProcessDiscoveryResponseFrameInv
  <2>9. CASE SendDiscoveryResponse(d)
    BY <2>9, SendDiscoveryResponseInv
  <2>10. CASE WakeDiscoveryResponse(d)
    BY <2>10, WakeDiscoveryResponseInv
  <2>11. CASE SendIdClaim(d)
    BY <2>11, SendIdClaimInv
  <2>12. CASE WakeIdClaim(d)
    BY <2>12, WakeIdClaimInv
  <2>13. CASE ProcessIdClaimRequestFrame(d)
    BY <2>13, ProcessIdClaimRequestFrameInv
  <2>14. CASE ProcessIdClaimResponseFrame(d)
    BY <2>14, ProcessIdClaimResponseFrameInv
  <2>15. CASE ProcessPeriodicValidation(d)
    BY <2>15, ProcessPeriodicValidationInv
  <2>16. QED
    BY <1>2, <2>1, <2>2, <2>3, <2>4, <2>5, <2>6, <2>7, <2>8, <2>9, <2>10, <2>11,
       <2>12, <2>13, <2>14, <2>15 DEF Background, WorkQueueStep
<1>3. QED
  BY <1>1, <1>2 DEF Next

\* However many devices there are, whatever their identifiers and versions, in
\* whatever order they are switched on, run, lose frames and lose power, the
\* inductive invariant holds.
THEOREM Invariance == Spec => []InductiveInv
<1>1. QED
  BY InitInv, StepInv, PTL DEF Spec

\* Type correctness of the model of CdmpNetworkService and its work queue.
THEOREM TypeCorrect == Spec => []TypeOK
<1>1. InductiveInv => TypeOK
  BY DEF InductiveInv
<1>2. QED
  BY <1>1, Invariance, PTL

\* No device ever acts on an answer to its ID claim: id_claim_result_ never gets
\* a value, since ProcessIdClaimResponseFrame waits behind the claiming job.
THEOREM AnswersNeverCount == Spec => []NoAnswerCounts
<1>1. InductiveInv => NoAnswerCounts
  BY DEF InductiveInv, NoAnswerCounts, SleepInv
<1>2. QED
  BY <1>1, Invariance, PTL

\* is_lowest_id_on_network_ agrees with the device table whenever the validation
\* timer runs, with whatever interleaving of discoveries, claims and removals.
THEOREM LowestFlagCorrect == Spec => []LowestFlagExact
<1>1. InductiveInv => LowestFlagExact
  BY DEF InductiveInv, LowestFlagExact, ValidationInv
<1>2. QED
  BY <1>1, Invariance, PTL

\* After Stop no job still in the queue restarts the validation or the handler.
THEOREM StopIsFinal == Spec => []StoppedStaysStopped
<1>1. ASSUME InductiveInv, NEW d \in Device,
             dev[d].status \in {"ERROR", "VERSION_MISMATCH"}
      PROVE  /\ ~dev[d].listening /\ ~dev[d].validating /\ ~dev[d].armed
             /\ \A k \in DOMAIN dev[d].queue :
                  dev[d].queue[k].type # "PeriodicValidation"
  <2>1. ValidationInv(dev[d])
    BY <1>1 DEF InductiveInv
  <2>2. QED
    BY <1>1, <2>1 DEF ValidationInv, Queued
<1>2. InductiveInv => StoppedStaysStopped
  BY <1>1 DEF StoppedStaysStopped
<1>3. QED
  BY <1>2, Invariance, PTL

\* A step of another device can only send d a frame.
Same(d) ==
  /\ dev'[d].sleeping = dev[d].sleeping
  /\ dev'[d].claiming = dev[d].claiming
  /\ dev'[d].table = dev[d].table

LEMMA OthersLemma ==
  ASSUME InductiveInv, NEW d \in Device, NEW e \in Device, d # e,
         PowerOn(e) \/ Background(e)
  PROVE  Same(d)
<1>1. dev \in [Device -> DeviceState]
  BY DeviceByDevice
<1>2. ASSUME NEW r, Become(e, r)
      PROVE  Same(d)
  BY <1>1, <1>2 DEF Become, Same
<1>3. ASSUME NEW r, NEW frame, Send(e, r, frame)
      PROVE  Same(d)
  <2>1. dev'[d] \in {Enqueue(dev[d], frame), dev[d]}
    BY <1>3 DEF Send
  <2>2. dev[d] \in DeviceState
    BY <1>1
  <2>3. QED
    BY <2>1, <2>2 DEF Enqueue, DeviceState, Same
<1>4. CASE PowerOff(e)
  BY <1>1, <1>4 DEF PowerOff, Same
<1>5. CASE \/ PowerOn(e) \/ StartDiscovery(e) \/ ValidationDue(e)
           \/ ProcessDiscoveryRequestFrame(e) \/ ProcessDiscoveryResponseFrame(e)
           \/ SendDiscoveryResponse(e) \/ ProcessIdClaimResponseFrame(e)
  <2>1. PICK r : Become(e, r)
    BY <1>5, Zenon DEF PowerOn, StartDiscovery, ValidationDue, ProcessDiscoveryRequestFrame,
       ProcessDiscoveryResponseFrame, SendDiscoveryResponse,
       ProcessIdClaimResponseFrame
  <2>2. QED
    BY <1>2, <2>1
<1>6. CASE \/ StartInitialization(e) \/ WakeInitialization(e)
           \/ WakeDiscoveryResponse(e) \/ SendIdClaim(e) \/ WakeIdClaim(e)
           \/ ProcessIdClaimRequestFrame(e)
  <2>1. \/ \E r : Become(e, r)
        \/ \E r, frame : Send(e, r, frame)
    BY <1>6, Zenon DEF StartInitialization, WakeInitialization, WakeDiscoveryResponse,
       SendIdClaim, WakeIdClaim, ProcessIdClaimRequestFrame, Discover, Claim
  <2>2. QED
    BY <1>2, <1>3, <2>1
<1>7. CASE ProcessPeriodicValidation(e)
  <2>1. dev'[d] = dev[d]
    BY <1>1, <1>7, Zenon DEF ProcessPeriodicValidation, Become
  <2>2. QED
    BY <2>1 DEF Same
<1>8. QED
  BY <1>4, <1>5, <1>6, <1>7 DEF Background, WorkQueueStep

\* The claim of one device: what it takes is the lowest ID its table leaves free.
LowestFree(r) ==
  r.sleeping = "SendIdClaim" =>
    /\ r.claiming \notin Known(r)
    /\ \A i \in Id : i < r.claiming => i \in Known(r)

\* The methods a handler calls on its own device do not put it to sleep.
LEMMA AwakeLemma ==
  ASSUME NEW r \in DeviceState
  PROVE  /\ \A s : SetStatus(r, s).sleeping = r.sleeping
         /\ \A id, uid : id \in Id => AddOrUpdateDevice(r, id, uid).sleeping = r.sleeping
         /\ \A job : Enqueue(r, job).sleeping = r.sleeping
         /\ Dequeue(r).sleeping = r.sleeping
<1>1. ASSUME NEW s \in Status
      PROVE  SetStatus(r, s).sleeping = r.sleeping
  <2> DEFINE q == [r EXCEPT !.status = s]
  <2>1. q \in DeviceState /\ q.sleeping = r.sleeping
    BY <1>1 DEF DeviceState
  <2> HIDE DEF q
  <2>2. OnDeviceStatusChanged(q).sleeping = q.sleeping
    BY <2>1 DEF OnDeviceStatusChanged, Enqueue, StartValidationTask, Stop, DeviceState
  <2>3. QED
    BY <2>1, <2>2 DEF SetStatus, q
<1>2. ASSUME NEW s, s \notin Status
      PROVE  SetStatus(r, s).sleeping = r.sleeping
  BY <1>2 DEF SetStatus, IsValidTransition, Status
<1>3. \A id, uid : id \in Id => AddOrUpdateDevice(r, id, uid).sleeping = r.sleeping
  BY DEF AddOrUpdateDevice, UpdateNetworkDevices, DeviceState
<1>4. /\ \A job : Enqueue(r, job).sleeping = r.sleeping
      /\ Dequeue(r).sleeping = r.sleeping
  BY DEF Enqueue, Dequeue, DeviceState
<1>5. QED
  BY <1>1, <1>2, <1>3, <1>4

\* Who gives its claim back claims nothing.
LEMMA GivenBack ==
  ASSUME InductiveInv', NEW d \in Device, NEW r,
         dev'[d] = [r EXCEPT !.claiming = Unassigned]
  PROVE  LowestFree(dev'[d])
<1>1. dev'[d] \in DeviceState /\ SleepInv(dev'[d])
  BY DEF InductiveInv, TypeOK
<1>2. dev'[d].claiming = Unassigned
  <2>1. DOMAIN dev'[d] = DOMAIN r /\ "claiming" \in DOMAIN dev'[d]
    BY <1>1 DEF DeviceState
  <2>2. QED
    BY <2>1
<1>3. QED
  BY <1>1, <1>2 DEF SleepInv, LowestFree

\* A first claim takes the lowest free ID above none.
LEMMA FirstClaim ==
  ASSUME InductiveInv, InductiveInv', NEW d \in Device, SendIdClaim(d)
  PROVE  LowestFree(dev'[d])
<1> DEFINE r == Dequeue(dev[d])
<1>1. /\ dev \in [Device -> DeviceState] /\ r \in DeviceState
      /\ r.sleeping = Idle /\ r.claiming = Unassigned
  BY ReadyLemma, DeviceByDevice DEF SendIdClaim, JoinTask, DeviceInv
<1> HIDE DEF r
<1>2. CASE AvailableId(r) = {}
  <2>1. Become(d, [SetStatus(r, "ERROR") EXCEPT !.claiming = Unassigned])
    BY <1>2 DEF SendIdClaim, r
  <2>2. QED
    BY <1>1, <2>1, GivenBack DEF Become
<1>3. CASE AvailableId(r) # {}
  <2>1. PICK id \in AvailableId(r) :
          /\ \A i \in AvailableId(r) : id <= i
          /\ Claim(d, [r EXCEPT !.claiming = id], 0)
    BY <1>3 DEF SendIdClaim, r
  <2>2. dev'[d] = [[r EXCEPT !.claiming = id] EXCEPT !.sleeping = "SendIdClaim",
                                                      !.index = 0]
    BY <2>1 DEF Claim, Send
  <2>3. dev'[d].claiming = id /\ dev'[d].table = r.table
    BY <1>1, <2>2 DEF DeviceState
  <2>4. Known(dev'[d]) = Known(r)
    BY <2>3 DEF Known
  <2>5. \A i \in Id : i > Unassigned
    BY SizeAssumption DEF Id, Unassigned
  <2>6. /\ id \in Id /\ id \notin Known(r)
        /\ \A i \in Id : i \notin Known(r) => id <= i
    BY <1>1, <2>1, <2>5 DEF AvailableId
  <2>7. \A i \in Id : i < id => i \in Known(r)
    BY <2>6, SizeAssumption DEF Id
  <2>8. QED
    BY <2>3, <2>4, <2>6, <2>7 DEF LowestFree
<1>4. QED
  BY <1>2, <1>3

\* A claim that is repeated is for the same ID and meets the same table.
LEMMA NextClaim ==
  ASSUME InductiveInv, InductiveInv', NEW d \in Device, LowestFree(dev[d]),
         WakeIdClaim(d)
  PROVE  LowestFree(dev'[d])
<1> DEFINE r == [dev[d] EXCEPT !.sleeping = Idle]
<1>1. /\ dev \in [Device -> DeviceState] /\ dev[d] \in DeviceState
      /\ dev[d].sleeping = "SendIdClaim" /\ dev[d].result = NoResult
  BY DeviceByDevice DEF WakeIdClaim, DeviceInv, SleepInv
<1>2. /\ r \in DeviceState /\ r.sleeping = Idle /\ r.result = NoResult
      /\ r.claiming = dev[d].claiming /\ r.table = dev[d].table
  BY <1>1 DEF DeviceState
<1>3. \/ Become(d, [ClaimDecided(r) EXCEPT !.claiming = Unassigned])
      \/ Claim(d, r, r.index + 1)
  BY DEF WakeIdClaim
<1> HIDE DEF r
<1>4. CASE Become(d, [ClaimDecided(r) EXCEPT !.claiming = Unassigned])
  BY <1>1, <1>4, GivenBack DEF Become
<1>5. CASE Claim(d, r, r.index + 1)
  <2>1. dev'[d] = [r EXCEPT !.sleeping = "SendIdClaim", !.index = r.index + 1]
    BY <1>5 DEF Claim, Send
  <2>2. dev'[d].claiming = dev[d].claiming /\ dev'[d].table = dev[d].table
    BY <1>2, <2>1 DEF DeviceState
  <2>3. QED
    BY <1>1, <2>2 DEF LowestFree, Known
<1>6. QED
  BY <1>3, <1>4, <1>5

\* Every other step of the device finds and leaves it without a claim, or leaves
\* claim and table alone.
LEMMA OtherSteps ==
  ASSUME InductiveInv, NEW d \in Device, LowestFree(dev[d]),
         PowerOn(d) \/ Background(d), ~SendIdClaim(d), ~WakeIdClaim(d)
  PROVE  LowestFree(dev'[d])
<1> DEFINE q == Dequeue(dev[d])
<1>1. /\ dev \in [Device -> DeviceState] /\ dev[d] \in DeviceState
      /\ DeviceInv(dev[d]) /\ q.sleeping = dev[d].sleeping
  BY DeviceByDevice, AwakeLemma
<1>2. ASSUME NEW r, Become(d, r) PROVE dev'[d] = r
  BY <1>1, <1>2 DEF Become
<1>3. ASSUME NEW r, NEW f, Send(d, r, f) PROVE dev'[d] = r
  BY <1>3 DEF Send
<1>4. ASSUME NEW type, Ready(d, type) PROVE q \in DeviceState /\ q.sleeping = Idle
  BY <1>1, <1>4, DequeueLemma DEF Ready
<1>5. CASE PowerOn(d)
  <2>1. dev'[d] = [dev[d] EXCEPT !.thread = "starting", !.listening = TRUE]
    BY <1>2, <1>5 DEF PowerOn
  <2>2. QED
    BY <1>1, <2>1 DEF DeviceState, LowestFree, Known
<1>6. CASE PowerOff(d)
  <2>1. dev'[d] = PoweredOff
    BY <1>1, <1>6 DEF PowerOff
  <2>2. PoweredOff.sleeping = Idle
    BY DEF PoweredOff
  <2>3. QED
    BY <2>1, <2>2 DEF LowestFree, Idle
<1>7. CASE StartDiscovery(d)
  <2> DEFINE r == [dev[d] EXCEPT !.thread = "running"]
  <2>1. r \in DeviceState /\ r.sleeping = Idle
    BY <1>1, <1>7 DEF StartDiscovery, DeviceInv, JoinInv, DeviceState
  <2>2. dev'[d] = SetStatus(r, "INIT")
    BY <1>2, <1>7 DEF StartDiscovery
  <2> HIDE DEF r
  <2>3. SetStatus(r, "INIT").sleeping = Idle
    BY <2>1, AwakeLemma
  <2>4. QED
    BY <2>2, <2>3 DEF LowestFree, Idle
<1>8. CASE ValidationDue(d)
  <2> DEFINE r == [dev[d] EXCEPT !.armed = FALSE]
  <2>1. dev'[d] = Enqueue(r, [type |-> "PeriodicValidation"])
    BY <1>2, <1>8 DEF ValidationDue
  <2>2. QED
    BY <1>1, <2>1 DEF Enqueue, DeviceState, LowestFree, Known
<1>9. CASE WorkQueueStep(d)
  <2>1. ASSUME NEW r, NEW index, NEW resets, r \in DeviceState, Discover(d, r, index, resets)
        PROVE  LowestFree(dev'[d])
    <3>1. dev'[d] = [r EXCEPT !.requesting = <<>>, !.sleeping = "StartInitialization",
                              !.index = index, !.resets = resets]
      BY <1>3, <2>1 DEF Discover
    <3>2. QED
      BY <2>1, <3>1 DEF LowestFree, DeviceState
  <2>2. CASE StartInitialization(d)
    <3> DEFINE r == [q EXCEPT !.answered = FALSE]
    <3>1. r \in DeviceState /\ r.sleeping = Idle
      BY <1>4, <2>2 DEF StartInitialization, DeviceState
    <3>2. Discover(d, r, 0, 0) \/ Become(d, r)
      BY <2>2 DEF StartInitialization
    <3>3. QED
      BY <1>2, <2>1, <3>1, <3>2 DEF LowestFree, Idle
  <2>3. CASE WakeInitialization(d)
    <3> DEFINE r == [dev[d] EXCEPT !.sleeping = Idle]
    <3>1. r \in DeviceState /\ r.sleeping = Idle
      BY <1>1 DEF DeviceState
    <3>2. \/ Become(d, SetStatus(r, "CLAIMING"))
          \/ \E index, resets : Discover(d, r, index, resets)
          \/ Become(d, r)
      BY <2>3, Zenon DEF WakeInitialization
    <3> HIDE DEF r
    <3>3. SetStatus(r, "CLAIMING").sleeping = Idle
      BY <3>1, AwakeLemma
    <3>4. QED
      BY <1>2, <2>1, <3>1, <3>2, <3>3 DEF LowestFree, Idle
  <2>4. CASE ProcessDiscoveryRequestFrame(d)
    <3>1. PICK uid, job : Become(d, Enqueue([q EXCEPT !.requesting = Append(@, uid)], job))
      BY <2>4, Zenon DEF ProcessDiscoveryRequestFrame
    <3>2. q \in DeviceState /\ q.sleeping = Idle
      BY <1>4, <2>4 DEF ProcessDiscoveryRequestFrame
    <3>3. dev'[d].sleeping = Idle
      BY <1>2, <3>1, <3>2 DEF Enqueue, DeviceState
    <3>4. QED
      BY <3>3 DEF LowestFree, Idle
  <2>5. CASE ProcessDiscoveryResponseFrame(d)
    <3> DEFINE r == [q EXCEPT !.answered = TRUE]
               frame == Head(dev[d].queue)
    <3>1. r \in DeviceState /\ r.sleeping = Idle /\ q \in DeviceState
      BY <1>4, <2>5 DEF ProcessDiscoveryResponseFrame, DeviceState
    <3>2. frame.id \in Id
      BY <1>1, <2>5, DequeueLemma DEF ProcessDiscoveryResponseFrame, Ready, Job, Frame, Task
    <3>3. \/ Become(d, SetStatus(r, "ERROR"))
          \/ Become(d, AddOrUpdateDevice(r, frame.id, frame.uid))
      BY <2>5 DEF ProcessDiscoveryResponseFrame
    <3>4. /\ SetStatus(r, "ERROR").sleeping = Idle
          /\ AddOrUpdateDevice(r, frame.id, frame.uid).sleeping = Idle
      <4> HIDE DEF r, frame
      <4>1. QED
        BY <3>1, <3>2, AwakeLemma
    <3>5. QED
      BY <1>2, <3>3, <3>4 DEF LowestFree, Idle
  <2>6. CASE SendDiscoveryResponse(d)
    <3>1. q \in DeviceState /\ q.sleeping = Idle
      BY <1>4, <2>6 DEF SendDiscoveryResponse
    <3>2. dev'[d] \in {q, [q EXCEPT !.sleeping = "SendDiscoveryResponse"]}
      BY <1>2, <2>6 DEF SendDiscoveryResponse
    <3>3. QED
      BY <3>1, <3>2 DEF LowestFree, Idle, DeviceState
  <2>7. CASE WakeDiscoveryResponse(d)
    <3>1. dev'[d] = [dev[d] EXCEPT !.sleeping = Idle]
      BY <1>3, <2>7 DEF WakeDiscoveryResponse
    <3>2. QED
      BY <1>1, <3>1 DEF LowestFree, Idle, DeviceState
  <2>8. CASE ProcessIdClaimRequestFrame(d)
    <3> DEFINE frame == Head(dev[d].queue)
    <3>1. q \in DeviceState /\ q.sleeping = Idle
      BY <1>4, <2>8 DEF ProcessIdClaimRequestFrame
    <3>2. frame.id \in Id
      BY <1>1, <2>8, DequeueLemma DEF ProcessIdClaimRequestFrame, Ready, Job, Frame, Task
    <3>3. \/ Become(d, q)
          \/ \E f : Send(d, q, f)
          \/ \E f : Send(d, AddOrUpdateDevice(q, frame.id, frame.uid), f)
      BY <2>8, Zenon DEF ProcessIdClaimRequestFrame
    <3>4. dev'[d] \in {q, AddOrUpdateDevice(q, frame.id, frame.uid)}
      BY <1>2, <1>3, <3>3
    <3>5. AddOrUpdateDevice(q, frame.id, frame.uid).sleeping = Idle
      <4> HIDE DEF q, frame
      <4>1. QED
        BY <3>1, <3>2, AwakeLemma
    <3>6. QED
      BY <3>1, <3>4, <3>5 DEF LowestFree, Idle
  <2>9. CASE ProcessIdClaimResponseFrame(d)
    <3> DEFINE frame == Head(dev[d].queue)
    <3>1. q \in DeviceState /\ q.sleeping = Idle
      BY <1>4, <2>9 DEF ProcessIdClaimResponseFrame
    <3>2. dev'[d] \in {q, [q EXCEPT !.result = frame.result]}
      BY <1>2, <2>9 DEF ProcessIdClaimResponseFrame
    <3>3. QED
      BY <3>1, <3>2 DEF LowestFree, Idle, DeviceState
  <2>10. CASE ProcessPeriodicValidation(d)
    <3>1. q \in DeviceState /\ q.sleeping = Idle
      BY <1>4, <2>10 DEF ProcessPeriodicValidation
    <3>2. \/ dev'[d] = q
          \/ \E stale : dev'[d] = [UpdateNetworkDevices(RemoveDevices(q, stale))
                                     EXCEPT !.armed = TRUE]
      BY <1>1, <1>2, <2>10 DEF ProcessPeriodicValidation
    <3>3. dev'[d].sleeping = Idle
      BY <3>1, <3>2 DEF UpdateNetworkDevices, RemoveDevices, DeviceState
    <3>4. QED
      BY <3>3 DEF LowestFree, Idle
  <2>11. QED
    BY <1>9, <2>2, <2>3, <2>4, <2>5, <2>6, <2>7, <2>8, <2>9, <2>10 DEF WorkQueueStep
<1>10. QED
  BY <1>5, <1>6, <1>7, <1>8, <1>9 DEF Background

\* The ID a device claims stays the lowest its own table leaves free for as long
\* as it claims, whatever arrives meanwhile.
THEOREM ClaimsLowestFreeHolds == Spec => []ClaimsLowestFree
<1>1. Init => ClaimsLowestFree
  BY DEF Init, ClaimsLowestFree, PoweredOff, Idle
<1>2. ASSUME InductiveInv, InductiveInv', ClaimsLowestFree, [Next]_vars
      PROVE  ClaimsLowestFree'
  <2>1. CASE UNCHANGED vars
    BY <1>2, <2>1 DEF vars, ClaimsLowestFree, Known
  <2>2. ASSUME NEW e \in Device, PowerOn(e) \/ Background(e)
        PROVE  ClaimsLowestFree'
    <3>1. ASSUME NEW d \in Device PROVE LowestFree(dev'[d])
      <4>1. LowestFree(dev[d])
        BY <1>2 DEF ClaimsLowestFree, LowestFree
      <4>2. CASE d # e
        BY <1>2, <2>2, <4>1, <4>2, OthersLemma DEF Same, LowestFree, Known
      <4>3. CASE d = e
        BY <1>2, <2>2, <4>1, <4>3, FirstClaim, NextClaim, OtherSteps
      <4>4. QED
        BY <4>2, <4>3
    <3>2. QED
      BY <3>1 DEF ClaimsLowestFree, LowestFree
  <2>3. QED
    BY <1>2, <2>1, <2>2 DEF Next
<1>3. QED
  BY <1>1, <1>2, Invariance, PTL DEF Spec
-----------------------------------------------------------------------------
(***************************************************************************)
(* The device tables tell the truth while no device loses power.  Unlike   *)
(* the invariant above this one is about several devices: what the frames  *)
(* in the queue of one say of another.                                     *)
(***************************************************************************)
\* The frames a receiver files the sender of under the ID they carry.
Naming == {"DISCOVERY_RESPONSE", "ID_CLAIM"}
Jobs(r) == {r.queue[k] : k \in DOMAIN r.queue}

\* The (ID, UID) pairs in the table of a device and in the frames it has yet
\* to read.
Pairs(r) ==
  {<<i, r.table[i]>> : i \in Known(r)}
    \cup {<<j.id, j.uid>> : j \in {j \in Jobs(r) : j.type \in Naming}}

\* A device claims once: with an ID, it has no joining job left.
OneClaim(r) ==
  r.id # Unassigned => /\ r.thread = "running"
                       /\ r.sleeping \notin JoinTask
                       /\ Queued(r, JoinTask) = {}

Takes(e, p) == Uid[e] = p[2] /\ p[1] \in {dev[e].id, dev[e].claiming}

\* Not only the tables: the claims and responses under way are true as well, and
\* stay so because an ID that was taken is not given back without a loss of power.
Truthful ==
  \A d \in Device : /\ OneClaim(dev[d])
                    /\ \A p \in Pairs(dev[d]) : \E e \in Device : Takes(e, p)

TruthInv == cycles = 0 => Truthful

\* The device learns nothing, and neither takes nor gives back an ID.
Keeps(r, s) ==
  /\ s.id = r.id /\ s.claiming = r.claiming
  /\ OneClaim(r) => OneClaim(s)
  /\ Pairs(s) \subseteq Pairs(r)

\* It may also take the ID it claims.
Advances(r, s) ==
  /\ {r.id, r.claiming} \cap Id \subseteq {s.id, s.claiming}
  /\ OneClaim(r) => OneClaim(s)
  /\ Pairs(s) \subseteq Pairs(r)

LEMMA KeepsTransitive ==
  ASSUME NEW r, NEW s, NEW t, Keeps(r, s), Keeps(s, t)
  PROVE  Keeps(r, t)
BY DEF Keeps

LEMMA KeepsAdvances ==
  ASSUME NEW r, NEW s, Keeps(r, s)
  PROVE  Advances(r, s)
BY DEF Keeps, Advances

\* Only the table, the queue, the thread and the sleeper matter.
LEMMA SameKeeps ==
  ASSUME NEW r, NEW s, s.id = r.id, s.claiming = r.claiming,
         s.table = r.table, s.queue = r.queue, s.thread = r.thread,
         s.sleeping = r.sleeping \/ s.sleeping \notin JoinTask
  PROVE  Keeps(r, s)
BY DEF Keeps, OneClaim, Pairs, Known, Jobs, Queued

LEMMA DequeueKeeps ==
  ASSUME NEW r \in DeviceState, r.queue # <<>>
  PROVE  /\ Keeps(r, Dequeue(r))
         /\ Head(r.queue) \in Jobs(r)
<1> DEFINE e == Dequeue(r)
<1>1. r.queue \in Seq(Job)
  BY DEF DeviceState
<1>2. e = [r EXCEPT !.queue = Tail(r.queue)]
  BY DEF Dequeue
<1>3. /\ e.queue = Tail(r.queue) /\ e.id = r.id /\ e.claiming = r.claiming
      /\ e.table = r.table /\ e.thread = r.thread /\ e.sleeping = r.sleeping
  BY <1>2 DEF DeviceState
<1>4. /\ Len(r.queue) \in Nat \ {0} /\ DOMAIN r.queue = 1 .. Len(r.queue)
      /\ DOMAIN Tail(r.queue) = 1 .. Len(r.queue) - 1
      /\ \A k \in 1 .. Len(r.queue) - 1 : Tail(r.queue)[k] = r.queue[k + 1]
      /\ Head(r.queue) = r.queue[1]
  BY <1>1
<1>5. Jobs(e) \subseteq Jobs(r) /\ Head(r.queue) \in Jobs(r)
  BY <1>3, <1>4 DEF Jobs
<1>6. Queued(r, JoinTask) = {} => Queued(e, JoinTask) = {}
  BY DequeueLemma
<1> HIDE DEF e
<1>7. Keeps(r, e)
  BY <1>3, <1>5, <1>6 DEF Keeps, OneClaim, Pairs, Known
<1>8. QED
  BY <1>5, <1>7 DEF e

LEMMA EnqueueKeeps ==
  ASSUME NEW r \in DeviceState, NEW job \in Job
  PROVE  /\ Jobs(Enqueue(r, job)) = Jobs(r) \cup {job}
         /\ job.type \notin Naming /\ (job.type \in JoinTask => r.id = Unassigned)
              => Keeps(r, Enqueue(r, job))
         /\ Enqueue(r, job).id = r.id /\ Enqueue(r, job).claiming = r.claiming
         /\ Enqueue(r, job).table = r.table
<1> DEFINE e == Enqueue(r, job)
<1>1. r.queue \in Seq(Job)
  BY DEF DeviceState
<1>2. /\ e.queue = Append(r.queue, job) /\ e.id = r.id /\ e.claiming = r.claiming
      /\ e.table = r.table /\ e.thread = r.thread /\ e.sleeping = r.sleeping
  BY DEF Enqueue, DeviceState
<1>3. /\ Len(r.queue) \in Nat /\ DOMAIN r.queue = 1 .. Len(r.queue)
      /\ DOMAIN Append(r.queue, job) = 1 .. Len(r.queue) + 1
      /\ \A k \in 1 .. Len(r.queue) : Append(r.queue, job)[k] = r.queue[k]
      /\ Append(r.queue, job)[Len(r.queue) + 1] = job
  BY <1>1
<1>4. Jobs(e) = Jobs(r) \cup {job}
  BY <1>2, <1>3 DEF Jobs
<1>5. job.type \notin JoinTask => Queued(e, JoinTask) = Queued(r, JoinTask)
  BY EnqueueLemma
<1> HIDE DEF e
<1>6. ASSUME job.type \notin Naming, job.type \in JoinTask => r.id = Unassigned
      PROVE  Keeps(r, e)
  <2>1. Known(e) = Known(r) /\ Pairs(e) \subseteq Pairs(r)
    BY <1>2, <1>4, <1>6 DEF Pairs, Known
  <2>2. OneClaim(r) => OneClaim(e)
    BY <1>2, <1>5, <1>6 DEF OneClaim
  <2>3. QED
    BY <1>2, <2>1, <2>2 DEF Keeps
<1>7. QED
  BY <1>2, <1>4, <1>6 DEF e

\* What is filed is what the frame says.
LEMMA AddOrUpdateKeeps ==
  ASSUME NEW q, NEW r \in DeviceState, Keeps(q, r),
         NEW id \in Id, NEW uid \in UidValue, <<id, uid>> \in Pairs(q)
  PROVE  Keeps(q, AddOrUpdateDevice(r, id, uid))
<1> DEFINE e == AddOrUpdateDevice(r, id, uid)
<1>1. CASE id \in Known(r)
  BY <1>1 DEF AddOrUpdateDevice
<1>2. CASE id \notin Known(r)
  <2>1. /\ e.queue = r.queue /\ e.id = r.id /\ e.claiming = r.claiming
        /\ e.thread = r.thread /\ e.sleeping = r.sleeping
        /\ e.table = [r.table EXCEPT ![id] = uid]
    BY <1>2 DEF AddOrUpdateDevice, UpdateNetworkDevices, DeviceState
  <2> HIDE DEF e
  <2>2. r.table \in [Id -> UidValue \cup {NoUid}]
    BY DEF DeviceState
  <2>3. ASSUME NEW i \in Known(e)
        PROVE  <<i, e.table[i]>> \in Pairs(q)
    <3>1. CASE i = id
      BY <2>1, <2>2, <3>1
    <3>2. CASE i # id
      <4>1. <<i, e.table[i]>> \in Pairs(r)
        BY <2>1, <2>2, <2>3, <3>2 DEF Known, Pairs
      <4>2. QED
        BY <4>1 DEF Keeps
    <3>3. QED
      BY <3>1, <3>2
  <2>4. Jobs(e) = Jobs(r) /\ Queued(e, JoinTask) = Queued(r, JoinTask)
    BY <2>1 DEF Jobs, Queued
  <2>5. Pairs(e) \subseteq Pairs(q)
    <3>1. {<<j.id, j.uid>> : j \in {j \in Jobs(e) : j.type \in Naming}} \subseteq Pairs(q)
      BY <2>4 DEF Pairs, Keeps
    <3>2. QED
      BY <2>3, <3>1 DEF Pairs
  <2>6. QED
    BY <2>1, <2>4, <2>5 DEF Keeps, OneClaim, e
<1>3. QED
  BY <1>1, <1>2

\* Stopping empties the table and only takes jobs away.
LEMMA StopKeeps ==
  ASSUME NEW r \in DeviceState,
         \A j, k \in Queued(r, {"PeriodicValidation"}) : j = k
  PROVE  Keeps(r, Stop(r))
<1> DEFINE e == Stop(r)
           q == WithoutValidation(r.queue)
<1>1. r.queue \in Seq(Job)
  BY DEF DeviceState
<1>2. /\ e.queue = q /\ e.id = r.id /\ e.claiming = r.claiming
      /\ e.thread = r.thread /\ e.sleeping = r.sleeping
      /\ e.table = [i \in Id |-> NoUid]
  BY DEF Stop, DeviceState
<1>3. \A k \in DOMAIN q : q[k] \in Jobs(r)
  <2> DEFINE Pending == {k \in DOMAIN r.queue : r.queue[k].type = "PeriodicValidation"}
  <2>1. CASE Pending = {}
    BY <2>1 DEF WithoutValidation, Jobs
  <2>2. CASE Pending # {}
    <3>1. PICK m \in Pending : m = CHOOSE k \in Pending : TRUE
      BY <2>2
    <3> DEFINE before == SubSeq(r.queue, 1, m - 1)
               after == SubSeq(r.queue, m + 1, Len(r.queue))
    <3>2. q = before \o after
      BY <2>2, <3>1 DEF WithoutValidation
    <3>3. Len(r.queue) \in Nat /\ m \in 1 .. Len(r.queue)
      BY <1>1, <3>1
    <3>4. /\ before \in Seq(Job) /\ Len(before) = m - 1
          /\ \A k \in 1 .. m - 1 : before[k] = r.queue[k]
      BY <1>1, <3>3
    <3>5. /\ after \in Seq(Job) /\ Len(after) = Len(r.queue) - m
          /\ \A k \in 1 .. Len(r.queue) - m : after[k] = r.queue[m + k]
      <4>1. m + 1 \in Nat /\ Len(r.queue) \in Nat /\ m + 1 <= Len(r.queue) + 1
        BY <3>3
      <4>2. after \in Seq(Job) /\ Len(after) = Len(r.queue) - m
        BY <1>1, <3>3, <4>1
      <4>3. \A k \in 1 .. Len(r.queue) - m : after[k] = r.queue[m + k]
        BY <1>1, <3>3, <4>1
      <4>4. QED
        BY <4>2, <4>3
    <3> HIDE DEF before, after, q
    <3>6. /\ DOMAIN q = 1 .. Len(before) + Len(after)
          /\ \A k \in 1 .. Len(before) + Len(after) :
               q[k] = IF k <= Len(before) THEN before[k] ELSE after[k - Len(before)]
      <4>1. before \in Seq(Job) /\ after \in Seq(Job)
        BY <3>4, <3>5, Zenon
      <4>2. /\ q \in Seq(Job) /\ Len(q) = Len(before) + Len(after)
            /\ \A k \in 1 .. Len(before) + Len(after) :
                 q[k] = IF k <= Len(before) THEN before[k] ELSE after[k - Len(before)]
        BY <3>2, <4>1, ConcatProperties, Zenon
      <4>3. DOMAIN q = 1 .. Len(q)
        BY <4>2
      <4>4. QED
        BY <4>2, <4>3, Zenon
    <3>7. ASSUME NEW k \in DOMAIN q
          PROVE  q[k] \in Jobs(r)
      <4>1. k \in 1 .. (m - 1) + (Len(r.queue) - m)
        BY <3>4, <3>5, <3>6, <3>7
      <4>2. CASE k <= m - 1
        <5>1. k \in 1 .. m - 1 /\ k \in 1 .. Len(r.queue)
          BY <3>3, <4>1, <4>2
        <5>2. q[k] = r.queue[k]
          BY <3>4, <3>5, <3>6, <4>2, <5>1, <3>7
        <5>3. DOMAIN r.queue = 1 .. Len(r.queue)
          BY <1>1
        <5>4. QED
          BY <5>1, <5>2, <5>3 DEF Jobs
      <4>3. CASE ~(k <= m - 1)
        <5>1. k - (m - 1) \in 1 .. Len(r.queue) - m
              /\ m + (k - (m - 1)) \in 1 .. Len(r.queue)
          <6> DEFINE n == Len(r.queue)
          <6>1. n \in Nat /\ m \in Nat /\ 1 <= m /\ m <= n
            BY <3>3
          <6> HIDE DEF n
          <6>2. k \in 1 .. (m - 1) + (n - m)
            BY <4>1 DEF n
          <6>3. k \in Nat /\ k <= n - 1 /\ k >= m
            BY <4>3, <6>1, <6>2
          <6>4. k - (m - 1) \in 1 .. n - m /\ m + (k - (m - 1)) \in 1 .. n
            BY <6>1, <6>3
          <6>5. QED
            BY <6>4 DEF n
        <5>2. q[k] = after[k - (m - 1)]
          BY <3>4, <3>5, <3>6, <4>3, <3>7
        <5>3. q[k] = r.queue[m + (k - (m - 1))]
          BY <3>5, <5>1, <5>2
        <5>4. DOMAIN r.queue = 1 .. Len(r.queue)
          BY <1>1
        <5>5. QED
          BY <5>1, <5>3, <5>4 DEF Jobs
      <4>4. QED
        BY <4>2, <4>3
    <3>8. QED
      BY <3>7
  <2>3. QED
    BY <2>1, <2>2
<1> HIDE DEF q
<1>4. Jobs(e) \subseteq Jobs(r)
  BY <1>2, <1>3 DEF Jobs
<1>5. Queued(r, JoinTask) = {} => Queued(e, JoinTask) = {}
  BY StopLemma
<1> HIDE DEF e
<1>6. Known(e) = {}
  BY <1>2 DEF Known
<1>7. Keeps(r, e)
  BY <1>2, <1>4, <1>5, <1>6 DEF Keeps, OneClaim, Pairs
<1>8. QED
  BY <1>7 DEF e

\* Going into ERROR teaches the device nothing.
LEMMA ErrorKeeps ==
  ASSUME NEW r \in DeviceState,
         \A j, k \in Queued(r, {"PeriodicValidation"}) : j = k
  PROVE  Keeps(r, SetStatus(r, "ERROR"))
<1> DEFINE s == [r EXCEPT !.status = "ERROR"]
<1>1. CASE <<r.status, "ERROR">> \notin IsValidTransition
  BY <1>1, SameKeeps DEF SetStatus
<1>2. CASE <<r.status, "ERROR">> \in IsValidTransition
  <2>1. /\ s \in DeviceState /\ s.status = "ERROR"
        /\ s.queue = r.queue /\ s.id = r.id /\ s.claiming = r.claiming
        /\ s.table = r.table /\ s.thread = r.thread /\ s.sleeping = r.sleeping
    BY DEF DeviceState, Status
  <2>2. SetStatus(r, "ERROR") = Stop(s)
    BY <1>2, <2>1 DEF SetStatus, OnDeviceStatusChanged
  <2>3. \A j, k \in Queued(s, {"PeriodicValidation"}) : j = k
    BY <2>1 DEF Queued
  <2> HIDE DEF s
  <2>4. Keeps(r, s)
    BY <2>1, SameKeeps
  <2>5. QED
    BY <2>1, <2>2, <2>3, <2>4, StopKeeps, KeepsTransitive
<1>3. QED
  BY <1>1, <1>2
-----------------------------------------------------------------------------
(***************************************************************************)
(* One device moves, with or without a frame sent.                         *)
(***************************************************************************)
\* What another device was told stays true of a device that moves on.
LEMMA TakesLemma ==
  ASSUME InductiveInv, NEW d \in Device, NEW s, Advances(dev[d], s),
         dev'[d] = s, NEW p, p[1] \in Id,
         \A e \in Device \ {d} : dev'[e].id = dev[e].id
                                   /\ dev'[e].claiming = dev[e].claiming,
         \E e \in Device : Takes(e, p)
  PROVE  \E e \in Device : Takes(e, p)'
<1>1. PICK e \in Device : Takes(e, p)
  OBVIOUS
<1>2. CASE e = d
  BY <1>1, <1>2 DEF Takes, Advances
<1>3. CASE e # d
  BY <1>1, <1>3 DEF Takes
<1>4. QED
  BY <1>2, <1>3

\* The IDs a device was told of are IDs.
LEMMA PairsLemma ==
  ASSUME NEW r \in DeviceState, NEW p \in Pairs(r)
  PROVE  p[1] \in Id
<1>1. r.queue \in Seq(Job)
  BY DEF DeviceState
<1>2. Jobs(r) \subseteq Job
  BY <1>1 DEF Jobs
<1>3. \A j \in Jobs(r) : j.type \in Naming => j.id \in Id
  BY <1>2, JobLemma DEF Naming
<1>4. QED
  BY <1>3 DEF Pairs, Known

\* A step of d that sends nothing.
LEMMA MoveTruth ==
  ASSUME InductiveInv, Truthful, NEW d \in Device, NEW s, Advances(dev[d], s),
         dev' = [dev EXCEPT ![d] = s]
  PROVE  Truthful'
<1> SUFFICES ASSUME NEW e \in Device
             PROVE  /\ OneClaim(dev'[e])
                    /\ \A p \in Pairs(dev'[e]) : \E f \in Device : Takes(f, p)'
  BY DEF Truthful
<1>1. dev \in [Device -> DeviceState]
  BY DeviceByDevice
<1>2. dev'[d] = s /\ \A f \in Device \ {d} : dev'[f] = dev[f]
  BY <1>1
<1>3. /\ OneClaim(dev[e])
      /\ \A p \in Pairs(dev[e]) : \E f \in Device : Takes(f, p)
  BY DEF Truthful
<1>4. OneClaim(dev'[e]) /\ Pairs(dev'[e]) \subseteq Pairs(dev[e])
  BY <1>2, <1>3 DEF Advances
<1>5. ASSUME NEW p \in Pairs(dev'[e])
      PROVE  \E f \in Device : Takes(f, p)'
  <2>1. p \in Pairs(dev[e]) /\ p[1] \in Id
    BY <1>1, <1>4, <1>5, PairsLemma
  <2>2. QED
    BY <1>2, <1>3, <2>1, TakesLemma
<1>6. QED
  BY <1>4, <1>5

\* A step of d that sends a frame; a frame that names d names an ID it has taken.
LEMMA SendTruth ==
  ASSUME InductiveInv, Truthful, NEW d \in Device, NEW s, Advances(dev[d], s),
         NEW frame \in Frame, Send(d, s, frame),
         frame.type \in Naming =>
           frame.id \in {s.id, s.claiming} /\ frame.uid = Uid[d]
  PROVE  Truthful'
<1> SUFFICES ASSUME NEW e \in Device
             PROVE  /\ OneClaim(dev'[e])
                    /\ \A p \in Pairs(dev'[e]) : \E f \in Device : Takes(f, p)'
  BY DEF Truthful
<1>1. dev \in [Device -> DeviceState] /\ frame \in Job
  BY DeviceByDevice DEF Job
<1>2. /\ dev'[d] = s
      /\ \A f \in Device \ {d} : dev'[f] \in {dev[f], Enqueue(dev[f], frame)}
  BY DEF Send
<1>3. /\ OneClaim(dev[e])
      /\ \A p \in Pairs(dev[e]) : \E f \in Device : Takes(f, p)
  BY DEF Truthful
<1>4. \A f \in Device \ {d} : dev'[f].id = dev[f].id
                                /\ dev'[f].claiming = dev[f].claiming
  BY <1>1, <1>2, EnqueueKeeps
<1>5. \A p \in Pairs(dev[e]) : \E f \in Device : Takes(f, p)'
  BY <1>1, <1>2, <1>3, <1>4, PairsLemma, TakesLemma
<1>6. CASE dev'[e] = dev[e] \/ e = d
  BY <1>2, <1>3, <1>5, <1>6 DEF Advances
<1>7. CASE dev'[e] = Enqueue(dev[e], frame)
  <2> DEFINE r == dev[e]
             t == Enqueue(r, frame)
  <2>1. /\ r \in DeviceState /\ Jobs(t) = Jobs(r) \cup {frame}
        /\ t.table = r.table /\ t.id = r.id
    BY <1>1, EnqueueKeeps
  <2>2. OneClaim(t)
    <3>1. frame.type \notin JoinTask
      BY DEF Frame, JoinTask
    <3>2. Queued(t, JoinTask) = Queued(r, JoinTask)
      BY <1>1, <2>1, <3>1, EnqueueLemma
    <3>3. t.thread = r.thread /\ t.sleeping = r.sleeping
      BY <2>1 DEF Enqueue, DeviceState
    <3>4. QED
      BY <1>3, <2>1, <3>2, <3>3 DEF OneClaim
  <2> HIDE DEF t
  <2>3. ASSUME NEW p \in Pairs(t)
        PROVE  \E f \in Device : Takes(f, p)'
    <3>1. CASE p \in Pairs(r)
      BY <1>5, <3>1
    <3>2. CASE p \notin Pairs(r)
      <4>1. frame.type \in Naming /\ p = <<frame.id, frame.uid>>
        BY <2>1, <2>3, <3>2 DEF Pairs, Known
      <4>2. Takes(d, p)'
        BY <1>2, <4>1 DEF Takes
      <4>3. QED
        BY <4>2
    <3>3. QED
      BY <3>1, <3>2
  <2>4. QED
    BY <1>7, <2>2, <2>3 DEF t
<1>8. QED
  BY <1>2, <1>6, <1>7

LEMMA BecomeTruth ==
  ASSUME InductiveInv, Truthful, NEW d \in Device, NEW s, Advances(dev[d], s),
         Become(d, s)
  PROVE  Truthful'
BY MoveTruth DEF Become

\* The job at the head of the queue is taken; a frame that names a device was
\* among those the device had yet to read, and a joining job means: no ID yet.
LEMMA PopLemma ==
  ASSUME InductiveInv, Truthful, NEW d \in Device, NEW type, Ready(d, type)
  PROVE  /\ dev[d] \in DeviceState /\ Dequeue(dev[d]) \in DeviceState
         /\ Keeps(dev[d], Dequeue(dev[d]))
         /\ type \in Naming =>
              <<Head(dev[d].queue).id, Head(dev[d].queue).uid>> \in Pairs(dev[d])
         /\ type \in JoinTask => dev[d].id = Unassigned
<1>1. dev[d] \in DeviceState /\ Dequeue(dev[d]) \in DeviceState /\ dev[d].queue # <<>>
  BY DeviceByDevice, ReadyLemma DEF Ready, DeviceInv
<1>2. Keeps(dev[d], Dequeue(dev[d])) /\ Head(dev[d].queue) \in Jobs(dev[d])
  BY <1>1, DequeueKeeps
<1>3. Head(dev[d].queue).type = type
  BY DEF Ready
<1>4. ASSUME type \in JoinTask PROVE dev[d].id = Unassigned
  <2>1. 1 \in DOMAIN dev[d].queue /\ dev[d].queue[1] = Head(dev[d].queue)
    BY <1>1 DEF DeviceState
  <2>2. 1 \in Queued(dev[d], JoinTask)
    BY <1>3, <1>4, <2>1 DEF Queued
  <2>3. QED
    BY <2>2 DEF Truthful, OneClaim
<1>5. QED
  BY <1>1, <1>2, <1>3, <1>4 DEF Pairs
-----------------------------------------------------------------------------
(***************************************************************************)
(* The actions.                                                            *)
(***************************************************************************)
LEMMA PowerOnTruth ==
  ASSUME InductiveInv, Truthful, NEW d \in Device, PowerOn(d)
  PROVE  Truthful'
<1> DEFINE s == [dev[d] EXCEPT !.thread = "starting", !.listening = TRUE]
<1>1. /\ dev[d] \in DeviceState /\ dev[d].id = Unassigned
      /\ Become(d, s)
  BY DeviceByDevice DEF PowerOn, DeviceInv, Truthful, OneClaim
<1>2. /\ s.id = Unassigned /\ s.claiming = dev[d].claiming
      /\ s.table = dev[d].table /\ s.queue = dev[d].queue
  BY <1>1 DEF DeviceState
<1> HIDE DEF s
<1>3. Advances(dev[d], s)
  BY <1>1, <1>2 DEF Advances, OneClaim, Pairs, Known, Jobs
<1>4. QED
  BY <1>1, <1>3, BecomeTruth

LEMMA StartDiscoveryTruth ==
  ASSUME InductiveInv, Truthful, NEW d \in Device, StartDiscovery(d)
  PROVE  Truthful'
<1> DEFINE r == [dev[d] EXCEPT !.thread = "running"]
           s == [r EXCEPT !.status = "INIT"]
           job == [type |-> "StartInitialization"]
<1>1. /\ DeviceInv(dev[d]) /\ dev[d] \in DeviceState /\ dev[d].id = Unassigned
      /\ dev[d].status \in {"OFFLINE", "ERROR"}
  BY DeviceByDevice DEF StartDiscovery, DeviceInv, JoinInv, Truthful, OneClaim
<1>2. /\ s \in DeviceState /\ s.id = Unassigned /\ s.claiming = dev[d].claiming
      /\ s.table = dev[d].table /\ s.queue = dev[d].queue /\ s.status = "INIT"
      /\ r.status = dev[d].status
  BY <1>1 DEF DeviceState, Status
<1>3. SetStatus(r, "INIT") = Enqueue(s, job)
  BY <1>1, <1>2 DEF SetStatus, IsValidTransition, OnDeviceStatusChanged
<1>4. Become(d, Enqueue(s, job))
  BY <1>3 DEF StartDiscovery
<1>5. job \in Job /\ job.type \notin Naming
  BY DEF Job, Task, Naming
<1> HIDE DEF s, job
<1>6. Keeps(dev[d], s)
  BY <1>1, <1>2 DEF Keeps, OneClaim, Pairs, Known, Jobs
<1>7. Keeps(s, Enqueue(s, job))
  BY <1>2, <1>5, EnqueueKeeps
<1>8. QED
  BY <1>4, <1>6, <1>7, KeepsTransitive, KeepsAdvances, BecomeTruth

LEMMA ValidationDueTruth ==
  ASSUME InductiveInv, Truthful, NEW d \in Device, ValidationDue(d)
  PROVE  Truthful'
<1> DEFINE s == [dev[d] EXCEPT !.armed = FALSE]
           job == [type |-> "PeriodicValidation"]
<1>1. dev[d] \in DeviceState /\ Become(d, Enqueue(s, job))
  BY DeviceByDevice DEF ValidationDue
<1>2. /\ s \in DeviceState /\ s.id = dev[d].id /\ s.claiming = dev[d].claiming
      /\ s.table = dev[d].table /\ s.queue = dev[d].queue
      /\ s.thread = dev[d].thread /\ s.sleeping = dev[d].sleeping
  BY <1>1 DEF DeviceState
<1>3. job \in Job /\ job.type \notin Naming /\ job.type \notin JoinTask
  BY DEF Job, Task, Naming, JoinTask
<1> HIDE DEF s, job
<1>4. Keeps(dev[d], s)
  BY <1>2, SameKeeps
<1>5. Keeps(s, Enqueue(s, job))
  BY <1>2, <1>3, EnqueueKeeps
<1>6. QED
  BY <1>1, <1>4, <1>5, KeepsTransitive, KeepsAdvances, BecomeTruth

\* A discovery request names nobody.
LEMMA DiscoverTruth ==
  ASSUME InductiveInv, Truthful, NEW d \in Device, NEW r \in DeviceState,
         Keeps(dev[d], r), r.id = Unassigned, NEW index, NEW resets,
         Discover(d, r, index, resets)
  PROVE  Truthful'
<1> DEFINE s == [r EXCEPT !.requesting = <<>>, !.sleeping = "StartInitialization",
                          !.index = index, !.resets = resets]
           frame == DiscoveryRequest(d)
<1>1. Send(d, s, frame)
  BY DEF Discover
<1>2. /\ s.id = r.id /\ s.claiming = r.claiming
      /\ s.table = r.table /\ s.queue = r.queue
  BY DEF DeviceState
<1>3. frame \in Frame /\ frame.type \notin Naming
  BY DEF Frame, DiscoveryRequest, UidValue, Naming
<1> HIDE DEF s, frame
<1>4. Keeps(r, s)
  BY <1>2 DEF Keeps, OneClaim, Pairs, Known, Jobs
<1>5. QED
  BY <1>1, <1>3, <1>4, KeepsTransitive, KeepsAdvances, SendTruth

LEMMA StartInitializationTruth ==
  ASSUME InductiveInv, Truthful, NEW d \in Device, StartInitialization(d)
  PROVE  Truthful'
<1> DEFINE q == Dequeue(dev[d])
           r == [q EXCEPT !.answered = FALSE]
<1>1. q \in DeviceState /\ Keeps(dev[d], q) /\ dev[d].id = Unassigned
  BY PopLemma DEF StartInitialization, JoinTask
<1>2. IF r.status = "INIT" THEN Discover(d, r, 0, 0) ELSE Become(d, r)
  BY DEF StartInitialization
<1> HIDE DEF q
<1>3. /\ r \in DeviceState /\ r.id = q.id /\ r.claiming = q.claiming
      /\ r.table = q.table /\ r.queue = q.queue /\ r.thread = q.thread
      /\ r.sleeping = q.sleeping
  BY <1>1 DEF DeviceState
<1> HIDE DEF r
<1>4. Keeps(dev[d], r) /\ r.id = Unassigned
  BY <1>1, <1>3, SameKeeps, KeepsTransitive DEF Keeps
<1>5. QED
  BY <1>2, <1>3, <1>4, KeepsAdvances, BecomeTruth, DiscoverTruth

\* A device that wakes from a back-off has no ID, and asks again or claims.
LEMMA WakeInitializationTruth ==
  ASSUME InductiveInv, Truthful, NEW d \in Device, WakeInitialization(d)
  PROVE  Truthful'
<1> DEFINE r == [dev[d] EXCEPT !.sleeping = Idle]
           s == [r EXCEPT !.status = "CLAIMING"]
           job == [type |-> "SendIdClaim"]
<1>1. /\ dev[d] \in DeviceState /\ dev[d].id = Unassigned /\ dev[d].status = "INIT"
  BY DeviceByDevice DEF WakeInitialization, DeviceInv, SleepInv, Truthful, OneClaim, JoinTask
<1>2. /\ r \in DeviceState /\ r.id = dev[d].id /\ r.claiming = dev[d].claiming
      /\ r.table = dev[d].table /\ r.queue = dev[d].queue /\ r.thread = dev[d].thread
      /\ r.sleeping = Idle /\ r.status = "INIT"
  BY <1>1 DEF DeviceState
<1>3. Idle \notin JoinTask
  BY DEF Idle, JoinTask
<1>4. Keeps(dev[d], r) /\ r.id = Unassigned
  BY <1>1, <1>2, <1>3, SameKeeps
<1>5. \/ Become(d, SetStatus(r, "CLAIMING"))
      \/ \E index, resets : Discover(d, r, index, resets)
      \/ Become(d, r)
  BY Zenon DEF WakeInitialization
<1>6. CASE Become(d, SetStatus(r, "CLAIMING"))
  <2>1. /\ s \in DeviceState /\ s.id = r.id /\ s.claiming = r.claiming
        /\ s.table = r.table /\ s.queue = r.queue /\ s.thread = r.thread
        /\ s.sleeping = r.sleeping /\ s.status = "CLAIMING"
    BY <1>2 DEF DeviceState, Status
  <2>2. SetStatus(r, "CLAIMING") = Enqueue(s, job)
    BY <1>2, <2>1 DEF SetStatus, IsValidTransition, OnDeviceStatusChanged
  <2>3. job \in Job /\ job.type \notin Naming
    BY DEF Job, Task, Naming
  <2> HIDE DEF s, job, r
  <2>4. Keeps(r, s)
    BY <2>1, SameKeeps
  <2>5. Keeps(s, Enqueue(s, job))
    BY <1>4, <2>1, <2>3, EnqueueKeeps
  <2>6. Keeps(dev[d], Enqueue(s, job))
    BY <1>4, <2>4, <2>5, KeepsTransitive
  <2>7. QED
    BY <1>6, <2>2, <2>6, KeepsAdvances, BecomeTruth
<1>7. CASE \E index, resets : Discover(d, r, index, resets)
  <2> HIDE DEF r
  <2>1. QED
    BY <1>2, <1>4, <1>7, DiscoverTruth
<1>8. CASE Become(d, r)
  BY <1>4, <1>8, KeepsAdvances, BecomeTruth
<1>9. QED
  BY <1>5, <1>6, <1>7, <1>8

LEMMA ProcessDiscoveryRequestFrameTruth ==
  ASSUME InductiveInv, Truthful, NEW d \in Device, ProcessDiscoveryRequestFrame(d)
  PROVE  Truthful'
<1> DEFINE q == Dequeue(dev[d])
           uid == Head(dev[d].queue).uid
           r == [q EXCEPT !.requesting = Append(@, uid)]
           job == [type |-> "SendDiscoveryResponse"]
<1>1. /\ q \in DeviceState /\ Keeps(dev[d], q)
      /\ Head(dev[d].queue) \in Job /\ Head(dev[d].queue).type = "DISCOVERY_REQUEST"
  BY PopLemma, ReadyLemma DEF ProcessDiscoveryRequestFrame, Ready
<1>2. uid \in UidValue /\ Become(d, Enqueue(r, job))
  BY <1>1, JobLemma DEF ProcessDiscoveryRequestFrame
<1>3. job \in Job /\ job.type \notin Naming /\ job.type \notin JoinTask
  BY DEF Job, Task, Naming, JoinTask
<1> HIDE DEF q, uid
<1>4. /\ r.id = q.id /\ r.claiming = q.claiming
      /\ r.table = q.table /\ r.queue = q.queue /\ r.thread = q.thread
      /\ r.sleeping = q.sleeping
  BY <1>1 DEF DeviceState
<1>5. r \in DeviceState
  <2>1. Append(q.requesting, uid) \in Seq(UidValue)
    BY <1>1, <1>2 DEF DeviceState
  <2>2. QED
    BY <1>1, <2>1 DEF DeviceState
<1> HIDE DEF r, job
<1>6. Keeps(q, r)
  BY <1>4, SameKeeps
<1>7. Keeps(r, Enqueue(r, job))
  BY <1>3, <1>5, EnqueueKeeps
<1>8. Keeps(dev[d], Enqueue(r, job))
  BY <1>1, <1>6, <1>7, KeepsTransitive
<1>9. QED
  BY <1>2, <1>8, KeepsAdvances, BecomeTruth

\* The responder is filed under the ID it said, which it has.
LEMMA ProcessDiscoveryResponseFrameTruth ==
  ASSUME InductiveInv, Truthful, NEW d \in Device, ProcessDiscoveryResponseFrame(d)
  PROVE  Truthful'
<1> DEFINE frame == Head(dev[d].queue)
           q == Dequeue(dev[d])
           r == [q EXCEPT !.answered = TRUE]
<1>1. /\ DeviceInv(q) /\ q \in DeviceState /\ Keeps(dev[d], q)
      /\ frame \in Job /\ frame.type = "DISCOVERY_RESPONSE"
      /\ <<frame.id, frame.uid>> \in Pairs(dev[d])
  BY PopLemma, ReadyLemma DEF ProcessDiscoveryResponseFrame, Ready, Naming
<1>2. frame.id \in Id /\ frame.uid \in UidValue
  BY <1>1, JobLemma
<1>3. Become(d, IF frame.uid = Uid[d] THEN SetStatus(r, "ERROR")
                ELSE AddOrUpdateDevice(r, frame.id, frame.uid))
  BY DEF ProcessDiscoveryResponseFrame
<1> HIDE DEF q, frame
<1>4. /\ r \in DeviceState /\ r.id = q.id /\ r.claiming = q.claiming
      /\ r.table = q.table /\ r.queue = q.queue /\ r.thread = q.thread
      /\ r.sleeping = q.sleeping /\ r.status = q.status
  BY <1>1 DEF DeviceState
<1> HIDE DEF r
<1>5. Keeps(dev[d], r)
  BY <1>1, <1>4, SameKeeps, KeepsTransitive
<1>6. Keeps(dev[d], AddOrUpdateDevice(r, frame.id, frame.uid))
  BY <1>1, <1>2, <1>4, <1>5, AddOrUpdateKeeps
<1>7. \A j, k \in Queued(r, {"PeriodicValidation"}) : j = k
  BY <1>1, <1>4 DEF DeviceInv, ValidationInv, Queued
<1>8. Keeps(dev[d], SetStatus(r, "ERROR"))
  BY <1>4, <1>5, <1>7, ErrorKeeps, KeepsTransitive
<1>9. QED
  BY <1>3, <1>6, <1>8, KeepsAdvances, BecomeTruth

LEMMA SendDiscoveryResponseTruth ==
  ASSUME InductiveInv, Truthful, NEW d \in Device, SendDiscoveryResponse(d)
  PROVE  Truthful'
<1> DEFINE q == Dequeue(dev[d])
           r == [q EXCEPT !.sleeping = "SendDiscoveryResponse"]
<1>1. q \in DeviceState /\ Keeps(dev[d], q)
  BY PopLemma DEF SendDiscoveryResponse
<1>2. Become(d, IF q.status = "ONLINE" THEN r ELSE q)
  BY DEF SendDiscoveryResponse
<1> HIDE DEF q
<1>3. /\ r.id = q.id /\ r.claiming = q.claiming
      /\ r.table = q.table /\ r.queue = q.queue /\ r.thread = q.thread
      /\ r.sleeping = "SendDiscoveryResponse"
  BY <1>1 DEF DeviceState
<1>4. r.sleeping \notin JoinTask
  BY <1>3 DEF JoinTask
<1> HIDE DEF r
<1>5. Keeps(dev[d], r)
  BY <1>1, <1>3, <1>4, SameKeeps, KeepsTransitive
<1>6. QED
  BY <1>1, <1>2, <1>5, KeepsAdvances, BecomeTruth

\* The response names the ID of its sender.
LEMMA WakeDiscoveryResponseTruth ==
  ASSUME InductiveInv, Truthful, NEW d \in Device, WakeDiscoveryResponse(d)
  PROVE  Truthful'
<1> DEFINE r == [dev[d] EXCEPT !.sleeping = Idle]
           frame == DiscoveryResponse(d, dev[d].id)
<1>1. /\ dev[d] \in DeviceState /\ dev[d].id \in Id
      /\ Send(d, r, frame)
  BY DeviceByDevice DEF WakeDiscoveryResponse, DeviceInv, SleepInv, DeviceState
<1>2. /\ r.id = dev[d].id /\ r.claiming = dev[d].claiming
      /\ r.table = dev[d].table /\ r.queue = dev[d].queue
      /\ r.thread = dev[d].thread /\ r.sleeping = Idle
  BY <1>1 DEF DeviceState
<1>3. frame \in Frame /\ frame.id = dev[d].id /\ frame.uid = Uid[d]
  BY <1>1, FrameLemma DEF ClaimResult, DiscoveryResponse
<1> HIDE DEF r, frame
<1>4. Advances(dev[d], r)
  BY <1>2, SameKeeps, KeepsAdvances DEF Idle, JoinTask
<1>5. QED
  BY <1>1, <1>2, <1>3, <1>4, SendTruth

\* A claim names the ID its sender is claiming.
LEMMA ClaimTruth ==
  ASSUME InductiveInv, Truthful, NEW d \in Device, NEW r \in DeviceState,
         Advances(dev[d], r), r.id = Unassigned, r.claiming \in Id, NEW attempt,
         Claim(d, r, attempt)
  PROVE  Truthful'
<1> DEFINE s == [r EXCEPT !.sleeping = "SendIdClaim", !.index = attempt]
           frame == IdClaim(d, r.claiming)
<1>1. Send(d, s, frame)
  BY DEF Claim
<1>2. /\ s.id = r.id /\ s.claiming = r.claiming
      /\ s.table = r.table /\ s.queue = r.queue
  BY DEF DeviceState
<1>3. frame \in Frame /\ frame.id = r.claiming /\ frame.uid = Uid[d]
  BY FrameLemma DEF ClaimResult, IdClaim
<1> HIDE DEF s, frame
<1>4. Advances(dev[d], s)
  BY <1>2 DEF Advances, OneClaim, Pairs, Known, Jobs
<1>5. QED
  BY <1>1, <1>2, <1>3, <1>4, SendTruth

\* A device that starts to claim has no ID and claims none, so it gives none back.
LEMMA SendIdClaimTruth ==
  ASSUME InductiveInv, Truthful, NEW d \in Device, SendIdClaim(d)
  PROVE  Truthful'
<1> DEFINE r == Dequeue(dev[d])
<1>1. /\ r \in DeviceState /\ Keeps(dev[d], r) /\ dev[d].id = Unassigned
      /\ DeviceInv(r) /\ r.sleeping = Idle /\ r.claiming = Unassigned
      /\ r.thread # "off"
  BY PopLemma, ReadyLemma DEF SendIdClaim, JoinTask
<1>2. CASE AvailableId(r) = {}
  <2> DEFINE e == SetStatus(r, "ERROR")
  <2>1. Become(d, [e EXCEPT !.claiming = Unassigned])
    BY <1>2 DEF SendIdClaim
  <2>2. DeviceInv(e) /\ e.claiming = Unassigned
    BY <1>1, ErrorInv
  <2>3. [e EXCEPT !.claiming = Unassigned] = e
    BY <2>2 DEF DeviceInv, DeviceState
  <2>4. Keeps(dev[d], e)
    <3>1. \A j, k \in Queued(r, {"PeriodicValidation"}) : j = k
      BY <1>1 DEF DeviceInv, ValidationInv
    <3>2. QED
      BY <1>1, <3>1, ErrorKeeps, KeepsTransitive
  <2>5. QED
    BY <2>1, <2>3, <2>4, KeepsAdvances, BecomeTruth
<1>3. CASE AvailableId(r) # {}
  <2>1. PICK id \in AvailableId(r) : Claim(d, [r EXCEPT !.claiming = id], 0)
    BY <1>3 DEF SendIdClaim
  <2> DEFINE e == [r EXCEPT !.claiming = id]
  <2>2. id \in Id
    BY <2>1 DEF AvailableId
  <2> HIDE DEF r
  <2>3. /\ e \in DeviceState /\ e.id = r.id /\ e.claiming = id
        /\ e.table = r.table /\ e.queue = r.queue
    BY <1>1, <2>2 DEF DeviceState
  <2> HIDE DEF e
  <2>4. {dev[d].id, dev[d].claiming} \cap Id = {} /\ e.id = Unassigned
    BY <1>1, <2>3, SizeAssumption DEF Keeps, Id, Unassigned
  <2>5. Advances(dev[d], e)
    <3>1. Pairs(e) = Pairs(r)
      BY <2>3 DEF Pairs, Known, Jobs
    <3>2. QED
      BY <1>1, <2>4, <3>1 DEF Advances, OneClaim, Keeps
  <2>6. QED
    BY <2>1, <2>2, <2>3, <2>4, <2>5, ClaimTruth DEF e
<1>4. QED
  BY <1>2, <1>3

\* The ID claimed becomes the ID: the claims already sent stay true.
LEMMA WakeIdClaimTruth ==
  ASSUME InductiveInv, Truthful, NEW d \in Device, WakeIdClaim(d)
  PROVE  Truthful'
<1> DEFINE r == [dev[d] EXCEPT !.sleeping = Idle]
<1>1. /\ DeviceInv(dev[d]) /\ dev[d] \in DeviceState
      /\ dev[d].sleeping = "SendIdClaim" /\ dev[d].id = Unassigned
      /\ dev[d].result = NoResult /\ dev[d].claiming \in Id
      /\ dev[d].status \in {"CLAIMING", "ERROR"} /\ dev[d].thread = "running"
      /\ Queued(dev[d], JoinTask) = {}
  BY DeviceByDevice DEF WakeIdClaim, DeviceInv, SleepInv, JoinInv, JoinTask, Idle,
                        DeviceState, Truthful, OneClaim
<1>2. /\ r \in DeviceState /\ r.id = Unassigned /\ r.claiming = dev[d].claiming
      /\ r.table = dev[d].table /\ r.queue = dev[d].queue /\ r.thread = "running"
      /\ r.sleeping = Idle /\ r.result = NoResult /\ r.status = dev[d].status
  BY <1>1 DEF DeviceState
<1>3. r.result \notin ClaimResult
  BY <1>2 DEF NoResult, ClaimResult
<1>4. \/ Claim(d, r, r.index + 1)
      \/ Become(d, [GoOnline(r) EXCEPT !.claiming = Unassigned])
  BY <1>3 DEF WakeIdClaim, ClaimDecided, ClaimResult
<1>5. CASE Claim(d, r, r.index + 1)
  <2> HIDE DEF r
  <2>1. Advances(dev[d], r)
    BY <1>1, <1>2, SameKeeps, KeepsAdvances DEF Idle, JoinTask
  <2>2. QED
    BY <1>1, <1>2, <1>5, <2>1, ClaimTruth
<1>6. CASE Become(d, [GoOnline(r) EXCEPT !.claiming = Unassigned])
  <2> DEFINE s == [r EXCEPT !.id = r.claiming]
             t == GoOnline(r)
             e == [t EXCEPT !.claiming = Unassigned]
  <2>1. /\ s \in DeviceState /\ s.id = dev[d].claiming
        /\ s.table = dev[d].table /\ s.queue = dev[d].queue /\ s.thread = "running"
        /\ s.sleeping = Idle /\ s.status = dev[d].status
    BY <1>1, <1>2 DEF DeviceState
  <2> HIDE DEF r
  <2>2. /\ t \in DeviceState /\ t.id = dev[d].claiming /\ t.table = dev[d].table
        /\ t.thread = "running" /\ t.sleeping = Idle
        /\ Queued(t, JoinTask) = {}
        /\ \A j \in Jobs(t) : j.type \in Naming => j \in Jobs(dev[d])
    <3>1. CASE <<s.status, "ONLINE">> \notin IsValidTransition
      <4>1. t = s
        BY <3>1 DEF GoOnline, SetStatus
      <4>2. QED
        BY <1>1, <2>1, <4>1 DEF Queued, Jobs
    <3>2. CASE <<s.status, "ONLINE">> \in IsValidTransition
      <4> DEFINE u == [s EXCEPT !.status = "ONLINE"]
                 v == [u EXCEPT !.validating = TRUE]
                 job == [type |-> "PeriodicValidation"]
      <4>1. /\ u \in DeviceState /\ u.id = s.id /\ u.table = s.table
            /\ u.queue = s.queue /\ u.thread = s.thread /\ u.sleeping = s.sleeping
            /\ u.status = "ONLINE"
        BY <2>1 DEF DeviceState, Status
      <4>2. t = StartValidationTask(u)
        BY <3>2, <4>1 DEF GoOnline, SetStatus, OnDeviceStatusChanged
      <4> HIDE DEF u
      <4>3. /\ v \in DeviceState /\ v.id = u.id /\ v.table = u.table
            /\ v.queue = u.queue /\ v.thread = u.thread /\ v.sleeping = u.sleeping
        BY <4>1 DEF DeviceState
      <4> HIDE DEF v
      <4>4. t = u \/ t = Enqueue(v, job)
        BY <4>2 DEF StartValidationTask, v
      <4>5. CASE t = u
        BY <1>1, <2>1, <4>1, <4>5 DEF Queued, Jobs
      <4>6. CASE t = Enqueue(v, job)
        <5>1. job \in Job /\ job.type \notin Naming /\ job.type \notin JoinTask
          BY DEF Job, Task, Naming, JoinTask
        <5> HIDE DEF job
        <5>2. /\ Enqueue(v, job) \in DeviceState
              /\ Queued(Enqueue(v, job), JoinTask) = Queued(v, JoinTask)
          BY <4>3, <5>1, EnqueueLemma
        <5>3. /\ Jobs(Enqueue(v, job)) = Jobs(v) \cup {job}
              /\ Enqueue(v, job).id = v.id /\ Enqueue(v, job).table = v.table
          BY <4>3, <5>1, EnqueueKeeps
        <5>4. Enqueue(v, job).thread = v.thread /\ Enqueue(v, job).sleeping = v.sleeping
          BY <4>3 DEF Enqueue, DeviceState
        <5>5. Queued(v, JoinTask) = {} /\ Jobs(v) = Jobs(dev[d])
          BY <1>1, <2>1, <4>1, <4>3 DEF Queued, Jobs
        <5>6. QED
          BY <2>1, <4>1, <4>3, <4>6, <5>1, <5>2, <5>3, <5>4, <5>5
      <4>7. QED
        BY <4>4, <4>5, <4>6
    <3>3. QED
      BY <3>1, <3>2
  <2> HIDE DEF t
  <2>3. /\ e.id = t.id /\ e.table = t.table /\ e.queue = t.queue
        /\ e.thread = t.thread /\ e.sleeping = t.sleeping
    BY <2>2 DEF DeviceState
  <2> HIDE DEF e
  <2>4. Pairs(e) \subseteq Pairs(dev[d])
    BY <2>2, <2>3 DEF Pairs, Known, Jobs
  <2>5. OneClaim(e)
    BY <2>2, <2>3 DEF OneClaim, Queued, Idle, JoinTask
  <2>6. {dev[d].id, dev[d].claiming} \cap Id \subseteq {e.id, e.claiming}
    BY <1>1, <2>2, <2>3, SizeAssumption DEF Id, Unassigned
  <2>7. Advances(dev[d], e)
    BY <2>4, <2>5, <2>6 DEF Advances
  <2>8. QED
    BY <1>6, <2>7, BecomeTruth DEF e, t
<1>7. QED
  BY <1>4, <1>5, <1>6

\* The claimer is filed under the ID it claims.
LEMMA ProcessIdClaimRequestFrameTruth ==
  ASSUME InductiveInv, Truthful, NEW d \in Device, ProcessIdClaimRequestFrame(d)
  PROVE  Truthful'
<1> DEFINE frame == Head(dev[d].queue)
           verdict == Verdict(d, frame)
           r == Dequeue(dev[d])
           s == AddOrUpdateDevice(r, frame.id, frame.uid)
<1>1. /\ r \in DeviceState /\ Keeps(dev[d], r)
      /\ frame \in Job /\ frame.type = "ID_CLAIM"
      /\ <<frame.id, frame.uid>> \in Pairs(dev[d])
  BY PopLemma, ReadyLemma DEF ProcessIdClaimRequestFrame, Ready, Naming
<1>2. frame.id \in Id /\ frame.uid \in UidValue
  BY <1>1, JobLemma
<1>3. verdict \in ClaimResult \cup {NoResult}
  BY DEF Verdict, ClaimResult
<1>4. IF dev[d].status # "ONLINE" \/ verdict = NoResult THEN Become(d, r)
      ELSE Send(d, IF verdict = "ACCEPT" THEN s ELSE r,
                IdClaimResponse(frame.id, verdict))
  BY DEF ProcessIdClaimRequestFrame
<1> HIDE DEF frame, verdict, r
<1>5. Keeps(dev[d], s)
  BY <1>1, <1>2, AddOrUpdateKeeps
<1> HIDE DEF s
<1>6. Advances(dev[d], r) /\ Advances(dev[d], s)
  BY <1>1, <1>5, KeepsAdvances
<1>7. CASE dev[d].status # "ONLINE" \/ verdict = NoResult
  BY <1>4, <1>6, <1>7, BecomeTruth
<1>8. CASE ~(dev[d].status # "ONLINE" \/ verdict = NoResult)
  <2> DEFINE answer == IdClaimResponse(frame.id, verdict)
  <2>1. answer \in Frame /\ answer.type \notin Naming
    BY <1>2, <1>3, <1>8, FrameLemma DEF IdClaimResponse, Naming
  <2> HIDE DEF answer
  <2>2. Send(d, s, answer) \/ Send(d, r, answer)
    BY <1>4, <1>8 DEF answer
  <2>3. QED
    BY <1>6, <2>1, <2>2, SendTruth
<1>9. QED
  BY <1>7, <1>8

LEMMA ProcessIdClaimResponseFrameTruth ==
  ASSUME InductiveInv, Truthful, NEW d \in Device, ProcessIdClaimResponseFrame(d)
  PROVE  Truthful'
<1> DEFINE frame == Head(dev[d].queue)
           r == Dequeue(dev[d])
<1>1. /\ Keeps(dev[d], r) /\ r.claiming = Unassigned
      /\ frame \in Job /\ frame.type = "ID_CLAIM_RESPONSE"
  BY PopLemma, ReadyLemma DEF ProcessIdClaimResponseFrame, Ready
<1>2. frame.id # Unassigned
  BY <1>1, JobLemma, SizeAssumption DEF Id, Unassigned
<1>3. Become(d, r)
  BY <1>1, <1>2 DEF ProcessIdClaimResponseFrame
<1>4. QED
  BY <1>1, <1>3, KeepsAdvances, BecomeTruth

\* Forgetting an entry cannot make the others false.
LEMMA ProcessPeriodicValidationTruth ==
  ASSUME InductiveInv, Truthful, NEW d \in Device, ProcessPeriodicValidation(d)
  PROVE  Truthful'
<1> DEFINE q == Dequeue(dev[d])
<1>1. q \in DeviceState /\ Keeps(dev[d], q)
  BY PopLemma DEF ProcessPeriodicValidation
<1>2. CASE ~q.validating
  BY <1>1, <1>2, KeepsAdvances, BecomeTruth DEF ProcessPeriodicValidation
<1>3. CASE q.validating
  <2>1. PICK stale \in SUBSET Id :
          dev' = [dev EXCEPT ![d] = [UpdateNetworkDevices(RemoveDevices(q, stale))
                                       EXCEPT !.armed = TRUE]]
    BY <1>3 DEF ProcessPeriodicValidation, Known
  <2> DEFINE s == RemoveDevices(q, stale)
             e == [UpdateNetworkDevices(s) EXCEPT !.armed = TRUE]
  <2> HIDE DEF q
  <2>2. /\ s.table = [i \in Id |-> IF i \in stale THEN NoUid ELSE q.table[i]]
        /\ s = [q EXCEPT !.table = s.table]
    BY <1>1 DEF RemoveDevices, DeviceState
  <2> HIDE DEF s
  <2>3. /\ e.id = q.id /\ e.claiming = q.claiming /\ e.table = s.table
        /\ e.queue = q.queue /\ e.thread = q.thread /\ e.sleeping = q.sleeping
    BY <1>1, <2>2 DEF UpdateNetworkDevices, DeviceState
  <2> HIDE DEF e
  <2>4. Jobs(e) = Jobs(q) /\ Queued(e, JoinTask) = Queued(q, JoinTask)
    BY <2>3 DEF Jobs, Queued
  <2>5. \A i \in Known(e) : i \in Known(q) /\ e.table[i] = q.table[i]
    BY <2>2, <2>3 DEF Known
  <2>6. Keeps(q, e)
    BY <2>3, <2>4, <2>5 DEF Keeps, OneClaim, Pairs
  <2>7. dev' = [dev EXCEPT ![d] = e]
    BY <2>1 DEF e, s
  <2>8. QED
    BY <1>1, <2>6, <2>7, KeepsTransitive, KeepsAdvances, MoveTruth
<1>4. QED
  BY <1>2, <1>3

-----------------------------------------------------------------------------
(***************************************************************************)
(* The theorem.                                                            *)
(***************************************************************************)
LEMMA InitTruth == Init => TruthInv
<1> SUFFICES ASSUME Init PROVE Truthful
  BY DEF TruthInv
<1>1. \A d \in Device : dev[d] = PoweredOff
  BY DEF Init
<1>2. OneClaim(PoweredOff) /\ Pairs(PoweredOff) = {}
  BY DEF PoweredOff, OneClaim, Pairs, Known, Jobs, Unassigned
<1>3. QED
  BY <1>1, <1>2 DEF Truthful

LEMMA StepTruth == InductiveInv /\ TruthInv /\ [Next]_vars => TruthInv'
<1> SUFFICES ASSUME InductiveInv, TruthInv, [Next]_vars, cycles' = 0
             PROVE  Truthful'
  BY DEF TruthInv
<1>1. CASE UNCHANGED vars
  BY <1>1 DEF vars, TruthInv, Truthful, Takes
<1>2. ASSUME NEW d \in Device, PowerOn(d) \/ Background(d)
      PROVE  Truthful'
  <2>1. cycles \in Nat
    BY DeviceByDevice
  <2>2. ~PowerOff(d)
    BY <2>1 DEF PowerOff
  <2>3. cycles' = cycles
    BY <1>2, <2>2, Zenon
       DEF Background, WorkQueueStep, PowerOn, StartDiscovery, ValidationDue,
           StartInitialization, WakeInitialization, ProcessDiscoveryRequestFrame,
           ProcessDiscoveryResponseFrame, SendDiscoveryResponse,
           WakeDiscoveryResponse, SendIdClaim, WakeIdClaim,
           ProcessIdClaimRequestFrame, ProcessIdClaimResponseFrame,
           ProcessPeriodicValidation, Discover, Claim, Become, Send
  <2>4. Truthful
    BY <2>3 DEF TruthInv
  <2>5. QED
    BY <1>2, <2>2, <2>4, PowerOnTruth, StartDiscoveryTruth, ValidationDueTruth,
       StartInitializationTruth, WakeInitializationTruth,
       ProcessDiscoveryRequestFrameTruth, ProcessDiscoveryResponseFrameTruth,
       SendDiscoveryResponseTruth, WakeDiscoveryResponseTruth, SendIdClaimTruth,
       WakeIdClaimTruth, ProcessIdClaimRequestFrameTruth,
       ProcessIdClaimResponseFrameTruth, ProcessPeriodicValidationTruth
       DEF Background, WorkQueueStep
<1>3. QED
  BY <1>1, <1>2 DEF Next

\* As long as no device has lost power, every entry of every network_devices_
\* names a device that has that ID or is claiming it, whatever frames are lost
\* or late: an ID is neither given back nor exchanged for another.
THEOREM TableTruthfulHolds == Spec => [](cycles = 0 => TableTruthful)
<1>1. TruthInv => (cycles = 0 => TableTruthful)
  <2> SUFFICES ASSUME Truthful PROVE TableTruthful
    BY DEF TruthInv
  <2>1. ASSUME NEW d \in Device, NEW i \in Known(dev[d])
        PROVE  \E e \in Device : /\ Uid[e] = dev[d].table[i]
                                 /\ i \in {dev[e].id, dev[e].claiming}
    <3> DEFINE p == <<i, dev[d].table[i]>>
    <3>1. p \in Pairs(dev[d])
      BY DEF Pairs
    <3>2. PICK e \in Device : Takes(e, p)
      BY <3>1 DEF Truthful
    <3>3. QED
      BY <3>2 DEF Takes
  <2>2. QED
    BY <2>1 DEF TableTruthful
<1>2. QED
  BY <1>1, InitTruth, StepTruth, Invariance, PTL DEF Spec
=============================================================================
