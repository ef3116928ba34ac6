----------------------- MODULE CdmpTransactionsProofs -----------------------
(***************************************************************************)
(* What holds of the table of transactions and of the timeout job of       *)
(* CdmpCommands, for every value of the constants: the timeout job lives   *)
(* exactly as long as the device is online, a call stays filed until it    *)
(* ends as long as the transaction IDs do not run out, and an answer is    *)
(* the caller's own as long as one device calls and no ID comes round.     *)
(***************************************************************************)
EXTENDS CdmpCommandsProofs, FiniteSetTheorems

(***************************************************************************)
(* The bus and the queues.                                                 *)
(***************************************************************************)
Frame == [type : {"REQUEST"}, call : Call, id : TxId] \cup ResponseFrame

\* Device d becomes r; every other device may receive a frame of "frames".
Passed(d, r, frames) ==
  /\ dev'[d] = r
  /\ \A e \in Device \ {d} :
       dev'[e] = dev[e] \/ \E frame \in frames : dev'[e] = Enqueue(dev[e], frame)

LEMMA PassedLemma ==
  ASSUME TypeOK, NEW d \in Device, NEW r
  PROVE  /\ Become(d, r) => Passed(d, r, {})
         /\ \A frame : Send(d, r, frame) => Passed(d, r, {frame})
  BY DEF Become, Send, Passed, TypeOK

\* The timeout job is not a frame, nor is there one in an empty queue.
LEMMA FrameLemma ==
  /\ \A frame \in Frame : frame # TimeoutJob /\ frame # Silent /\ frame \in Job
  /\ TimeoutJob # Silent /\ TimeoutJob \in Job
  /\ \A job \in Job : job.type # "TIMEOUTS" => job \in Frame
  /\ \A job \in Job : job.type = "TIMEOUTS" => job = TimeoutJob
  BY DEF Frame, Job, ResponseFrame, TimeoutJob, Silent

(***************************************************************************)
(* The timeout job.                                                        *)
(***************************************************************************)
Timeouts(queue) == {k \in DOMAIN queue : queue[k] = TimeoutJob}

\* The timeout job of r is in one place if it is running, and else in none:
\* queued, delayed, or between the callbacks of its run.
OneTimeoutJob(r) ==
  /\ \A i, j \in Timeouts(r.queue) : i = j
  /\ r.armed => Timeouts(r.queue) = {} /\ r.expired = {}
  /\ r.expired # {} => Timeouts(r.queue) = {}
  /\ r.running <=> r.armed \/ r.expired # {} \/ Timeouts(r.queue) # {}
  /\ r.running <=> r.status = "ONLINE"

TimeoutInv == \A d \in Device : OneTimeoutJob(dev[d])

\* What the operations of the queue do to the places of the timeout job.
LEMMA TimeoutsLemma ==
  ASSUME NEW queue \in Seq(Job)
  PROVE  /\ \A frame \in Frame : Timeouts(Append(queue, frame)) = Timeouts(queue)
         /\ Timeouts(Append(queue, TimeoutJob)) = Timeouts(queue) \cup {Len(queue) + 1}
         /\ queue # <<>> =>
              Timeouts(Tail(queue)) = {k \in 1 .. Len(queue) - 1 : k + 1 \in Timeouts(queue)}
         /\ (\A i, j \in Timeouts(queue) : i = j) => Timeouts(WithoutTimeouts(queue)) = {}
<1>1. ASSUME NEW frame \in Frame
      PROVE  Timeouts(Append(queue, frame)) = Timeouts(queue)
  <2>1. frame # TimeoutJob
    BY FrameLemma
  <2>2. /\ DOMAIN Append(queue, frame) = 1 .. Len(queue) + 1
        /\ DOMAIN queue = 1 .. Len(queue)
        /\ Append(queue, frame)[Len(queue) + 1] = frame
        /\ \A k \in 1 .. Len(queue) : Append(queue, frame)[k] = queue[k]
    OBVIOUS
  <2>3. QED
    BY <2>1, <2>2 DEF Timeouts
<1>2. Timeouts(Append(queue, TimeoutJob)) = Timeouts(queue) \cup {Len(queue) + 1}
  <2>2. /\ DOMAIN Append(queue, TimeoutJob) = 1 .. Len(queue) + 1
        /\ DOMAIN queue = 1 .. Len(queue)
        /\ Append(queue, TimeoutJob)[Len(queue) + 1] = TimeoutJob
        /\ \A k \in 1 .. Len(queue) : Append(queue, TimeoutJob)[k] = queue[k]
    OBVIOUS
  <2>3. QED
    BY <2>2 DEF Timeouts
<1>3. ASSUME queue # <<>>
      PROVE  Timeouts(Tail(queue)) = {k \in 1 .. Len(queue) - 1 : k + 1 \in Timeouts(queue)}
  <2>1. /\ DOMAIN Tail(queue) = 1 .. Len(queue) - 1
        /\ DOMAIN queue = 1 .. Len(queue)
        /\ \A k \in 1 .. Len(queue) - 1 : Tail(queue)[k] = queue[k + 1]
    BY <1>3
  <2>2. QED
    BY <2>1 DEF Timeouts
<1>4. ASSUME \A i, j \in Timeouts(queue) : i = j
      PROVE  Timeouts(WithoutTimeouts(queue)) = {}
  <2>1. CASE Timeouts(queue) = {}
    BY <2>1 DEF WithoutTimeouts, Timeouts
  <2>2. CASE Timeouts(queue) # {}
    <3> DEFINE k == CHOOSE k \in Timeouts(queue) : TRUE
               rest == SubSeq(queue, 1, k - 1) \o SubSeq(queue, k + 1, Len(queue))
    <3>1. k \in Timeouts(queue) /\ WithoutTimeouts(queue) = rest
      BY <2>2 DEF WithoutTimeouts, Timeouts
    <3>2. k \in 1 .. Len(queue)
      BY <3>1 DEF Timeouts
    <3> HIDE DEF k
    <3>3. /\ Len(rest) = Len(queue) - 1
          /\ \A i \in 1 .. Len(rest) : rest[i] = IF i < k THEN queue[i] ELSE queue[i + 1]
      <4> DEFINE front == SubSeq(queue, 1, k - 1)
                 back == SubSeq(queue, k + 1, Len(queue))
      <4>1. /\ front \in Seq(Job) /\ Len(front) = k - 1
            /\ \A i \in 1 .. k - 1 : front[i] = queue[i]
        BY <3>2
      <4>2. /\ back \in Seq(Job) /\ Len(back) = Len(queue) - k
            /\ \A i \in 1 .. Len(queue) - k : back[i] = queue[k + i]
        BY <3>2
      <4> HIDE DEF front, back
      <4>3. Len(front \o back) = Len(queue) - 1
        <5>1. Len(front \o back) = Len(front) + Len(back)
          BY <4>1, <4>2, ConcatProperties, Zenon
        <5>2. \A m, n \in Int : (m - 1) + (n - m) = n - 1
          OBVIOUS
        <5>3. k \in Int /\ Len(queue) \in Int
          BY <3>2
        <5>4. QED
          BY <4>1, <4>2, <5>1, <5>2, <5>3
      <4>4. ASSUME NEW i \in 1 .. Len(queue) - 1
            PROVE  (front \o back)[i] = IF i < k THEN queue[i] ELSE queue[i + 1]
        <5>1. (front \o back)[i] = IF i <= k - 1 THEN front[i] ELSE back[i - (k - 1)]
          BY <3>2, <4>1, <4>2
        <5>2. CASE i < k
          BY <3>2, <4>1, <5>1, <5>2
        <5>3. CASE ~(i < k)
          <6>1. i - (k - 1) \in 1 .. Len(queue) - k /\ k + (i - (k - 1)) = i + 1
            BY <3>2, <5>3
          <6>2. QED
            BY <3>2, <4>2, <5>1, <5>3, <6>1
        <5>4. QED
          BY <5>2, <5>3
      <4>5. QED
        BY <4>3, <4>4 DEF front, back
    <3>4. rest \in Seq(Job)
      BY <3>2
    <3> HIDE DEF rest
    <3>5. ASSUME NEW i \in 1 .. Len(rest) PROVE rest[i] # TimeoutJob
      <4>1. i \in 1 .. Len(queue) /\ i + 1 \in 1 .. Len(queue)
        BY <3>3
      <4>2. \A j \in 1 .. Len(queue) : queue[j] = TimeoutJob => j = k
        BY <1>4, <3>1 DEF Timeouts
      <4>3. CASE i < k
        BY <3>2, <3>3, <4>1, <4>2, <4>3
      <4>4. CASE ~(i < k)
        BY <3>2, <3>3, <4>1, <4>2, <4>4
      <4>5. QED
        BY <4>3, <4>4
    <3>6. QED
      BY <3>1, <3>4, <3>5 DEF Timeouts
  <2>3. QED
    BY <2>1, <2>2
<1>5. QED
  BY <1>1, <1>2, <1>3, <1>4

\* Devices that agree on these fields have the timeout job in one place or
\* have not, together.
LEMMA SameJob ==
  ASSUME NEW r, NEW s, OneTimeoutJob(r),
         \A i, j \in Timeouts(s.queue) : i = j,
         Timeouts(s.queue) = {} <=> Timeouts(r.queue) = {},
         s.armed = r.armed, s.expired = r.expired,
         s.running = r.running, s.status = r.status
  PROVE  OneTimeoutJob(s)
<1>1. s.armed => Timeouts(s.queue) = {} /\ s.expired = {}
  BY Zenon DEF OneTimeoutJob
<1>2. s.expired # {} => Timeouts(s.queue) = {}
  BY Zenon DEF OneTimeoutJob
<1>3. s.running <=> s.armed \/ s.expired # {} \/ Timeouts(s.queue) # {}
  BY Zenon DEF OneTimeoutJob
<1>4. s.running <=> s.status = "ONLINE"
  BY Zenon DEF OneTimeoutJob
<1>5. QED
  BY <1>1, <1>2, <1>3, <1>4 DEF OneTimeoutJob

\* Frames come and go around the timeout job.
LEMMA FramesAround ==
  ASSUME NEW r \in DeviceState, OneTimeoutJob(r)
  PROVE  /\ \A frame \in Frame : OneTimeoutJob(Enqueue(r, frame))
         /\ r.queue # <<>> /\ Head(r.queue) \in Frame => OneTimeoutJob(Dequeue(r))
<1>1. r.queue \in Seq(Job)
  BY DEF DeviceState
<1>2. ASSUME NEW frame \in Frame PROVE OneTimeoutJob(Enqueue(r, frame))
  <2> DEFINE s == Enqueue(r, frame)
  <2>1. /\ s.queue = Append(r.queue, frame) /\ s.armed = r.armed
        /\ s.expired = r.expired /\ s.running = r.running /\ s.status = r.status
    BY DEF Enqueue, DeviceState
  <2>2. Timeouts(s.queue) = Timeouts(r.queue)
    BY <1>1, <2>1, TimeoutsLemma
  <2>3. \A i, j \in Timeouts(s.queue) : i = j
    BY <2>2 DEF OneTimeoutJob
  <2> HIDE DEF s
  <2>4. OneTimeoutJob(s)
    BY <2>1, <2>2, <2>3, SameJob
  <2>5. QED
    BY <2>4 DEF s
<1>3. ASSUME r.queue # <<>>, Head(r.queue) \in Frame PROVE OneTimeoutJob(Dequeue(r))
  <2> DEFINE s == Dequeue(r)
  <2>1. /\ s.queue = Tail(r.queue) /\ s.armed = r.armed
        /\ s.expired = r.expired /\ s.running = r.running /\ s.status = r.status
    BY DEF Dequeue, DeviceState
  <2>2. Timeouts(s.queue) = {k \in 1 .. Len(r.queue) - 1 : k + 1 \in Timeouts(r.queue)}
    BY <1>1, <1>3, <2>1, TimeoutsLemma
  <2>3. \A k \in Timeouts(r.queue) : k # 1 /\ k \in 1 .. Len(r.queue)
    <3>1. r.queue[1] # TimeoutJob
      BY <1>1, <1>3, FrameLemma
    <3>2. QED
      BY <1>1, <3>1 DEF Timeouts
  <2>4. \A k \in Timeouts(r.queue) : k - 1 \in Timeouts(s.queue)
    BY <1>1, <2>2, <2>3
  <2>5. \A i, j \in Timeouts(s.queue) : i = j
    <3>1. \A i \in Timeouts(s.queue) : i \in Int /\ i + 1 \in Timeouts(r.queue)
      BY <2>2
    <3>2. \A i, j \in Timeouts(r.queue) : i = j
      BY DEF OneTimeoutJob
    <3>3. QED
      BY <3>1, <3>2
  <2>6. Timeouts(s.queue) = {} <=> Timeouts(r.queue) = {}
    BY <2>2, <2>4
  <2> HIDE DEF s
  <2>7. OneTimeoutJob(s)
    BY <2>1, <2>5, <2>6, SameJob
  <2>8. QED
    BY <2>7 DEF s
<1>4. QED
  BY <1>2, <1>3

\* The timeout job starts its run from the queue and is nowhere else.
LEMMA JobTaken ==
  ASSUME NEW r \in DeviceState, OneTimeoutJob(r), r.queue # <<>>,
         Head(r.queue) = TimeoutJob
  PROVE  /\ Timeouts(Dequeue(r).queue) = {}
         /\ ~Dequeue(r).armed /\ Dequeue(r).expired = {}
         /\ Dequeue(r).running /\ Dequeue(r).status = "ONLINE"
<1>1. r.queue \in Seq(Job) /\ r.armed \in BOOLEAN /\ r.running \in BOOLEAN
  BY DEF DeviceState
<1> DEFINE s == Dequeue(r)
<1>2. /\ s.queue = Tail(r.queue) /\ s.armed = r.armed
      /\ s.expired = r.expired /\ s.running = r.running /\ s.status = r.status
  BY DEF Dequeue, DeviceState
<1>3. 1 \in Timeouts(r.queue)
  BY <1>1 DEF Timeouts
<1>4. \A k \in Timeouts(r.queue) : k = 1
  BY <1>3 DEF OneTimeoutJob
<1>5. Timeouts(s.queue) = {}
  <2>1. Timeouts(s.queue) = {k \in 1 .. Len(r.queue) - 1 : k + 1 \in Timeouts(r.queue)}
    BY <1>1, <1>2, TimeoutsLemma
  <2>2. \A k \in 1 .. Len(r.queue) - 1 : k + 1 # 1
    BY <1>1
  <2>3. QED
    BY <1>4, <2>1, <2>2
<1> HIDE DEF s
<1>6. ~r.armed /\ r.expired = {} /\ r.running /\ r.status = "ONLINE"
  BY <1>3 DEF OneTimeoutJob
<1>7. QED
  BY <1>2, <1>5, <1>6 DEF s

\* At the end of its run the timeout job is put off, and nowhere before.
LEMMA JobPutOff ==
  ASSUME NEW r \in DeviceState, Timeouts(r.queue) = {}, ~r.armed, r.running,
         r.status = "ONLINE"
  PROVE  OneTimeoutJob(CleanedUp(r))
<1> DEFINE s == CleanedUp(r)
<1>1. /\ s.queue = r.queue /\ s.expired = r.expired /\ s.running = r.running
      /\ s.status = r.status /\ s.armed = (r.expired = {})
  BY DEF CleanedUp, DeviceState
<1> HIDE DEF s
<1>2. QED
  BY <1>1 DEF OneTimeoutJob, s

\* A step that gives its device the job in one place gives it to every device.
LEMMA TimeoutInvStep ==
  ASSUME TypeOK, TimeoutInv, NEW d \in Device, NEW r, NEW frames \in SUBSET Frame,
         Passed(d, r, frames), OneTimeoutJob(r)
  PROVE  TimeoutInv'
<1> SUFFICES ASSUME NEW e \in Device PROVE OneTimeoutJob(dev'[e])
  BY DEF TimeoutInv, OneTimeoutJob, Timeouts
<1>1. dev[e] \in DeviceState /\ OneTimeoutJob(dev[e])
  BY DEF TypeOK, TimeoutInv
<1>2. CASE e = d
  BY <1>2 DEF Passed
<1>3. CASE e # d /\ dev'[e] = dev[e]
  BY <1>1, <1>3
<1>4. CASE e # d /\ dev'[e] # dev[e]
  BY <1>1, <1>4, FramesAround DEF Passed
<1>5. QED
  BY <1>2, <1>3, <1>4

\* The case of devices with the same queue.
LEMMA SameQueue ==
  ASSUME NEW r, NEW s, OneTimeoutJob(r), s.queue = r.queue,
         s.armed = r.armed, s.expired = r.expired,
         s.running = r.running, s.status = r.status
  PROVE  OneTimeoutJob(s)
<1>1. /\ \A i, j \in Timeouts(s.queue) : i = j
      /\ Timeouts(s.queue) = {} <=> Timeouts(r.queue) = {}
  BY DEF OneTimeoutJob
<1>2. QED
  BY <1>1, SameJob

\* Making a call leaves the timeout job where it is.
LEMMA SendCommandJob ==
  ASSUME TypeOK, TimeoutInv, NEW d \in Device, NEW c \in Call, SendCommand(d, c)
  PROVE  TimeoutInv'
<1> DEFINE r == dev[d]
<1>1. r \in DeviceState /\ OneTimeoutJob(r) /\ r.next \in TxId
  BY DEF TypeOK, TimeoutInv, DeviceState
<1>2. PICK next \in NextTransactionId(r) :
        Send(d, StartTransaction(r, c, next), Request(c, r.next))
  BY DEF SendCommand
<1> DEFINE s == StartTransaction(r, c, next)
<1>3. OneTimeoutJob(s)
  <2>1. /\ s.queue = r.queue /\ s.armed = r.armed /\ s.expired = r.expired
        /\ s.running = r.running /\ s.status = r.status
    BY <1>1 DEF StartTransaction, DeviceState
  <2>2. QED
    BY <1>1, <2>1, SameQueue
<1>4. {Request(c, r.next)} \in SUBSET Frame
  BY <1>1 DEF Request, Frame
<1>5. Passed(d, s, {Request(c, r.next)})
  BY <1>2, PassedLemma
<1> HIDE DEF s
<1>6. QED
  BY <1>3, <1>4, <1>5, TimeoutInvStep

\* So do the jobs that deal with requests and answers.
LEMMA FrameJobs ==
  ASSUME TypeOK, TimeoutInv, NEW d \in Device,
         \/ IgnoreRequest(d) \/ ProcessRequestFrame(d)
         \/ SendCommandResponse(d) \/ ProcessResponseFrame(d)
  PROVE  TimeoutInv'
<1> DEFINE r == dev[d]
           q == Dequeue(r)
<1>1. r \in DeviceState /\ OneTimeoutJob(r)
  BY DEF TypeOK, TimeoutInv
<1>2. ASSUME NEW type \in {"REQUEST", "RESPONSE"}, Ready(d, type)
      PROVE  /\ OneTimeoutJob(q) /\ q \in DeviceState
             /\ Head(r.queue) \in Frame /\ Head(r.queue).type = type
  <2>1. /\ r.queue # <<>> /\ q \in DeviceState
        /\ Head(r.queue) \in Job /\ Head(r.queue).type = type
    BY <1>2, ReadyLemma DEF Ready
  <2>2. Head(r.queue) \in Frame
    BY <2>1, FrameLemma
  <2>3. QED
    BY <1>1, <2>1, <2>2, FramesAround
<1> HIDE DEF q
<1>3. CASE IgnoreRequest(d)
  <2>1. Become(d, q) /\ OneTimeoutJob(q)
    BY <1>2, <1>3 DEF IgnoreRequest, q
  <2>2. QED
    BY <2>1, PassedLemma, TimeoutInvStep
<1>4. CASE ProcessRequestFrame(d)
  <2> DEFINE frame == Head(r.queue)
  <2>1. /\ OneTimeoutJob(q) /\ q \in DeviceState
        /\ frame \in Frame /\ frame.type = "REQUEST"
    BY <1>2, <1>4 DEF ProcessRequestFrame
  <2>2. frame.call \in Call /\ frame.id \in TxId
    BY <2>1 DEF Frame, ResponseFrame
  <2>3. PICK result \in Answers(d, frame.call) :
          IF Target[frame.call] = d THEN Send(d, q, Response(frame.call, frame.id, result))
          ELSE Become(d, [q EXCEPT !.sending = Response(frame.call, frame.id, result)])
    BY <1>4 DEF ProcessRequestFrame, q
  <2>4. result \in Answer
    BY DEF Answers, Answer
  <2> DEFINE response == Response(frame.call, frame.id, result)
             s == [q EXCEPT !.sending = response]
  <2>5. response \in Frame
    BY <2>2, <2>4 DEF Response, ResponseFrame, Frame
  <2> HIDE DEF response, frame
  <2>6. OneTimeoutJob(s)
    <3>1. /\ s.queue = q.queue /\ s.armed = q.armed /\ s.expired = q.expired
          /\ s.running = q.running /\ s.status = q.status
      BY <2>1 DEF DeviceState
    <3>2. QED
      BY <2>1, <3>1, SameQueue
  <2>7. CASE Send(d, q, response)
    <3>1. Passed(d, q, {response}) /\ {response} \in SUBSET Frame
      BY <2>5, <2>7, PassedLemma
    <3>2. QED
      BY <2>1, <3>1, TimeoutInvStep
  <2>8. CASE Become(d, s)
    <3>1. Passed(d, s, {})
      BY <2>8, PassedLemma
    <3> HIDE DEF s
    <3>2. QED
      BY <2>6, <3>1, TimeoutInvStep
  <2>9. QED
    BY <2>3, <2>7, <2>8 DEF response
<1>5. CASE SendCommandResponse(d)
  <2> DEFINE s == [r EXCEPT !.sending = Silent]
  <2>1. r.sending \in Frame /\ Send(d, s, r.sending)
    BY <1>1, <1>5 DEF SendCommandResponse, DeviceState, Frame
  <2>2. OneTimeoutJob(s)
    <3>1. /\ s.queue = r.queue /\ s.armed = r.armed /\ s.expired = r.expired
          /\ s.running = r.running /\ s.status = r.status
      BY <1>1 DEF DeviceState
    <3>2. QED
      BY <1>1, <3>1, SameQueue
  <2>3. Passed(d, s, {r.sending})
    BY <2>1, PassedLemma
  <2> HIDE DEF s
  <2>4. QED
    BY <2>1, <2>2, <2>3, TimeoutInvStep
<1>6. CASE ProcessResponseFrame(d)
  <2> DEFINE id == Head(r.queue).id
             s == Erase(q, id)
  <2>1. OneTimeoutJob(q) /\ q \in DeviceState /\ Become(d, s)
    BY <1>2, <1>6 DEF ProcessResponseFrame, q
  <2>2. OneTimeoutJob(s)
    <3>1. /\ s.queue = q.queue /\ s.armed = q.armed /\ s.expired = q.expired
          /\ s.running = q.running /\ s.status = q.status
      BY <2>1 DEF DeviceState, Erase
    <3>2. QED
      BY <2>1, <3>1, SameQueue
  <2>3. Passed(d, s, {})
    BY <2>1, PassedLemma
  <2> HIDE DEF s
  <2>4. QED
    BY <2>2, <2>3, TimeoutInvStep
<1>7. QED
  BY <1>3, <1>4, <1>5, <1>6

\* The timeout job leaves the queue, and is put off if nothing expired.
LEMMA CleanupJob ==
  ASSUME TypeOK, TimeoutInv, NEW d \in Device, CleanupExpiredTransactions(d)
  PROVE  TimeoutInv'
<1> DEFINE r == dev[d]
           q == Dequeue(r)
<1>1. r \in DeviceState /\ OneTimeoutJob(r)
  BY DEF TypeOK, TimeoutInv
<1>2. /\ r.queue # <<>> /\ q \in DeviceState
      /\ Head(r.queue) \in Job /\ Head(r.queue).type = "TIMEOUTS"
  BY ReadyLemma DEF CleanupExpiredTransactions, Ready
<1>3. Head(r.queue) = TimeoutJob
  BY <1>2, FrameLemma
<1>4. /\ Timeouts(q.queue) = {} /\ ~q.armed /\ q.running /\ q.status = "ONLINE"
  BY <1>1, <1>2, <1>3, JobTaken
<1>5. PICK S \in Expirable(r) :
        Become(d, CleanedUp(
          [q EXCEPT !.expired = S,
                    !.age = [id \in TxId |-> IF id \in Pending(r) \ S
                                             THEN q.age[id] + 1 ELSE 0]]))
  BY DEF CleanupExpiredTransactions
<1> DEFINE age == [id \in TxId |-> IF id \in Pending(r) \ S THEN q.age[id] + 1 ELSE 0]
           s == [q EXCEPT !.expired = S, !.age = age]
<1>6. S \subseteq TxId
  BY ReadyLemma DEF Expirable
<1>7. age \in [TxId -> 0 .. 2]
  <2>1. \A id \in Pending(r) \ S : r.age[id] < 2 /\ r.age[id] \in 0 .. 2
    BY <1>1, ReadyLemma DEF Expirable, DeviceState
  <2>2. q.age = r.age
    BY <1>1 DEF Dequeue, DeviceState
  <2>3. \A n \in 0 .. 2 : n < 2 => n + 1 \in 0 .. 2
    OBVIOUS
  <2>4. QED
    BY <2>1, <2>2, <2>3
<1> HIDE DEF q, age
<1>8. /\ s \in DeviceState /\ s.queue = q.queue /\ s.armed = q.armed
      /\ s.running = q.running /\ s.status = q.status
  BY <1>2, <1>6, <1>7 DEF DeviceState
<1>9. Passed(d, CleanedUp(s), {})
  BY <1>5, PassedLemma DEF age
<1> HIDE DEF s
<1>10. OneTimeoutJob(CleanedUp(s))
  <2>1. Timeouts(s.queue) = {} /\ ~s.armed /\ s.running /\ s.status = "ONLINE"
    BY <1>4, <1>8
  <2>2. QED
    BY <1>8, <2>1, JobPutOff
<1>11. QED
  BY <1>9, <1>10, TimeoutInvStep

\* It is put off after the last callback of its run, and stays where it is,
\* between its callbacks, after the others.
LEMMA ExpireJob ==
  ASSUME TypeOK, TimeoutInv, NEW d \in Device, NEW id \in TxId, Expire(d, id)
  PROVE  TimeoutInv'
<1> DEFINE r == dev[d]
           c == r.pending[id]
           Done(s) == CleanedUp([Erase(s, id) EXCEPT !.expired = @ \ {id}])
<1>1. /\ r \in DeviceState /\ OneTimeoutJob(r) /\ r.next \in TxId
      /\ id \in r.expired /\ c \in Call
  <2>1. r \in DeviceState /\ OneTimeoutJob(r)
    BY DEF TypeOK, TimeoutInv
  <2>2. id \in r.expired /\ c # NoCall
    BY DEF Expire
  <2>3. QED
    BY <2>1, <2>2 DEF DeviceState
<1>2. Timeouts(r.queue) = {} /\ ~r.armed /\ r.running /\ r.status = "ONLINE"
  BY <1>1 DEF OneTimeoutJob
<1>3. ASSUME NEW s \in DeviceState, s.queue = r.queue, s.armed = r.armed,
             s.running = r.running, s.status = r.status
      PROVE  OneTimeoutJob(Done(s))
  <2> DEFINE e == Erase(s, id)
             t == [e EXCEPT !.expired = e.expired \ {id}]
  <2>1. e \in DeviceState
    BY HelperLemma
  <2>2. /\ e.queue = s.queue /\ e.armed = s.armed
        /\ e.running = s.running /\ e.status = s.status
    BY DEF Erase, DeviceState
  <2> HIDE DEF e
  <2>3. /\ t \in DeviceState /\ t.queue = e.queue /\ t.armed = e.armed
        /\ t.running = e.running /\ t.status = e.status
    BY <2>1 DEF DeviceState
  <2>4. Done(s) = CleanedUp(t)
    BY DEF e
  <2> HIDE DEF t, Done
  <2>5. Timeouts(t.queue) = {} /\ ~t.armed /\ t.running /\ t.status = "ONLINE"
    BY <1>2, <1>3, <2>2, <2>3
  <2>6. QED
    BY <2>3, <2>4, <2>5, JobPutOff
<1>4. CASE Become(d, Done(r))
  <2>1. OneTimeoutJob(Done(r))
    BY <1>1, <1>3
  <2>2. Passed(d, Done(r), {})
    BY <1>4, PassedLemma
  <2> HIDE DEF Done
  <2>3. QED
    BY <2>1, <2>2, TimeoutInvStep
<1>5. ASSUME Retry[c] # NoCall, NEW next \in NextTransactionId(r),
             Send(d, Done(StartTransaction(r, Retry[c], next)),
                  Request(Retry[c], r.next))
      PROVE  TimeoutInv'
  <2> DEFINE s == StartTransaction(r, Retry[c], next)
             frame == Request(Retry[c], r.next)
  <2>1. Retry[c] \in Call
    BY <1>1, <1>5, RetryAssumption
  <2>2. s \in DeviceState
    BY <1>1, <1>5, <2>1, HelperLemma
  <2>3. /\ s.queue = r.queue /\ s.armed = r.armed
        /\ s.running = r.running /\ s.status = r.status
    BY <1>1 DEF StartTransaction, DeviceState
  <2>4. {frame} \in SUBSET Frame
    BY <1>1, <2>1 DEF Request, Frame
  <2>5. Passed(d, Done(s), {frame})
    BY <1>5, PassedLemma
  <2> HIDE DEF s
  <2>6. OneTimeoutJob(Done(s))
    BY <1>3, <2>2, <2>3
  <2> HIDE DEF Done, frame
  <2>7. QED
    BY <2>4, <2>5, <2>6, TimeoutInvStep
<1>6. QED
  BY <1>4, <1>5 DEF Expire

\* The timer moves it into the queue.
LEMMA TimerDueJob ==
  ASSUME TypeOK, TimeoutInv, NEW d \in Device, TimerDue(d)
  PROVE  TimeoutInv'
<1> DEFINE r == dev[d]
           s == Enqueue([r EXCEPT !.armed = FALSE], TimeoutJob)
<1>1. r \in DeviceState /\ OneTimeoutJob(r) /\ r.queue \in Seq(Job)
  BY DEF TypeOK, TimeoutInv, DeviceState
<1>2. r.armed /\ Passed(d, s, {})
  BY PassedLemma DEF TimerDue
<1>3. /\ s.queue = Append(r.queue, TimeoutJob) /\ s.armed = FALSE
      /\ s.expired = r.expired /\ s.running = r.running /\ s.status = r.status
  BY <1>1 DEF Enqueue, DeviceState
<1> HIDE DEF s
<1>4. Timeouts(r.queue) = {} /\ r.expired = {} /\ r.running /\ r.status = "ONLINE"
  BY <1>1, <1>2 DEF OneTimeoutJob
<1>5. Timeouts(s.queue) = {Len(r.queue) + 1}
  BY <1>1, <1>3, <1>4, TimeoutsLemma
<1>6. OneTimeoutJob(s)
  BY <1>3, <1>4, <1>5 DEF OneTimeoutJob
<1>7. QED
  BY <1>2, <1>6, TimeoutInvStep

\* Queued once, and running, is one place.
LEMMA StartedJob ==
  ASSUME NEW r \in DeviceState, Timeouts(r.queue) = {}, ~r.armed, r.expired = {},
         r.status = "ONLINE"
  PROVE  OneTimeoutJob(Started(r))
<1> DEFINE s == Started(r)
<1>1. r.queue \in Seq(Job)
  BY DEF DeviceState
<1>2. /\ s.queue = Append(r.queue, TimeoutJob) /\ s.armed = r.armed
      /\ s.expired = r.expired /\ s.running = TRUE /\ s.status = r.status
  BY DEF Started, Enqueue, DeviceState
<1>3. Timeouts(s.queue) = {Len(r.queue) + 1}
  BY <1>1, <1>2, TimeoutsLemma
<1> HIDE DEF s
<1>4. OneTimeoutJob(s)
  BY <1>2, <1>3 DEF OneTimeoutJob
<1>5. QED
  BY <1>4 DEF s

\* It is started with the device's first online status and cancelled when the
\* device leaves the bus.
LEMMA SetStatusJob ==
  ASSUME TypeOK, TimeoutInv, NEW d \in Device, NEW status \in Status,
         SetStatus(d, status)
  PROVE  TimeoutInv'
<1> DEFINE r == dev[d]
<1>1. /\ r \in DeviceState /\ OneTimeoutJob(r) /\ r.expired = {}
      /\ r.queue \in Seq(Job)
  BY DEF TypeOK, TimeoutInv, SetStatus, Free, DeviceState
<1>2. CASE status = "ONLINE"
  <2> DEFINE s == [r EXCEPT !.status = status]
             t == IF s.running THEN s ELSE Started(s)
  <2>1. /\ s \in DeviceState /\ s.queue = r.queue /\ s.armed = r.armed
        /\ s.expired = r.expired /\ s.running = r.running /\ s.status = "ONLINE"
    BY <1>1, <1>2 DEF DeviceState
  <2>2. Passed(d, t, {})
    BY <1>2, PassedLemma DEF SetStatus, OnDeviceStatusChanged
  <2> HIDE DEF s
  <2>3. CASE s.running
    <3>1. r.status = "ONLINE"
      BY <1>1, <2>1, <2>3 DEF OneTimeoutJob
    <3>2. OneTimeoutJob(s)
      BY <1>1, <2>1, <3>1, SameQueue
    <3>3. QED
      BY <2>2, <2>3, <3>2, TimeoutInvStep
  <2>4. CASE ~s.running
    <3>1. Timeouts(s.queue) = {} /\ ~s.armed /\ s.expired = {}
      BY <1>1, <2>1, <2>4 DEF OneTimeoutJob
    <3>2. OneTimeoutJob(Started(s))
      BY <2>1, <3>1, StartedJob
    <3>3. QED
      BY <2>2, <2>4, <3>2, TimeoutInvStep
  <2>5. QED
    BY <2>3, <2>4
<1>3. CASE status # "ONLINE"
  <2>1. PICK cancelled \in SUBSET Pending(r), halted \in BOOLEAN :
          Become(d, [Stopped(r, cancelled) EXCEPT !.status = status, !.halted = halted])
    BY <1>3 DEF SetStatus, OnDeviceStatusChanged, StopTransactions
  <2> DEFINE s == Stopped(r, cancelled)
             t == [s EXCEPT !.status = status, !.halted = halted]
  <2>2. s \in DeviceState
    BY <1>1, <2>1, HelperLemma, ReadyLemma
  <2>3. /\ s.queue = WithoutTimeouts(r.queue) /\ s.armed = FALSE
        /\ s.expired = {} /\ s.running = FALSE
    BY <1>1 DEF Stopped, DeviceState
  <2> HIDE DEF s
  <2>4. /\ t.queue = s.queue /\ t.armed = s.armed /\ t.expired = s.expired
        /\ t.running = s.running /\ t.status = status
    BY <2>2 DEF DeviceState
  <2>5. Passed(d, t, {})
    BY <2>1, PassedLemma DEF s
  <2> HIDE DEF t
  <2>6. Timeouts(t.queue) = {}
    BY <1>1, <2>3, <2>4, TimeoutsLemma DEF OneTimeoutJob
  <2>7. OneTimeoutJob(t)
    BY <1>3, <2>3, <2>4, <2>6 DEF OneTimeoutJob
  <2>8. QED
    BY <2>5, <2>7, TimeoutInvStep
<1>4. QED
  BY <1>2, <1>3

\* Devices that start online have it queued, the others nowhere.
LEMMA InitJob == Init => TimeoutInv
<1> SUFFICES ASSUME Init, NEW d \in Device PROVE OneTimeoutJob(dev[d])
  BY DEF TimeoutInv
<1> DEFINE status == PowerOnStatus[d]
           r == [status |-> status, pending |-> [id \in TxId |-> NoCall],
                 age |-> [id \in TxId |-> 0], next |-> 1, running |-> FALSE,
                 armed |-> FALSE, expired |-> {}, sending |-> Silent,
                 halted |-> FALSE, queue |-> <<>>]
<1>1. dev[d] = IF status = "ONLINE" THEN Started(r) ELSE r
  BY DEF Init, InitialState
<1>2. /\ Timeouts(r.queue) = {} /\ ~r.armed /\ r.expired = {} /\ ~r.running
      /\ r.status = status
  BY DEF Timeouts
<1>3. r \in DeviceState
  <2>1. 1 \in TxId /\ <<>> \in Seq(Job) /\ status \in Status
    BY BoundAssumption, CallAssumption DEF TxId
  <2>2. QED
    BY <2>1 DEF DeviceState
<1> HIDE DEF r, status
<1>4. CASE status = "ONLINE"
  BY <1>1, <1>2, <1>3, <1>4, StartedJob
<1>5. CASE status # "ONLINE"
  BY <1>1, <1>2, <1>5 DEF OneTimeoutJob
<1>6. QED
  BY <1>4, <1>5

\* Counting its places gives what TimeoutJobAlive says.
LEMMA OnePlace == TypeOK /\ TimeoutInv => TimeoutJobAlive
<1> SUFFICES ASSUME TypeOK, TimeoutInv, NEW d \in Device
             PROVE  LET r == dev[d]
                        Queued == {k \in DOMAIN r.queue : r.queue[k] = TimeoutJob}
                        Alive == Cardinality(Queued) + (IF r.armed THEN 1 ELSE 0)
                                   + (IF r.expired # {} THEN 1 ELSE 0)
                    IN  /\ Alive = IF r.running THEN 1 ELSE 0
                        /\ r.running <=> r.status = "ONLINE"
  BY Zenon DEF TimeoutJobAlive
<1> DEFINE r == dev[d]
           n == Cardinality(Timeouts(r.queue))
<1>1. OneTimeoutJob(r)
  BY DEF TimeoutInv
<1>2. n = IF Timeouts(r.queue) = {} THEN 0 ELSE 1
  <2>1. CASE Timeouts(r.queue) = {}
    BY <2>1, FS_EmptySet
  <2>2. CASE Timeouts(r.queue) # {}
    <3>1. PICK k : Timeouts(r.queue) = {k}
      BY <1>1, <2>2 DEF OneTimeoutJob
    <3>2. QED
      BY <2>2, <3>1, FS_Singleton
  <2>3. QED
    BY <2>1, <2>2
<1> HIDE DEF n
<1>3. n + (IF r.armed THEN 1 ELSE 0) + (IF r.expired # {} THEN 1 ELSE 0)
        = IF r.running THEN 1 ELSE 0
  BY <1>1, <1>2 DEF OneTimeoutJob
<1>4. r.running <=> r.status = "ONLINE"
  BY <1>1, Zenon DEF OneTimeoutJob
<1>5. QED
  BY <1>3, <1>4 DEF n, Timeouts

\* Whatever the status does, the device has one timeout job while it is online
\* and none while it is not: a start never finds the mark set without a job
\* behind it, and none is started beside another.
THEOREM TimeoutJobAliveHolds == Spec => []TimeoutJobAlive
<1>1. Init => TypeOK /\ CallInv /\ TimeoutInv
  BY InitLemma, InitJob
<1>2. TypeOK /\ CallInv /\ TimeoutInv /\ [Next]_vars
        => (TypeOK /\ CallInv /\ TimeoutInv)'
  <2> SUFFICES ASSUME TypeOK, CallInv, TimeoutInv, [Next]_vars
               PROVE  (TypeOK /\ CallInv /\ TimeoutInv)'
    OBVIOUS
  <2>1. TypeOK' /\ CallInv'
    BY NextLemma
  <2>2. CASE UNCHANGED vars
    <3>1. dev' = dev
      BY <2>2 DEF vars
    <3>2. TimeoutInv'
      BY <3>1, Zenon DEF TimeoutInv
    <3>3. QED
      BY <2>1, <3>2
  <2>3. CASE Next
    <3>1. TimeoutInv'
      <4>1. PICK d \in Device : \/ \E c \in Call : SendCommand(d, c)
                                \/ WorkQueueStep(d)
                                \/ TimerDue(d)
                                \/ \E status \in Status : SetStatus(d, status)
        BY <2>3 DEF Next
      <4>2. CASE WorkQueueStep(d)
        BY <4>2, FrameJobs, CleanupJob, ExpireJob DEF WorkQueueStep
      <4>3. QED
        BY <4>1, <4>2, SendCommandJob, TimerDueJob, SetStatusJob
    <3>2. QED
      BY <2>1, <3>1
  <2>4. QED
    BY <2>2, <2>3
<1>3. TypeOK /\ TimeoutInv => TimeoutJobAlive
  BY OnePlace
<1>4. QED
  BY <1>1, <1>2, <1>3, PTL DEF Spec

(***************************************************************************)
(* What a step does to the transactions and to the frames in flight.       *)
(***************************************************************************)
\* The jobs of a queue, and the frames a device has yet to process or send.
JobsOf(queue) == {queue[k] : k \in DOMAIN queue}
InFlight(r) == (JobsOf(r.queue) \cup {r.sending}) \cap Frame

\* Device r files the calls "fresh", at most one, and ends those filed under
\* "ids" with the result.
Files(d, r, ids, fresh, result) ==
  /\ made' = made \cup fresh
  /\ fresh \cap made = {}
  /\ \A c \in fresh : From[c] = d
  /\ \A b, c \in fresh : b = c
  /\ IF fresh = {} THEN r.next = dev[d].next
     ELSE r.next \in NextTransactionId(dev[d])
  /\ \A id \in TxId :
       \/ id \in ids /\ r.pending[id] = NoCall
       \/ /\ id \notin ids /\ fresh # {} /\ id = dev[d].next
          /\ r.pending[id] \in fresh
       \/ /\ id \notin ids /\ (fresh = {} \/ id # dev[d].next)
          /\ r.pending[id] = dev[d].pending[id]
  /\ \A c \in Call : results'[c] = IF \E id \in ids : dev[d].pending[id] = c
                                   THEN Append(results[c], result)
                                   ELSE results[c]
  /\ result \in Answer =>
       \A id \in ids : \E frame \in InFlight(dev[d]) :
         frame.type = "RESPONSE" /\ frame.id = id /\ frame.result = result

\* Such a step sends what d has, the request of a fresh call, or an answer to
\* a request it has.
Authentic(d, frame, fresh) ==
  \/ frame \in InFlight(dev[d])
  \/ \E c \in fresh : frame = Request(c, dev[d].next)
  \/ /\ frame.type = "RESPONSE"
     /\ Request(frame.call, frame.id) \in InFlight(dev[d])
     /\ <<frame.call, frame.result>> \in answered'

\* A step of device d: its table, and the frames the devices have after it.
Step(d, ids, fresh, result) ==
  /\ Files(d, dev'[d], ids, fresh, result)
  /\ \A e \in Device \ {d} : /\ dev'[e].pending = dev[e].pending
                             /\ dev'[e].next = dev[e].next
  /\ answered \subseteq answered'
  /\ \A e \in Device : \A frame \in InFlight(dev'[e]) :
       frame \in InFlight(dev[e]) \/ Authentic(d, frame, fresh)

TransactionStep ==
  \E d \in Device : \E ids \in SUBSET Pending(dev[d]), fresh \in SUBSET Call,
                       result \in Result : Step(d, ids, fresh, result)

\* What the operations of the queue do to the frames in flight.
LEMMA InFlightLemma ==
  ASSUME NEW r \in DeviceState
  PROVE  /\ \A job \in Job : InFlight(Enqueue(r, job)) \subseteq InFlight(r) \cup ({job} \cap Frame)
         /\ r.queue # <<>> =>
              /\ InFlight(Dequeue(r)) \subseteq InFlight(r)
              /\ Head(r.queue) \in Frame => Head(r.queue) \in InFlight(r)
         /\ JobsOf(WithoutTimeouts(r.queue)) \subseteq JobsOf(r.queue)
<1>1. r.queue \in Seq(Job)
  BY DEF DeviceState
<1>2. ASSUME NEW job \in Job
      PROVE  InFlight(Enqueue(r, job)) \subseteq InFlight(r) \cup ({job} \cap Frame)
  <2>1. /\ Enqueue(r, job).queue = Append(r.queue, job)
        /\ Enqueue(r, job).sending = r.sending
    BY DEF Enqueue, DeviceState
  <2>2. JobsOf(Append(r.queue, job)) \subseteq JobsOf(r.queue) \cup {job}
    <3>1. /\ DOMAIN Append(r.queue, job) = 1 .. Len(r.queue) + 1
          /\ DOMAIN r.queue = 1 .. Len(r.queue)
          /\ Append(r.queue, job)[Len(r.queue) + 1] = job
          /\ \A k \in 1 .. Len(r.queue) : Append(r.queue, job)[k] = r.queue[k]
      BY <1>1
    <3>2. QED
      BY <1>1, <3>1 DEF JobsOf
  <2>3. QED
    BY <2>1, <2>2 DEF InFlight
<1>3. ASSUME r.queue # <<>>
      PROVE  /\ InFlight(Dequeue(r)) \subseteq InFlight(r)
             /\ Head(r.queue) \in Frame => Head(r.queue) \in InFlight(r)
  <2>1. Dequeue(r).queue = Tail(r.queue) /\ Dequeue(r).sending = r.sending
    BY DEF Dequeue, DeviceState
  <2>2. JobsOf(Tail(r.queue)) \subseteq JobsOf(r.queue)
    BY <1>1, <1>3 DEF JobsOf
  <2>3. Head(r.queue) \in JobsOf(r.queue)
    BY <1>1, <1>3 DEF JobsOf
  <2>4. QED
    BY <2>1, <2>2, <2>3 DEF InFlight
<1>4. JobsOf(WithoutTimeouts(r.queue)) \subseteq JobsOf(r.queue)
  <2> DEFINE queue == r.queue
  <2>1. CASE Timeouts(queue) = {}
    BY <2>1 DEF WithoutTimeouts, Timeouts
  <2>2. CASE Timeouts(queue) # {}
    <3> DEFINE k == CHOOSE k \in Timeouts(queue) : TRUE
               front == SubSeq(queue, 1, k - 1)
               back == SubSeq(queue, k + 1, Len(queue))
    <3>1. k \in 1 .. Len(queue) /\ WithoutTimeouts(queue) = front \o back
      <4>1. k \in Timeouts(queue) /\ WithoutTimeouts(queue) = front \o back
        BY <2>2 DEF WithoutTimeouts, Timeouts
      <4> HIDE DEF k, front, back
      <4>2. k \in 1 .. Len(queue)
        BY <1>1, <4>1 DEF Timeouts
      <4>3. QED
        BY <4>1, <4>2
    <3> HIDE DEF k
    <3>2. /\ front \in Seq(Job) /\ Len(front) = k - 1
          /\ \A i \in 1 .. k - 1 : front[i] = queue[i]
      BY <1>1, <3>1
    <3>3. /\ back \in Seq(Job) /\ Len(back) = Len(queue) - k
          /\ \A i \in 1 .. Len(queue) - k : back[i] = queue[k + i]
      BY <1>1, <3>1
    <3>4. JobsOf(front) \subseteq JobsOf(queue)
      BY <1>1, <3>1, <3>2 DEF JobsOf
    <3>5. JobsOf(back) \subseteq JobsOf(queue)
      BY <1>1, <3>1, <3>3 DEF JobsOf
    <3> HIDE DEF front, back
    <3>6. JobsOf(front \o back) \subseteq JobsOf(front) \cup JobsOf(back)
      BY <3>2, <3>3 DEF JobsOf
    <3>7. QED
      BY <3>1, <3>4, <3>5, <3>6
  <2>3. QED
    BY <2>1, <2>2
<1>5. QED
  BY <1>2, <1>3, <1>4

\* A device that sends authentic frames, if any, makes such a step.
LEMMA StepLemma ==
  ASSUME TypeOK, NEW d \in Device, NEW r, NEW frames \in SUBSET Frame,
         Passed(d, r, frames),
         NEW ids \in SUBSET Pending(dev[d]), NEW fresh \in SUBSET Call,
         NEW result \in Result, Files(d, r, ids, fresh, result),
         answered \subseteq answered',
         \A frame \in frames \cup InFlight(r) : Authentic(d, frame, fresh)
  PROVE  TransactionStep
<1>1. Files(d, dev'[d], ids, fresh, result)
  BY DEF Passed
<1>2. ASSUME NEW e \in Device \ {d}
      PROVE  dev'[e].pending = dev[e].pending /\ dev'[e].next = dev[e].next
  BY DEF Passed, Enqueue, TypeOK, DeviceState
<1>3. ASSUME NEW e \in Device, NEW frame \in InFlight(dev'[e])
      PROVE  frame \in InFlight(dev[e]) \/ Authentic(d, frame, fresh)
  <2>1. CASE e = d
    BY <1>3, <2>1 DEF Passed
  <2>2. CASE e # d /\ dev'[e] = dev[e]
    BY <1>3, <2>2
  <2>3. CASE e # d /\ dev'[e] # dev[e]
    <3>1. PICK f \in frames : dev'[e] = Enqueue(dev[e], f)
      BY <2>3 DEF Passed
    <3>2. f \in Job /\ dev[e] \in DeviceState
      BY FrameLemma DEF TypeOK
    <3>3. frame \in InFlight(dev[e]) \/ frame = f
      BY <1>3, <3>1, <3>2, InFlightLemma
    <3>4. QED
      BY <3>3
  <2>4. QED
    BY <2>1, <2>2, <2>3
<1>4. Step(d, ids, fresh, result)
  BY <1>1, <1>2, <1>3 DEF Step
<1>5. QED
  BY <1>4 DEF TransactionStep

\* A device that files and ends nothing.
LEMMA NoFiles ==
  ASSUME NEW d \in Device, NEW r, r.pending = dev[d].pending, r.next = dev[d].next,
         made' = made, results' = results
  PROVE  /\ Files(d, r, {}, {}, "TIMEOUT")
         /\ {} \in SUBSET Pending(dev[d]) /\ "TIMEOUT" \in Result
  BY DEF Files, Answer, Result

\* Making a call files it under the next ID and sends its request.
LEMMA SendCommandFiles ==
  ASSUME TypeOK, NEW d \in Device, NEW c \in Call, SendCommand(d, c)
  PROVE  TransactionStep
<1> DEFINE r == dev[d]
<1>1. r \in DeviceState /\ r.next \in TxId
  BY DEF TypeOK, DeviceState
<1>2. PICK next \in NextTransactionId(r) :
        Send(d, StartTransaction(r, c, next), Request(c, r.next))
  BY DEF SendCommand
<1> DEFINE s == StartTransaction(r, c, next)
           frame == Request(c, r.next)
<1>3. /\ s.pending = [r.pending EXCEPT ![r.next] = c] /\ s.next = next
      /\ s.queue = r.queue /\ s.sending = r.sending
  BY <1>1 DEF StartTransaction, DeviceState
<1>4. {frame} \in SUBSET Frame
  BY <1>1 DEF Request, Frame
<1>5. Passed(d, s, {frame})
  BY <1>2, PassedLemma
<1> HIDE DEF s
<1>6. /\ made' = made \cup {c} /\ c \notin made /\ From[c] = d
      /\ results' = results /\ answered' = answered
  BY DEF SendCommand
<1>7. \A id \in TxId :
        \/ id = r.next /\ s.pending[id] \in {c}
        \/ id # r.next /\ s.pending[id] = r.pending[id]
  BY <1>1, <1>3 DEF DeviceState
<1>8. Files(d, s, {}, {c}, "TIMEOUT")
  BY <1>3, <1>6, <1>7 DEF Files
<1>9. \A f \in {frame} \cup InFlight(s) : Authentic(d, f, {c})
  BY <1>3 DEF Authentic, InFlight
<1>10. "TIMEOUT" \in Result /\ {} \in SUBSET Pending(r)
  BY DEF Result
<1>11. QED
  BY <1>4, <1>5, <1>6, <1>8, <1>9, <1>10, StepLemma

\* The jobs that deal with requests leave the table alone; the answer they
\* send or keep is one they have just given.
LEMMA RequestFiles ==
  ASSUME TypeOK, NEW d \in Device,
         IgnoreRequest(d) \/ ProcessRequestFrame(d) \/ SendCommandResponse(d)
  PROVE  TransactionStep
<1> DEFINE r == dev[d]
           q == Dequeue(r)
<1>1. r \in DeviceState /\ made' = made /\ results' = results
  BY DEF TypeOK, IgnoreRequest, ProcessRequestFrame, SendCommandResponse
<1>2. ASSUME Ready(d, "REQUEST")
      PROVE  /\ q \in DeviceState /\ q.pending = r.pending /\ q.next = r.next
             /\ InFlight(q) \subseteq InFlight(r)
             /\ Head(r.queue) \in InFlight(r) /\ Head(r.queue).type = "REQUEST"
             /\ Head(r.queue) \in Frame
  <2>1. /\ r.queue # <<>> /\ q \in DeviceState /\ q.pending = r.pending
        /\ Head(r.queue) \in Job /\ Head(r.queue).type = "REQUEST"
    BY <1>2, ReadyLemma DEF Ready
  <2>2. Head(r.queue) \in Frame
    BY <2>1, FrameLemma
  <2>3. q.next = r.next
    BY <1>1 DEF Dequeue, DeviceState
  <2>4. QED
    BY <1>1, <2>1, <2>2, <2>3, InFlightLemma
<1> HIDE DEF q
<1>3. CASE IgnoreRequest(d)
  <2>1. Ready(d, "REQUEST") /\ Become(d, q) /\ answered' = answered
    BY <1>3 DEF IgnoreRequest, q
  <2>2. Passed(d, q, {})
    BY <2>1, PassedLemma
  <2>3. \A f \in {} \cup InFlight(q) : Authentic(d, f, {})
    BY <1>2, <2>1 DEF Authentic
  <2>4. QED
    BY <1>1, <1>2, <2>1, <2>2, <2>3, NoFiles, StepLemma
<1>4. CASE ProcessRequestFrame(d)
  <2> DEFINE frame == Head(r.queue)
  <2>1. /\ q \in DeviceState /\ q.pending = r.pending /\ q.next = r.next
        /\ InFlight(q) \subseteq InFlight(r)
        /\ frame \in InFlight(r) /\ frame \in Frame /\ frame.type = "REQUEST"
    BY <1>2, <1>4 DEF ProcessRequestFrame
  <2>2. frame.call \in Call /\ frame.id \in TxId /\ frame = Request(frame.call, frame.id)
    BY <2>1 DEF Frame, ResponseFrame, Request
  <2>3. PICK result \in Answers(d, frame.call) :
          /\ answered' = answered \cup {<<frame.call, result>>}
          /\ IF Target[frame.call] = d
             THEN Send(d, q, Response(frame.call, frame.id, result))
             ELSE Become(d, [q EXCEPT !.sending = Response(frame.call, frame.id, result)])
    BY <1>4 DEF ProcessRequestFrame, q
  <2>4. result \in Answer
    BY DEF Answers, Answer
  <2> DEFINE response == Response(frame.call, frame.id, result)
             s == [q EXCEPT !.sending = response]
  <2>5. /\ response \in Frame /\ response.type = "RESPONSE"
        /\ response.call = frame.call /\ response.id = frame.id
        /\ response.result = result
    BY <2>2, <2>4 DEF Response, ResponseFrame, Frame
  <2> HIDE DEF response, frame
  <2>6. Authentic(d, response, {})
    BY <2>1, <2>2, <2>3, <2>5 DEF Authentic
  <2>7. \A f \in InFlight(q) : Authentic(d, f, {})
    BY <2>1 DEF Authentic
  <2>8. CASE Send(d, q, response)
    <3>1. Passed(d, q, {response})
      BY <2>8, PassedLemma
    <3>2. \A f \in {response} \cup InFlight(q) : Authentic(d, f, {})
      BY <2>6, <2>7
    <3>3. {response} \in SUBSET Frame /\ answered \subseteq answered'
      BY <2>3, <2>5
    <3>4. QED
      BY <1>1, <2>1, <3>1, <3>2, <3>3, NoFiles, StepLemma
  <2>9. CASE Become(d, s)
    <3>1. /\ s.pending = q.pending /\ s.next = q.next
          /\ s.queue = q.queue /\ s.sending = response
      BY <2>1 DEF DeviceState
    <3>2. Passed(d, s, {})
      BY <2>9, PassedLemma
    <3> HIDE DEF s
    <3>3. \A f \in {} \cup InFlight(s) : Authentic(d, f, {})
      BY <2>6, <2>7, <3>1 DEF InFlight
    <3>4. answered \subseteq answered'
      BY <2>3
    <3>5. s.pending = r.pending /\ s.next = r.next
      BY <2>1, <3>1
    <3>6. QED
      BY <1>1, <3>2, <3>3, <3>4, <3>5, NoFiles, StepLemma
  <2>10. QED
    BY <2>3, <2>8, <2>9 DEF response
<1>5. CASE SendCommandResponse(d)
  <2> DEFINE s == [r EXCEPT !.sending = Silent]
  <2>1. r.sending \in Frame /\ Send(d, s, r.sending) /\ answered' = answered
    BY <1>1, <1>5 DEF SendCommandResponse, DeviceState, Frame
  <2>2. /\ s.pending = r.pending /\ s.next = r.next
        /\ s.queue = r.queue /\ s.sending = Silent
    BY <1>1 DEF DeviceState
  <2>3. Passed(d, s, {r.sending})
    BY <2>1, PassedLemma
  <2> HIDE DEF s
  <2>4. \A f \in {r.sending} \cup InFlight(s) : Authentic(d, f, {})
    BY <2>1, <2>2, FrameLemma DEF InFlight, Authentic
  <2>5. {r.sending} \in SUBSET Frame
    BY <2>1
  <2>6. QED
    BY <1>1, <2>1, <2>2, <2>3, <2>4, <2>5, NoFiles, StepLemma
<1>6. QED
  BY <1>3, <1>4, <1>5

\* A response ends what is filed under its ID, with its result.
LEMMA ResponseFiles ==
  ASSUME TypeOK, CallInv, NEW d \in Device, ProcessResponseFrame(d)
  PROVE  TransactionStep
<1> DEFINE r == dev[d]
           q == Dequeue(r)
           frame == Head(r.queue)
           c == r.pending[frame.id]
           s == Erase(q, frame.id)
           ids == {frame.id} \cap Pending(r)
<1>1. /\ r \in DeviceState /\ r.queue # <<>>
      /\ q \in DeviceState /\ q.pending = r.pending
      /\ frame \in Job /\ frame.type = "RESPONSE"
  BY ReadyLemma DEF ProcessResponseFrame, Ready
<1>2. frame \in Frame /\ frame.id \in TxId /\ frame.result \in Result
  BY <1>1, FrameLemma DEF Frame, ResponseFrame, Result
<1>3. frame \in InFlight(r) /\ InFlight(q) \subseteq InFlight(r)
  BY <1>1, <1>2, InFlightLemma
<1>4. /\ s.pending = [r.pending EXCEPT ![frame.id] = NoCall] /\ s.next = r.next
      /\ s.queue = q.queue /\ s.sending = q.sending
  BY <1>1 DEF Erase, Dequeue, DeviceState
<1>5. /\ Become(d, s) /\ made' = made /\ answered' = answered
      /\ IF c = NoCall THEN UNCHANGED results ELSE CallBack(c, frame.result)
  BY DEF ProcessResponseFrame
<1>6. Passed(d, s, {})
  BY <1>5, PassedLemma
<1> HIDE DEF s, q, frame
<1>7. c \in Call \cup {NoCall}
  BY <1>1, <1>2 DEF DeviceState
<1>8. \A b \in Call : results'[b] = IF \E id \in ids : dev[d].pending[id] = b
                                    THEN Append(results[b], frame.result)
                                    ELSE results[b]
  <2>1. CASE c = NoCall
    BY <1>5, <2>1 DEF Pending
  <2>2. CASE c # NoCall
    <3>1. ids = {frame.id}
      BY <1>2, <2>2 DEF Pending
    <3>2. results' = [results EXCEPT ![c] = Append(results[c], frame.result)]
      BY <1>5, <2>2 DEF CallBack
    <3>3. QED
      BY <1>7, <2>2, <3>1, <3>2 DEF TypeOK
  <2>3. QED
    BY <2>1, <2>2
<1>9. \A id \in TxId : \/ id \in ids /\ s.pending[id] = NoCall
                       \/ id \notin ids /\ s.pending[id] = r.pending[id]
  BY <1>1, <1>2, <1>4 DEF Pending, DeviceState
<1>10. \A id \in ids : \E f \in InFlight(r) :
         f.type = "RESPONSE" /\ f.id = id /\ f.result = frame.result
  BY <1>1, <1>3
<1>11. Files(d, s, ids, {}, frame.result)
  BY <1>4, <1>5, <1>8, <1>9, <1>10 DEF Files
<1>12. \A f \in {} \cup InFlight(s) : Authentic(d, f, {})
  BY <1>3, <1>4 DEF InFlight, Authentic
<1>13. ids \in SUBSET Pending(r)
  OBVIOUS
<1> HIDE DEF ids
<1>14. QED
  BY <1>2, <1>5, <1>6, <1>11, <1>12, <1>13, StepLemma

\* The timeout job only marks what expired, and the timer only queues the job.
LEMMA TimeoutFiles ==
  ASSUME TypeOK, NEW d \in Device, CleanupExpiredTransactions(d) \/ TimerDue(d)
  PROVE  TransactionStep
<1> DEFINE r == dev[d]
<1>1. /\ r \in DeviceState /\ made' = made /\ results' = results
      /\ answered' = answered
  BY DEF TypeOK, CleanupExpiredTransactions, TimerDue
<1>2. CASE CleanupExpiredTransactions(d)
  <2> DEFINE q == Dequeue(r)
  <2>1. /\ r.queue # <<>> /\ q \in DeviceState /\ q.pending = r.pending
    BY <1>2, ReadyLemma DEF CleanupExpiredTransactions, Ready
  <2>2. q.next = r.next /\ InFlight(q) \subseteq InFlight(r)
    <3>1. q.next = r.next
      BY <1>1 DEF Dequeue, DeviceState
    <3>2. QED
      BY <1>1, <2>1, <3>1, InFlightLemma
  <2>3. PICK S \in Expirable(r) :
          Become(d, CleanedUp(
            [q EXCEPT !.expired = S,
                      !.age = [id \in TxId |-> IF id \in Pending(r) \ S
                                               THEN q.age[id] + 1 ELSE 0]]))
    BY <1>2 DEF CleanupExpiredTransactions
  <2> DEFINE age == [id \in TxId |-> IF id \in Pending(r) \ S THEN q.age[id] + 1 ELSE 0]
             s == CleanedUp([q EXCEPT !.expired = S, !.age = age])
  <2> HIDE DEF q, age
  <2>4. /\ s.pending = q.pending /\ s.next = q.next
        /\ s.queue = q.queue /\ s.sending = q.sending
    BY <2>1 DEF CleanedUp, DeviceState
  <2>5. Passed(d, s, {})
    BY <2>3, PassedLemma DEF age
  <2> HIDE DEF s
  <2>6. \A f \in {} \cup InFlight(s) : Authentic(d, f, {})
    BY <2>2, <2>4 DEF InFlight, Authentic
  <2>7. s.pending = r.pending /\ s.next = r.next
    BY <2>1, <2>2, <2>4
  <2>8. QED
    BY <1>1, <2>5, <2>6, <2>7, NoFiles, StepLemma
<1>3. CASE TimerDue(d)
  <2> DEFINE t == [r EXCEPT !.armed = FALSE]
             s == Enqueue(t, TimeoutJob)
  <2>1. /\ t \in DeviceState /\ t.pending = r.pending /\ t.next = r.next
        /\ t.queue = r.queue /\ t.sending = r.sending
    BY <1>1 DEF DeviceState
  <2>2. Passed(d, s, {})
    BY <1>3, PassedLemma DEF TimerDue
  <2> HIDE DEF t
  <2>3. s.pending = t.pending /\ s.next = t.next
    BY <2>1 DEF Enqueue, DeviceState
  <2>4. InFlight(s) \subseteq InFlight(t)
    BY <2>1, FrameLemma, InFlightLemma
  <2> HIDE DEF s
  <2>5. \A f \in {} \cup InFlight(s) : Authentic(d, f, {})
    BY <2>1, <2>4 DEF InFlight, Authentic
  <2>6. s.pending = r.pending /\ s.next = r.next
    BY <2>1, <2>3
  <2>7. QED
    BY <1>1, <2>2, <2>5, <2>6, NoFiles, StepLemma
<1>4. QED
  BY <1>2, <1>3

\* A timeout ends the call it is about and may file its retry first.
LEMMA ExpireFiles ==
  ASSUME TypeOK, CallInv, NEW d \in Device, NEW id \in TxId, Expire(d, id)
  PROVE  TransactionStep
<1> DEFINE r == dev[d]
           c == r.pending[id]
           Done(s) == CleanedUp([Erase(s, id) EXCEPT !.expired = @ \ {id}])
<1>1. /\ r \in DeviceState /\ r.next \in TxId /\ c \in Call
      /\ {id} \in SUBSET Pending(r) /\ "TIMEOUT" \in Result /\ "TIMEOUT" \notin Answer
  <2>1. r \in DeviceState /\ id \in r.expired /\ c # NoCall
    BY DEF TypeOK, Expire
  <2>2. QED
    BY <2>1 DEF DeviceState, Pending, Result, Answer
<1>2. /\ results' = [results EXCEPT ![c] = Append(results[c], "TIMEOUT")]
      /\ answered' = answered
  BY DEF Expire, CallBack
<1>3. \A b \in Call : results'[b] = IF \E i \in {id} : dev[d].pending[i] = b
                                    THEN Append(results[b], "TIMEOUT")
                                    ELSE results[b]
  BY <1>1, <1>2 DEF TypeOK
<1>4. ASSUME NEW s \in DeviceState
      PROVE  /\ Done(s).pending = [s.pending EXCEPT ![id] = NoCall]
             /\ Done(s).next = s.next /\ Done(s).queue = s.queue
             /\ Done(s).sending = s.sending
  <2> DEFINE e == Erase(s, id)
             t == [e EXCEPT !.expired = e.expired \ {id}]
  <2>1. e \in DeviceState
    BY HelperLemma
  <2>2. /\ e.pending = [s.pending EXCEPT ![id] = NoCall]
        /\ e.next = s.next /\ e.queue = s.queue /\ e.sending = s.sending
    BY DEF Erase, DeviceState
  <2> HIDE DEF e
  <2>3. /\ CleanedUp(t).pending = e.pending /\ CleanedUp(t).next = e.next
        /\ CleanedUp(t).queue = e.queue /\ CleanedUp(t).sending = e.sending
    BY <2>1 DEF CleanedUp, DeviceState
  <2>4. Done(s) = CleanedUp(t)
    BY DEF e
  <2> HIDE DEF t, Done
  <2>5. QED
    BY <2>2, <2>3, <2>4
<1>5. CASE made' = made /\ Become(d, Done(r))
  <2> DEFINE t == Done(r)
  <2>1. /\ t.pending = [r.pending EXCEPT ![id] = NoCall] /\ t.next = r.next
        /\ t.queue = r.queue /\ t.sending = r.sending
    BY <1>1, <1>4
  <2>2. Passed(d, t, {})
    BY <1>5, PassedLemma
  <2> HIDE DEF t
  <2>3. \A i \in TxId : \/ i \in {id} /\ t.pending[i] = NoCall
                        \/ i \notin {id} /\ t.pending[i] = r.pending[i]
    BY <1>1, <2>1 DEF DeviceState
  <2>4. Files(d, t, {id}, {}, "TIMEOUT")
    BY <1>1, <1>3, <1>5, <2>1, <2>3 DEF Files
  <2>5. \A f \in {} \cup InFlight(t) : Authentic(d, f, {})
    BY <2>1 DEF InFlight, Authentic
  <2>6. QED
    BY <1>1, <1>2, <2>2, <2>4, <2>5, StepLemma
<1>6. ASSUME Retry[c] # NoCall, Retry[c] \notin made, made' = made \cup {Retry[c]},
             NEW next \in NextTransactionId(r),
             Send(d, Done(StartTransaction(r, Retry[c], next)),
                  Request(Retry[c], r.next))
      PROVE  TransactionStep
  <2> DEFINE b == Retry[c]
             s == StartTransaction(r, b, next)
             t == Done(s)
             frame == Request(b, r.next)
  <2>1. b \in Call /\ From[b] = d
    <3>1. b \in Call /\ From[b] = From[c]
      BY <1>1, <1>6, RetryAssumption
    <3>2. From[c] = d
      BY <1>1 DEF CallInv, FiledOnce
    <3>3. QED
      BY <3>1, <3>2
  <2>2. s \in DeviceState
    BY <1>1, <1>6, <2>1, HelperLemma
  <2>3. /\ s.pending = [r.pending EXCEPT ![r.next] = b] /\ s.next = next
        /\ s.queue = r.queue /\ s.sending = r.sending
    BY <1>1 DEF StartTransaction, DeviceState
  <2>4. {frame} \in SUBSET Frame
    BY <1>1, <2>1 DEF Request, Frame
  <2>5. Passed(d, t, {frame})
    BY <1>6, PassedLemma
  <2> HIDE DEF s
  <2>6. /\ t.pending = [s.pending EXCEPT ![id] = NoCall] /\ t.next = s.next
        /\ t.queue = s.queue /\ t.sending = s.sending
    BY <1>4, <2>2
  <2> HIDE DEF t, Done
  <2>7. \A i \in TxId : \/ i \in {id} /\ t.pending[i] = NoCall
                        \/ i \notin {id} /\ i = r.next /\ t.pending[i] \in {b}
                        \/ i \notin {id} /\ i # r.next /\ t.pending[i] = r.pending[i]
    BY <1>1, <2>3, <2>6 DEF DeviceState
  <2>8. /\ made' = made \cup {b} /\ {b} \cap made = {}
        /\ \A x \in {b} : From[x] = d
        /\ t.next \in NextTransactionId(r)
    BY <1>6, <2>1, <2>3, <2>6
  <2>9. Files(d, t, {id}, {b}, "TIMEOUT")
    BY <1>1, <1>3, <2>7, <2>8 DEF Files
  <2>10. \A f \in {frame} \cup InFlight(t) : Authentic(d, f, {b})
    BY <2>3, <2>6 DEF InFlight, Authentic
  <2>11. {b} \in SUBSET Call
    BY <2>1
  <2> HIDE DEF b, frame
  <2>12. QED
    BY <1>1, <1>2, <2>4, <2>5, <2>9, <2>10, <2>11, StepLemma
<1>7. QED
  BY <1>5, <1>6 DEF Expire

\* A status change ends what it cancels.
LEMMA SetStatusFiles ==
  ASSUME TypeOK, NEW d \in Device, NEW status \in Status, SetStatus(d, status)
  PROVE  TransactionStep
<1> DEFINE r == dev[d]
<1>1. r \in DeviceState /\ made' = made /\ answered' = answered
  BY DEF TypeOK, SetStatus
<1>2. CASE status = "ONLINE"
  <2> DEFINE s == [r EXCEPT !.status = status]
             t == IF s.running THEN s ELSE Started(s)
  <2>1. /\ s \in DeviceState /\ s.pending = r.pending /\ s.next = r.next
        /\ s.queue = r.queue /\ s.sending = r.sending
    BY <1>1 DEF DeviceState
  <2>2. Passed(d, t, {}) /\ results' = results
    BY <1>2, PassedLemma DEF SetStatus, OnDeviceStatusChanged
  <2> HIDE DEF s
  <2>3. /\ Started(s).pending = s.pending /\ Started(s).next = s.next
        /\ InFlight(Started(s)) \subseteq InFlight(s)
    <3> DEFINE e == [s EXCEPT !.running = TRUE]
    <3>1. /\ e \in DeviceState /\ e.pending = s.pending /\ e.next = s.next
          /\ e.queue = s.queue /\ e.sending = s.sending
      BY <2>1 DEF DeviceState
    <3>2. Started(s) = Enqueue(e, TimeoutJob)
      BY DEF Started
    <3> HIDE DEF e
    <3>3. /\ Enqueue(e, TimeoutJob).pending = e.pending
          /\ Enqueue(e, TimeoutJob).next = e.next
      BY <3>1 DEF Enqueue, DeviceState
    <3>4. InFlight(Enqueue(e, TimeoutJob)) \subseteq InFlight(e)
      BY <3>1, FrameLemma, InFlightLemma
    <3>5. InFlight(e) = InFlight(s)
      BY <3>1 DEF InFlight
    <3>6. QED
      BY <3>1, <3>2, <3>3, <3>4, <3>5
  <2>4. t.pending = r.pending /\ t.next = r.next /\ InFlight(t) \subseteq InFlight(s)
    BY <2>1, <2>3
  <2> HIDE DEF t
  <2>5. \A f \in {} \cup InFlight(t) : Authentic(d, f, {})
    BY <2>1, <2>4 DEF InFlight, Authentic
  <2>6. QED
    BY <1>1, <2>2, <2>4, <2>5, NoFiles, StepLemma
<1>3. CASE status # "ONLINE"
  <2>1. PICK cancelled \in SUBSET Pending(r), halted \in BOOLEAN :
          /\ results' = [c \in Call |->
                           IF \E id \in cancelled : r.pending[id] = c
                           THEN Append(results[c], "CANCELLED") ELSE results[c]]
          /\ Become(d, [Stopped(r, cancelled) EXCEPT !.status = status, !.halted = halted])
    BY <1>3 DEF SetStatus, OnDeviceStatusChanged, StopTransactions
  <2> DEFINE s == Stopped(r, cancelled)
             t == [s EXCEPT !.status = status, !.halted = halted]
  <2>2. s \in DeviceState
    BY <1>1, <2>1, HelperLemma, ReadyLemma
  <2>3. /\ s.queue = WithoutTimeouts(r.queue) /\ s.sending = r.sending
        /\ s.pending = [id \in TxId |-> IF id \in cancelled THEN NoCall
                                        ELSE r.pending[id]]
        /\ s.next = r.next
    BY <1>1 DEF Stopped, DeviceState
  <2> HIDE DEF s
  <2>4. /\ t.queue = s.queue /\ t.sending = s.sending
        /\ t.pending = s.pending /\ t.next = s.next
    BY <2>2 DEF DeviceState
  <2>5. Passed(d, t, {})
    BY <2>1, PassedLemma DEF s
  <2> HIDE DEF t
  <2>6. \A id \in TxId : \/ id \in cancelled /\ t.pending[id] = NoCall
                         \/ id \notin cancelled /\ t.pending[id] = r.pending[id]
    BY <2>3, <2>4
  <2>7. "CANCELLED" \in Result /\ "CANCELLED" \notin Answer
    BY DEF Result, Answer
  <2>8. Files(d, t, cancelled, {}, "CANCELLED")
    BY <1>1, <2>1, <2>3, <2>4, <2>6, <2>7 DEF Files
  <2>9. \A f \in {} \cup InFlight(t) : Authentic(d, f, {})
    <3>1. JobsOf(t.queue) \subseteq JobsOf(r.queue)
      BY <1>1, <2>3, <2>4, InFlightLemma
    <3>2. QED
      BY <2>3, <2>4, <3>1 DEF InFlight, Authentic
  <2>10. QED
    BY <1>1, <2>1, <2>5, <2>7, <2>8, <2>9, StepLemma
<1>4. QED
  BY <1>2, <1>3

\* Every step is one of these.
LEMMA EveryStep == TypeOK /\ CallInv /\ Next => TransactionStep
  BY SendCommandFiles, RequestFiles, ResponseFiles, TimeoutFiles, ExpireFiles,
     SetStatusFiles DEF Next, WorkQueueStep

(***************************************************************************)
(* No call is lost as long as the transaction IDs do not run out.          *)
(***************************************************************************)
CallsOf(d) == {c \in Call : From[c] = d}

\* A device that makes a call before its last one has an ID to go on to.
RoomLeft ==
  \A d \in Device : \A b, c \in CallsOf(d) \ made :
    b # c => \E id \in TxId \ {dev[d].next} : dev[d].pending[id] = NoCall

\* The ID a device is to file its next call under is not in use.
FreshInv ==
  \A d \in Device :
    CallsOf(d) \ made # {} => dev[d].pending[dev[d].next] = NoCall

\* With room left, the next ID stays free and no call is replaced.
LEMMA NoCallLostStep ==
  ASSUME TypeOK, TypeOK', CallInv, FreshInv, RoomLeft, NoCallLost, TransactionStep
  PROVE  FreshInv' /\ NoCallLost'
<1>1. PICK d \in Device : \E ids \in SUBSET Pending(dev[d]), fresh \in SUBSET Call,
                             result \in Result : Step(d, ids, fresh, result)
  BY DEF TransactionStep
<1>2. PICK ids \in SUBSET Pending(dev[d]), fresh \in SUBSET Call, result \in Result :
        Step(d, ids, fresh, result)
  BY <1>1
<1> DEFINE r == dev[d]
           s == dev'[d]
<1>3. /\ r \in DeviceState /\ s \in DeviceState /\ r.next \in TxId /\ s.next \in TxId
  BY DEF TypeOK, DeviceState
<1>4. /\ Files(d, s, ids, fresh, result)
      /\ \A e \in Device \ {d} : /\ dev'[e].pending = dev[e].pending
                                 /\ dev'[e].next = dev[e].next
  BY <1>2 DEF Step
<1>5. /\ made' = made \cup fresh /\ fresh \cap made = {} /\ fresh \subseteq CallsOf(d)
      /\ \A b, c \in fresh : b = c
      /\ IF fresh = {} THEN s.next = r.next ELSE s.next \in NextTransactionId(r)
      /\ \A c \in Call : results'[c] = IF \E id \in ids : r.pending[id] = c
                                       THEN Append(results[c], result)
                                       ELSE results[c]
  BY <1>4 DEF Files, CallsOf
<1>6. \A id \in TxId :
        \/ id \in ids /\ s.pending[id] = NoCall
        \/ id \notin ids /\ fresh # {} /\ id = r.next /\ s.pending[id] \in fresh
        \/ /\ id \notin ids /\ (fresh = {} \/ id # r.next)
           /\ s.pending[id] = r.pending[id]
  BY <1>4, Zenon DEF Files
<1>7. fresh # {} => r.pending[r.next] = NoCall
  BY <1>5 DEF FreshInv
<1> HIDE DEF r, s
<1>8. FreshInv'
  <2> SUFFICES ASSUME NEW e \in Device, NEW c \in CallsOf(e) \ made'
               PROVE  dev'[e].pending[dev'[e].next] = NoCall
    BY DEF FreshInv, CallsOf
  <2>1. c \in CallsOf(e) \ made
    BY <1>5
  <2>2. dev[e].pending[dev[e].next] = NoCall
    BY <2>1 DEF FreshInv
  <2>3. CASE e # d
    BY <1>4, <2>2, <2>3
  <2>4. CASE e = d /\ fresh = {}
    <3>1. s.next = r.next /\ r.pending[r.next] = NoCall
      BY <1>5, <2>2, <2>4 DEF r
    <3>2. s.pending[r.next] = NoCall
      BY <1>3, <1>6, <2>4, <3>1
    <3>3. QED
      BY <2>4, <3>1, <3>2 DEF s
  <2>5. CASE e = d /\ fresh # {}
    <3>1. PICK b \in fresh : b # c /\ b \in CallsOf(d) \ made
      BY <1>5, <2>5
    <3>2. \E id \in TxId \ {r.next} : r.pending[id] = NoCall
      BY <2>1, <2>5, <3>1 DEF RoomLeft, r
    <3>3. s.next # r.next /\ r.pending[s.next] = NoCall
      BY <1>5, <2>5, <3>2 DEF NextTransactionId
    <3>4. s.pending[s.next] = NoCall
      BY <1>3, <1>6, <3>3
    <3>5. QED
      BY <2>5, <3>4 DEF s
  <2>6. QED
    BY <2>3, <2>4, <2>5
<1>9. NoCallLost'
  <2> SUFFICES ASSUME NEW c \in made', results'[c] = <<>>
               PROVE  \E id \in TxId : dev'[From[c]].pending[id] = c
    BY DEF NoCallLost, Registered
  <2>1. CASE c \in fresh
    <3>1. r.pending[r.next] = NoCall /\ r.next \notin ids
      BY <1>7, <2>1 DEF Pending, r
    <3>2. s.pending[r.next] \in fresh
      BY <1>3, <1>6, <2>1, <3>1
    <3>3. s.pending[r.next] = c /\ From[c] = d
      BY <1>5, <2>1, <3>2 DEF CallsOf
    <3>4. QED
      BY <1>3, <3>3 DEF s
  <2>2. CASE c \in made
    <3>1. c \in Call /\ c # NoCall /\ results[c] \in Seq(Result)
      BY <2>2, CallAssumption DEF TypeOK
    <3>2. results[c] = <<>> /\ \A id \in ids : r.pending[id] # c
      <4>1. Append(results[c], result) # <<>>
        BY <3>1
      <4>2. QED
        BY <1>5, <3>1, <4>1
    <3>3. PICK i \in TxId : dev[From[c]].pending[i] = c
      BY <2>2, <3>2 DEF NoCallLost, Registered
    <3>4. CASE From[c] # d
      BY <1>4, <3>1, <3>3, <3>4, CallAssumption
    <3>5. CASE From[c] = d
      <4>1. r.pending[i] = c /\ i \notin ids
        BY <3>2, <3>3, <3>5 DEF r
      <4>2. fresh = {} \/ i # r.next
        BY <1>7, <3>1, <4>1
      <4>3. s.pending[i] = c
        BY <1>6, <4>1, <4>2
      <4>4. QED
        BY <3>5, <4>3 DEF s
    <3>6. QED
      BY <3>4, <3>5
  <2>3. QED
    BY <1>5, <2>1, <2>2
<1>10. QED
  BY <1>8, <1>9

\* Nothing is filed at first.
LEMMA InitFresh == Init => FreshInv /\ NoCallLost
<1> SUFFICES ASSUME Init PROVE FreshInv /\ NoCallLost
  OBVIOUS
<1>1. ASSUME NEW d \in Device PROVE dev[d].pending[dev[d].next] = NoCall
  <2>1. dev[d] = InitialState(PowerOnStatus[d])
    BY DEF Init
  <2>2. /\ dev[d].pending = [id \in TxId |-> NoCall] /\ dev[d].next = 1
    BY <2>1 DEF InitialState, Started, Enqueue
  <2>3. 1 \in TxId
    BY BoundAssumption DEF TxId
  <2>4. QED
    BY <2>2, <2>3
<1>2. QED
  BY <1>1 DEF FreshInv, NoCallLost, Init

\* A call that is made stays filed until its callback is called, as long as
\* its device never has all its transaction IDs but the next in use when it
\* goes on to make calls: the answer, the timeout or the end of the online
\* status finds it.
THEOREM NoCallLostWithRoom == Spec /\ []RoomLeft => []NoCallLost
<1> DEFINE Inv == TypeOK /\ CallInv /\ FreshInv /\ NoCallLost
<1>1. Init => Inv
  BY InitLemma, InitFresh
<1>2. Inv /\ RoomLeft /\ [Next]_vars => Inv'
  <2> SUFFICES ASSUME Inv, RoomLeft, [Next]_vars PROVE Inv'
    OBVIOUS
  <2>1. TypeOK' /\ CallInv'
    BY NextLemma
  <2>2. CASE UNCHANGED vars
    BY <2>1, <2>2 DEF FreshInv, CallsOf, NoCallLost, Registered, vars
  <2>3. CASE Next
    BY <2>1, <2>3, EveryStep, NoCallLostStep
  <2>4. QED
    BY <2>2, <2>3
<1>3. Inv => NoCallLost
  OBVIOUS
<1> HIDE DEF Inv
<1>4. QED
  BY <1>1, <1>2, <1>3, PTL DEF Spec

(***************************************************************************)
(* The case of no more calls than transaction IDs.                         *)
(***************************************************************************)
FewCalls ==
  \A d \in Device : IsFiniteSet(CallsOf(d)) /\ Cardinality(CallsOf(d)) <= MaxTx

\* So few calls leave room: those that are filed are different calls, and
\* neither of the two that are still to come.
LEMMA RoomLemma == FewCalls /\ TypeOK /\ CallInv => RoomLeft
<1> SUFFICES ASSUME FewCalls, TypeOK, CallInv, NEW d \in Device,
                    NEW b \in CallsOf(d) \ made, NEW c \in CallsOf(d) \ made, b # c,
                    \A id \in TxId \ {dev[d].next} : dev[d].pending[id] # NoCall
             PROVE  FALSE
  BY DEF RoomLeft
<1> DEFINE S == TxId \ {dev[d].next}
           T == (CallsOf(d) \ {b}) \ {c}
           f == [id \in S |-> dev[d].pending[id]]
<1>1. IsFiniteSet(S) /\ Cardinality(S) = MaxTx - 1
  <2>1. dev[d].next \in TxId
    BY DEF TypeOK, DeviceState
  <2>2. MaxTx \in Nat /\ MaxTx >= 1
    BY BoundAssumption
  <2>3. IsFiniteSet(TxId) /\ Cardinality(TxId) = MaxTx
    BY <2>2, FS_Interval DEF TxId
  <2>4. QED
    BY <2>1, <2>3, FS_RemoveElement
<1>2. IsFiniteSet(T) /\ Cardinality(T) = Cardinality(CallsOf(d)) - 1 - 1
  <2>1. IsFiniteSet(CallsOf(d)) /\ b \in CallsOf(d) /\ c \in CallsOf(d) \ {b}
    BY DEF FewCalls
  <2>2. /\ IsFiniteSet(CallsOf(d) \ {b})
        /\ Cardinality(CallsOf(d) \ {b}) = Cardinality(CallsOf(d)) - 1
    BY <2>1, FS_RemoveElement
  <2>3. QED
    BY <2>1, <2>2, FS_RemoveElement
<1>3. Cardinality(T) < Cardinality(S)
  <2>1. Cardinality(CallsOf(d)) \in Nat /\ Cardinality(CallsOf(d)) <= MaxTx
    BY FS_CardinalityType DEF FewCalls
  <2>2. MaxTx \in Nat
    BY BoundAssumption
  <2>3. \A m, n \in Int : m <= n => m - 1 - 1 < n - 1
    OBVIOUS
  <2> HIDE DEF S, T
  <2>4. QED
    BY <1>1, <1>2, <2>1, <2>2, <2>3
<1>4. ASSUME NEW id \in S
      PROVE  id \in Pending(dev[d]) /\ dev[d].pending[id] \in T
  <2>1. id \in Pending(dev[d])
    BY DEF Pending
  <2>2. dev[d].pending[id] \in made /\ From[dev[d].pending[id]] = d
    BY <2>1 DEF CallInv, FiledOnce
  <2>3. QED
    BY <2>1, <2>2 DEF CallsOf, TypeOK
<1>5. f \in [S -> T]
  BY <1>4
<1> HIDE DEF S, T, f
<1>6. PICK x, y \in S : x # y /\ f[x] = f[y]
  BY <1>1, <1>2, <1>3, <1>5, FS_PigeonHole
<1>7. dev[d].pending[x] = dev[d].pending[y]
  BY <1>6 DEF f
<1>8. QED
  BY <1>4, <1>6, <1>7 DEF CallInv, FiledOnce

\* A device that makes at most MaxTx (255) calls loses none of them.
THEOREM NoCallLostIfFew == FewCalls => (Spec => []NoCallLost)
<1> SUFFICES ASSUME FewCalls PROVE Spec => []NoCallLost
  OBVIOUS
<1>1. TypeOK /\ CallInv => RoomLeft
  BY RoomLemma
<1>2. Spec => []TypeOK
  BY TypeCorrect
<1>3. Spec => []CallInv
  BY CallsSound
<1>4. Spec /\ []RoomLeft => []NoCallLost
  BY NoCallLostWithRoom
<1>5. QED
  BY <1>1, <1>2, <1>3, <1>4, PTL

(***************************************************************************)
(* Answers reach the call they were given to, before IDs come round.       *)
(***************************************************************************)
\* What the remainder by n is within two laps.
LEMMA Remainder ==
  ASSUME NEW n \in Nat, n > 0, NEW a \in 0 .. n - 1
  PROVE  a % n = a /\ (a + n) % n = a
  OBVIOUS

\* With no ID above m in use, the one after m follows.
LEMMA FollowingId ==
  ASSUME NEW r, NEW m \in TxId, r.next = m, m < MaxTx,
         \A id \in TxId : id > m => r.pending[id] = NoCall,
         NEW next \in NextTransactionId(r)
  PROVE  next = m + 1
<1>1. MaxTx \in Nat /\ m \in Nat /\ m >= 1 /\ m + 1 \in TxId
  BY BoundAssumption DEF TxId
<1>2. m + 1 \in {id \in TxId \ {r.next} : r.pending[id] = NoCall}
  BY <1>1
<1>3. next \in TxId /\ next # m /\ Distance(m, next) <= Distance(m, m + 1)
  BY <1>2 DEF NextTransactionId
<1>4. Distance(m, m + 1) = 1
  <2>1. 1 \in 0 .. MaxTx - 1 /\ m + 1 + MaxTx - m = 1 + MaxTx
    BY <1>1
  <2>2. QED
    BY <1>1, <2>1, Remainder DEF Distance
<1>5. CASE next > m
  <2>1. next - m \in 0 .. MaxTx - 1 /\ next + MaxTx - m = (next - m) + MaxTx
    BY <1>1, <1>3, <1>5 DEF TxId
  <2>2. Distance(m, next) = next - m
    BY <1>1, <2>1, Remainder DEF Distance
  <2>3. next - m <= 1
    BY <1>3, <1>4, <2>2
  <2>4. QED
    BY <1>1, <1>3, <1>5, <2>3 DEF TxId
<1>6. CASE ~(next > m)
  <2>1. next + MaxTx - m \in 0 .. MaxTx - 1
    BY <1>1, <1>3, <1>6 DEF TxId
  <2>2. Distance(m, next) = next + MaxTx - m
    BY <1>1, <2>1, Remainder DEF Distance
  <2>3. next + MaxTx - m <= 1
    BY <1>3, <1>4, <2>2
  <2>4. QED
    BY <1>1, <1>3, <2>3 DEF TxId
<1>7. QED
  BY <1>5, <1>6

\* One device makes all the calls, and no more than there are IDs.
OneCaller ==
  /\ \A b, c \in Call : From[b] = From[c]
  /\ IsFiniteSet(Call) /\ Cardinality(Call) <= MaxTx

\* The IDs are handed out in order, so a frame in flight carries one handed
\* out before, which only ever is that of its own call; an answer in flight
\* is one that some device gave.
OwnInv ==
  /\ \A d \in Device : \A id \in TxId :
       id > Cardinality(made) => dev[d].pending[id] = NoCall
  /\ \A d \in Device :
       CallsOf(d) # {} /\ Cardinality(made) < MaxTx
         => dev[d].next = Cardinality(made) + 1
  /\ \A e \in Device : \A frame \in InFlight(dev[e]) :
       /\ frame.id <= Cardinality(made)
       /\ \A d \in Device : dev[d].pending[frame.id] \in {frame.call, NoCall}
       /\ frame.type = "RESPONSE" => <<frame.call, frame.result>> \in answered
  /\ AnswerIsOwn

\* The results after a step are those before it and what the step adds.
LEMMA ResultsOwn ==
  ASSUME TypeOK, CallInv, OwnInv, NEW d \in Device, NEW ids \in SUBSET Pending(dev[d]),
         NEW fresh \in SUBSET Call, NEW result \in Result, Step(d, ids, fresh, result)
  PROVE  AnswerIsOwn'
<1> SUFFICES ASSUME NEW c \in Call, NEW k \in DOMAIN results'[c],
                    results'[c][k] \in Answer
             PROVE  <<c, results'[c][k]>> \in answered'
  BY DEF AnswerIsOwn
<1>1. answered \subseteq answered' /\ results[c] \in Seq(Result) /\ c # NoCall
  BY CallAssumption DEF Step, TypeOK
<1>2. results'[c] = IF \E id \in ids : dev[d].pending[id] = c
                    THEN Append(results[c], result) ELSE results[c]
  BY DEF Step, Files
<1>3. ASSUME NEW j \in DOMAIN results[c], results[c][j] \in Answer
      PROVE  <<c, results[c][j]>> \in answered'
  BY <1>1, <1>3 DEF OwnInv, AnswerIsOwn
<1>4. CASE ~\E id \in ids : dev[d].pending[id] = c
  BY <1>2, <1>3, <1>4
<1>5. CASE \E id \in ids : dev[d].pending[id] = c
  <2>1. PICK id \in ids : dev[d].pending[id] = c
    BY <1>5
  <2>2. results'[c] = Append(results[c], result)
    BY <1>2, <1>5
  <2>3. k \in 1 .. Len(results[c]) + 1
    BY <1>1, <2>2
  <2>4. CASE k \in 1 .. Len(results[c])
    <3>1. k \in DOMAIN results[c] /\ results'[c][k] = results[c][k]
      BY <1>1, <2>2, <2>4
    <3>2. QED
      BY <1>3, <3>1
  <2>5. CASE k = Len(results[c]) + 1
    <3>1. results'[c][k] = result
      BY <1>1, <2>2, <2>5
    <3>2. PICK frame \in InFlight(dev[d]) :
            frame.type = "RESPONSE" /\ frame.id = id /\ frame.result = result
      BY <3>1 DEF Step, Files
    <3>3. /\ dev[d].pending[id] \in {frame.call, NoCall}
          /\ <<frame.call, frame.result>> \in answered
      BY <3>2 DEF OwnInv
    <3>4. QED
      BY <1>1, <2>1, <3>1, <3>2, <3>3
  <2>6. QED
    BY <1>1, <2>3, <2>4, <2>5
<1>6. QED
  BY <1>4, <1>5

\* The invariant of the IDs in flight.
LEMMA OwnStep ==
  ASSUME OneCaller, TypeOK, TypeOK', CallInv, OwnInv, TransactionStep
  PROVE  OwnInv'
<1>1. PICK d \in Device : \E ids \in SUBSET Pending(dev[d]), fresh \in SUBSET Call,
                             result \in Result : Step(d, ids, fresh, result)
  BY DEF TransactionStep
<1>2. PICK ids \in SUBSET Pending(dev[d]), fresh \in SUBSET Call, result \in Result :
        Step(d, ids, fresh, result)
  BY <1>1
<1> DEFINE n == Cardinality(made)
           m == Cardinality(made')
<1>3. /\ made' = made \cup fresh /\ fresh \cap made = {}
      /\ \A c \in fresh : From[c] = d
      /\ \A b, c \in fresh : b = c
      /\ IF fresh = {} THEN dev'[d].next = dev[d].next
         ELSE dev'[d].next \in NextTransactionId(dev[d])
  BY <1>2 DEF Step, Files
<1>4. \A id \in TxId :
        \/ id \in ids /\ dev'[d].pending[id] = NoCall
        \/ id \notin ids /\ fresh # {} /\ id = dev[d].next /\ dev'[d].pending[id] \in fresh
        \/ /\ id \notin ids /\ (fresh = {} \/ id # dev[d].next)
           /\ dev'[d].pending[id] = dev[d].pending[id]
  BY <1>2 DEF Step, Files
<1>5. \A e \in Device \ {d} : /\ dev'[e].pending = dev[e].pending
                              /\ dev'[e].next = dev[e].next
  BY <1>2 DEF Step
<1>6. /\ answered \subseteq answered'
      /\ \A e \in Device : \A frame \in InFlight(dev'[e]) :
           frame \in InFlight(dev[e]) \/ Authentic(d, frame, fresh)
  BY <1>2 DEF Step
<1>7. AnswerIsOwn'
  BY <1>2, ResultsOwn
<1>8. /\ n \in Nat /\ m \in Nat /\ m <= MaxTx /\ MaxTx \in Nat
      /\ m = IF fresh = {} THEN n ELSE n + 1
  <2>1. made \subseteq Call /\ made' \subseteq Call
    BY <1>3 DEF TypeOK
  <2>2. IsFiniteSet(made) /\ IsFiniteSet(made') /\ m <= Cardinality(Call)
    BY <2>1, FS_Subset DEF OneCaller
  <2>3. n \in Nat /\ m \in Nat /\ Cardinality(Call) \in Nat
    BY <2>2, FS_CardinalityType DEF OneCaller
  <2>4. m <= MaxTx /\ MaxTx \in Nat
    BY <2>2, <2>3, BoundAssumption DEF OneCaller
  <2>5. CASE fresh = {}
    BY <1>3, <2>3, <2>4, <2>5
  <2>6. CASE fresh # {}
    <3>1. PICK c \in fresh : fresh = {c}
      BY <1>3, <2>6
    <3>2. m = n + 1
      BY <1>3, <2>2, <3>1, FS_AddElement
    <3>3. QED
      BY <2>3, <2>4, <2>6, <3>2
  <2>7. QED
    BY <2>5, <2>6
<1>9. fresh # {} => n < MaxTx /\ dev[d].next = n + 1 /\ n + 1 \in TxId
  <2> SUFFICES ASSUME fresh # {}
               PROVE  n < MaxTx /\ dev[d].next = n + 1 /\ n + 1 \in TxId
    OBVIOUS
  <2>1. n < MaxTx
    BY <1>8
  <2>2. CallsOf(d) # {}
    BY <1>3 DEF CallsOf
  <2>3. dev[d].next = n + 1
    BY <2>1, <2>2 DEF OwnInv
  <2>4. QED
    BY <1>8, <2>1, <2>3 DEF TxId
<1>10. \A e \in Device : \A id \in TxId : id > n => dev[e].pending[id] = NoCall
  BY DEF OwnInv
<1>11. \A e \in Device : \A frame \in InFlight(dev[e]) :
         /\ frame \in Frame /\ frame.id \in TxId /\ frame.id <= n
         /\ \A x \in Device : dev[x].pending[frame.id] \in {frame.call, NoCall}
         /\ frame.type = "RESPONSE" => <<frame.call, frame.result>> \in answered
  <2>1. \A frame \in Frame : frame.id \in TxId
    BY DEF Frame, ResponseFrame
  <2>2. \A e \in Device : \A frame \in InFlight(dev[e]) : frame \in Frame
    BY DEF InFlight
  <2>3. QED
    BY <2>1, <2>2 DEF OwnInv
<1> HIDE DEF n, m
<1>12. \A e \in Device, id \in TxId : id > m => dev'[e].pending[id] = NoCall
  <2> SUFFICES ASSUME NEW e \in Device, NEW id \in TxId, id > m
               PROVE  dev'[e].pending[id] = NoCall
    OBVIOUS
  <2>1. id > n /\ id \in Nat
    BY <1>8 DEF TxId
  <2>2. dev[e].pending[id] = NoCall
    BY <1>10, <2>1
  <2>3. ~(fresh # {} /\ id = dev[d].next)
    BY <1>8, <1>9, <2>1
  <2>4. QED
    BY <1>4, <1>5, <2>2, <2>3
<1>13. \A e \in Device : CallsOf(e) # {} /\ m < MaxTx => dev'[e].next = m + 1
  <2> SUFFICES ASSUME NEW e \in Device, CallsOf(e) # {}, m < MaxTx
               PROVE  dev'[e].next = m + 1
    OBVIOUS
  <2>1. n < MaxTx
    BY <1>8
  <2>2. dev[e].next = n + 1
    BY <2>1 DEF OwnInv, n
  <2>3. CASE fresh = {}
    BY <1>3, <1>5, <1>8, <2>2, <2>3
  <2>4. CASE fresh # {}
    <3>1. e = d
      BY <1>3, <2>4 DEF OneCaller, CallsOf
    <3>2. n + 1 < MaxTx /\ m = n + 1
      BY <1>8, <2>4
    <3>3. \A id \in TxId : id > n + 1 => dev[d].pending[id] = NoCall
      <4>1. \A id \in TxId : id > n + 1 => id > n
        BY <1>8 DEF TxId
      <4>2. QED
        BY <1>10, <4>1
    <3>4. dev'[d].next = n + 1 + 1
      BY <1>3, <1>9, <2>4, <3>2, <3>3, FollowingId
    <3>5. QED
      BY <3>1, <3>2, <3>4
  <2>5. QED
    BY <2>3, <2>4
<1>14. ASSUME NEW x \in Device, NEW id \in TxId, id <= n, NEW call,
              dev[x].pending[id] \in {call, NoCall}
       PROVE  dev'[x].pending[id] \in {call, NoCall}
  <2>1. ~(fresh # {} /\ id = dev[d].next)
    BY <1>8, <1>9, <1>14 DEF TxId
  <2>2. QED
    BY <1>4, <1>5, <1>14, <2>1
<1>15. ASSUME NEW e \in Device, NEW frame \in InFlight(dev'[e])
       PROVE  /\ frame.id <= m
              /\ \A x \in Device : dev'[x].pending[frame.id] \in {frame.call, NoCall}
              /\ frame.type = "RESPONSE" => <<frame.call, frame.result>> \in answered'
  <2>1. CASE \E y \in Device : frame \in InFlight(dev[y])
    <3>1. /\ frame.id \in TxId /\ frame.id <= n
          /\ \A x \in Device : dev[x].pending[frame.id] \in {frame.call, NoCall}
          /\ frame.type = "RESPONSE" => <<frame.call, frame.result>> \in answered
      BY <1>11, <2>1
    <3>2. frame.id <= m
      BY <1>8, <3>1 DEF TxId
    <3> DEFINE id == frame.id
               call == frame.call
    <3>3. ASSUME NEW x \in Device PROVE dev'[x].pending[id] \in {call, NoCall}
      <4>1. id \in TxId /\ id <= n /\ dev[x].pending[id] \in {call, NoCall}
        BY <3>1
      <4> HIDE DEF id, call
      <4>2. QED
        BY <1>14, <4>1
    <3>4. frame.type = "RESPONSE" => <<frame.call, frame.result>> \in answered'
      BY <1>6, <3>1
    <3>5. QED
      BY <3>2, <3>3, <3>4
  <2>2. CASE \E c \in fresh : frame = Request(c, dev[d].next)
    <3>1. PICK c \in fresh : frame = Request(c, dev[d].next)
      BY <2>2
    <3>2. frame.id = n + 1 /\ frame.call = c /\ frame.type # "RESPONSE"
      BY <1>9, <3>1 DEF Request
    <3>3. frame.id <= m
      BY <1>8, <3>1, <3>2
    <3>4. \A x \in Device : dev[x].pending[n + 1] = NoCall
      BY <1>8, <1>9, <1>10, <3>1
    <3>5. \A x \in Device : dev'[x].pending[n + 1] \in {c, NoCall}
      BY <1>3, <1>4, <1>5, <1>9, <3>1, <3>4
    <3>6. QED
      BY <3>2, <3>3, <3>5
  <2>3. CASE /\ frame.type = "RESPONSE"
             /\ Request(frame.call, frame.id) \in InFlight(dev[d])
             /\ <<frame.call, frame.result>> \in answered'
    <3> DEFINE request == Request(frame.call, frame.id)
    <3>1. request.call = frame.call /\ request.id = frame.id
      BY DEF Request
    <3>2. /\ request.id \in TxId /\ request.id <= n
          /\ \A x \in Device : dev[x].pending[request.id] \in {request.call, NoCall}
      BY <1>11, <2>3
    <3> HIDE DEF request
    <3>3. frame.id <= m
      BY <1>8, <3>1, <3>2 DEF TxId
    <3>4. QED
      BY <1>14, <2>3, <3>1, <3>2, <3>3
  <2>4. QED
    BY <1>6, <1>15, <2>1, <2>2, <2>3 DEF Authentic
<1>16. QED
  BY <1>7, <1>12, <1>13, <1>15 DEF OwnInv, m

\* At first no frame is in flight.
LEMMA InitOwn == OneCaller /\ Init => OwnInv
<1> SUFFICES ASSUME OneCaller, Init PROVE OwnInv
  OBVIOUS
<1>1. Cardinality(made) = 0
  BY FS_EmptySet DEF Init
<1>2. ASSUME NEW d \in Device
      PROVE  /\ dev[d].pending = [id \in TxId |-> NoCall] /\ dev[d].next = 1
             /\ InFlight(dev[d]) = {}
  <2>1. dev[d] = InitialState(PowerOnStatus[d])
    BY DEF Init
  <2>2. /\ dev[d].pending = [id \in TxId |-> NoCall] /\ dev[d].next = 1
        /\ dev[d].sending = Silent
        /\ dev[d].queue = <<>> \/ dev[d].queue = Append(<<>>, TimeoutJob)
    BY <2>1 DEF InitialState, Started, Enqueue
  <2>3. JobsOf(dev[d].queue) \subseteq {TimeoutJob}
    BY <2>2 DEF JobsOf
  <2>4. QED
    BY <2>2, <2>3, FrameLemma DEF InFlight
<1>3. AnswerIsOwn
  BY DEF Init, AnswerIsOwn
<1>4. QED
  BY <1>1, <1>2, <1>3 DEF OwnInv

\* As long as one device calls, and makes no more calls than it has IDs, the
\* answer a callback gets was given by some device to that very call, however
\* late it comes and whatever the retries and timeouts in between.
THEOREM AnswerIsOwnIfOneCaller == OneCaller => (Spec => []AnswerIsOwn)
<1> SUFFICES ASSUME OneCaller PROVE Spec => []AnswerIsOwn
  OBVIOUS
<1> DEFINE Inv == TypeOK /\ CallInv /\ OwnInv
<1>1. Init => Inv
  BY InitLemma, InitOwn
<1>2. Inv /\ [Next]_vars => Inv'
  <2> SUFFICES ASSUME Inv, [Next]_vars PROVE Inv'
    OBVIOUS
  <2>1. TypeOK' /\ CallInv'
    BY NextLemma
  <2>2. CASE UNCHANGED vars
    BY <2>1, <2>2 DEF OwnInv, AnswerIsOwn, InFlight, JobsOf, vars
  <2>3. CASE Next
    BY <2>1, <2>3, EveryStep, OwnStep
  <2>4. QED
    BY <2>2, <2>3
<1>3. Inv => AnswerIsOwn
  BY DEF OwnInv
<1> HIDE DEF Inv
<1>4. QED
  BY <1>1, <1>2, <1>3, PTL DEF Spec
=============================================================================
