------------------------- MODULE CdmpCommandsProofs -------------------------
(***************************************************************************)
(* What holds of CdmpCommands for every number of devices, calls and       *)
(* transaction IDs: its types, that a callback is called at most once and  *)
(* that the timeout job finds what it looks for, and that the calls behave *)
(* as CommandCalls promises.  Every action is first shown to be a          *)
(* CallStep of one device; the two results about calls follow from that.   *)
(***************************************************************************)
EXTENDS CdmpCommands, SequenceTheorems, TLAPS

(***************************************************************************)
(* Types.                                                                  *)
(***************************************************************************)
\* Queue operations keep the type of a device and touch nothing else.
LEMMA QueueLemma ==
  ASSUME NEW r \in DeviceState
  PROVE  /\ \A job \in Job : /\ Enqueue(r, job) \in DeviceState
                             /\ Enqueue(r, job).pending = r.pending
                             /\ Enqueue(r, job).expired = r.expired
         /\ r.queue # <<>> =>
              /\ Dequeue(r) \in DeviceState
              /\ Head(r.queue) \in Job
              /\ Dequeue(r).pending = r.pending
              /\ Dequeue(r).expired = r.expired
              /\ Dequeue(r).sending = r.sending
         /\ WithoutTimeouts(r.queue) \in Seq(Job)
<1>1. r.queue \in Seq(Job)
  BY DEF DeviceState
<1>2. ASSUME NEW job \in Job
      PROVE  /\ Enqueue(r, job) \in DeviceState
             /\ Enqueue(r, job).pending = r.pending
             /\ Enqueue(r, job).expired = r.expired
  BY <1>1, Append(r.queue, job) \in Seq(Job) DEF Enqueue, DeviceState
<1>3. ASSUME r.queue # <<>>
      PROVE  /\ Dequeue(r) \in DeviceState
             /\ Head(r.queue) \in Job
             /\ Dequeue(r).pending = r.pending
             /\ Dequeue(r).expired = r.expired
             /\ Dequeue(r).sending = r.sending
  BY <1>1, <1>3, Tail(r.queue) \in Seq(Job), Head(r.queue) \in Job
     DEF Dequeue, DeviceState
<1>4. WithoutTimeouts(r.queue) \in Seq(Job)
  <2> DEFINE Queued == {k \in DOMAIN r.queue : r.queue[k] = TimeoutJob}
             k == CHOOSE k \in Queued : TRUE
  <2>1. CASE Queued = {}
    BY <1>1, <2>1 DEF WithoutTimeouts
  <2>2. CASE Queued # {}
    <3>1. k \in 1 .. Len(r.queue)
      BY <1>1, <2>2
    <3> HIDE DEF k
    <3>2. /\ SubSeq(r.queue, 1, k - 1) \in Seq(Job)
          /\ SubSeq(r.queue, k + 1, Len(r.queue)) \in Seq(Job)
      BY <1>1, <3>1
    <3>3. SubSeq(r.queue, 1, k - 1) \o SubSeq(r.queue, k + 1, Len(r.queue))
            \in Seq(Job)
      BY <3>2
    <3>4. QED
      BY <2>2, <3>3 DEF WithoutTimeouts, k
  <2>3. QED
    BY <2>1, <2>2
<1>5. QED
  BY <1>2, <1>3, <1>4

\* Helpers on the state of a device keep its type.
LEMMA HelperLemma ==
  ASSUME NEW r \in DeviceState
  PROVE  /\ \A id \in TxId : Erase(r, id) \in DeviceState
         /\ \A c \in Call : \A next \in NextTransactionId(r) :
              StartTransaction(r, c, next) \in DeviceState
         /\ CleanedUp(r) \in DeviceState
         /\ CleanedUp(r).pending = r.pending
         /\ CleanedUp(r).expired = r.expired
         /\ \A cancelled \in SUBSET TxId : Stopped(r, cancelled) \in DeviceState
         /\ Started(r) \in DeviceState
<1>1. NextTransactionId(r) \subseteq TxId
  BY DEF NextTransactionId, DeviceState
<1>2. ASSUME NEW id \in TxId PROVE Erase(r, id) \in DeviceState
  <2>1. [r.pending EXCEPT ![id] = NoCall] \in [TxId -> Call \cup {NoCall}]
    BY DEF DeviceState
  <2>2. [r.age EXCEPT ![id] = 0] \in [TxId -> 0 .. 2]
    BY DEF DeviceState
  <2>3. QED
    BY <2>1, <2>2 DEF Erase, DeviceState
<1>3. ASSUME NEW c \in Call, NEW next \in NextTransactionId(r)
      PROVE  StartTransaction(r, c, next) \in DeviceState
  <2>1. r.next \in TxId /\ next \in TxId
    BY <1>1 DEF DeviceState
  <2>2. [r.pending EXCEPT ![r.next] = c] \in [TxId -> Call \cup {NoCall}]
    BY <2>1 DEF DeviceState
  <2>3. [r.age EXCEPT ![r.next] = 0] \in [TxId -> 0 .. 2]
    BY <2>1 DEF DeviceState
  <2>4. QED
    BY <2>1, <2>2, <2>3 DEF StartTransaction, DeviceState
<1>4. /\ CleanedUp(r) \in DeviceState
      /\ CleanedUp(r).pending = r.pending
      /\ CleanedUp(r).expired = r.expired
  BY DEF CleanedUp, DeviceState
<1>5. ASSUME NEW cancelled \in SUBSET TxId
      PROVE  Stopped(r, cancelled) \in DeviceState
  <2> DEFINE pending == [id \in TxId |-> IF id \in cancelled THEN NoCall
                                         ELSE r.pending[id]]
             age == [id \in TxId |-> IF id \in cancelled THEN 0 ELSE r.age[id]]
  <2>1. pending \in [TxId -> Call \cup {NoCall}] /\ age \in [TxId -> 0 .. 2]
    BY DEF DeviceState
  <2>2. WithoutTimeouts(r.queue) \in Seq(Job)
    BY QueueLemma
  <2>3. Stopped(r, cancelled) =
          [r EXCEPT !.pending = pending, !.age = age, !.running = FALSE,
                    !.armed = FALSE, !.queue = WithoutTimeouts(r.queue)]
    BY DEF Stopped
  <2>4. QED
    BY <2>1, <2>2, <2>3 DEF DeviceState
<1>6. Started(r) \in DeviceState
  <2>1. [r EXCEPT !.running = TRUE] \in DeviceState
    BY DEF DeviceState
  <2>2. QED
    BY <2>1, QueueLemma DEF Started, Job
<1>7. QED
  BY <1>2, <1>3, <1>4, <1>5, <1>6

\* One device changes to r and the others, at most, receive a frame.
Rest(d, r) ==
  /\ dev' \in [Device -> DeviceState]
  /\ dev'[d] = r
  /\ \A e \in Device \ {d} : /\ dev'[e].pending = dev[e].pending
                             /\ dev'[e].expired = dev[e].expired
  /\ losses' \in 0 .. MaxLosses

\* Become and Send leave every device well typed and the others' calls alone.
LEMMA BusLemma ==
  ASSUME TypeOK, NEW d \in Device, NEW r \in DeviceState
  PROVE  /\ Become(d, r) => Rest(d, r)
         /\ \A frame \in Job : Send(d, r, frame) => Rest(d, r)
<1>1. ASSUME Become(d, r) PROVE Rest(d, r)
  BY <1>1 DEF Become, Rest, TypeOK
<1>2. ASSUME NEW frame \in Job, Send(d, r, frame) PROVE Rest(d, r)
  <2>1. PICK missed \in SUBSET (Device \ {d}) :
          /\ missed # {} => losses < MaxLosses
          /\ losses' = IF missed = {} THEN losses ELSE losses + 1
          /\ dev' = [e \in Device |-> IF e = d THEN r
                                      ELSE IF e \in missed THEN dev[e]
                                      ELSE Enqueue(dev[e], frame)]
    BY <1>2 DEF Send
  <2>2. losses' \in 0 .. MaxLosses
    BY <2>1, BoundAssumption DEF TypeOK
  <2>3. \A e \in Device : dev[e] \in DeviceState
    BY DEF TypeOK
  <2>4. \A e \in Device : /\ Enqueue(dev[e], frame) \in DeviceState
                          /\ Enqueue(dev[e], frame).pending = dev[e].pending
                          /\ Enqueue(dev[e], frame).expired = dev[e].expired
    BY <2>3, QueueLemma
  <2>5. dev' \in [Device -> DeviceState]
    BY <2>1, <2>3, <2>4
  <2>6. QED
    BY <2>1, <2>2, <2>4, <2>5 DEF Rest
<1>3. QED
  BY <1>1, <1>2

(***************************************************************************)
(* What any step may do to the calls: device d ends the calls in "ended",  *)
(* each once, and files at most one new call.                              *)
(***************************************************************************)
Moves(d, ended) ==
  /\ \A e \in Device \ {d} : /\ dev'[e].pending = dev[e].pending
                             /\ dev'[e].expired = dev[e].expired
  /\ made \subseteq made'
  /\ \A c \in ended : \E id \in TxId : dev[d].pending[id] = c
  /\ \A c \in ended : \E result \in Result :
       results'[c] = Append(results[c], result)
  /\ \A c \in Call \ ended : results'[c] = results[c]
  /\ \A id \in Pending(dev'[d]) :
       LET c == dev'[d].pending[id]
       IN  \/ c = dev[d].pending[id] /\ c \notin ended
           \/ /\ c \in made' \ made /\ From[c] = d
              /\ \A i \in TxId : dev'[d].pending[i] = c => i = id
  /\ dev'[d].expired \subseteq Pending(dev'[d])

CallStep == \E d \in Device, ended \in SUBSET Call : Moves(d, ended)

\* What a step does to the table of its device: the IDs in "ids" are ended
\* with "result", the call in "fresh", if any, is filed under n.
TableStep(d, r, ids, n, fresh, result) ==
  /\ made' = made \cup fresh
  /\ fresh \cap made = {}
  /\ \A c \in fresh : From[c] = d
  /\ \A b, c \in fresh : b = c
  /\ \A id \in TxId : \/ r.pending[id] = dev[d].pending[id] /\ id \notin ids
                      \/ r.pending[id] = NoCall
                      \/ id = n /\ r.pending[id] \in fresh
  /\ r.expired \subseteq Pending(r)
  /\ \A c \in Call : results'[c] = IF \E id \in ids : dev[d].pending[id] = c
                                   THEN Append(results[c], result)
                                   ELSE results[c]

\* A TableStep of one device is a CallStep.
LEMMA MovesLemma ==
  ASSUME TypeOK, CallInv, NEW d \in Device, NEW r \in DeviceState, Rest(d, r),
         NEW ids \in SUBSET TxId, NEW n \in TxId, NEW fresh \in SUBSET Call,
         NEW result \in Result, TableStep(d, r, ids, n, fresh, result)
  PROVE  CallStep
<1> USE DEF TableStep
<1> DEFINE ended == {c \in Call : \E id \in ids : dev[d].pending[id] = c}
<1>1. \A id \in Pending(dev'[d]) :
        LET c == dev'[d].pending[id]
        IN  \/ c = dev[d].pending[id] /\ c \notin ended
            \/ /\ c \in made' \ made /\ From[c] = d
               /\ \A i \in TxId : dev'[d].pending[i] = c => i = id
  <2> SUFFICES ASSUME NEW id \in Pending(r)
               PROVE  \/ r.pending[id] = dev[d].pending[id] /\ r.pending[id] \notin ended
                      \/ /\ r.pending[id] \in made' \ made /\ From[r.pending[id]] = d
                         /\ \A i \in TxId : r.pending[i] = r.pending[id] => i = id
    BY DEF Rest
  <2>1. id \in TxId /\ r.pending[id] # NoCall
    BY DEF Pending
  <2>2. CASE r.pending[id] = dev[d].pending[id] /\ id \notin ids
    <3>1. id \in Pending(dev[d])
      BY <2>1, <2>2 DEF Pending
    <3>2. ASSUME NEW i \in ids, dev[d].pending[i] = dev[d].pending[id] PROVE FALSE
      <4>1. i \in Pending(dev[d])
        BY <3>2, <2>1, <2>2 DEF Pending
      <4>2. i = id
        BY <3>1, <3>2, <4>1 DEF CallInv, FiledOnce
      <4>3. QED
        BY <4>2, <2>2
    <3>3. QED
      BY <2>2, <3>2
  <2>3. CASE id = n /\ r.pending[id] \in fresh
    <3>1. r.pending[id] \in made' \ made /\ From[r.pending[id]] = d
      BY <2>3
    <3>2. ASSUME NEW i \in TxId, r.pending[i] = r.pending[id] PROVE i = id
      <4>1. CASE r.pending[i] = dev[d].pending[i]
        <5>1. i \in Pending(dev[d])
          BY <3>2, <2>1, <4>1 DEF Pending
        <5>2. dev[d].pending[i] \in made
          BY <5>1 DEF CallInv, FiledOnce
        <5>3. QED
          BY <5>2, <4>1, <3>2, <3>1
      <4>2. CASE i = n
        BY <4>2, <2>3
      <4>3. QED
        BY <4>1, <4>2, <3>2, <2>1
    <3>3. QED
      BY <3>1, <3>2
  <2>4. QED
    BY <2>1, <2>2, <2>3
<1>2. \A c \in ended : \E id \in TxId : dev[d].pending[id] = c
  OBVIOUS
<1>3. dev'[d].expired \subseteq Pending(dev'[d])
  BY DEF Rest
<1>4. Moves(d, ended)
  BY <1>1, <1>2, <1>3 DEF Moves, Rest
<1>5. QED
  BY <1>4 DEF CallStep

\* The case of a step that makes and ends no call.
LEMMA QuietLemma ==
  ASSUME TypeOK, CallInv, NEW d \in Device, NEW r \in DeviceState, Rest(d, r),
         r.pending = dev[d].pending, r.expired \subseteq Pending(dev[d]),
         UNCHANGED <<made, results>>
  PROVE  CallStep
<1>1. 1 \in TxId /\ "TIMEOUT" \in Result
  BY BoundAssumption DEF TxId, Result
<1>2. r.expired \subseteq Pending(r)
  BY DEF Pending
<1>3. TableStep(d, r, {}, 1, {}, "TIMEOUT")
  BY <1>2 DEF TableStep
<1>4. QED
  BY <1>1, <1>3, MovesLemma

(***************************************************************************)
(* A step of the calls preserves the invariant and is one of CommandCalls. *)
(***************************************************************************)
\* Such a step preserves the invariant of the calls.
LEMMA CallInvStep ==
  ASSUME TypeOK, TypeOK', CallInv, CallStep
  PROVE  CallInv'
<1>1. PICK d \in Device, ended \in SUBSET Call : Moves(d, ended)
  BY DEF CallStep
<1>2. ASSUME NEW c \in ended
      PROVE  c \in made /\ From[c] = d /\ results[c] = <<>> /\ Len(results'[c]) = 1
  <2>1. PICK id \in TxId : dev[d].pending[id] = c
    BY <1>1 DEF Moves
  <2>2. c # NoCall
    BY CallAssumption
  <2>3. id \in Pending(dev[d])
    BY <2>1, <2>2 DEF Pending
  <2>4. c \in made /\ From[c] = d /\ results[c] = <<>>
    BY <2>1, <2>3 DEF CallInv, FiledOnce
  <2>5. PICK result \in Result : results'[c] = Append(<<>>, result)
    BY <1>1, <2>4 DEF Moves
  <2>6. QED
    BY <2>4, <2>5
<1>3. \A c \in Call \ ended : results'[c] = results[c]
  BY <1>1 DEF Moves
<1>4. AtMostOneResult'
  <2>1. \A c \in Call : Len(results'[c]) <= 1
    <3> SUFFICES ASSUME NEW c \in Call PROVE Len(results'[c]) <= 1
      OBVIOUS
    <3>1. CASE c \in ended
      <4>1. Len(results'[c]) = 1
        BY <3>1, <1>2
      <4>2. QED
        BY <4>1
    <3>2. CASE c \notin ended
      BY <3>2, <1>3 DEF CallInv, AtMostOneResult
    <3>3. QED
      BY <3>1, <3>2
  <2>2. QED
    BY <2>1 DEF AtMostOneResult
<1>5. \A c \in Call \ made' : results'[c] = <<>>
  BY <1>1, <1>2, <1>3 DEF CallInv, Moves
<1>6. ExpiredArePending'
  <2> SUFFICES ASSUME NEW e \in Device
               PROVE  dev'[e].expired \subseteq Pending(dev'[e])
    BY DEF ExpiredArePending
  <2>1. CASE e = d
    BY <1>1, <2>1 DEF Moves
  <2>2. CASE e # d
    BY <1>1, <2>2 DEF Moves, CallInv, ExpiredArePending, Pending
  <2>3. QED
    BY <2>1, <2>2
<1>7. FiledOnce'
  <2> SUFFICES ASSUME NEW e \in Device, NEW id \in Pending(dev'[e])
               PROVE  LET c == dev'[e].pending[id]
                      IN  /\ c \in made' /\ From[c] = e /\ results'[c] = <<>>
                          /\ \A i \in Pending(dev'[e]) : dev'[e].pending[i] = c => i = id
    BY DEF FiledOnce
  <2> DEFINE c == dev'[e].pending[id]
  <2>1. id \in TxId /\ c # NoCall /\ c \in Call
    BY DEF Pending, TypeOK, DeviceState
  <2>2. CASE e # d
    <3>1. dev'[e].pending = dev[e].pending
      BY <1>1, <2>2 DEF Moves
    <3>2. id \in Pending(dev[e]) /\ c = dev[e].pending[id]
      BY <3>1, <2>1 DEF Pending
    <3>3. /\ c \in made /\ From[c] = e /\ results[c] = <<>>
          /\ \A i \in Pending(dev[e]) : dev[e].pending[i] = c => i = id
      BY <3>2 DEF CallInv, FiledOnce
    <3>4. c \notin ended
      BY <3>3, <1>2, <2>2
    <3>5. results'[c] = <<>> /\ c \in made'
      BY <3>3, <3>4, <1>3, <2>1, <1>1 DEF Moves
    <3>6. Pending(dev'[e]) = Pending(dev[e])
      BY <3>1 DEF Pending
    <3>7. QED
      BY <3>1, <3>3, <3>5, <3>6
  <2>3. CASE e = d /\ c = dev[d].pending[id] /\ c \notin ended
    <3>1. id \in Pending(dev[d])
      BY <2>1, <2>3 DEF Pending
    <3>2. /\ c \in made /\ From[c] = d /\ results[c] = <<>>
          /\ \A i \in Pending(dev[d]) : dev[d].pending[i] = c => i = id
      BY <3>1, <2>3 DEF CallInv, FiledOnce
    <3>3. results'[c] = <<>> /\ c \in made'
      BY <3>2, <2>3, <1>3, <2>1, <1>1 DEF Moves
    <3>4. ASSUME NEW i \in Pending(dev'[d]), dev'[d].pending[i] = c PROVE i = id
      <4>1. i \in TxId /\ c \notin made' \ made
        BY <3>2 DEF Pending
      <4>2. dev'[d].pending[i] = dev[d].pending[i]
        BY <1>1, <3>4, <4>1 DEF Moves
      <4>3. i \in Pending(dev[d])
        BY <4>1, <4>2, <3>4, <2>1 DEF Pending
      <4>4. QED
        BY <4>2, <4>3, <3>4, <3>2
    <3>5. QED
      BY <2>3, <3>2, <3>3, <3>4
  <2>4. CASE /\ e = d /\ c \in made' \ made /\ From[c] = d
             /\ \A i \in TxId : dev'[d].pending[i] = c => i = id
    <3>1. c \notin ended /\ results[c] = <<>>
      BY <2>1, <2>4, <1>2 DEF CallInv
    <3>2. results'[c] = <<>>
      BY <3>1, <2>1, <1>3
    <3>3. QED
      BY <2>4, <3>2 DEF Pending
  <2>5. QED
    BY <1>1, <2>2, <2>3, <2>4 DEF Moves
<1>8. QED
  BY <1>4, <1>5, <1>6, <1>7 DEF CallInv

\* Such a step is one that CommandCalls allows.
LEMMA CallsStep ==
  ASSUME TypeOK, TypeOK', CallInv, CallInv', CallStep
  PROVE  Calls!Next
<1>1. PICK d \in Device, ended \in SUBSET Call : Moves(d, ended)
  BY DEF CallStep
<1>0. \A c \in Call : /\ results[c] \in Seq(Result) /\ Len(results[c]) <= 1
                      /\ results'[c] \in Seq(Result) /\ Len(results'[c]) <= 1
                      /\ From[c] \in Device
  BY CallAssumption DEF TypeOK, CallInv, AtMostOneResult
<1>2. ASSUME NEW c \in Call
      PROVE  /\ Outcome(c)' \in {"none", "open", "lost"} \cup Result
             /\ Outcome(c)' = Outcome(c) \/ <<Outcome(c), Outcome(c)'>> \in Calls!Course
  <2>0. ASSUME NEW s \in Seq(Result), Len(s) <= 1
        PROVE  s = <<>> \/ (Len(s) = 1 /\ s[1] \in Result)
    <3>0. Len(s) \in Nat
      BY <2>0
    <3>1. Len(s) = 0 \/ Len(s) = 1
      <4>1. \A n \in Nat : n <= 1 => n = 0 \/ n = 1
        OBVIOUS
      <4>2. QED
        BY <2>0, <3>0, <4>1
    <3>2. CASE Len(s) = 0
      BY <3>2, EmptySeq
    <3>3. CASE Len(s) = 1
      BY <3>3
    <3>4. QED
      BY <3>1, <3>2, <3>3
  <2>1. results[c] = <<>> \/ (Len(results[c]) = 1 /\ results[c][1] \in Result)
    BY <1>0, <2>0
  <2>2. results'[c] = <<>> \/ (Len(results'[c]) = 1 /\ results'[c][1] \in Result)
    BY <1>0, <2>0
  <2>3. Len(<<>>) = 0 /\ Result \cap {"none", "open", "lost"} = {}
    BY DEF Result, Answer
  <2>4. Outcome(c)' \in {"none", "open", "lost"} \cup Result
    <3>1. CASE c \notin made'
      BY <3>1 DEF Outcome
    <3>2. CASE c \in made' /\ results'[c] = <<>>
      <4>1. Len(results'[c]) # 1
        BY <3>2, <2>3
      <4>2. QED
        BY <3>2, <4>1 DEF Outcome
    <3>3. CASE c \in made' /\ Len(results'[c]) = 1 /\ results'[c][1] \in Result
      BY <3>3 DEF Outcome
    <3>4. QED
      BY <2>2, <3>1, <3>2, <3>3
  <2>5. CASE c \notin made
    <3>1. Outcome(c) = "none" /\ results[c] = <<>> /\ c \notin ended
      <4>1. c \notin ended
        <5>1. ASSUME c \in ended PROVE FALSE
          <6>1. PICK id \in TxId : dev[d].pending[id] = c
            BY <5>1, <1>1 DEF Moves
          <6>2. id \in Pending(dev[d])
            BY <6>1, CallAssumption DEF Pending
          <6>3. QED
            BY <6>1, <6>2, <2>5 DEF CallInv, FiledOnce
        <5>2. QED
          BY <5>1
      <4>2. QED
        BY <4>1, <2>5 DEF Outcome, CallInv
    <3>2. results'[c] = <<>>
      BY <3>1, <1>1 DEF Moves
    <3>3. Outcome(c)' \in {"none", "open", "lost"}
      BY <3>2, <2>3 DEF Outcome
    <3>4. QED
      BY <2>4, <3>1, <3>3 DEF Calls!Course
  <2>6. CASE c \in made /\ results[c] # <<>>
    <3>1. c \notin ended
      <4>1. ASSUME c \in ended PROVE FALSE
        <5>1. PICK id \in TxId : dev[d].pending[id] = c
          BY <4>1, <1>1 DEF Moves
        <5>2. id \in Pending(dev[d])
          BY <5>1, CallAssumption DEF Pending
        <5>3. QED
          BY <5>1, <5>2, <2>6 DEF CallInv, FiledOnce
      <4>2. QED
        BY <4>1
    <3>2. results'[c] = results[c] /\ c \in made'
      BY <3>1, <2>6, <1>1 DEF Moves
    <3>3. Outcome(c)' = Outcome(c)
      BY <3>2, <2>1, <2>6 DEF Outcome
    <3>4. QED
      BY <2>4, <3>3
  <2>7. CASE c \in made /\ results[c] = <<>> /\ Registered(c)
    <3>1. Outcome(c) = "open"
      BY <2>7, <2>3 DEF Outcome
    <3>2. c \in made'
      BY <2>7, <1>1 DEF Moves
    <3>3. Outcome(c)' \in {"open", "lost"} \cup Result
      <4>1. CASE results'[c] = <<>>
        <5>1. Len(results'[c]) # 1
          BY <4>1, <2>3
        <5>2. QED
          BY <3>2, <4>1, <5>1 DEF Outcome
      <4>2. CASE Len(results'[c]) = 1 /\ results'[c][1] \in Result
        BY <3>2, <4>2 DEF Outcome
      <4>3. QED
        BY <2>2, <4>1, <4>2
    <3>4. QED
      BY <2>4, <3>1, <3>3 DEF Calls!Course
  <2>8. CASE c \in made /\ results[c] = <<>> /\ ~Registered(c)
    <3>1. Outcome(c) = "lost"
      BY <2>8, <2>3 DEF Outcome
    <3>2. c \notin ended
      <4>1. ASSUME c \in ended PROVE FALSE
        <5>1. PICK id \in TxId : dev[d].pending[id] = c
          BY <4>1, <1>1 DEF Moves
        <5>2. id \in Pending(dev[d])
          BY <5>1, CallAssumption DEF Pending
        <5>3. From[c] = d
          BY <5>1, <5>2 DEF CallInv, FiledOnce
        <5>4. QED
          BY <5>1, <5>3, <2>8 DEF Registered
      <4>2. QED
        BY <4>1
    <3>3. results'[c] = <<>> /\ c \in made'
      BY <3>2, <2>8, <1>1 DEF Moves
    <3>4. ~Registered(c)'
      <4>1. ASSUME NEW id \in TxId, dev'[From[c]].pending[id] = c PROVE FALSE
        <5>1. c # NoCall
          BY CallAssumption
        <5>2. CASE From[c] # d
          BY <5>2, <4>1, <1>0, <1>1, <2>8 DEF Moves, Registered
        <5>3. CASE From[c] = d
          <6>1. id \in Pending(dev'[d])
            BY <4>1, <5>1, <5>3 DEF Pending
          <6>2. dev[d].pending[id] = c
            BY <6>1, <4>1, <5>3, <1>1, <2>8 DEF Moves
          <6>3. QED
            BY <6>2, <5>3, <2>8 DEF Registered
        <5>4. QED
          BY <5>2, <5>3
      <4>2. QED
        BY <4>1 DEF Registered
    <3>5. Outcome(c)' = "lost"
      BY <3>3, <3>4, <2>3 DEF Outcome
    <3>6. QED
      BY <2>4, <3>1, <3>5
  <2>9. QED
    BY <2>5, <2>6, <2>7, <2>8
<1>3. QED
  BY <1>2 DEF Calls!Next

(***************************************************************************)
(* One lemma per action.                                                   *)
(***************************************************************************)
\* What the actions that look at the head of the queue start from.
LEMMA ReadyLemma ==
  ASSUME TypeOK, NEW d \in Device
  PROVE  /\ dev[d] \in DeviceState
         /\ dev[d].expired \subseteq TxId
         /\ Pending(dev[d]) \subseteq TxId
         /\ \A type : Ready(d, type) =>
              /\ Dequeue(dev[d]) \in DeviceState
              /\ Dequeue(dev[d]).pending = dev[d].pending
              /\ Dequeue(dev[d]).expired = {}
              /\ Head(dev[d].queue) \in Job
              /\ Head(dev[d].queue).type = type
<1>1. dev[d] \in DeviceState
  BY DEF TypeOK
<1>2. ASSUME NEW type, Ready(d, type)
      PROVE  /\ Dequeue(dev[d]) \in DeviceState
             /\ Dequeue(dev[d]).pending = dev[d].pending
             /\ Dequeue(dev[d]).expired = {}
             /\ Head(dev[d].queue) \in Job
             /\ Head(dev[d].queue).type = type
  BY <1>1, <1>2, QueueLemma DEF Ready, Free
<1>3. QED
  BY <1>1, <1>2 DEF DeviceState, Pending

\* The application makes a call: one new call, filed under the next ID.
LEMMA SendCommandStep ==
  ASSUME TypeOK, CallInv, NEW d \in Device, NEW c \in Call, SendCommand(d, c)
  PROVE  TypeOK' /\ CallStep
<1> DEFINE r == dev[d]
<1>1. r \in DeviceState /\ r.next \in TxId
  BY ReadyLemma DEF DeviceState
<1>2. Request(c, r.next) \in Job
  BY <1>1 DEF Request, Job
<1>3. PICK next \in NextTransactionId(r) :
        Send(d, StartTransaction(r, c, next), Request(c, r.next))
  BY DEF SendCommand
<1> DEFINE t == StartTransaction(r, c, next)
<1>4. t \in DeviceState
  BY <1>1, HelperLemma
<1>5. t.pending = [r.pending EXCEPT ![r.next] = c] /\ t.expired = r.expired
  BY <1>1 DEF StartTransaction, DeviceState
<1> HIDE DEF t
<1>6. Rest(d, t)
  BY <1>2, <1>3, <1>4, BusLemma DEF t
<1>7. TypeOK'
  BY <1>6 DEF TypeOK, Rest, SendCommand
<1>8. c # NoCall /\ "TIMEOUT" \in Result
  BY CallAssumption DEF Result
<1>9. t.expired \subseteq Pending(t)
  <2>1. r.expired \subseteq Pending(r)
    BY DEF CallInv, ExpiredArePending
  <2>2. QED
    BY <1>1, <1>5, <1>8, <2>1 DEF Pending, DeviceState
<1>10. \A id \in TxId : \/ t.pending[id] = r.pending[id] /\ id \notin {}
                        \/ id = r.next /\ t.pending[id] \in {c}
  BY <1>1, <1>5 DEF DeviceState
<1>11. TableStep(d, t, {}, r.next, {c}, "TIMEOUT")
  BY <1>9, <1>10 DEF TableStep, SendCommand
<1>12. QED
  BY <1>1, <1>4, <1>6, <1>7, <1>8, <1>11, MovesLemma

\* A request that is not answered touches no call.
LEMMA IgnoreRequestStep ==
  ASSUME TypeOK, CallInv, NEW d \in Device, IgnoreRequest(d)
  PROVE  TypeOK' /\ CallStep
<1> DEFINE r == Dequeue(dev[d])
<1>1. r \in DeviceState /\ r.pending = dev[d].pending /\ r.expired = {}
  BY ReadyLemma DEF IgnoreRequest
<1> HIDE DEF r
<1>2. Rest(d, r)
  BY <1>1, BusLemma DEF IgnoreRequest, r
<1>3. QED
  BY <1>1, <1>2, QuietLemma DEF TypeOK, Rest, IgnoreRequest

\* Answering touches no call of the answering device.
LEMMA ProcessRequestFrameStep ==
  ASSUME TypeOK, CallInv, NEW d \in Device, ProcessRequestFrame(d)
  PROVE  TypeOK' /\ CallStep
<1> DEFINE frame == Head(dev[d].queue)
           c == frame.call
           q == Dequeue(dev[d])
<1>1. /\ q \in DeviceState /\ q.pending = dev[d].pending /\ q.expired = {}
      /\ frame \in Job /\ frame.type = "REQUEST"
  BY ReadyLemma DEF ProcessRequestFrame
<1>2. c \in Call /\ frame.id \in TxId
  BY <1>1 DEF Job, TimeoutJob, ResponseFrame
<1>3. PICK result \in Answers(d, c) :
        /\ answered' = answered \cup {<<c, result>>}
        /\ IF Target[c] = d THEN Send(d, q, Response(c, frame.id, result))
           ELSE Become(d, [q EXCEPT !.sending = Response(c, frame.id, result)])
  BY DEF ProcessRequestFrame
<1>4. result \in Answer
  BY DEF Answers, Answer
<1> DEFINE response == Response(c, frame.id, result)
<1>5. response \in ResponseFrame /\ response \in Job
  BY <1>2, <1>4 DEF Response, ResponseFrame, Job
<1> DEFINE s == [q EXCEPT !.sending = response]
<1>6. s \in DeviceState /\ s.pending = q.pending /\ s.expired = q.expired
  BY <1>1, <1>5 DEF DeviceState
<1> HIDE DEF q, s, response
<1>7. PICK r \in DeviceState : Rest(d, r) /\ r.pending = q.pending /\ r.expired = {}
  <2>1. CASE Target[c] = d
    BY <1>1, <1>3, <1>5, <2>1, BusLemma DEF response
  <2>2. CASE Target[c] # d
    BY <1>1, <1>3, <1>6, <2>2, BusLemma DEF s, response
  <2>3. QED
    BY <2>1, <2>2
<1>8. answered' \in SUBSET (Call \X Answer)
  BY <1>2, <1>3, <1>4 DEF TypeOK
<1>9. TypeOK'
  BY <1>7, <1>8 DEF TypeOK, Rest, ProcessRequestFrame
<1>10. QED
  BY <1>1, <1>7, <1>9, QuietLemma DEF ProcessRequestFrame

\* Nor does sending the answer after its stagger sleep.
LEMMA SendCommandResponseStep ==
  ASSUME TypeOK, CallInv, NEW d \in Device, SendCommandResponse(d)
  PROVE  TypeOK' /\ CallStep
<1> DEFINE r == [dev[d] EXCEPT !.sending = Silent]
<1>1. /\ r \in DeviceState
      /\ r.pending = dev[d].pending
      /\ r.expired = dev[d].expired
      /\ dev[d].sending \in Job
  BY ReadyLemma DEF DeviceState, Job, SendCommandResponse
<1> HIDE DEF r
<1>2. Rest(d, r)
  BY <1>1, BusLemma DEF SendCommandResponse, r
<1>3. r.expired \subseteq Pending(dev[d])
  BY <1>1 DEF CallInv, ExpiredArePending
<1>4. QED
  BY <1>1, <1>2, <1>3, QuietLemma DEF TypeOK, Rest, SendCommandResponse

\* The timer only queues the timeout job.
LEMMA TimerDueStep ==
  ASSUME TypeOK, CallInv, NEW d \in Device, TimerDue(d)
  PROVE  TypeOK' /\ CallStep
<1> DEFINE t == [dev[d] EXCEPT !.armed = FALSE]
           r == Enqueue(t, TimeoutJob)
<1>1. t \in DeviceState /\ t.pending = dev[d].pending /\ t.expired = dev[d].expired
  <2>1. dev[d] \in DeviceState
    BY ReadyLemma
  <2>2. QED
    BY <2>1 DEF DeviceState
<1>2. TimeoutJob \in Job
  BY DEF Job
<1> HIDE DEF t
<1>3. r \in DeviceState /\ r.pending = dev[d].pending /\ r.expired = dev[d].expired
  BY <1>1, <1>2, QueueLemma
<1> HIDE DEF r
<1>4. Rest(d, r)
  BY <1>3, BusLemma DEF TimerDue, r, t
<1>5. r.expired \subseteq Pending(dev[d])
  BY <1>3 DEF CallInv, ExpiredArePending
<1>6. QED
  BY <1>3, <1>4, <1>5, QuietLemma DEF TypeOK, Rest, TimerDue

\* The timeout job collects filed IDs only.
LEMMA CleanupStep ==
  ASSUME TypeOK, CallInv, NEW d \in Device, CleanupExpiredTransactions(d)
  PROVE  TypeOK' /\ CallStep
<1> DEFINE q == Dequeue(dev[d])
<1>1. q \in DeviceState /\ q.pending = dev[d].pending /\ q.expired = {}
  BY ReadyLemma DEF CleanupExpiredTransactions
<1> DEFINE t(S) == [q EXCEPT !.expired = S,
                             !.age = [id \in TxId |->
                                        IF id \in Pending(dev[d]) \ S
                                        THEN dev[d].age[id] + 1 ELSE 0]]
<1>2. q.age = dev[d].age
  BY ReadyLemma DEF Dequeue, DeviceState
<1>3. PICK S \in Expirable(dev[d]) : Become(d, CleanedUp(t(S)))
  BY <1>2 DEF CleanupExpiredTransactions
<1>4. S \subseteq Pending(dev[d])
  BY DEF Expirable
<1>5. \A id \in Pending(dev[d]) \ S : dev[d].age[id] + 1 \in 0 .. 2
  <2> SUFFICES ASSUME NEW id \in Pending(dev[d]) \ S PROVE dev[d].age[id] + 1 \in 0 .. 2
    OBVIOUS
  <2>1. dev[d].age[id] < 2
    BY DEF Expirable
  <2>2. dev[d].age[id] \in 0 .. 2
    BY ReadyLemma DEF DeviceState
  <2>3. QED
    BY <2>1, <2>2
<1>6. [id \in TxId |-> IF id \in Pending(dev[d]) \ S THEN dev[d].age[id] + 1 ELSE 0]
        \in [TxId -> 0 .. 2]
  BY <1>5
<1>7. t(S) \in DeviceState /\ t(S).pending = dev[d].pending /\ t(S).expired = S
  BY <1>1, <1>4, <1>6, ReadyLemma DEF DeviceState
<1> HIDE DEF t
<1> DEFINE r == CleanedUp(t(S))
<1>8. r \in DeviceState /\ r.pending = dev[d].pending /\ r.expired = S
  BY <1>7, HelperLemma
<1> HIDE DEF r
<1>9. Rest(d, r)
  BY <1>3, <1>8, BusLemma DEF r
<1>10. QED
  BY <1>4, <1>8, <1>9, QuietLemma DEF TypeOK, Rest, CleanupExpiredTransactions

\* A response ends the call filed under its ID, if any.
LEMMA ProcessResponseFrameStep ==
  ASSUME TypeOK, CallInv, NEW d \in Device, ProcessResponseFrame(d)
  PROVE  TypeOK' /\ CallStep
<1> DEFINE frame == Head(dev[d].queue)
           c == dev[d].pending[frame.id]
           q == Dequeue(dev[d])
           r == Erase(q, frame.id)
<1>1. /\ q \in DeviceState /\ q.pending = dev[d].pending /\ q.expired = {}
      /\ frame \in Job /\ frame.type = "RESPONSE"
  BY ReadyLemma DEF ProcessResponseFrame
<1>2. frame.id \in TxId /\ frame.result \in Result
  BY <1>1 DEF Job, TimeoutJob, ResponseFrame, Result
<1>3. c \in Call \cup {NoCall}
  BY <1>2, ReadyLemma DEF DeviceState
<1>4. /\ r \in DeviceState
      /\ r.pending = [dev[d].pending EXCEPT ![frame.id] = NoCall]
      /\ r.expired = {}
  <2>1. r \in DeviceState
    BY <1>1, <1>2, HelperLemma
  <2>2. QED
    BY <1>1, <2>1 DEF Erase, DeviceState
<1> HIDE DEF r, q
<1>5. Rest(d, r)
  BY <1>4, BusLemma DEF ProcessResponseFrame, r, q
<1>6. \A b \in Call : results'[b] = IF \E id \in {frame.id} : dev[d].pending[id] = b
                                    THEN Append(results[b], frame.result)
                                    ELSE results[b]
  <2>1. CASE c = NoCall
    BY <2>1, CallAssumption DEF ProcessResponseFrame
  <2>2. CASE c # NoCall
    BY <1>3, <2>2 DEF ProcessResponseFrame, CallBack, TypeOK
  <2>3. QED
    BY <2>1, <2>2
<1>7. results' \in [Call -> Seq(Result)]
  <2>1. CASE c = NoCall
    BY <2>1 DEF ProcessResponseFrame, TypeOK
  <2>2. CASE c # NoCall
    <3>1. Append(results[c], frame.result) \in Seq(Result)
      BY <1>2, <1>3, <2>2 DEF TypeOK
    <3>2. QED
      BY <1>3, <2>2, <3>1 DEF ProcessResponseFrame, CallBack, TypeOK
  <2>3. QED
    BY <2>1, <2>2
<1>8. TypeOK'
  BY <1>5, <1>7 DEF TypeOK, Rest, ProcessResponseFrame
<1>9. \A id \in TxId : \/ r.pending[id] = dev[d].pending[id] /\ id \notin {frame.id}
                       \/ r.pending[id] = NoCall
  BY <1>2, <1>4, ReadyLemma DEF DeviceState
<1>10. TableStep(d, r, {frame.id}, frame.id, {}, frame.result)
  BY <1>4, <1>6, <1>9 DEF TableStep, ProcessResponseFrame
<1>11. QED
  BY <1>2, <1>4, <1>5, <1>8, <1>10, MovesLemma

\* A timeout ends the call it is about and may file its retry.
LEMMA ExpireStep ==
  ASSUME TypeOK, CallInv, NEW d \in Device, NEW id \in TxId, Expire(d, id)
  PROVE  TypeOK' /\ CallStep
<1> DEFINE r == dev[d]
           c == r.pending[id]
           Done(s) == CleanedUp([Erase(s, id) EXCEPT !.expired = @ \ {id}])
<1>1. r \in DeviceState /\ r.next \in TxId /\ c \in Call /\ id \in r.expired
  <2>1. r \in DeviceState
    BY ReadyLemma
  <2>2. id \in r.expired /\ c # NoCall
    BY DEF Expire
  <2>3. QED
    BY <2>1, <2>2 DEF DeviceState
<1>2. r.expired \subseteq Pending(r) /\ "TIMEOUT" \in Result
  BY DEF CallInv, ExpiredArePending, Result
<1>3. /\ results' = [results EXCEPT ![c] = Append(results[c], "TIMEOUT")]
      /\ UNCHANGED <<answered, changes>>
  BY DEF Expire, CallBack
<1>4. results' \in [Call -> Seq(Result)]
  <2>1. Append(results[c], "TIMEOUT") \in Seq(Result)
    BY <1>1, <1>2 DEF TypeOK
  <2>2. QED
    BY <1>1, <1>3, <2>1 DEF TypeOK
<1>5. \A b \in Call : results'[b] = IF \E i \in {id} : dev[d].pending[i] = b
                                    THEN Append(results[b], "TIMEOUT")
                                    ELSE results[b]
  BY <1>1, <1>3 DEF TypeOK
<1>6. ASSUME NEW s \in DeviceState, s.expired = r.expired
      PROVE  /\ Done(s) \in DeviceState
             /\ Done(s).pending = [s.pending EXCEPT ![id] = NoCall]
             /\ Done(s).expired = r.expired \ {id}
  <2>1. Erase(s, id) \in DeviceState
    BY HelperLemma
  <2>2. Erase(s, id).pending = [s.pending EXCEPT ![id] = NoCall]
    BY DEF Erase, DeviceState
  <2>3. Erase(s, id).expired = r.expired
    BY <1>6 DEF Erase, DeviceState
  <2> DEFINE e == Erase(s, id)
             t == [e EXCEPT !.expired = e.expired \ {id}]
  <2> HIDE DEF e
  <2>4. /\ t \in DeviceState
        /\ t.pending = e.pending
        /\ t.expired = r.expired \ {id}
    BY <2>1, <2>3 DEF DeviceState, e
  <2>5. Done(s) = CleanedUp(t)
    BY DEF e
  <2> HIDE DEF t, Done
  <2>6. QED
    BY <2>2, <2>4, <2>5, HelperLemma DEF e
<1>7. CASE UNCHANGED made /\ Become(d, Done(r))
  <2> DEFINE t == Done(r)
  <2>1. /\ t \in DeviceState
        /\ t.pending = [r.pending EXCEPT ![id] = NoCall]
        /\ t.expired = r.expired \ {id}
    BY <1>1, <1>6
  <2> HIDE DEF t
  <2>2. Rest(d, t)
    BY <1>7, <2>1, BusLemma DEF t
  <2>3. \A i \in TxId : \/ t.pending[i] = dev[d].pending[i] /\ i \notin {id}
                        \/ t.pending[i] = NoCall
    BY <1>1, <2>1 DEF DeviceState
  <2>4. t.expired \subseteq Pending(t)
    BY <1>1, <1>2, <2>1 DEF Pending, DeviceState
  <2>5. TableStep(d, t, {id}, id, {}, "TIMEOUT")
    BY <1>5, <1>7, <2>3, <2>4 DEF TableStep
  <2>6. TypeOK'
    BY <1>3, <1>4, <1>7, <2>2 DEF TypeOK, Rest
  <2>7. QED
    BY <1>2, <2>1, <2>2, <2>5, <2>6, MovesLemma
<1>8. ASSUME Retry[c] # NoCall, Retry[c] \notin made, made' = made \cup {Retry[c]},
             NEW next \in NextTransactionId(r),
             Send(d, Done(StartTransaction(r, Retry[c], next)),
                  Request(Retry[c], r.next))
      PROVE  TypeOK' /\ CallStep
  <2> DEFINE b == Retry[c]
             s == StartTransaction(r, b, next)
             t == Done(s)
  <2>1. b \in Call /\ From[b] = d
    <3>1. b \in Call /\ From[b] = From[c]
      BY <1>1, <1>8, RetryAssumption
    <3>2. From[c] = d
      BY <1>1, <1>2 DEF CallInv, FiledOnce
    <3>3. QED
      BY <3>1, <3>2
  <2>2. /\ s \in DeviceState
        /\ s.pending = [r.pending EXCEPT ![r.next] = b]
        /\ s.expired = r.expired
    <3>1. s \in DeviceState
      BY <1>1, <1>8, <2>1, HelperLemma
    <3>2. s = [r EXCEPT !.next = next, !.pending[r.next] = b, !.age[r.next] = 0]
      BY DEF StartTransaction
    <3> HIDE DEF s, b
    <3>3. QED
      BY <1>1, <3>1, <3>2 DEF DeviceState
  <2>3. Request(b, r.next) \in Job
    BY <1>1, <2>1 DEF Request, Job
  <2> HIDE DEF s, b
  <2>4. /\ t \in DeviceState
        /\ t.pending = [s.pending EXCEPT ![id] = NoCall]
        /\ t.expired = r.expired \ {id}
    BY <1>6, <2>2
  <2>5. Send(d, t, Request(b, r.next))
    BY <1>8 DEF s, b
  <2> HIDE DEF t, Done
  <2>6. Rest(d, t)
    BY <2>3, <2>4, <2>5, BusLemma
  <2>7. b # NoCall
    BY <2>1, CallAssumption
  <2>8. \A i \in TxId : \/ t.pending[i] = dev[d].pending[i] /\ i \notin {id}
                        \/ t.pending[i] = NoCall
                        \/ i = r.next /\ t.pending[i] \in {b}
    BY <1>1, <2>2, <2>4 DEF DeviceState
  <2>9. t.expired \subseteq Pending(t)
    BY <1>1, <1>2, <2>2, <2>4, <2>7 DEF Pending, DeviceState
  <2>10. made' = made \cup {b} /\ {b} \cap made = {}
    BY <1>8 DEF b
  <2>11. TableStep(d, t, {id}, r.next, {b}, "TIMEOUT")
    BY <1>5, <2>1, <2>8, <2>9, <2>10 DEF TableStep
  <2>12. TypeOK'
    BY <1>3, <1>4, <2>1, <2>6, <2>10 DEF TypeOK, Rest
  <2>13. QED
    BY <1>1, <1>2, <2>1, <2>4, <2>6, <2>11, <2>12, MovesLemma
<1>9. QED
  BY <1>7, <1>8 DEF Expire

\* A status change ends the calls it cancels, each once.
LEMMA SetStatusStep ==
  ASSUME TypeOK, CallInv, NEW d \in Device, NEW status \in Status,
         SetStatus(d, status)
  PROVE  TypeOK' /\ CallStep
<1> DEFINE r == dev[d]
<1>1. /\ r \in DeviceState /\ r.expired = {} /\ Pending(r) \subseteq TxId
      /\ made' = made /\ answered' = answered
  BY ReadyLemma DEF SetStatus, Free
<1>2. changes' \in 0 .. MaxChanges
  BY BoundAssumption DEF SetStatus, TypeOK
<1>3. CASE status = "ONLINE"
  <2> DEFINE s == [r EXCEPT !.status = status]
             t == IF s.running THEN s ELSE Started(s)
  <2>1. s \in DeviceState /\ s.pending = r.pending /\ s.expired = {}
    BY <1>1 DEF DeviceState
  <2>2. t \in DeviceState /\ t.pending = r.pending /\ t.expired = {}
    <3>1. Started(s) \in DeviceState
      BY <2>1, HelperLemma
    <3>2. Started(s).pending = s.pending /\ Started(s).expired = s.expired
      BY <2>1 DEF Started, Enqueue, DeviceState
    <3>3. QED
      BY <2>1, <3>1, <3>2
  <2>3. Become(d, t) /\ UNCHANGED results
    BY <1>3 DEF SetStatus, OnDeviceStatusChanged
  <2> HIDE DEF t
  <2>4. Rest(d, t)
    BY <2>2, <2>3, BusLemma
  <2>5. QED
    BY <1>1, <1>2, <2>2, <2>3, <2>4, QuietLemma DEF TypeOK, Rest
<1>4. CASE status # "ONLINE"
  <2>1. PICK cancelled \in SUBSET Pending(r), halted \in BOOLEAN :
          /\ results' = [c \in Call |->
                           IF \E id \in cancelled : r.pending[id] = c
                           THEN Append(results[c], "CANCELLED") ELSE results[c]]
          /\ Become(d, [Stopped(r, cancelled) EXCEPT !.status = status,
                                                     !.halted = halted])
    BY <1>4 DEF SetStatus, OnDeviceStatusChanged, StopTransactions
  <2> DEFINE s == Stopped(r, cancelled)
             t == [s EXCEPT !.status = status, !.halted = halted]
  <2>2. cancelled \in SUBSET TxId
    BY <1>1, <2>1
  <2>3. /\ s \in DeviceState
        /\ s.pending = [id \in TxId |-> IF id \in cancelled THEN NoCall
                                        ELSE r.pending[id]]
        /\ s.expired = {}
    <3>1. s \in DeviceState
      BY <1>1, <2>2, HelperLemma
    <3>2. QED
      BY <1>1, <3>1 DEF Stopped, DeviceState
  <2> HIDE DEF s
  <2>4. t \in DeviceState /\ t.pending = s.pending /\ t.expired = {}
    BY <2>3 DEF DeviceState
  <2> HIDE DEF t
  <2>5. Rest(d, t)
    BY <2>1, <2>4, BusLemma DEF t, s
  <2>6. "CANCELLED" \in Result /\ 1 \in TxId
    BY BoundAssumption DEF Result, TxId
  <2>7. results' \in [Call -> Seq(Result)]
    <3>1. \A c \in Call : /\ results[c] \in Seq(Result)
                          /\ Append(results[c], "CANCELLED") \in Seq(Result)
      BY <2>6 DEF TypeOK
    <3>2. QED
      BY <2>1, <3>1
  <2>8. TypeOK'
    BY <1>1, <1>2, <2>5, <2>7 DEF TypeOK, Rest
  <2>9. \A id \in TxId : \/ t.pending[id] = dev[d].pending[id] /\ id \notin cancelled
                         \/ t.pending[id] = NoCall
    BY <2>3, <2>4
  <2>10. TableStep(d, t, cancelled, 1, {}, "CANCELLED")
    BY <1>1, <2>1, <2>4, <2>9 DEF TableStep
  <2>11. QED
    BY <2>2, <2>4, <2>5, <2>6, <2>8, <2>10, MovesLemma
<1>5. QED
  BY <1>3, <1>4

(***************************************************************************)
(* The theorems.                                                           *)
(***************************************************************************)
\* The invariant holds and no call is made when the devices start.
LEMMA InitLemma == Init => TypeOK /\ CallInv /\ Calls!Init
<1> SUFFICES ASSUME Init PROVE TypeOK /\ CallInv /\ Calls!Init
  OBVIOUS
<1>1. ASSUME NEW status \in Status
      PROVE  /\ InitialState(status) \in DeviceState
             /\ Pending(InitialState(status)) = {}
             /\ InitialState(status).expired = {}
  <2> DEFINE r == [status |-> status, pending |-> [id \in TxId |-> NoCall],
                   age |-> [id \in TxId |-> 0], next |-> 1, running |-> FALSE,
                   armed |-> FALSE, expired |-> {}, sending |-> Silent,
                   halted |-> FALSE, queue |-> <<>>]
  <2>1. 1 \in TxId /\ <<>> \in Seq(Job)
    BY BoundAssumption DEF TxId
  <2>2. r \in DeviceState
    BY <2>1 DEF DeviceState
  <2>3. /\ Started(r) \in DeviceState
        /\ Started(r).pending = r.pending /\ Started(r).expired = r.expired
    BY <2>2, HelperLemma DEF Started, Enqueue
  <2>4. QED
    BY <2>2, <2>3 DEF InitialState, Pending
<1>2. \A d \in Device : /\ dev[d] \in DeviceState /\ Pending(dev[d]) = {}
                        /\ dev[d].expired = {}
  BY <1>1, CallAssumption DEF Init
<1>3. TypeOK
  <2>1. dev \in [Device -> DeviceState]
    BY <1>2 DEF Init
  <2>2. results \in [Call -> Seq(Result)]
    BY DEF Init
  <2>3. QED
    BY <2>1, <2>2, BoundAssumption DEF Init, TypeOK
<1>4. CallInv
  <2>1. \A c \in Call : results[c] = <<>> /\ Len(results[c]) <= 1
    BY DEF Init
  <2>2. QED
    BY <1>2, <2>1 DEF CallInv, FiledOnce, ExpiredArePending, AtMostOneResult
<1>5. Calls!Init
  BY DEF Init, Calls!Init, Outcome
<1>6. QED
  BY <1>3, <1>4, <1>5

\* Every step preserves types and invariant and is a step of the abstract calls.
LEMMA NextLemma ==
  TypeOK /\ CallInv /\ [Next]_vars =>
    TypeOK' /\ CallInv' /\ [Calls!Next]_([c \in Call |-> Outcome(c)])
<1> SUFFICES ASSUME TypeOK, CallInv, [Next]_vars
             PROVE  /\ TypeOK' /\ CallInv'
                    /\ [Calls!Next]_([c \in Call |-> Outcome(c)])
  OBVIOUS
<1>1. CASE UNCHANGED vars
  <2>1. TypeOK'
    BY <1>1 DEF TypeOK, vars
  <2>2. CallInv'
    BY <1>1 DEF CallInv, FiledOnce, ExpiredArePending, AtMostOneResult, Pending, vars
  <2>3. \A c \in Call : Outcome(c)' = Outcome(c)
    BY <1>1 DEF Outcome, Registered, vars
  <2>4. QED
    BY <2>1, <2>2, <2>3
<1>2. CASE Next
  <2>1. PICK d \in Device : \/ \E c \in Call : SendCommand(d, c)
                            \/ WorkQueueStep(d)
                            \/ TimerDue(d)
                            \/ \E status \in Status : SetStatus(d, status)
    BY <1>2 DEF Next
  <2>2. TypeOK' /\ CallStep
    <3>1. CASE \E c \in Call : SendCommand(d, c)
      BY <3>1, SendCommandStep
    <3>2. CASE WorkQueueStep(d)
      BY <3>2, IgnoreRequestStep, ProcessRequestFrameStep, SendCommandResponseStep,
         ProcessResponseFrameStep, CleanupStep, ExpireStep DEF WorkQueueStep
    <3>3. CASE TimerDue(d)
      BY <3>3, TimerDueStep
    <3>4. CASE \E status \in Status : SetStatus(d, status)
      BY <3>4, SetStatusStep
    <3>5. QED
      BY <2>1, <3>1, <3>2, <3>3, <3>4
  <2>3. CallInv'
    BY <2>2, CallInvStep
  <2>4. QED
    BY <2>2, <2>3, CallsStep
<1>3. QED
  BY <1>1, <1>2

\* Whatever the application calls, the bus loses and the status does, the
\* state stays in its types: transaction IDs between 1 and MaxTx in the
\* table, in the list of the timeout job and in every frame.
THEOREM TypeCorrect == Spec => []TypeOK
<1>1. Init => TypeOK /\ CallInv
  BY InitLemma
<1>2. (TypeOK /\ CallInv) /\ [Next]_vars => (TypeOK /\ CallInv)'
  BY NextLemma
<1>3. QED
  BY <1>1, <1>2, PTL DEF Spec

\* FiledOnce, ExpiredArePending and AtMostOneResult always hold: a callback
\* is called at most once, a filed call is an open one of its own device, and
\* the timeout job's lookups never miss.
THEOREM CallsSound == Spec => []CallInv
<1>1. Init => TypeOK /\ CallInv
  BY InitLemma
<1>2. (TypeOK /\ CallInv) /\ [Next]_vars => (TypeOK /\ CallInv)'
  BY NextLemma
<1>3. QED
  BY <1>1, <1>2, PTL DEF Spec

\* The command service implements CommandCalls: once a call has ended or is
\* lost, no answer, timeout, retry or status change alters its outcome.
THEOREM Refinement == Spec => CallsImplemented
<1>1. Init => TypeOK /\ CallInv /\ Calls!Init
  BY InitLemma
<1>2. (TypeOK /\ CallInv) /\ [Next]_vars =>
        (TypeOK /\ CallInv)' /\ [Calls!Next]_([c \in Call |-> Outcome(c)])
  BY NextLemma
<1>3. QED
  BY <1>1, <1>2, PTL DEF Spec, CallsImplemented, Calls!Spec
=============================================================================
