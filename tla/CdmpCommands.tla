---------------------------- MODULE CdmpCommands ----------------------------
(***************************************************************************)
(* Commands between devices: CdmpCommandService answers requests and       *)
(* CdmpTransactionService keeps the calls that wait for an answer          *)
(* (subsys/cdmp/services/cdmp_command_service.cpp,                         *)
(* command_service/cdmp_transaction_service.cpp).                          *)
(*                                                                         *)
(* A call is one use of SendCommand.  Its callback ends it, with the       *)
(* answer of a device, with TIMEOUT or with CANCELLED.  Frames, timeouts   *)
(* and status callbacks run as jobs of the one work queue of the device,   *)
(* SendCommand on the application's threads between any two of their       *)
(* steps.                                                                  *)
(***************************************************************************)
EXTENDS Naturals, Sequences, FiniteSets, CdmpStatus

CONSTANTS
  Device,             \* the devices wired to the bus
  Call,               \* the calls their applications may make
  From,               \* From[c]: the device that makes call c
  Target,             \* Target[c]: the device it is for, or Broadcast
  Code,               \* Code[c]: the kind of command code it carries
  Handles,            \* Handles[d]: the codes d has a handler for
  Retry,              \* Retry[c]: the call c's callback makes at a timeout
  PowerOnStatus,      \* PowerOnStatus[d]: the status d has at first
  MaxTx,              \* the largest transaction ID (255)
  Broadcast, NoCall,  \* model values
  MaxLosses,          \* bound: sends that may miss some receivers
  MaxChanges          \* bound: status changes

TxId == 1 .. MaxTx    \* next_transaction_id_ wraps from 255 to 1
Codes == {"STATUS_REQUEST", "OTHER_SERVICE", "USER", "INVALID"}

ASSUME CallAssumption ==
  /\ Broadcast \notin Device
  /\ NoCall \notin Call
  /\ From \in [Call -> Device]
  /\ Target \in [Call -> Device \cup {Broadcast}]
  /\ Code \in [Call -> Codes]
  /\ Handles \in [Device -> SUBSET Codes]
  /\ PowerOnStatus \in [Device -> Status]
ASSUME RetryAssumption ==
  /\ Retry \in [Call -> Call \cup {NoCall}]
  /\ \A c \in Call : Retry[c] # NoCall => From[Retry[c]] = From[c]
  /\ \A b, c \in Call : Retry[b] = Retry[c] /\ Retry[b] # NoCall => b = c
ASSUME BoundAssumption ==
  /\ MaxTx \in Nat \ {0}
  /\ MaxLosses \in Nat
  /\ MaxChanges \in Nat

VARIABLES
  dev,                \* dev[d]: what device d keeps in RAM
  made,               \* the calls made so far
  results,            \* results[c]: what c's callback was given, in order
  answered,           \* <<c, result>>: some device answered c with result
  losses, changes     \* the bounded counters

vars == <<dev, made, results, answered, losses, changes>>

Answer == {"SUCCESS", "FAILURE", "UNSUPPORTED_COMMAND"}
Result == Answer \cup {"TIMEOUT", "CANCELLED"}

\* A frame names the call it belongs to: its target and its code follow from
\* it.  The receiver of a response looks at the transaction ID and the result.
Request(c, id) == [type |-> "REQUEST", call |-> c, id |-> id]
Response(c, id, result) ==
  [type |-> "RESPONSE", call |-> c, id |-> id, result |-> result]
TimeoutJob == [type |-> "TIMEOUTS"]
ResponseFrame ==
  [type : {"RESPONSE"}, call : Call, id : TxId, result : Answer]
Job ==
  [type : {"REQUEST"}, call : Call, id : TxId] \cup ResponseFrame \cup {TimeoutJob}
Silent == [type |-> "none"]

DeviceState ==
  [status : Status,
   pending : [TxId -> Call \cup {NoCall}],  \* pending_transactions_
   age : [TxId -> 0 .. 2],                  \* timeout runs survived
   next : TxId,                             \* next_transaction_id_
   running : BOOLEAN,                       \* is_timeout_task_running_
   armed : BOOLEAN,                         \* the timeout delay is running
   expired : SUBSET TxId,                   \* expired_transactions not done
   sending : ResponseFrame \cup {Silent},   \* response in its stagger sleep
   halted : BOOLEAN,                        \* crashed or looping forever
   queue : Seq(Job)]

Pending(r) == {id \in TxId : r.pending[id] # NoCall}
Enqueue(r, job) == [r EXCEPT !.queue = Append(@, job)]
Dequeue(r) == [r EXCEPT !.queue = Tail(@)]
Erase(r, id) == [r EXCEPT !.pending[id] = NoCall, !.age[id] = 0]
Started(r) == Enqueue([r EXCEPT !.running = TRUE], TimeoutJob)
-----------------------------------------------------------------------------
(***************************************************************************)
(* The bus and the work queue.                                             *)
(***************************************************************************)
Send(d, r, frame) ==
  \E missed \in SUBSET (Device \ {d}) :
    /\ missed # {} => losses < MaxLosses
    /\ losses' = IF missed = {} THEN losses ELSE losses + 1
    /\ dev' = [e \in Device |-> IF e = d THEN r
                                ELSE IF e \in missed THEN dev[e]
                                ELSE Enqueue(dev[e], frame)]

Become(d, r) == dev' = [dev EXCEPT ![d] = r] /\ UNCHANGED losses

\* No job of d is half done.
Free(d) == ~dev[d].halted /\ dev[d].sending = Silent /\ dev[d].expired = {}

\* Mutant: other jobs run between the callbacks of the timeout job.
ReadyInBetween(d, type) ==
  /\ ~dev[d].halted /\ dev[d].sending = Silent
  /\ dev[d].queue # <<>>
  /\ Head(dev[d].queue).type = type

Ready(d, type) ==
  /\ Free(d)
  /\ dev[d].queue # <<>>
  /\ Head(dev[d].queue).type = type

\* The callback of c is called.
CallBack(c, result) == results' = [results EXCEPT ![c] = Append(@, result)]
-----------------------------------------------------------------------------
(***************************************************************************)
(* Making a call.                                                          *)
(***************************************************************************)
Distance(id, other) == (other + MaxTx - id) % MaxTx

\* Mutant: the ID does not advance.
SameTransactionId(r) == {r.next}

\* The one ID to hand out after this one: the first that is not in use, and
\* this one again if all the others are.
NextTransactionId(r) ==
  LET Unused == {id \in TxId \ {r.next} : r.pending[id] = NoCall}
  IN  IF Unused = {} THEN {r.next}
      ELSE {id \in Unused :
              \A i \in Unused : Distance(r.next, id) <= Distance(r.next, i)}

\* What is filed under the ID handed out is replaced.
StartTransaction(r, c, next) ==
  [r EXCEPT !.next = next, !.pending[r.next] = c, !.age[r.next] = 0]

SendCommand(d, c) ==
  /\ From[c] = d
  /\ c \notin made
  /\ \A b \in Call : Retry[b] # c
  /\ ~dev[d].halted
  /\ made' = made \cup {c}
  /\ \E next \in NextTransactionId(dev[d]) :
       Send(d, StartTransaction(dev[d], c, next), Request(c, dev[d].next))
  /\ UNCHANGED <<results, answered, changes>>
-----------------------------------------------------------------------------
(***************************************************************************)
(* Answering.                                                              *)
(***************************************************************************)
\* A device that is not online may hold no device ID to be addressed by.
IsFor(d, c) == Target[c] \in {d, Broadcast}
MayIgnore(d, c) == ~IsFor(d, c) \/ (Target[c] = d /\ dev[d].status # "ONLINE")

\* The results d may answer c with; none if it does not answer at all.
Answers(d, c) ==
  CASE Code[c] = "STATUS_REQUEST" -> {"SUCCESS"}
    [] Code[c] = "USER" /\ dev[d].status = "ONLINE" /\ "USER" \in Handles[d] ->
         {"SUCCESS", "FAILURE"}
    [] Code[c] = "USER" /\ dev[d].status = "ONLINE" /\ "USER" \notin Handles[d]
         /\ Target[c] = d -> {"UNSUPPORTED_COMMAND"}
    [] OTHER -> {}

IgnoreRequest(d) ==
  /\ Ready(d, "REQUEST")
  /\ LET c == Head(dev[d].queue).call
     IN  MayIgnore(d, c) \/ Answers(d, c) = {}
  /\ Become(d, Dequeue(dev[d]))
  /\ UNCHANGED <<made, results, answered, changes>>

\* The answer to a broadcast sleeps for its stagger delay first.
ProcessRequestFrame(d) ==
  /\ Ready(d, "REQUEST")
  /\ LET frame == Head(dev[d].queue)
         c == frame.call
         r == Dequeue(dev[d])
     IN  /\ IsFor(d, c)
         /\ \E result \in Answers(d, c) :
              LET response == Response(c, frame.id, result)
              IN  /\ answered' = answered \cup {<<c, result>>}
                  /\ IF Target[c] = d THEN Send(d, r, response)
                     ELSE Become(d, [r EXCEPT !.sending = response])
  /\ UNCHANGED <<made, results, changes>>

SendCommandResponse(d) ==
  /\ ~dev[d].halted
  /\ dev[d].sending # Silent
  /\ Send(d, [dev[d] EXCEPT !.sending = Silent], dev[d].sending)
  /\ UNCHANGED <<made, results, answered, changes>>
-----------------------------------------------------------------------------
(***************************************************************************)
(* Ending a call: by an answer, by the timeout job, by a status change.    *)
(***************************************************************************)
\* Mutant: the callback is called and the transaction kept.
CompleteOnly(d) ==
  /\ Ready(d, "RESPONSE")
  /\ LET frame == Head(dev[d].queue)
         c == dev[d].pending[frame.id]
     IN  /\ Become(d, Dequeue(dev[d]))
         /\ IF c = NoCall THEN UNCHANGED results ELSE CallBack(c, frame.result)
  /\ UNCHANGED <<made, answered, changes>>

\* Mutant: the transaction is dropped and the callback not called.
CompleteSilently(d) ==
  /\ Ready(d, "RESPONSE")
  /\ Become(d, Erase(Dequeue(dev[d]), Head(dev[d].queue).id))
  /\ UNCHANGED <<made, results, answered, changes>>

\* The response completes whatever is filed under its transaction ID.
ProcessResponseFrame(d) ==
  /\ Ready(d, "RESPONSE")
  /\ LET frame == Head(dev[d].queue)
         c == dev[d].pending[frame.id]
     IN  /\ Become(d, Erase(Dequeue(dev[d]), frame.id))
         /\ IF c = NoCall THEN UNCHANGED results ELSE CallBack(c, frame.result)
  /\ UNCHANGED <<made, answered, changes>>

\* Mutant: the job is not rescheduled.
CleanedUpOnce(r) == r
CleanedUp(r) == IF r.expired = {} THEN [r EXCEPT !.armed = r.running] ELSE r

\* The period is half the timeout: the third run after a call finds it
\* expired, an earlier one may when it is late.
Expirable(r) == {S \in SUBSET Pending(r) : \A id \in Pending(r) \ S : r.age[id] < 2}

CleanupExpiredTransactions(d) ==
  /\ Ready(d, "TIMEOUTS")
  /\ \E expired \in Expirable(dev[d]) :
       Become(d, CleanedUp(
         [Dequeue(dev[d]) EXCEPT
            !.expired = expired,
            !.age = [id \in TxId |-> IF id \in Pending(dev[d]) \ expired
                                     THEN @[id] + 1 ELSE 0]]))
  /\ UNCHANGED <<made, results, answered, changes>>

\* One turn of its second loop: the callback, which may retry, then erase.
Expire(d, id) ==
  LET r == dev[d]
      c == r.pending[id]
      Done(s) == CleanedUp([Erase(s, id) EXCEPT !.expired = @ \ {id}])
  IN  /\ ~r.halted /\ id \in r.expired /\ c # NoCall
      /\ CallBack(c, "TIMEOUT")
      /\ \/ /\ Become(d, Done(r))
            /\ UNCHANGED made
         \/ /\ Retry[c] # NoCall
            /\ Retry[c] \notin made
            /\ made' = made \cup {Retry[c]}
            /\ \E next \in NextTransactionId(r) :
                 Send(d, Done(StartTransaction(r, Retry[c], next)),
                      Request(Retry[c], r.next))
      /\ UNCHANGED <<answered, changes>>

TimerDue(d) ==
  /\ dev[d].armed /\ ~dev[d].halted
  /\ Become(d, Enqueue([dev[d] EXCEPT !.armed = FALSE], TimeoutJob))
  /\ UNCHANGED <<made, results, answered, changes>>

\* The cancelled task leaves the queue; a work item is queued at most once.
WithoutTimeouts(queue) ==
  LET Queued == {k \in DOMAIN queue : queue[k] = TimeoutJob}
  IN  IF Queued = {} THEN queue
      ELSE LET k == CHOOSE k \in Queued : TRUE
           IN  SubSeq(queue, 1, k - 1) \o SubSeq(queue, k + 1, Len(queue))

\* CdmpTransactionService::Stop after its loop has cancelled these IDs.
Stopped(r, cancelled) ==
  [r EXCEPT !.pending = [id \in TxId |-> IF id \in cancelled THEN NoCall ELSE @[id]],
            !.age = [id \in TxId |-> IF id \in cancelled THEN 0 ELSE @[id]],
            !.running = FALSE,
            !.armed = FALSE,
            !.queue = WithoutTimeouts(@)]

\* The loop erases the entry its iterator stands on: after the first
\* cancellation it may go on, stop early, or never come back.
StopTransactions(d, status) ==
  \E cancelled \in SUBSET Pending(dev[d]), halted \in BOOLEAN :
    /\ cancelled = {} <=> Pending(dev[d]) = {}
    /\ halted => cancelled # {}
    /\ results' = [c \in Call |->
                     IF \E id \in cancelled : dev[d].pending[id] = c
                     THEN Append(results[c], "CANCELLED") ELSE results[c]]
    /\ Become(d, [Stopped(dev[d], cancelled) EXCEPT !.status = status,
                                                    !.halted = halted])

OnDeviceStatusChanged(d, status) ==
  IF status = "ONLINE"
  THEN /\ LET r == [dev[d] EXCEPT !.status = status]
          IN  Become(d, IF r.running THEN r ELSE Started(r))
       /\ UNCHANGED results
  ELSE StopTransactions(d, status)

SetStatus(d, status) ==
  /\ Free(d)
  /\ <<dev[d].status, status>> \in IsValidTransition
  /\ changes < MaxChanges
  /\ changes' = changes + 1
  /\ OnDeviceStatusChanged(d, status)
  /\ UNCHANGED <<made, answered>>
-----------------------------------------------------------------------------
InitialState(status) ==
  LET r == [status |-> status, pending |-> [id \in TxId |-> NoCall],
            age |-> [id \in TxId |-> 0], next |-> 1, running |-> FALSE,
            armed |-> FALSE, expired |-> {}, sending |-> Silent,
            halted |-> FALSE, queue |-> <<>>]
  IN  IF status = "ONLINE" THEN Started(r) ELSE r

Init ==
  /\ dev = [d \in Device |-> InitialState(PowerOnStatus[d])]
  /\ made = {}
  /\ results = [c \in Call |-> <<>>]
  /\ answered = {}
  /\ losses = 0
  /\ changes = 0

WorkQueueStep(d) ==
  \/ IgnoreRequest(d)
  \/ ProcessRequestFrame(d)
  \/ SendCommandResponse(d)
  \/ ProcessResponseFrame(d)
  \/ CleanupExpiredTransactions(d)
  \/ \E id \in TxId : Expire(d, id)

Next ==
  \E d \in Device :
    \/ \E c \in Call : SendCommand(d, c)
    \/ WorkQueueStep(d)
    \/ TimerDue(d)
    \/ \E status \in Status : SetStatus(d, status)

Spec == Init /\ [][Next]_vars

\* Zephyr runs the work queue as long as it has jobs, and its timers expire.
FairSpec ==
  Spec /\ \A d \in Device : WF_vars(WorkQueueStep(d)) /\ WF_vars(TimerDue(d))
-----------------------------------------------------------------------------
(***************************************************************************)
(* Properties.                                                             *)
(***************************************************************************)
TypeOK ==
  /\ dev \in [Device -> DeviceState]
  /\ made \in SUBSET Call
  /\ results \in [Call -> Seq(Result)]
  /\ answered \in SUBSET (Call \X Answer)
  /\ losses \in 0 .. MaxLosses
  /\ changes \in 0 .. MaxChanges

Registered(c) == \E id \in TxId : dev[From[c]].pending[id] = c

\* What became of call c, as CommandCalls tells it.
Outcome(c) ==
  CASE c \notin made -> "none"
    [] c \in made /\ Len(results[c]) = 1 -> results[c][1]
    [] c \in made /\ results[c] = <<>> /\ Registered(c) -> "open"
    [] c \in made /\ results[c] = <<>> /\ ~Registered(c) -> "lost"
    [] OTHER -> "ended twice"

Calls == INSTANCE CommandCalls WITH outcome <- [c \in Call |-> Outcome(c)]

\* A call is made, is open, ends once and never changes again, whatever
\* answers, timeouts, retries and status changes meet: the abstract calls.
CallsImplemented == Calls!Spec

\* No callback is called twice: an answer that comes after the timeout, a
\* second answer to a broadcast or a cancellation finds the call gone.
AtMostOneResult == \A c \in Call : Len(results[c]) <= 1

\* A filed transaction is that of a call its own device made and has not
\* ended, and no call is filed under two IDs.
FiledOnce ==
  \A d \in Device : \A id \in Pending(dev[d]) :
    LET c == dev[d].pending[id]
    IN  /\ c \in made /\ From[c] = d /\ results[c] = <<>>
        /\ \A i \in Pending(dev[d]) : dev[d].pending[i] = c => i = id

\* What the timeout job collected is still there when it comes to it (its
\* lookup with at() never throws), although callbacks make calls meanwhile.
ExpiredArePending == \A d \in Device : dev[d].expired \subseteq Pending(dev[d])

\* The inductive invariant of these safety properties.
CallInv ==
  /\ FiledOnce
  /\ ExpiredArePending
  /\ AtMostOneResult
  /\ \A c \in Call \ made : results[c] = <<>>

\* A call that has not ended is filed, so that something can still end it.
NoCallLost == \A c \in made : results[c] = <<>> => Registered(c)

\* The answer a callback gets is one some device gave to that call.
AnswerIsOwn ==
  \A c \in Call : \A k \in DOMAIN results[c] :
    results[c][k] \in Answer => <<c, results[c][k]>> \in answered

\* As long as some ID is not in use, the one handed out next is not.
NextIsFree ==
  \A d \in Device : Pending(dev[d]) # TxId => dev[d].next \notin Pending(dev[d])

\* The timeout job runs, is queued or is due as long as it is marked running,
\* so that Start, which relies on the mark, never leaves the device without.
TimeoutJobAlive ==
  \A d \in Device :
    LET r == dev[d]
        Queued == {k \in DOMAIN r.queue : r.queue[k] = TimeoutJob}
        Alive == Cardinality(Queued) + (IF r.armed THEN 1 ELSE 0)
                   + (IF r.expired # {} THEN 1 ELSE 0)
    IN  /\ Alive = IF r.running THEN 1 ELSE 0
        /\ r.running <=> r.status = "ONLINE"

\* Leaving the bus cancels every call: none stays open behind a status change.
StopCancelsAll ==
  [][\A d \in Device :
       dev'[d].status # dev[d].status /\ dev'[d].status # "ONLINE"
         => Pending(dev'[d]) = {}]_vars

Open(c) == c \in made /\ results[c] = <<>>

\* A call ends as long as its device stays online: an answer, or the timeout.
CallsEndOnline ==
  \A c \in Call :
    (Open(c) /\ dev[From[c]].status = "ONLINE")
      ~> (~Open(c) \/ dev[From[c]].status # "ONLINE")
=============================================================================
