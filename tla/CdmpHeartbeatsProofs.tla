------------------------ MODULE CdmpHeartbeatsProofs ------------------------
(***************************************************************************)
(* Theorems about CdmpHeartbeats, for every timing that satisfies          *)
(* TimingAssumption and any number of losses and toggles.                  *)
(***************************************************************************)
EXTENDS CdmpHeartbeats, TLAPS

(***************************************************************************)
(* The work queue of one item.                                             *)
(***************************************************************************)
\* The lists of at most one item.
LEMMA OneItem ==
  /\ NoItem # Heartbeat /\ <<>> # <<Heartbeat>>
  /\ ItemsOf(<<>>) = {} /\ ItemsOf(<<Heartbeat>>) = {Heartbeat}
  /\ Append(<<>>, Heartbeat) = <<Heartbeat>>
  /\ Head(<<Heartbeat>>) = Heartbeat /\ Tail(<<Heartbeat>>) = <<>>
  /\ Unlinked(<<>>, Heartbeat) = <<>> /\ Unlinked(<<Heartbeat>>, Heartbeat) = <<>>
<1>1. NoItem # Heartbeat /\ <<>> # <<Heartbeat>>
  BY DEF NoItem, Heartbeat
<1>2. ItemsOf(<<>>) = {} /\ ItemsOf(<<Heartbeat>>) = {Heartbeat}
  BY DEF ItemsOf
<1>3. Append(<<>>, Heartbeat) = <<Heartbeat>>
  OBVIOUS
<1>4. Head(<<Heartbeat>>) = Heartbeat /\ Tail(<<Heartbeat>>) = <<>>
  OBVIOUS
<1>5. Unlinked(<<>>, Heartbeat) = <<>>
  BY <1>2 DEF Unlinked
<1>6. Unlinked(<<Heartbeat>>, Heartbeat) = <<>>
  <2>1. Len(<<Heartbeat>>) = 1 /\ 1..(1 - 1) = {}
    OBVIOUS
  <2>2. Heartbeat \in ItemsOf(<<Heartbeat>>)
    BY <1>2
  <2> QED
    BY <2>1, <2>2 DEF Unlinked
<1> QED
  BY <1>1, <1>2, <1>3, <1>4, <1>5, <1>6

\* What each operation of the queue does to that item.
LEMMA Operations ==
  ASSUME NEW q \in HeartbeatQueue
  PROVE  /\ Busy(q, Heartbeat) <=> \/ q.fifo # <<>> \/ q.running = Heartbeat
                                   \/ q.delayed # {} \/ q.cancelling # {}
         /\ Schedule(q, Heartbeat, FALSE) =
              IF q.fifo = <<>> /\ q.delayed = {} /\ q.cancelling = {}
              THEN [q EXCEPT !.fifo = <<Heartbeat>>] ELSE q
         /\ Cancel(q, Heartbeat) =
              [q EXCEPT !.delayed = {}, !.fifo = <<>>,
                        !.cancelling = IF q.running = Heartbeat THEN {Heartbeat} ELSE @]
         /\ Expire(q, Heartbeat) =
              [q EXCEPT !.delayed = {},
                        !.fifo = IF q.cancelling = {} THEN <<Heartbeat>> ELSE @]
         /\ q.fifo # <<>> =>
              Take(q) = [q EXCEPT !.fifo = <<>>, !.running = Heartbeat]
         /\ q.running = Heartbeat =>
              Retire(q) = [q EXCEPT !.running = NoItem, !.cancelling = {}]
         /\ TaskDone(q, Heartbeat, TRUE) = [q EXCEPT !.delayed = {Heartbeat}]
         /\ TaskDone(q, Heartbeat, FALSE) = q
<1> USE OneItem DEF HeartbeatQueue
<1>1. Busy(q, Heartbeat) <=> \/ q.fifo # <<>> \/ q.running = Heartbeat
                             \/ q.delayed # {} \/ q.cancelling # {}
  BY DEF Busy
<1>2. Schedule(q, Heartbeat, FALSE) =
        IF q.fifo = <<>> /\ q.delayed = {} /\ q.cancelling = {}
        THEN [q EXCEPT !.fifo = <<Heartbeat>>] ELSE q
  BY DEF Schedule, After, Submit
<1>3. Cancel(q, Heartbeat) =
        [q EXCEPT !.delayed = {}, !.fifo = <<>>,
                  !.cancelling = IF q.running = Heartbeat THEN {Heartbeat} ELSE @]
  BY DEF Cancel
<1>4. Expire(q, Heartbeat) =
        [q EXCEPT !.delayed = {},
                  !.fifo = IF q.cancelling = {} THEN <<Heartbeat>> ELSE @]
  <2> DEFINE u == [q EXCEPT !.delayed = {}]
  <2>1. Unscheduled(q, Heartbeat) = u
    BY DEF Unscheduled
  <2>2. u.fifo = q.fifo /\ u.cancelling = q.cancelling
    OBVIOUS
  <2>3. CASE q.cancelling # {} \/ q.fifo # <<>>
    <3>1. Heartbeat \in u.cancelling \cup ItemsOf(u.fifo)
      BY <2>2, <2>3
    <3>2. Submit(u, Heartbeat) = u
      BY <3>1 DEF Submit
    <3> QED
      BY <2>1, <2>3, <3>2 DEF Expire
  <2>4. CASE q.cancelling = {} /\ q.fifo = <<>>
    <3>1. Submit(u, Heartbeat) = [u EXCEPT !.fifo = <<Heartbeat>>]
      BY <2>2, <2>4 DEF Submit
    <3> QED
      BY <2>1, <2>4, <3>1 DEF Expire
  <2> QED
    BY <2>3, <2>4
<1>5. q.fifo # <<>> => Take(q) = [q EXCEPT !.fifo = <<>>, !.running = Heartbeat]
  BY DEF Take
<1>6. q.running = Heartbeat =>
        Retire(q) = [q EXCEPT !.running = NoItem, !.cancelling = {}]
  BY DEF Retire
<1>7. /\ TaskDone(q, Heartbeat, TRUE) = [q EXCEPT !.delayed = {Heartbeat}]
      /\ TaskDone(q, Heartbeat, FALSE) = q
  BY DEF TaskDone, Reschedule, After, Unscheduled
<1> QED
  BY <1>1, <1>2, <1>3, <1>4, <1>5, <1>6, <1>7

\* The steps of Stop, one after another.
LEMMA StopSteps ==
  ASSUME NEW p \in StopPlans, p # <<>>
  PROVE  /\ Tail(p) \in StopPlans
         /\ Head(p) = "mark" => /\ Tail(p) # <<>> /\ Head(Tail(p)) = "cancel"
                                /\ Tail(p) \notin {<<"wait", "unregister">>, <<"unregister">>}
         /\ Head(p) = "cancel" => /\ Tail(p) = <<"wait", "unregister">>
                                  /\ Tail(p) # <<>> /\ Head(Tail(p)) = "wait"
         /\ Head(p) = "wait" => /\ p = <<"wait", "unregister">> /\ Tail(p) = <<"unregister">>
                                /\ Tail(p) # <<>> /\ Head(Tail(p)) = "unregister"
         /\ Head(p) = "unregister" => p = <<"unregister">> /\ Tail(p) = <<>>
<1>1. CASE p = <<"mark", "cancel", "wait", "unregister">>
  <2>1. Head(p) = "mark" /\ Tail(p) = <<"cancel", "wait", "unregister">>
    BY <1>1
  <2>2. /\ <<"cancel", "wait", "unregister">> # <<>>
        /\ Head(<<"cancel", "wait", "unregister">>) = "cancel"
        /\ <<"cancel", "wait", "unregister">> \notin {<<"wait", "unregister">>, <<"unregister">>}
    OBVIOUS
  <2> QED
    BY <2>1, <2>2 DEF StopPlans
<1>2. CASE p = <<"cancel", "wait", "unregister">>
  <2>1. Head(p) = "cancel" /\ Tail(p) = <<"wait", "unregister">>
    BY <1>2
  <2> QED
    BY <2>1 DEF StopPlans
<1>3. CASE p = <<"wait", "unregister">>
  <2>1. Head(p) = "wait" /\ Tail(p) = <<"unregister">>
    BY <1>3
  <2> QED
    BY <1>3, <2>1 DEF StopPlans
<1>4. CASE p = <<"unregister">>
  <2>1. Head(p) = "unregister" /\ Tail(p) = <<>>
    BY <1>4
  <2> QED
    BY <1>4, <2>1 DEF StopPlans
<1> QED
  BY <1>1, <1>2, <1>3, <1>4 DEF StopPlans

(***************************************************************************)
(* Every step preserves the inductive invariant.                           *)
(***************************************************************************)
\* A timer that is not set is at 0.
LEMMA ZeroTimer == 0 \in UNION {0..Delay(k) : k \in Staggers}
<1>1. PICK k \in Staggers : TRUE
  BY TimingAssumption
<1>2. k \in Nat /\ Delay(k) \in Nat
  BY TimingAssumption DEF Delay
<1>3. 0 \in 0..Delay(k)
  BY <1>2
<1> QED
  BY <1>3

\* Two delays fit into a timeout.
LEMMA TimerFits ==
  ASSUME NEW d \in UNION {0..Delay(k) : k \in Staggers}
  PROVE  d \in Nat /\ 2 * d <= Timeout
<1>1. PICK k \in Staggers : d \in 0..Delay(k)
  OBVIOUS
<1>2. k \in Nat /\ Interval \in Nat /\ Timeout \in Nat /\ 2 * (Interval + k) <= Timeout
  BY TimingAssumption
<1> QED
  BY <1>1, <1>2 DEF Delay

\* An undisturbed task of an online device is busy.
LEMMA BusyOnline ==
  ASSUME TaskInv, UndisturbedInv, Undisturbed, status = "ONLINE"
  PROVE  Busy(wq, Heartbeat)
  BY DEF TaskInv, MarkIsTrue, UndisturbedInv, Undisturbed

\* Before the first step nothing is busy and nobody is known.
LEMMA InitEstablishes == Init => InductiveInv
<1> SUFFICES ASSUME Init PROVE InductiveInv
  OBVIOUS
<1> USE DEF Init
<1>1. EmptyQueue \in HeartbeatQueue
  BY DEF EmptyQueue, HeartbeatQueue
<1>2. ~Busy(wq, Heartbeat) /\ wq.cancelling = {}
  BY <1>1, Operations, OneItem DEF EmptyQueue
<1>3. TypeOK
  <2>1. timer \in UNION {0..Delay(k) : k \in Staggers}
    BY ZeroTimer
  <2>2. plan \in StopPlans /\ status \in Status
    BY DEF StopPlans, Status
  <2>3. 0 \in 0..MaxLosses /\ 0 \in 0..MaxToggles /\ Validation \in 0..Validation
    BY TimingAssumption
  <2> QED
    BY <1>1, <2>1, <2>2, <2>3 DEF TypeOK
<1>4. StoppedIsSilent /\ MarkIsTrue /\ OnlineHears
  BY <1>2 DEF StoppedIsSilent, MarkIsTrue, OnlineHears
<1>5. CancelInv /\ StopInv
  BY <1>2 DEF CancelInv, StopInv
<1>6. UndisturbedInv /\ AgeInv /\ PunctualInv /\ PeerInv
  BY OneItem DEF UndisturbedInv, AgeInv, PunctualInv, PeerInv, EmptyQueue
<1> QED
  BY <1>3, <1>4, <1>5, <1>6 DEF InductiveInv, TaskInv

\* A service that starts finds the device offline, and so schedules nothing.
LEMMA StartStep == ASSUME InductiveInv, Start PROVE InductiveInv'
<1> USE DEF Start, InductiveInv, TaskInv
<1>1. status = "OFFLINE" /\ late = {} /\ wq = EmptyQueue /\ ~running /\ UNCHANGED <<running, wq>>
  BY DEF StopInv, StartHeartbeatTask
<1>2. TypeOK'
  BY <1>1 DEF TypeOK, peer
<1>3. StoppedIsSilent' /\ MarkIsTrue' /\ OnlineHears'
  BY <1>1 DEF StoppedIsSilent, MarkIsTrue, OnlineHears
<1>4. CancelInv' /\ StopInv'
  BY <1>1 DEF CancelInv, StopInv, peer
<1>5. UndisturbedInv' /\ AgeInv' /\ PunctualInv' /\ PeerInv'
  BY <1>1 DEF UndisturbedInv, Undisturbed, AgeInv, PunctualInv, PeerInv, peer
<1> QED
  BY <1>2, <1>3, <1>4, <1>5

\* Discovery that starts after an error is remembered.
LEMMA StartDiscoveryStep == ASSUME InductiveInv, StartDiscovery PROVE InductiveInv'
<1> USE DEF StartDiscovery, InductiveInv, TaskInv
<1>1. /\ status' \in {status, "INIT"}
      /\ status' # status => status \in {"OFFLINE", "CLAIMING", "ERROR"}
      /\ late \subseteq late' /\ late' \subseteq late \cup {"error"}
      /\ status = "ERROR" => late' # {}
  BY DEF IsValidTransition
<1>2. TypeOK'
  BY <1>1 DEF TypeOK, peer, Status
<1>3. StoppedIsSilent' /\ MarkIsTrue' /\ OnlineHears'
  BY <1>1 DEF StoppedIsSilent, MarkIsTrue, OnlineHears
<1>4. CancelInv' /\ StopInv'
  BY <1>1 DEF CancelInv, StopInv, peer, Stops
<1>5. UndisturbedInv'
  BY <1>1 DEF UndisturbedInv, Undisturbed, peer
<1>6. AgeInv' /\ PunctualInv' /\ PeerInv'
  BY <1>1 DEF Undisturbed, AgeInv, PunctualInv, PeerInv, peer
<1> QED
  BY <1>2, <1>3, <1>4, <1>5, <1>6

\* A change of status: what it schedules and cancels, and who is then known.
LEMMA StatusChangesStep ==
  ASSUME InductiveInv, NEW to \in Status, StatusChanges(to) PROVE InductiveInv'
<1> USE DEF StatusChanges, InductiveInv, TaskInv
<1>1. /\ wq \in HeartbeatQueue /\ wq.running = NoItem /\ wq.fifo = <<>>
      /\ wq.cancelling = {} /\ timer \in UNION {0..Delay(k) : k \in Staggers}
  BY OneItem DEF TypeOK, QueueIdle, CancelInv, HeartbeatQueue
<1>2. /\ UNCHANGED <<enabled, started, sent, plan, powered, toggles, check, losses>>
      /\ started # "no" /\ powered /\ status' = to
  BY DEF peer
<1>3. ASSUME to = "ONLINE" PROVE InductiveInv'
  <2>1. /\ status = "CLAIMING" /\ UNCHANGED <<registered, timer>>
        /\ late \subseteq late' /\ late' \subseteq late \cup {"online"}
        /\ late' = {} => plan = <<>> /\ late = {}
        /\ "stopped" \in late => "online" \in late'
        /\ \/ known' = TRUE /\ age' = 0 /\ lost' = 0 /\ staggered' = FALSE
           \/ UNCHANGED <<known, age, lost, staggered>>
    BY <1>3, <1>2 DEF IsValidTransition
  <2>2. \/ /\ enabled /\ ~running /\ running' = TRUE
           /\ wq' = IF wq.delayed = {} THEN [wq EXCEPT !.fifo = <<Heartbeat>>] ELSE wq
        \/ ~enabled /\ UNCHANGED <<running, wq>>
        \/ running /\ UNCHANGED <<running, wq>>
    BY <1>1, <1>3, Operations DEF StartHeartbeatTask, TypeOK
  <2>3. wq' \in HeartbeatQueue /\ wq'.running = NoItem /\ wq'.cancelling = {}
    BY <1>1, <2>2 DEF HeartbeatQueue
  <2>4. TypeOK'
    <3>1. known' \in BOOLEAN /\ age' \in Nat /\ lost' \in 0..MaxLosses /\ staggered' \in BOOLEAN
      <4>1. 0 \in 0..MaxLosses /\ TypeOK
        BY TimingAssumption
      <4>2. CASE known' = TRUE /\ age' = 0 /\ lost' = 0 /\ staggered' = FALSE
        BY <4>1, <4>2
      <4>3. CASE UNCHANGED <<known, age, lost, staggered>>
        BY <4>1, <4>3 DEF TypeOK
      <4> QED
        BY <2>1, <4>2, <4>3
    <3>2. running' \in BOOLEAN /\ late' \subseteq {"stopped", "handler", "online", "error"}
      BY <2>1, <2>2 DEF TypeOK
    <3> QED
      BY <1>2, <2>1, <2>3, <3>1, <3>2 DEF TypeOK
  <2>5. CancelInv' /\ PeerInv'
    BY <1>1, <1>2, <2>1, <2>3, TimingAssumption DEF CancelInv, PeerInv, TypeOK
  <2>6. StopInv' /\ OnlineHears'
    BY <1>2, <1>3, <2>1 DEF StopInv, OnlineHears, Stops
  <2>7. StoppedIsSilent'
    BY <2>1 DEF StoppedIsSilent
  <2>8. ASSUME Undisturbed' PROVE Undisturbed /\ running' = TRUE /\ ~known /\ (wq.delayed # {} => running)
    BY <1>1, <1>2, <2>1, <2>2, <2>8, Operations
       DEF Undisturbed, StopInv, UndisturbedInv, MarkIsTrue
  <2>9. MarkIsTrue'
    <3>1. ASSUME Undisturbed' PROVE (running <=> Busy(wq, Heartbeat))'
      <4>1. (running <=> Busy(wq, Heartbeat)) /\ enabled
        BY <1>2, <2>8, <3>1 DEF MarkIsTrue, Undisturbed, StopInv
      <4>2. Busy(wq', Heartbeat)
        BY <1>1, <2>2, <2>3, <4>1, Operations DEF HeartbeatQueue, TypeOK
      <4> QED
        BY <2>8, <3>1, <4>2
    <3>2. plan' = <<>> /\ late' = {} => (Busy(wq, Heartbeat) => running)'
      BY <1>2, <2>1, <2>2 DEF MarkIsTrue
    <3> QED
      BY <3>1, <3>2 DEF MarkIsTrue, Undisturbed
  <2>10. UndisturbedInv'
    BY <1>1, <1>2, <1>3, <2>1, <2>2, <2>3, <2>8, OneItem DEF UndisturbedInv, HeartbeatQueue
  <2>11. AgeInv'
    <3> SUFFICES ASSUME Undisturbed', known' PROVE AgeInv'
      BY DEF AgeInv
    <3>1. age' = 0 /\ lost' = 0 /\ wq'.running # Heartbeat
      BY <2>1, <2>3, <2>8, OneItem
    <3>2. timer' \in Nat /\ 2 * timer' <= Timeout
      BY <1>1, <2>1, TimerFits
    <3> QED
      BY <3>1, <3>2, TimingAssumption DEF AgeInv
  <2>12. PunctualInv'
    <3> SUFFICES ASSUME Undisturbed', known' PROVE PunctualInv'
      BY DEF PunctualInv
    <3>1. age' = 0 /\ lost' = 0 /\ wq'.running # Heartbeat
      BY <2>1, <2>3, <2>8, OneItem
    <3>2. ~Busy(wq, Heartbeat)
      BY <1>1, <1>2, <2>1, <2>8 DEF UndisturbedInv, MarkIsTrue, Undisturbed
    <3>3. wq.delayed = {} /\ wq'.delayed = {}
      <4>1. wq.delayed = {}
        BY <1>1, <3>2, Operations
      <4> QED
        BY <1>1, <2>2, <4>1 DEF HeartbeatQueue
    <3> QED
      BY <3>1, <3>3, TimingAssumption DEF PunctualInv
  <2> QED
    BY <2>4, <2>5, <2>6, <2>7, <2>9, <2>10, <2>11, <2>12
<1>4. ASSUME to # "ONLINE" PROVE InductiveInv'
  <2>1. UNCHANGED <<late, known, age, lost, staggered>>
    BY <1>4 DEF peer
  <2>2. \/ /\ Stops(to) /\ running' = FALSE /\ registered' = FALSE /\ timer' = 0
           /\ wq' = [wq EXCEPT !.delayed = {}]
        \/ ~Stops(to) /\ UNCHANGED <<running, registered, wq, timer>>
    <3>1. Cancel(wq, Heartbeat) =
            [wq EXCEPT !.delayed = {}, !.fifo = wq.fifo, !.cancelling = wq.cancelling]
      BY <1>1, Operations, OneItem
    <3>2. Cancel(wq, Heartbeat) = [wq EXCEPT !.delayed = {}]
      BY <1>1, <3>1 DEF HeartbeatQueue
    <3> QED
      BY <1>4, <3>2
  <2>3. wq' \in HeartbeatQueue /\ wq'.cancelling = {}
    BY <1>1, <2>2 DEF HeartbeatQueue
  <2>4. TypeOK'
    BY <1>2, <2>1, <2>2, <2>3, ZeroTimer DEF TypeOK
  <2>5. CancelInv' /\ PeerInv'
    BY <1>2, <2>1, <2>3 DEF CancelInv, PeerInv
  <2>6. StopInv' /\ OnlineHears'
    BY <1>2, <1>4, <2>1, <2>2 DEF StopInv, OnlineHears, IsValidTransition, Stops
  <2>7. \/ Stops(to) /\ ~Busy(wq', Heartbeat) /\ ~running'
        \/ ~Stops(to) /\ wq' = wq /\ running' = running
    <3>1. Stops(to) => ~Busy(wq', Heartbeat)
      BY <1>1, <2>2, <2>3, Operations, OneItem DEF HeartbeatQueue
    <3> QED
      BY <2>2, <3>1
  <2>8. StoppedIsSilent' /\ MarkIsTrue'
    BY <1>2, <2>1, <2>7 DEF StoppedIsSilent, MarkIsTrue
  <2>9. UndisturbedInv' /\ AgeInv' /\ PunctualInv'
    BY <1>1, <1>2, <1>4, <2>1, <2>2
       DEF UndisturbedInv, Undisturbed, AgeInv, PunctualInv, HeartbeatQueue,
           IsValidTransition, Stops
  <2> QED
    BY <2>4, <2>5, <2>6, <2>8, <2>9
<1> QED
  BY <1>3, <1>4

\* A call of Stop begins; it has not cancelled anything yet.
LEMMA StopCalledStep == ASSUME InductiveInv, StopCalled PROVE InductiveInv'
<1> USE DEF StopCalled, InductiveInv, TaskInv, peer
<1>1. /\ plan' = <<"mark", "cancel", "wait", "unregister">> /\ plan' # <<>>
      /\ Head(plan') = "mark"
      /\ plan' \notin {<<"wait", "unregister">>, <<"unregister">>}
  OBVIOUS
<1>2. TypeOK'
  BY <1>1 DEF TypeOK, StopPlans
<1>3. StoppedIsSilent' /\ MarkIsTrue' /\ OnlineHears'
  BY <1>1 DEF StoppedIsSilent, MarkIsTrue, OnlineHears
<1>4. CancelInv' /\ StopInv'
  BY <1>1 DEF CancelInv, StopInv
<1>5. UndisturbedInv' /\ AgeInv' /\ PunctualInv' /\ PeerInv'
  BY <1>1 DEF UndisturbedInv, AgeInv, PunctualInv, PeerInv, Undisturbed
<1> QED
  BY <1>2, <1>3, <1>4, <1>5

\* Stop clears the mark: the service is not undisturbed before nor after.
LEMMA StopMarksStep == ASSUME InductiveInv, StopMarks PROVE InductiveInv'
<1> USE DEF StopMarks, Step, InductiveInv, TaskInv, peer
<1>1. /\ plan \in StopPlans /\ plan' \in StopPlans /\ plan # <<>> /\ plan' # <<>>
      /\ Head(plan') = "cancel" /\ Head(plan) = "mark"
      /\ plan' \notin {<<"wait", "unregister">>, <<"unregister">>}
  BY StopSteps DEF TypeOK
<1>2. TypeOK'
  BY <1>1 DEF TypeOK
<1>3. StoppedIsSilent' /\ MarkIsTrue' /\ OnlineHears'
  BY <1>1 DEF StoppedIsSilent, MarkIsTrue, OnlineHears
<1>4. CancelInv' /\ StopInv'
  BY <1>1 DEF CancelInv, StopInv
<1>5. UndisturbedInv' /\ AgeInv' /\ PunctualInv' /\ PeerInv'
  BY <1>1 DEF UndisturbedInv, AgeInv, PunctualInv, PeerInv, Undisturbed
<1> QED
  BY <1>2, <1>3, <1>4, <1>5

\* Stop cancels the task, which is then idle unless its handler was running.
LEMMA StopCancelsStep == ASSUME InductiveInv, StopCancels PROVE InductiveInv'
<1> USE DEF StopCancels, Step, InductiveInv, TaskInv, peer
<1>1. /\ plan \in StopPlans /\ plan # <<>> /\ plan' = <<"wait", "unregister">>
      /\ plan' # <<>> /\ Head(plan') = "wait" /\ wq \in HeartbeatQueue
  BY StopSteps DEF TypeOK
<1>2. wq' = [wq EXCEPT !.delayed = {}, !.fifo = <<>>,
                       !.cancelling = IF wq.running = Heartbeat THEN {Heartbeat} ELSE @]
  BY <1>1, Operations
<1>3. wq' \in HeartbeatQueue /\ wq'.cancelling \subseteq {wq'.running}
  BY <1>1, <1>2 DEF HeartbeatQueue, CancelInv
<1>4. TypeOK'
  BY <1>1, <1>3, ZeroTimer DEF TypeOK, StopPlans
<1>5. StoppedIsSilent'
  <2> SUFFICES ASSUME late' \subseteq {"stopped", "error"} PROVE ~Busy(wq', Heartbeat)
    BY DEF StoppedIsSilent
  <2>1. wq.running # Heartbeat
    OBVIOUS
  <2>2. wq'.fifo = <<>> /\ wq'.running # Heartbeat /\ wq'.delayed = {} /\ wq'.cancelling = {}
    BY <1>1, <1>2, <2>1 DEF HeartbeatQueue, CancelInv
  <2> QED
    BY <1>3, <2>2, Operations
<1>6. MarkIsTrue' /\ OnlineHears'
  BY <1>1 DEF MarkIsTrue, OnlineHears
<1>7. CancelInv' /\ StopInv'
  BY <1>1, <1>3 DEF CancelInv, StopInv
<1>8. UndisturbedInv' /\ AgeInv' /\ PunctualInv' /\ PeerInv'
  BY <1>1 DEF UndisturbedInv, AgeInv, PunctualInv, PeerInv, Undisturbed
<1> QED
  BY <1>4, <1>5, <1>6, <1>7, <1>8

\* The wait of Stop is over.
LEMMA StopWaitsStep == ASSUME InductiveInv, StopWaits PROVE InductiveInv'
<1> USE DEF StopWaits, Step, InductiveInv, TaskInv, peer
<1>1. /\ plan = <<"wait", "unregister">> /\ plan' = <<"unregister">>
      /\ plan' # <<>> /\ Head(plan') = "unregister"
  BY StopSteps DEF TypeOK
<1>2. TypeOK'
  BY <1>1 DEF TypeOK, StopPlans
<1>3. StoppedIsSilent' /\ MarkIsTrue' /\ OnlineHears'
  BY <1>1 DEF StoppedIsSilent, MarkIsTrue, OnlineHears
<1>4. CancelInv' /\ StopInv'
  BY <1>1 DEF CancelInv, StopInv
<1>5. UndisturbedInv' /\ AgeInv' /\ PunctualInv' /\ PeerInv'
  BY <1>1 DEF UndisturbedInv, AgeInv, PunctualInv, PeerInv, Undisturbed
<1> QED
  BY <1>2, <1>3, <1>4, <1>5

\* The handler goes at the end of Stop, of a service that is stopped by then.
LEMMA StopUnregistersStep == ASSUME InductiveInv, StopUnregisters PROVE InductiveInv'
<1> USE DEF StopUnregisters, Step, InductiveInv, TaskInv, peer
<1>1. plan = <<"unregister">> /\ plan' = <<>> /\ "stopped" \in late
  BY StopSteps DEF TypeOK, StopInv
<1>2. TypeOK'
  BY <1>1 DEF TypeOK, StopPlans
<1>3. StoppedIsSilent' /\ MarkIsTrue' /\ OnlineHears'
  BY <1>1 DEF StoppedIsSilent, MarkIsTrue, OnlineHears
<1>4. CancelInv' /\ StopInv'
  BY <1>1 DEF CancelInv, StopInv
<1>5. UndisturbedInv' /\ AgeInv' /\ PunctualInv' /\ PeerInv'
  BY <1>1 DEF UndisturbedInv, AgeInv, PunctualInv, PeerInv, Undisturbed
<1> QED
  BY <1>2, <1>3, <1>4, <1>5

\* Heartbeats that have been disabled once leave nothing to show.
LEMMA SetHeartbeatEnabledStep ==
  ASSUME InductiveInv, SetHeartbeatEnabled PROVE InductiveInv'
<1> USE DEF SetHeartbeatEnabled, InductiveInv, TaskInv, peer
<1>1. toggles' # 0 /\ toggles' \in 0..MaxToggles
  BY TimingAssumption DEF TypeOK
<1>2. TypeOK'
  BY <1>1 DEF TypeOK
<1>3. StoppedIsSilent' /\ MarkIsTrue' /\ OnlineHears'
  BY <1>1 DEF StoppedIsSilent, MarkIsTrue, OnlineHears
<1>4. CancelInv' /\ StopInv'
  BY <1>1 DEF CancelInv, StopInv
<1>5. UndisturbedInv' /\ AgeInv' /\ PunctualInv' /\ PeerInv'
  BY <1>1 DEF UndisturbedInv, AgeInv, PunctualInv, PeerInv, Undisturbed
<1> QED
  BY <1>2, <1>3, <1>4, <1>5

\* The item that waited runs: the task stays as busy as it was.
LEMMA StartItemStep == ASSUME InductiveInv, StartItem PROVE InductiveInv'
<1> USE DEF StartItem, InductiveInv, TaskInv, peer
<1>1. /\ wq \in HeartbeatQueue /\ wq.running = NoItem /\ wq.cancelling = {}
      /\ wq' = [wq EXCEPT !.fifo = <<>>, !.running = Heartbeat]
  BY Operations, OneItem DEF TypeOK, CancelInv, HeartbeatQueue
<1>2. wq' \in HeartbeatQueue /\ wq'.cancelling = {}
  BY <1>1 DEF HeartbeatQueue
<1>3. Busy(wq, Heartbeat) /\ Busy(wq', Heartbeat)
  BY <1>1, <1>2, Operations DEF HeartbeatQueue
<1>4. TypeOK'
  BY <1>2 DEF TypeOK
<1>5. StoppedIsSilent' /\ MarkIsTrue' /\ OnlineHears'
  BY <1>3 DEF StoppedIsSilent, MarkIsTrue, OnlineHears
<1>6. CancelInv' /\ StopInv'
  BY <1>2, OneItem DEF CancelInv, StopInv, EmptyQueue
<1>7. UndisturbedInv' /\ AgeInv' /\ PunctualInv' /\ PeerInv'
  BY <1>1, OneItem DEF UndisturbedInv, AgeInv, PunctualInv, PeerInv, Undisturbed, HeartbeatQueue
<1> QED
  BY <1>4, <1>5, <1>6, <1>7

\* A heartbeat that arrives makes the entry new; one that is lost is counted.
LEMMA SendHeartbeatStep == ASSUME InductiveInv, SendHeartbeat PROVE InductiveInv'
<1> USE DEF SendHeartbeat, InductiveInv, TaskInv
<1>1. /\ UNCHANGED <<known, check>> /\ age' \in {0, age}
      /\ \/ age' = 0 /\ lost' = 0 /\ losses' = losses /\ staggered' = FALSE
         \/ /\ age' = age /\ losses' = losses + 1 /\ losses < MaxLosses
            /\ lost' = (IF known THEN lost + 1 ELSE 0) /\ staggered' = staggered
         \/ ~enabled /\ UNCHANGED <<age, lost, losses, staggered>>
  BY DEF HeartbeatArrives, HeartbeatIsLost, peer
<1>2. lost' \in 0..MaxLosses /\ losses' \in 0..MaxLosses /\ lost' <= losses'
  BY <1>1, TimingAssumption DEF TypeOK, CancelInv
<1>3. TypeOK'
  <2>1. staggered' \in {FALSE, staggered}
    BY <1>1
  <2>2. staggered' \in BOOLEAN
    BY <2>1 DEF TypeOK
  <2> QED
    BY <1>1, <1>2, <2>2 DEF TypeOK
<1>4. StoppedIsSilent' /\ MarkIsTrue' /\ OnlineHears'
  BY DEF StoppedIsSilent, MarkIsTrue, OnlineHears
<1>5. CancelInv' /\ StopInv'
  BY <1>2 DEF CancelInv, StopInv
<1>6. UndisturbedInv' /\ PeerInv'
  <2>1. UndisturbedInv'
    BY <1>1 DEF UndisturbedInv, Undisturbed
  <2>2. CASE age' = 0
    <3>1. age' + check' <= Timeout + Validation
      BY <1>1, <2>2, TimingAssumption DEF TypeOK
    <3> QED
      BY <2>1, <3>1 DEF PeerInv
  <2>3. CASE age' = age
    BY <1>1, <2>1, <2>3 DEF PeerInv
  <2> QED
    BY <1>1, <2>2, <2>3
<1>7. AgeInv'
  <2> SUFFICES ASSUME Undisturbed, powered, status = "ONLINE", known, lost' < 2
               PROVE  2 * age' <= lost' * Timeout
    BY <1>1 DEF AgeInv, UndisturbedInv, Undisturbed
  <2>1. enabled
    BY DEF StopInv, Undisturbed
  <2>2. CASE age' = 0 /\ lost' = 0
    BY <2>2, TimingAssumption
  <2>3. CASE age' = age /\ lost' = lost + 1
    BY <2>3, TimingAssumption DEF AgeInv, TypeOK
  <2> QED
    BY <1>1, <2>1, <2>2, <2>3
<1>8. PunctualInv'
  <2> SUFFICES ASSUME Undisturbed, powered, status = "ONLINE", known, ~staggered'
               PROVE  age' <= lost' * Interval
    BY <1>1 DEF PunctualInv, UndisturbedInv, Undisturbed
  <2>1. enabled
    BY DEF StopInv, Undisturbed
  <2>2. CASE age' = 0 /\ lost' = 0
    BY <2>2, TimingAssumption
  <2>3. CASE age' = age /\ lost' = lost + 1 /\ staggered' = staggered
    BY <2>3, TimingAssumption DEF PunctualInv, TypeOK
  <2> QED
    BY <1>1, <2>1, <2>2, <2>3
<1> QED
  BY <1>3, <1>4, <1>5, <1>6, <1>7, <1>8

\* The handler ends, and has half a timeout for the next heartbeat.
LEMMA HandlerEndsStep == ASSUME InductiveInv, HandlerEnds PROVE InductiveInv'
<1> USE DEF HandlerEnds, InductiveInv, TaskInv, peer
<1>1. PICK k \in Staggers : /\ wq' = Retire(TaskDone(wq, Heartbeat, enabled))
                           /\ timer' = (IF enabled THEN Delay(k) ELSE timer)
                           /\ staggered' = (staggered \/ k > 0)
  OBVIOUS
<1>2. Delay(k) \in Nat /\ 2 * Delay(k) <= Timeout /\ Delay(k) \in UNION {0..Delay(j) : j \in Staggers}
  <2>1. k \in Nat /\ Interval \in Nat /\ 2 * (Interval + k) <= Timeout
    BY TimingAssumption
  <2>2. Delay(k) \in Nat /\ Delay(k) \in 0..Delay(k)
    BY <2>1 DEF Delay
  <2> QED
    BY <2>1, <2>2 DEF Delay
<1>3. wq \in HeartbeatQueue /\ enabled \in BOOLEAN
  BY DEF TypeOK
<1>4. wq' = IF enabled THEN [wq EXCEPT !.delayed = {Heartbeat}, !.running = NoItem, !.cancelling = {}]
            ELSE [wq EXCEPT !.running = NoItem, !.cancelling = {}]
  <2> DEFINE d == [wq EXCEPT !.delayed = {Heartbeat}]
  <2>1. d \in HeartbeatQueue /\ d.running = Heartbeat
    BY <1>3 DEF HeartbeatQueue
  <2>2. Retire(d) = [d EXCEPT !.running = NoItem, !.cancelling = {}]
    BY <2>1, Operations
  <2>3. CASE enabled = TRUE
    <3>1. TaskDone(wq, Heartbeat, TRUE) = d
      BY <1>3, Operations
    <3> QED
      BY <1>1, <2>2, <2>3, <3>1
  <2>4. CASE enabled = FALSE
    <3>1. TaskDone(wq, Heartbeat, FALSE) = wq
      BY <1>3, Operations
    <3>2. Retire(wq) = [wq EXCEPT !.running = NoItem, !.cancelling = {}]
      BY <1>3, Operations
    <3> QED
      BY <1>1, <2>4, <3>1, <3>2
  <2> QED
    BY <1>3, <2>3, <2>4
<1>5. wq' \in HeartbeatQueue /\ wq'.cancelling = {} /\ wq'.running = NoItem
  BY <1>3, <1>4 DEF HeartbeatQueue
<1>6. TypeOK'
  BY <1>1, <1>2, <1>5 DEF TypeOK
<1>7. Busy(wq, Heartbeat) /\ (enabled => Busy(wq', Heartbeat))
  BY <1>3, <1>4, <1>5, Operations DEF HeartbeatQueue
<1>8. StoppedIsSilent' /\ MarkIsTrue' /\ OnlineHears'
  BY <1>7 DEF StoppedIsSilent, MarkIsTrue, OnlineHears, StopInv
<1>9. CancelInv' /\ StopInv'
  BY <1>5, OneItem DEF CancelInv, StopInv, EmptyQueue
<1>10. UndisturbedInv'
  BY <1>3, <1>4, <1>5, OneItem DEF UndisturbedInv, Undisturbed, HeartbeatQueue
<1>11. AgeInv'
  <2> SUFFICES ASSUME Undisturbed, powered, status = "ONLINE", known, lost < 2
               PROVE  /\ 2 * (age + timer') <= (lost + 1) * Timeout
                      /\ wq'.fifo = <<>> /\ wq'.running # Heartbeat
    BY <1>5, OneItem DEF AgeInv, Undisturbed
  <2>1. wq.fifo = <<>> /\ enabled /\ 2 * age <= lost * Timeout
    BY DEF UndisturbedInv, StopInv, Undisturbed, AgeInv
  <2>2. wq'.fifo = <<>> /\ wq'.running # Heartbeat
    BY <1>3, <1>4, <1>5, <2>1, OneItem DEF HeartbeatQueue
  <2>3. timer' = Delay(k) /\ age \in Nat /\ Timeout \in Nat
    BY <1>1, <2>1, TimingAssumption DEF TypeOK
  <2>4. lost * Timeout + Timeout = (lost + 1) * Timeout
    <3>1. lost = 0 \/ lost = 1
      BY DEF TypeOK
    <3> QED
      BY <2>3, <3>1
  <2>5. lost * Timeout \in Nat
    <3>1. lost = 0 \/ lost = 1
      BY DEF TypeOK
    <3> QED
      BY <2>3, <3>1
  <2> HIDE DEF InductiveInv, TaskInv, HandlerEnds, peer
  <2> QED
    BY <1>2, <2>1, <2>2, <2>3, <2>4, <2>5
<1>12. PeerInv'
  BY DEF PeerInv
<1>13. PunctualInv'
  <2> SUFFICES ASSUME Undisturbed, powered, status = "ONLINE", known, ~staggered'
               PROVE  /\ age + timer' <= (lost + 1) * Interval
                      /\ wq'.fifo = <<>> /\ wq'.running # Heartbeat
    BY <1>5, OneItem DEF PunctualInv, Undisturbed
  <2>0. ~staggered /\ ~(k > 0)
    BY <1>1, Zenon
  <2>1. k = 0 /\ wq.fifo = <<>> /\ enabled /\ age <= lost * Interval
    <3>1. k \in Nat /\ k = 0
      BY <2>0, TimingAssumption
    <3> QED
      BY <2>0, <3>1 DEF UndisturbedInv, StopInv, Undisturbed, PunctualInv
  <2>2. wq'.fifo = <<>> /\ wq'.running # Heartbeat
    BY <1>3, <1>4, <1>5, <2>1, OneItem DEF HeartbeatQueue
  <2>3. timer' = Interval /\ age \in Nat /\ Interval \in Nat /\ lost \in Nat
    BY <1>1, <2>1, TimingAssumption DEF TypeOK, Delay
  <2> HIDE DEF InductiveInv, TaskInv, HandlerEnds, peer
  <2>4. lost * Interval + Interval = (lost + 1) * Interval /\ lost * Interval \in Nat
    BY <2>3
  <2> QED
    BY <2>1, <2>2, <2>3, <2>4
<1> QED
  BY <1>6, <1>8, <1>9, <1>10, <1>11, <1>12, <1>13

\* The peer's validation: what stays is no older than a timeout.
LEMMA PeerValidatesStep == ASSUME InductiveInv, PeerValidates PROVE InductiveInv'
<1> USE DEF PeerValidates, InductiveInv, TaskInv, device
<1>1. /\ known' \in BOOLEAN /\ (known' => known /\ age <= Timeout /\ UNCHANGED <<age, lost>>)
      /\ age' \in {0, age} /\ lost' \in {0, lost} /\ check' = Validation
  BY DEF RemoveOfflineDevices, TypeOK
<1>2. TypeOK'
  <2>1. 0 \in 0..MaxLosses /\ Validation \in 0..Validation
    BY TimingAssumption
  <2>2. age' \in Nat /\ lost' \in 0..MaxLosses
    BY <1>1, <2>1 DEF TypeOK
  <2> QED
    BY <1>1, <2>1, <2>2 DEF TypeOK
<1>3. StoppedIsSilent' /\ MarkIsTrue' /\ OnlineHears'
  BY DEF StoppedIsSilent, MarkIsTrue, OnlineHears
<1>4. CancelInv' /\ StopInv'
  BY <1>1 DEF CancelInv, StopInv, TypeOK
<1>5. UndisturbedInv' /\ AgeInv' /\ PunctualInv'
  BY <1>1 DEF UndisturbedInv, AgeInv, PunctualInv, Undisturbed
<1>6. PeerInv'
  <2> SUFFICES ASSUME known' PROVE age' + check' <= Timeout + Validation
    BY DEF PeerInv
  <2> QED
    BY <1>1, TimingAssumption DEF TypeOK
<1> QED
  BY <1>2, <1>3, <1>4, <1>5, <1>6

\* The item that was delayed waits: the task stays as busy as it was.
LEMMA TimerExpiresStep == ASSUME InductiveInv, TimerExpires PROVE InductiveInv'
<1> USE DEF TimerExpires, InductiveInv, TaskInv, peer
<1>1. /\ wq \in HeartbeatQueue /\ timer = 0
      /\ wq' = [wq EXCEPT !.delayed = {},
                          !.fifo = IF wq.cancelling = {} THEN <<Heartbeat>> ELSE @]
  BY Operations DEF TypeOK
<1>2. wq' \in HeartbeatQueue /\ wq'.cancelling \subseteq {wq'.running}
  BY <1>1 DEF HeartbeatQueue, CancelInv
<1>3. Busy(wq, Heartbeat) /\ Busy(wq', Heartbeat)
  <2>1. wq.delayed # {} /\ (wq'.fifo # <<>> \/ wq'.cancelling # {})
    BY <1>1, OneItem DEF HeartbeatQueue
  <2> QED
    BY <1>1, <1>2, <2>1, Operations
<1>4. TypeOK'
  BY <1>2 DEF TypeOK
<1>5. StoppedIsSilent' /\ MarkIsTrue' /\ OnlineHears'
  BY <1>3 DEF StoppedIsSilent, MarkIsTrue, OnlineHears
<1>6. CancelInv' /\ StopInv'
  BY <1>2 DEF CancelInv, StopInv, EmptyQueue
<1>7. UndisturbedInv' /\ PeerInv'
  BY <1>1, OneItem DEF UndisturbedInv, PeerInv, Undisturbed, HeartbeatQueue
<1>8. AgeInv'
  <2> SUFFICES ASSUME Undisturbed, powered, status = "ONLINE", known, lost < 2
               PROVE  wq'.delayed = {} /\ wq'.running # Heartbeat /\ 2 * age <= (lost + 1) * Timeout
    BY DEF AgeInv, Undisturbed
  <2>1. 2 * (age + timer) <= (lost + 1) * Timeout /\ age + timer = age
    BY <1>1 DEF AgeInv, TypeOK
  <2>2. wq.running # Heartbeat
    BY DEF UndisturbedInv
  <2> QED
    BY <1>1, <2>1, <2>2 DEF HeartbeatQueue
<1>9. PunctualInv'
  <2> SUFFICES ASSUME Undisturbed, powered, status = "ONLINE", known, ~staggered
               PROVE  wq'.delayed = {} /\ wq'.running # Heartbeat /\ age <= (lost + 1) * Interval
    BY DEF PunctualInv, Undisturbed
  <2>1. age + timer <= (lost + 1) * Interval /\ age + timer = age
    BY <1>1 DEF PunctualInv, TypeOK
  <2>2. wq.running # Heartbeat
    BY DEF UndisturbedInv
  <2> QED
    BY <1>1, <2>1, <2>2 DEF HeartbeatQueue
<1> QED
  BY <1>4, <1>5, <1>6, <1>7, <1>8, <1>9

\* Time that passes is taken from the timer and from the next validation alike.
LEMMA TickStep == ASSUME InductiveInv, Tick PROVE InductiveInv'
<1> DEFINE due == Heartbeat \in wq.delayed /\ powered
           d == IF due /\ timer < check THEN timer ELSE check
<1>1. /\ UNCHANGED <<status, enabled, running, registered, started, wq, sent, plan,
                     powered, late, known, lost, staggered, losses, toggles>>
      /\ check' = check - d /\ timer' = (IF due THEN timer - d ELSE timer)
      /\ age' = (IF known THEN age + d ELSE 0) /\ (~powered \/ QueueIdle)
  BY DEF Tick
<1>2. /\ check \in 0..Validation /\ timer \in Nat /\ age \in Nat /\ d \in Nat
      /\ d <= check /\ (due => d <= timer)
  BY TimerFits, TimingAssumption DEF InductiveInv, TaskInv, TypeOK
<1> HIDE DEF d
<1>3. TypeOK'
  <2>1. timer' \in UNION {0..Delay(k) : k \in Staggers}
    <3>1. PICK k \in Staggers : timer \in 0..Delay(k)
      BY DEF InductiveInv, TaskInv, TypeOK
    <3>2. Delay(k) \in Nat
      BY TimingAssumption DEF Delay
    <3>3. timer' \in 0..Delay(k)
      BY <1>1, <1>2, <3>1, <3>2
    <3> QED
      BY <3>3
  <2>2. check' \in 0..Validation /\ age' \in Nat
    BY <1>1, <1>2, TimingAssumption
  <2> QED
    BY <1>1, <2>1, <2>2 DEF InductiveInv, TaskInv, TypeOK
<1>4. StoppedIsSilent' /\ MarkIsTrue' /\ OnlineHears'
  BY <1>1 DEF InductiveInv, TaskInv, StoppedIsSilent, MarkIsTrue, OnlineHears
<1>5. CancelInv' /\ StopInv'
  BY <1>1 DEF InductiveInv, CancelInv, StopInv
<1>6. UndisturbedInv'
  BY <1>1 DEF InductiveInv, UndisturbedInv, Undisturbed
<1>7. AgeInv' /\ PunctualInv'
  <2> SUFFICES ASSUME Undisturbed, powered, status = "ONLINE", known
               PROVE  /\ lost < 2 => 2 * (age' + timer') <= (lost + 1) * Timeout
                      /\ ~staggered => age' + timer' <= (lost + 1) * Interval
                      /\ wq.fifo = <<>> /\ wq.running # Heartbeat
    BY <1>1 DEF AgeInv, PunctualInv, Undisturbed
  <2>1. wq.fifo = <<>> /\ wq.running # Heartbeat
    BY <1>1, OneItem DEF QueueIdle
  <2>2. due
    <3>1. wq \in HeartbeatQueue /\ wq.cancelling \subseteq {wq.running}
      BY DEF InductiveInv, TaskInv, TypeOK, CancelInv
    <3>2. Busy(wq, Heartbeat)
      BY BusyOnline DEF InductiveInv
    <3>3. wq.delayed # {} \/ wq.cancelling # {}
      BY <2>1, <3>1, <3>2, Operations
    <3> QED
      BY <2>1, <3>1, <3>3 DEF HeartbeatQueue
  <2>3. age' + timer' = age + timer
    BY <1>1, <1>2, <2>2
  <2>4. /\ lost < 2 => 2 * (age + timer) <= (lost + 1) * Timeout
        /\ ~staggered => age + timer <= (lost + 1) * Interval
    BY <2>2 DEF InductiveInv, AgeInv, PunctualInv
  <2> QED
    BY <2>1, <2>3, <2>4
<1>8. PeerInv'
  BY <1>1, <1>2 DEF InductiveInv, PeerInv
<1> QED
  BY <1>3, <1>4, <1>5, <1>6, <1>7, <1>8 DEF InductiveInv, TaskInv

\* A device without power does nothing more.
LEMMA PowerLossStep == ASSUME InductiveInv, PowerLoss PROVE InductiveInv'
<1> USE DEF PowerLoss, peer, InductiveInv, TaskInv
<1>1. TypeOK' /\ StoppedIsSilent' /\ MarkIsTrue' /\ OnlineHears'
  BY DEF TypeOK, StoppedIsSilent, MarkIsTrue, OnlineHears
<1>2. CancelInv' /\ StopInv' /\ UndisturbedInv' /\ AgeInv' /\ PunctualInv' /\ PeerInv'
  BY DEF CancelInv, StopInv, UndisturbedInv, Undisturbed, AgeInv, PunctualInv, PeerInv
<1> QED
  BY <1>1, <1>2

\* Every step of the specification, or none.
LEMMA NextStep == ASSUME InductiveInv, [Next]_vars PROVE InductiveInv'
<1>1. CASE UNCHANGED vars
  <2>1. UNCHANGED device /\ UNCHANGED peer
    BY <1>1 DEF vars
  <2>2. TaskInv'
    BY <2>1 DEF device, peer, InductiveInv, TaskInv, TypeOK, StoppedIsSilent,
                MarkIsTrue, OnlineHears
  <2>3. CancelInv' /\ StopInv' /\ UndisturbedInv' /\ AgeInv' /\ PunctualInv' /\ PeerInv'
    BY <2>1 DEF device, peer, InductiveInv, CancelInv, StopInv, UndisturbedInv,
                Undisturbed, AgeInv, PunctualInv, PeerInv
  <2> QED
    BY <2>2, <2>3 DEF InductiveInv
<1>2. CASE Next
  BY <1>2, StartStep, StartDiscoveryStep, StatusChangesStep, StopCalledStep,
     StopMarksStep, StopCancelsStep, StopWaitsStep, StopUnregistersStep,
     SetHeartbeatEnabledStep, StartItemStep, SendHeartbeatStep, HandlerEndsStep,
     TimerExpiresStep, TickStep, PeerValidatesStep, PowerLossStep
     DEF Next, StopStep, Work
<1> QED
  BY <1>1, <1>2

\* The inductive invariant holds in every reachable state.
THEOREM Inductive == FairSpec => []InductiveInv
<1>1. Init => InductiveInv
  BY InitEstablishes
<1>2. InductiveInv /\ [Next]_vars => InductiveInv'
  BY NextStep
<1> QED
  BY <1>1, <1>2, PTL DEF FairSpec

(***************************************************************************)
(* The theorems.                                                           *)
(***************************************************************************)
\* The heartbeat task agrees with what the service knows of it, in whatever order
\* the statuses, Stop and its own end come.
THEOREM TaskInvHolds == FairSpec => []TaskInv
<1>1. InductiveInv => TaskInv
  BY DEF InductiveInv
<1> QED
  BY <1>1, Inductive, PTL

\* An undisturbed task of an online device waits, runs, or is delayed.
LEMMA SomewhereOnline ==
  ASSUME InductiveInv, Undisturbed, status = "ONLINE"
  PROVE  wq.fifo # <<>> \/ wq.running = Heartbeat \/ Heartbeat \in wq.delayed
<1>1. wq \in HeartbeatQueue
  BY DEF InductiveInv, TaskInv, TypeOK
<1>2. Busy(wq, Heartbeat) /\ wq.cancelling \subseteq {wq.running}
  BY BusyOnline DEF InductiveInv, CancelInv
<1>3. wq.fifo # <<>> \/ wq.running = Heartbeat \/ wq.delayed # {} \/ wq.cancelling # {}
  BY <1>1, <1>2, Operations
<1> QED
  BY <1>1, <1>2, <1>3 DEF HeartbeatQueue

\* Two heartbeats fit into a timeout with their staggers and three without, so that
\* until one more is lost no entry of an online device is too old.
LEMMA FreshWhileHeard ==
  ASSUME InductiveInv, Undisturbed, powered, status = "ONLINE", known,
         lost < 2 \/ (lost = 2 /\ ~staggered)
  PROVE  age <= Timeout
<1>1. /\ age \in Nat /\ timer \in Nat /\ Timeout \in Nat /\ Interval \in Nat
      /\ 3 * Interval <= Timeout
  BY TimerFits, TimingAssumption DEF InductiveInv, TaskInv, TypeOK
<1>2. wq.fifo # <<>> \/ wq.running = Heartbeat \/ Heartbeat \in wq.delayed
  BY SomewhereOnline
<1>3. CASE lost < 2
  <2>1. \/ 2 * (age + timer) <= (lost + 1) * Timeout
        \/ 2 * age <= (lost + 1) * Timeout
        \/ 2 * age <= lost * Timeout
    BY <1>2, <1>3 DEF InductiveInv, AgeInv
  <2>2. lost = 0 \/ lost = 1
    BY <1>3 DEF InductiveInv, TaskInv, TypeOK
  <2> QED
    BY <1>1, <2>1, <2>2
<1>4. CASE lost = 2 /\ ~staggered
  <2>1. \/ age + timer <= 3 * Interval
        \/ age <= 3 * Interval
        \/ age <= 2 * Interval
    BY <1>2, <1>4 DEF InductiveInv, PunctualInv
  <2> QED
    BY <1>1, <2>1
<1> QED
  BY <1>3, <1>4

\* The peer removes a device only after three lost heartbeats, two if a delay was
\* staggered, or a silence of its own, and keeps no entry for longer than a timeout
\* and the period of its validation.
THEOREM ForgottenRightlyHolds == FairSpec => ForgottenRightly
<1>1. InductiveInv /\ [Next]_vars =>
        [known /\ ~known' => lost >= 3 \/ (lost = 2 /\ staggered) \/ Silent]_vars
  <2> SUFFICES ASSUME InductiveInv, Next, known, ~known', ~(lost >= 3),
                      ~(lost = 2 /\ staggered), ~Silent
               PROVE  FALSE
    OBVIOUS
  <2>1. /\ powered /\ status = "ONLINE" /\ Undisturbed
        /\ lost < 2 \/ (lost = 2 /\ ~staggered)
    BY DEF InductiveInv, TaskInv, TypeOK, Undisturbed, Silent
  <2>2. age <= Timeout
    BY <2>1, FreshWhileHeard
  <2>3. PeerValidates
    BY <2>1 DEF Next, Start, StartDiscovery, StatusChanges, StopCalled, StopStep, StopMarks,
           StopCancels, StopWaits, StopUnregisters, SetHeartbeatEnabled, Work, StartItem,
           SendHeartbeat, HeartbeatArrives, HeartbeatIsLost, HandlerEnds, TimerExpires,
           Tick, PowerLoss, peer
  <2> QED
    BY <2>2, <2>3 DEF PeerValidates, RemoveOfflineDevices
<1>2. InductiveInv => ForgottenInTime
  BY TimingAssumption DEF InductiveInv, TaskInv, TypeOK, PeerInv, ForgottenInTime
<1> QED
  BY <1>1, <1>2, Inductive, PTL
     DEF FairSpec, ForgottenRightly, ForgottenOnlyIfSilent
=============================================================================
