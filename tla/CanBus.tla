-------------------------------- MODULE CanBus --------------------------------
(***************************************************************************)
(* A CAN channel (subsys/canbus/canbus.cpp) and the service that owns it   *)
(* (CanbusService): the table of frame handlers, the driver's filters, the *)
(* queue between the interrupt and the bus thread, and the detection of    *)
(* the bit rate, while other threads register and remove handlers.         *)
(*                                                                         *)
(* A step of a thread ends where it calls the driver, whose lock it may    *)
(* wait for, or where the bus thread, which has the highest priority and   *)
(* is never preempted by a thread, may come in between.  One operation on  *)
(* an unordered_map is one step.                                           *)
(***************************************************************************)
EXTENDS Integers, Sequences, FiniteSets, FiniteSetsExt, Functions

CONSTANTS
  Ids,          \* the CAN IDs of the handlers
  Threads,      \* the threads that register and remove handlers
  Rates,        \* the bit rates that are tried, in order
  BusRates,     \* the rates the bus may have: one of Rates, or one that is not
  FilterCount,  \* the filters of the driver, numbered from 0
  QueueSize,    \* FRAME_MSGQ_SIZE
  MaxTokens,    \* bound: calls of RegisterFrameReceivedHandler
  MaxFrames     \* bound: frames on the bus

ASSUME CanBusAssumption ==
  /\ Ids \subseteq Nat /\ BusRates \subseteq Nat \ {0}
  /\ Rates \in Seq(Nat \ {0}) /\ Rates # <<>>
  /\ FilterCount \in Nat /\ QueueSize \in Nat \ {0}
  /\ MaxTokens \in Nat /\ MaxFrames \in Nat

VARIABLES
  busRate,      \* what the bus runs at
  saved,        \* bitrate of the channel in the configuration: 0 to detect it
  bitrate,      \* bitrate_
  detecting,    \* auto_detect_running_
  detected,     \* bitrate_detected_
  running,      \* the rate the controller is started at, or 0
  handlers,     \* handlers_: the registrations by CAN ID and handler ID
  filters,      \* can_filters_: the CAN IDs
  driver,       \* the CAN ID a filter of the driver lets pass, or NoId
  queue,        \* frame_msgq_
  pc,           \* where the bus thread is
  next,         \* the rate it tries, by its index
  todo,         \* the CAN IDs whose filter it has still to register
  call,         \* the call each thread is in
  held,         \* the registrations whose owners count on them
  blind,        \* those whose owner was told 0
  tokens, frames,
  seen,         \* which registrations have been handed a frame that is queued again
  odd           \* what has gone wrong before

driverVars == <<running, driver>>
table == <<handlers, filters>>
detection == <<bitrate, detecting, detected, pc, next, todo>>
owners == <<held, blind, tokens>>
traffic == <<queue, frames, seen>>
vars == <<busRate, saved, driverVars, table, detection, call, owners, traffic, odd>>

NoId == -1
Idle == [op |-> "none"]

(***************************************************************************)
(* Initialize                                                              *)
(***************************************************************************)
\* A channel that is not initialized is not kept by CanbusService
Init ==
  /\ busRate \in BusRates
  /\ saved \in {0, busRate}
  /\ bitrate = saved
  /\ detecting = (saved = 0) /\ detected = (saved # 0)
  /\ running = saved
  /\ handlers = <<>> /\ filters = {}
  /\ driver = [n \in 0..(FilterCount - 1) |-> NoId]
  /\ queue = <<>> /\ pc = "loop" /\ next = 1 /\ todo = {}
  /\ call = [t \in Threads |-> Idle]
  /\ held = {} /\ blind = {} /\ tokens = 0
  /\ frames = 0 /\ seen = {} /\ odd = {}

\* ~Canbus, which then waits for a thread that does not end
Destroy ==
  /\ detecting' = FALSE /\ running' = 0
  /\ UNCHANGED <<busRate, saved, driver, table, bitrate, detected, pc, next, todo,
                 call, owners, traffic, odd>>

(***************************************************************************)
(* RegisterFrameReceivedHandler                                            *)
(***************************************************************************)
Without(f, x) == Restrict(f, DOMAIN f \ {x})

\* insert and emplace of a map leave what it has under x
Emplaced(f, x, y) == [z \in DOMAIN f \cup {x} |-> IF z \in DOMAIN f THEN f[z] ELSE y]

List(id) == IF id \in DOMAIN handlers THEN handlers[id] ELSE <<>>

\* Mutant: the handlers are numbered by their count.
NewHandlerIdCounts(list) == Cardinality(DOMAIN list) + 1

NewHandlerId(list) == Max(DOMAIN list \cup {0}) + 1

RegisterHandler(t, id) ==
  /\ call[t] = Idle /\ tokens < MaxTokens
  /\ tokens' = tokens + 1
  /\ LET n == NewHandlerId(List(id))
     IN /\ handlers' = [Emplaced(handlers, id, <<>>) EXCEPT ![id] = Emplaced(@, n, tokens')]
        /\ call' = [call EXCEPT ![t] = [op |-> "check", id |-> id, n |-> n, token |-> tokens']]
  /\ UNCHANGED <<busRate, saved, driverVars, filters, detection, held, blind, traffic, odd>>

Returns(t, registrations) ==
  /\ call' = [call EXCEPT ![t] = Idle]
  /\ held' = held \cup registrations

Registration(c, n) == [id |-> c.id, n |-> n, token |-> c.token]

\* Mutant: the filter is registered by the thread that detects the rate.
RegisterChecksDetecting(t) ==
  /\ call[t].op = "check"
  /\ IF detecting
     THEN Returns(t, {Registration(call[t], 0)}) /\ blind' = blind \cup {call[t].token}
     ELSE call' = [call EXCEPT ![t].op = "filter"] /\ UNCHANGED <<held, blind>>
  /\ UNCHANGED <<busRate, saved, driverVars, table, detection, tokens, traffic, odd>>

\* As long as the rate is not known the caller is told 0, which is no handler's ID
RegisterChecks(t) ==
  /\ call[t].op = "check"
  /\ IF detecting /\ ~detected
     THEN Returns(t, {Registration(call[t], 0)}) /\ blind' = blind \cup {call[t].token}
     ELSE call' = [call EXCEPT ![t].op = "filter"] /\ UNCHANGED <<held, blind>>
  /\ UNCHANGED <<busRate, saved, driverVars, table, detection, tokens, traffic, odd>>

RegisterFilter(t) ==
  /\ call[t].op = "filter"
  /\ \/ /\ call[t].id \notin DOMAIN handlers                 \* throws
        /\ Returns(t, {})
     \/ /\ call[t].id \in DOMAIN handlers \cap filters
        /\ Returns(t, {Registration(call[t], call[t].n)})
     \/ /\ call[t].id \in DOMAIN handlers \ filters
        /\ call' = [call EXCEPT ![t].op = "add"]
        /\ UNCHANGED held
  /\ UNCHANGED <<busRate, saved, driverVars, table, detection, blind, tokens, traffic, odd>>

FreeFilters == {n \in DOMAIN driver : driver[n] = NoId}
HasFilter(id) == \E n \in DOMAIN driver : driver[n] = id

Added(id) == [driver EXCEPT ![Min(FreeFilters)] = id]

AddFilter(t) ==
  LET c == call[t]
  IN /\ c.op = "add" /\ FreeFilters # {}
     /\ driver' = Added(c.id)
     /\ filters' = filters \cup {c.id}
     /\ odd' = IF c.id \in filters THEN odd \cup {"raced"} ELSE odd
     /\ Returns(t, {Registration(c, c.n)})
     /\ UNCHANGED <<busRate, saved, running, handlers, detection, blind, tokens, traffic>>

\* Mutant: the handler stays in the table.
AddFilterFailsKeeps(t) ==
  /\ call[t].op = "add" /\ FreeFilters = {}
  /\ Returns(t, {})
  /\ UNCHANGED <<busRate, saved, driverVars, table, detection, blind, tokens, traffic, odd>>

\* at() throws when the list is gone
AddFilterFails(t) ==
  LET c == call[t]
  IN /\ c.op = "add" /\ FreeFilters = {}
     /\ handlers' = IF c.id \in DOMAIN handlers
                    THEN [handlers EXCEPT ![c.id] = Without(@, c.n)] ELSE handlers
     /\ Returns(t, {})
     /\ UNCHANGED <<busRate, saved, driverVars, filters, detection, blind, tokens, traffic, odd>>

(***************************************************************************)
(* RemoveFrameReceivedHandler                                              *)
(***************************************************************************)
\* The owner does not count on the handler any more, whatever the call returns
RemoveHandler(t, h) ==
  /\ call[t] = Idle
  /\ held' = held \ {h}
  /\ IF h.n \in DOMAIN List(h.id)
     THEN /\ handlers' = [handlers EXCEPT ![h.id] = Without(@, h.n)]
          /\ call' = IF DOMAIN List(h.id) # {h.n} THEN call
                     ELSE [call EXCEPT ![t] =
                             [op |-> IF h.id \in filters THEN "unfilter" ELSE "erase", id |-> h.id]]
     ELSE UNCHANGED <<handlers, call>>
  /\ UNCHANGED <<busRate, saved, driverVars, filters, detection, blind, tokens, traffic, odd>>

\* Mutant: the number of the filter is looked up.
FilterNumberLookedUp(id) == {n \in DOMAIN driver : driver[n] = id}

\* The driver is given the CAN ID for the number of the filter.
FilterNumber(id) == {id} \cap DOMAIN driver

RemoveFilter(t) ==
  LET id == call[t].id
  IN /\ call[t].op = "unfilter"
     /\ driver' = [n \in DOMAIN driver |-> IF n \in FilterNumber(id) THEN NoId ELSE driver[n]]
     /\ odd' = IF \E n \in DOMAIN driver : driver[n] \notin {id, driver'[n]}
               THEN odd \cup {"taken"} ELSE odd
     /\ call' = [call EXCEPT ![t].op = "forget"]
     /\ UNCHANGED <<busRate, saved, running, table, detection, owners, traffic>>

\* What is erased may be new: another thread may have registered the ID since
EraseHandlers(t) ==
  LET id == call[t].id
  IN /\ call[t].op \in {"forget", "erase"}
     /\ filters' = IF call[t].op = "forget" THEN filters \ {id} ELSE filters
     /\ odd' = odd \cup (IF List(id) # <<>> THEN {"crossed"} ELSE {})
                   \cup (IF call[t].op = "forget" /\ HasFilter(id) THEN {"leaked"} ELSE {})
     /\ handlers' = Without(handlers, id)
     /\ call' = [call EXCEPT ![t] = Idle]
     /\ UNCHANGED <<busRate, saved, driverVars, detection, owners, traffic>>

(***************************************************************************)
(* The bus thread.                                                         *)
(***************************************************************************)
ThreadLoop ==
  /\ pc = "loop"
  /\ pc' = IF detecting /\ ~detected THEN "detect" ELSE "frames"
  /\ next' = 1
  /\ UNCHANGED <<busRate, saved, driverVars, table, bitrate, detecting, detected, todo,
                 call, owners, traffic, odd>>

\* AutoDetectBitrate: the rates in order, and again after a while
TestBitrate ==
  /\ pc = "detect" /\ detecting
  /\ running' = Rates[next]
  /\ pc' = "test"
  /\ UNCHANGED <<busRate, saved, driver, table, bitrate, detecting, detected, next, todo,
                 call, owners, traffic, odd>>

DetectionStopped ==
  /\ pc = "detect" /\ ~detecting
  /\ pc' = "frames"
  /\ UNCHANGED <<busRate, saved, driverVars, table, bitrate, detecting, detected, next,
                 todo, call, owners, traffic, odd>>

\* Mutant: the search goes on with the rate that failed.
NextRateStays == next

\* Mutant: the last rate has a next one.
NextRateRuns == next + 1

NextRate == IF next < Len(Rates) THEN next + 1 ELSE 1

TestFails ==
  /\ pc = "test"
  /\ running' = 0 /\ next' = NextRate /\ pc' = "detect"
  /\ UNCHANGED <<busRate, saved, driver, table, bitrate, detecting, detected, todo,
                 call, owners, traffic, odd>>

\* Enough frames have come in, without errors
TestSucceeds ==
  /\ pc = "test" /\ running = busRate
  /\ detected' = TRUE /\ bitrate' = Rates[next]
  /\ pc' = "callback"
  /\ UNCHANGED <<busRate, saved, driverVars, table, detecting, next, todo, call, owners,
                 traffic, odd>>

\* CanbusService::BitrateUpdated saves the configuration as it is
BitrateUpdated ==
  /\ pc = "callback"
  /\ saved' = saved
  /\ pc' = "filters" /\ todo' = DOMAIN handlers
  /\ UNCHANGED <<busRate, driverVars, table, bitrate, detecting, detected, next, call,
                 owners, traffic, odd>>

\* Mutant: only the first filter is registered.
RegisterFiltersFirst(id) ==
  /\ pc = "filters" /\ id \in todo /\ id \in DOMAIN handlers
  /\ todo' = {}
  /\ IF id \in filters \/ FreeFilters = {}
     THEN odd' = (IF id \in filters THEN odd ELSE odd \cup {"short"}) /\ UNCHANGED <<driver, filters>>
     ELSE driver' = Added(id) /\ filters' = filters \cup {id} /\ odd' = odd
  /\ UNCHANGED <<busRate, saved, running, handlers, bitrate, detecting, detected, pc,
                 next, call, owners, traffic>>

\* Mutant: the filter is registered whether or not there is one.
RegisterFiltersAgain(id) ==
  /\ pc = "filters" /\ id \in todo
  /\ todo' = todo \ {id}
  /\ IF id \notin DOMAIN handlers THEN UNCHANGED <<driver, filters, odd>>
     ELSE IF FreeFilters = {} THEN odd' = odd \cup {"short"} /\ UNCHANGED <<driver, filters>>
     ELSE driver' = Added(id) /\ filters' = filters \cup {id} /\ odd' = odd
  /\ UNCHANGED <<busRate, saved, running, handlers, bitrate, detecting, detected, pc,
                 next, call, owners, traffic>>

\* Whether the driver had a filter left is not looked at.  An ID that comes into
\* the table meanwhile has its filter registered by its own thread.
RegisterFilters(id) ==
  /\ pc = "filters" /\ id \in todo
  /\ todo' = todo \ {id}
  /\ IF id \in filters \/ id \notin DOMAIN handlers THEN UNCHANGED <<driver, filters, odd>>
     ELSE IF FreeFilters = {} THEN odd' = odd \cup {"short"} /\ UNCHANGED <<driver, filters>>
     ELSE driver' = Added(id) /\ filters' = filters \cup {id} /\ odd' = odd
  /\ UNCHANGED <<busRate, saved, running, handlers, bitrate, detecting, detected, pc,
                 next, call, owners, traffic>>

FiltersRegistered ==
  /\ pc = "filters" /\ todo = {}
  /\ pc' = "frames"
  /\ UNCHANGED <<busRate, saved, driverVars, table, bitrate, detecting, detected, next,
                 todo, call, owners, traffic, odd>>

\* The interrupt: a frame comes once for each filter that lets it pass, or only
\* for the first, which depends on the driver.
FrameArrives(id) ==
  LET passes == Cardinality({n \in DOMAIN driver : driver[n] = id})
      copies == [i \in 1..passes |-> [id |-> id, frame |-> frames + 1]]
  IN /\ running = busRate /\ frames < MaxFrames /\ passes > 0
     /\ frames' = frames + 1
     /\ \E n \in {1, passes} :
          queue' = IF id \in DOMAIN handlers
                   THEN queue \o SubSeq(copies, 1, Min({n, QueueSize - Len(queue)}))
                   ELSE queue
     /\ UNCHANGED <<busRate, saved, driverVars, table, detection, call, owners, seen, odd>>

Waiting(q) == {q[i].frame : i \in DOMAIN q}

Handed(f) == {[frame |-> f.frame, token |-> List(f.id)[n]] : n \in DOMAIN List(f.id)}

ProcessFramesTask ==
  /\ pc = "frames" /\ queue # <<>>
  /\ queue' = Tail(queue)
  /\ seen' = {s \in seen \cup Handed(Head(queue)) : s.frame \in Waiting(Tail(queue))}
  /\ odd' = IF Handed(Head(queue)) \cap seen # {} THEN odd \cup {"twice"} ELSE odd
  /\ UNCHANGED <<busRate, saved, driverVars, table, detection, call, owners, frames>>

BusThread ==
  \/ ThreadLoop \/ TestBitrate \/ DetectionStopped \/ TestFails \/ TestSucceeds
  \/ BitrateUpdated \/ FiltersRegistered \/ ProcessFramesTask
  \/ \E id \in Ids : RegisterFilters(id)

Application(t) ==
  \/ \E id \in Ids : RegisterHandler(t, id)
  \/ RegisterChecks(t) \/ RegisterFilter(t) \/ AddFilter(t) \/ AddFilterFails(t)
  \/ \E h \in held : RemoveHandler(t, h)
  \/ RemoveFilter(t) \/ EraseHandlers(t)

Next ==
  \/ BusThread \/ Destroy
  \/ \E t \in Threads : Application(t)
  \/ \E id \in Ids : FrameArrives(id)

Spec == Init /\ [][Next]_vars

\* The bus thread goes on, and a bus with traffic at the rate that is tried is
\* noticed in the end.
FairSpec == Spec /\ WF_vars(BusThread) /\ SF_vars(TestSucceeds)

(***************************************************************************)
(* Properties.                                                             *)
(***************************************************************************)
Calls ==
  {Idle} \cup [op : {"unfilter", "forget", "erase"}, id : Ids]
    \cup [op : {"check", "filter", "add"}, id : Ids, n : 1..MaxTokens, token : 1..MaxTokens]

TypeOK ==
  /\ busRate \in BusRates /\ saved \in {0, busRate} /\ bitrate \in {0, busRate}
  /\ detecting \in BOOLEAN /\ detected \in BOOLEAN /\ running \in {0} \cup BusRates \cup Range(Rates)
  /\ DOMAIN handlers \subseteq Ids /\ filters \subseteq Ids
  /\ \A id \in DOMAIN handlers : /\ DOMAIN handlers[id] \subseteq 1..MaxTokens
                                /\ handlers[id] \in [DOMAIN handlers[id] -> 1..MaxTokens]
  /\ driver \in [0..(FilterCount - 1) -> Ids \cup {NoId}]
  /\ queue \in Seq([id : Ids, frame : 1..MaxFrames]) /\ Len(queue) <= QueueSize
  /\ pc \in {"loop", "detect", "test", "callback", "filters", "frames"}
  /\ next \in DOMAIN Rates /\ todo \subseteq Ids
  /\ call \in [Threads -> Calls]
  /\ held \subseteq [id : Ids, n : 0..MaxTokens, token : 1..MaxTokens]
  /\ blind \subseteq 1..MaxTokens /\ tokens \in 0..MaxTokens /\ frames \in 0..MaxFrames
  /\ seen \subseteq [frame : 1..MaxFrames, token : 1..MaxTokens]
  /\ odd \subseteq {"raced", "leaked", "taken", "crossed", "short", "twice"}

Quiet == \A t \in Threads : call[t] = Idle

\* what the table holds
Entries == UNION {{[id |-> id, n |-> n, token |-> handlers[id][n]] : n \in DOMAIN handlers[id]} :
                    id \in DOMAIN handlers}

Registers(t) == call[t].op \in {"check", "filter", "add"}

\* A handler whose owner has its ID is in the table under that ID, whatever other
\* owners register and remove, unless a list was erased as another registered in it.
HandlersServed ==
  "crossed" \notin odd => \A h \in held : h.n > 0 => h \in Entries

\* No handler stays in the table that its owner has removed, except one that was
\* registered before the bit rate was known, whose owner was told 0.
NoDeadHandler ==
  \A e \in Entries : \/ e.token \in blind
                     \/ \E h \in held : h.token = e.token
                     \/ \E t \in Threads : Registers(t) /\ call[t].token = e.token

\* Whether a handler is registered before, during or after the detection of the bit
\* rate, its ID has a filter in the driver once all have finished, unless the driver
\* had none left or the filter was taken for another ID.
RegisteredIsHeard ==
  detected /\ pc = "frames" /\ Quiet /\ odd \cap {"taken", "short"} = {} =>
    \A e \in Entries : HasFilter(e.id)

\* No handler is handed a frame twice, unless the table forgot an ID that still had a
\* filter or two threads registered the filter of an ID at once.
NeverTwice == odd \cap {"leaked", "raced"} = {} => "twice" \notin odd

\* The bit rate of a bus with traffic at one of the rates is found.
DetectionEnds ==
  busRate \in Range(Rates) ~> detected \/ ~detecting

\* "Remove filter" (canbus.cpp:276): the filter of an ID that has no handler left is gone.
FilterRemoved ==
  Quiet /\ odd \cap {"raced", "crossed"} = {} =>
    \A n \in DOMAIN driver : driver[n] # NoId => List(driver[n]) # <<>>

\* "Bitrate for bus channel %d updated to %d bps." (canbus_service.cpp:76)
BitrateSaved == pc = "filters" => saved = bitrate

\* The handler table is what its users asked for: each handler is in it as long as
\* its owner wants, and none is left in it afterwards.
HandlersInv == TypeOK /\ HandlersServed /\ NoDeadHandler

\* Every registered handler hears its ID, and hears no frame twice.
HeardOnce == RegisteredIsHeard /\ NeverTwice

(***************************************************************************)
(* The inductive invariant.                                                *)
(***************************************************************************)
\* A token stands for one registration: the one call, the entries of the table and
\* the owners that have it mean the same place in the table.
TokenInv ==
  /\ \A e \in Entries : e.n <= e.token /\ e.token <= tokens
  /\ \A d, e \in Entries : d.token = e.token => d = e
  /\ \A h \in held : /\ h.token <= tokens /\ (h.n = 0 => h.token \in blind)
                     /\ \A e \in Entries : h.token = e.token => h.n = 0 \/ h = e
  /\ \A t \in Threads : Registers(t) =>
       /\ call[t].token <= tokens
       /\ \A h \in held : h.token # call[t].token
       /\ \A e \in Entries : e.token = call[t].token => e = Registration(call[t], call[t].n)
       /\ \A u \in Threads : Registers(u) /\ call[u].token = call[t].token => t = u

\* A registration under way is in the table too, unless a list was erased.
ServedInv ==
  "crossed" \notin odd =>
    \A t \in Threads : Registers(t) => Registration(call[t], call[t].n) \in Entries

\* The rate that is tried is the one the controller runs at, if it runs.
DetectionInv == pc = "test" => running \in {0, Rates[next]}

\* An ID in the table of filters has one in the driver, or is being forgotten.
FilterInv ==
  "taken" \notin odd =>
    \A id \in filters : HasFilter(id) \/ \E t \in Threads : call[t] = [op |-> "forget", id |-> id]

\* A handler whose ID has no filter yet is going to get one: from the call that
\* registers it, or from the bus thread when the bit rate is known.
Awaited(e) ==
  \/ ~detected \/ pc = "callback"
  \/ pc = "filters" /\ e.id \in todo

SettledInv ==
  "short" \notin odd =>
    \A e \in Entries : \/ e.id \in filters
                       \/ \E t \in Threads : Registers(t) /\ call[t].token = e.token
                       \/ e.token \in blind /\ Awaited(e)

\* While no filter was left behind and none registered twice, an ID has one filter
\* at most, and a frame is queued once.
OnceInv ==
  /\ \A i \in DOMAIN queue : queue[i].frame <= frames
  /\ odd \cap {"leaked", "raced"} = {} =>
       /\ \A n \in DOMAIN driver : driver[n] # NoId => driver[n] \in filters
       /\ \A n, m \in DOMAIN driver : driver[n] = driver[m] => driver[n] = NoId \/ n = m
       /\ \A i, j \in DOMAIN queue : queue[i].frame = queue[j].frame => i = j
       /\ seen = {} /\ "twice" \notin odd

InductiveInv ==
  /\ TypeOK /\ HandlersServed /\ NoDeadHandler
  /\ TokenInv /\ ServedInv /\ DetectionInv /\ FilterInv /\ SettledInv /\ OnceInv
=============================================================================
