---------------------------- MODULE CanBusProofs ----------------------------
(***************************************************************************)
(* Theorems about CanBus, for any number of threads, CAN IDs, filters,     *)
(* registrations and frames.                                               *)
(***************************************************************************)
EXTENDS CanBus, TLAPS, FiniteSetTheorems, WellFoundedInduction

(***************************************************************************)
(* The least and the greatest of a set of numbers.                         *)
(***************************************************************************)
LEMMA LeastNat ==
  ASSUME NEW S \in SUBSET Nat, S # {}
  PROVE  \E x \in S : \A y \in S : x <= y
<1> DEFINE Less == {p \in Nat \X Nat : p[1] < p[2]}
<1>1. IsWellFoundedOn(Less, Nat)
  <2>1. OpToRel(<, Nat) = Less
    BY DEF OpToRel
  <2> QED
    BY <2>1, NatLessThanWellFounded
<1>2. PICK x \in S : \A y \in S : <<y, x>> \notin Less
  <2> HIDE DEF Less
  <2> QED
    BY <1>1, WFMin
<1>3. ASSUME NEW y \in S PROVE x <= y
  <2>1. <<y, x>> \notin Less /\ x \in Nat /\ y \in Nat
    BY <1>2
  <2> QED
    BY <2>1
<1> QED
  BY <1>3

LEMMA GreatestNat ==
  ASSUME NEW S \in SUBSET Nat, S # {}, NEW b \in Nat, \A x \in S : x <= b
  PROVE  \E x \in S : \A y \in S : x >= y
<1> DEFINE T == {b - x : x \in S}
<1>1. \A x \in S : b - x \in Nat
  OBVIOUS
<1>2. T \in SUBSET Nat /\ T # {}
  BY <1>1
<1>3. PICK m \in T : \A k \in T : m <= k
  BY <1>2, LeastNat
<1>4. PICK x \in S : m = b - x
  OBVIOUS
<1>5. ASSUME NEW y \in S PROVE x >= y
  <2>1. m <= b - y
    BY <1>3
  <2> QED
    BY <1>4, <2>1
<1> QED
  BY <1>5

\* The ID of a new handler is one that no handler in the list has.
LEMMA NewIsNew ==
  ASSUME NEW list, DOMAIN list \subseteq Nat, NEW b \in Nat, \A n \in DOMAIN list : n <= b
  PROVE  NewHandlerId(list) \in 1..(b + 1) /\ NewHandlerId(list) \notin DOMAIN list
<1> DEFINE S == DOMAIN list \cup {0}
<1>1. S \in SUBSET Nat /\ S # {} /\ \A n \in S : n <= b
  OBVIOUS
<1>2. PICK x \in S : \A y \in S : x >= y
  BY <1>1, GreatestNat
<1>3. /\ Max(S) \in S
      /\ \A y \in S : Max(S) >= y
  BY <1>2 DEF Max
<1>4. NewHandlerId(list) = Max(S) + 1
  BY DEF NewHandlerId
<1> HIDE DEF S
<1>5. NewHandlerId(list) \in 1..(b + 1) /\ NewHandlerId(list) \notin S
  <2>1. Max(S) \in Nat /\ Max(S) <= b
    BY <1>1, <1>3
  <2>2. NewHandlerId(list) \notin S
    <3>1. SUFFICES ASSUME Max(S) + 1 \in S PROVE FALSE
      BY <1>4
    <3> QED
      BY <1>3, <2>1, <3>1
  <2> QED
    BY <1>4, <2>1, <2>2
<1> QED
  BY <1>5 DEF S

(***************************************************************************)
(* The table of handlers.                                                  *)
(***************************************************************************)
TableOK(hs) ==
  /\ DOMAIN hs \subseteq Ids
  /\ \A id \in DOMAIN hs : /\ DOMAIN hs[id] \subseteq 1..MaxTokens
                          /\ hs[id] \in [DOMAIN hs[id] -> 1..MaxTokens]

Entry(id, n, token) == [id |-> id, n |-> n, token |-> token]

EntriesOf(hs) ==
  UNION {{Entry(id, n, hs[id][n]) : n \in DOMAIN hs[id]} : id \in DOMAIN hs}

LEMMA EntriesAre ==
  /\ Entries = EntriesOf(handlers) /\ Entries' = EntriesOf(handlers')
<1>1. Entries = EntriesOf(handlers)
  BY DEF Entries, EntriesOf, Entry
<1>2. Entries' = EntriesOf(handlers')
  BY DEF Entries, EntriesOf, Entry
<1> QED
  BY <1>1, <1>2

\* What is an entry, and what its fields are.
LEMMA EntryOf ==
  ASSUME NEW hs, TableOK(hs)
  PROVE  /\ \A e : e \in EntriesOf(hs) <=>
                   \E id \in DOMAIN hs : \E n \in DOMAIN hs[id] : e = Entry(id, n, hs[id][n])
         /\ \A e \in EntriesOf(hs) :
              /\ e \in [id : Ids, n : 1..MaxTokens, token : 1..MaxTokens]
              /\ e.id \in DOMAIN hs /\ e.n \in DOMAIN hs[e.id] /\ e.token = hs[e.id][e.n]
<1>1. \A e : e \in EntriesOf(hs) <=>
             \E id \in DOMAIN hs : \E n \in DOMAIN hs[id] : e = Entry(id, n, hs[id][n])
  BY DEF EntriesOf
<1>2. ASSUME NEW e \in EntriesOf(hs)
      PROVE  /\ e \in [id : Ids, n : 1..MaxTokens, token : 1..MaxTokens]
             /\ e.id \in DOMAIN hs /\ e.n \in DOMAIN hs[e.id] /\ e.token = hs[e.id][e.n]
  <2>1. PICK id \in DOMAIN hs : \E n \in DOMAIN hs[id] : e = Entry(id, n, hs[id][n])
    BY <1>1
  <2>2. PICK n \in DOMAIN hs[id] : e = Entry(id, n, hs[id][n])
    BY <2>1
  <2>3. id \in Ids /\ n \in 1..MaxTokens /\ hs[id][n] \in 1..MaxTokens
    BY DEF TableOK
  <2> QED
    BY <2>2, <2>3 DEF Entry
<1> QED
  BY <1>1, <1>2

\* Two entries of one place are one.
LEMMA OneEntry ==
  ASSUME NEW hs, TableOK(hs), NEW d \in EntriesOf(hs), NEW e \in EntriesOf(hs),
         d.id = e.id, d.n = e.n
  PROVE  d = e
BY EntryOf

Registered(hs, id, n, token) ==
  [Emplaced(hs, id, <<>>) EXCEPT ![id] = Emplaced(@, n, token)]

\* Registering adds one entry.
LEMMA EntryRegistered ==
  ASSUME NEW hs, TableOK(hs), NEW id \in Ids, NEW n \in 1..MaxTokens,
         NEW token \in 1..MaxTokens, id \in DOMAIN hs => n \notin DOMAIN hs[id]
  PROVE  LET new == Registered(hs, id, n, token)
         IN /\ TableOK(new)
            /\ EntriesOf(new) = EntriesOf(hs) \cup {Entry(id, n, token)}
            /\ DOMAIN new = DOMAIN hs \cup {id}
<1> DEFINE new == Registered(hs, id, n, token)
<1> DEFINE old == IF id \in DOMAIN hs THEN hs[id] ELSE <<>>
           list == [m \in DOMAIN old \cup {n} |-> IF m \in DOMAIN old THEN old[m] ELSE token]
<1>1. /\ DOMAIN new = DOMAIN hs \cup {id}
      /\ new[id] = list
      /\ \A x \in DOMAIN hs : x # id => new[x] = hs[x]
  <2>1. new = [x \in DOMAIN hs \cup {id} |-> IF x = id THEN list ELSE hs[x]]
    BY DEF Registered, Emplaced
  <2> QED
    BY <2>1
<1>2. DOMAIN old \subseteq 1..MaxTokens /\ \A m \in DOMAIN old : old[m] \in 1..MaxTokens
  <2>1. CASE id \in DOMAIN hs
    BY <2>1 DEF TableOK
  <2>2. CASE id \notin DOMAIN hs
    BY <2>2
  <2> QED
    BY <2>1, <2>2
<1>3. n \notin DOMAIN old
  OBVIOUS
<1>4. /\ DOMAIN list = DOMAIN old \cup {n} /\ list[n] = token
      /\ \A m \in DOMAIN old : list[m] = old[m]
      /\ list \in [DOMAIN list -> 1..MaxTokens]
  BY <1>2, <1>3
<1>5. id \in DOMAIN hs => old = hs[id]
  OBVIOUS
<1>6. id \notin DOMAIN hs => DOMAIN old = {}
  OBVIOUS
<1> HIDE DEF old, list, new
<1>7. TableOK(new)
  <2>1. DOMAIN new \subseteq Ids
    BY <1>1 DEF TableOK
  <2>2. ASSUME NEW x \in DOMAIN new
        PROVE  DOMAIN new[x] \subseteq 1..MaxTokens /\ new[x] \in [DOMAIN new[x] -> 1..MaxTokens]
    <3>1. CASE x = id
      BY <1>1, <1>2, <1>4, <3>1
    <3>2. CASE x # id
      BY <1>1, <3>2 DEF TableOK
    <3> QED
      BY <3>1, <3>2
  <2> QED
    BY <2>1, <2>2 DEF TableOK
<1>8. ASSUME NEW e PROVE e \in EntriesOf(new) <=> e \in EntriesOf(hs) \/ e = Entry(id, n, token)
  <2>1. ASSUME e \in EntriesOf(new) PROVE e \in EntriesOf(hs) \/ e = Entry(id, n, token)
    <3>1. PICK x \in DOMAIN new : \E m \in DOMAIN new[x] : e = Entry(x, m, new[x][m])
      BY <1>7, <2>1, EntryOf
    <3>2. PICK m \in DOMAIN new[x] : e = Entry(x, m, new[x][m])
      BY <3>1
    <3>3. CASE x = id /\ m = n
      BY <1>1, <1>4, <3>2, <3>3
    <3>4. CASE x = id /\ m # n
      <4>1. m \in DOMAIN old /\ new[x][m] = old[m]
        BY <1>1, <1>4, <3>4
      <4>2. id \in DOMAIN hs /\ m \in DOMAIN hs[id] /\ new[x][m] = hs[id][m]
        BY <1>5, <1>6, <4>1
      <4> QED
        BY <3>2, <3>4, <4>2, EntryOf
    <3>5. CASE x # id
      BY <1>1, <3>2, <3>5, EntryOf
    <3> QED
      BY <3>3, <3>4, <3>5
  <2>2. ASSUME e \in EntriesOf(hs) PROVE e \in EntriesOf(new)
    <3>1. PICK x \in DOMAIN hs : \E m \in DOMAIN hs[x] : e = Entry(x, m, hs[x][m])
      BY <2>2, EntryOf
    <3>2. PICK m \in DOMAIN hs[x] : e = Entry(x, m, hs[x][m])
      BY <3>1
    <3>3. x \in DOMAIN new /\ m \in DOMAIN new[x] /\ new[x][m] = hs[x][m]
      BY <1>1, <1>4, <1>5
    <3> QED
      BY <1>7, <3>2, <3>3, EntryOf
  <2>3. Entry(id, n, token) \in EntriesOf(new)
    <3>1. id \in DOMAIN new /\ n \in DOMAIN new[id] /\ new[id][n] = token
      BY <1>1, <1>4
    <3> QED
      BY <1>7, <3>1, EntryOf
  <2> QED
    BY <2>1, <2>2, <2>3
<1> QED
  BY <1>1, <1>7, <1>8 DEF new

Unregistered(hs, id, n) == [hs EXCEPT ![id] = Without(@, n)]

\* Removing a handler removes the entry of its place.
LEMMA EntryRemoved ==
  ASSUME NEW hs, TableOK(hs), NEW id \in DOMAIN hs, NEW n
  PROVE  LET new == Unregistered(hs, id, n)
         IN /\ TableOK(new) /\ DOMAIN new = DOMAIN hs
            /\ EntriesOf(new) = {e \in EntriesOf(hs) : ~(e.id = id /\ e.n = n)}
<1> DEFINE new == Unregistered(hs, id, n)
<1>1. /\ DOMAIN new = DOMAIN hs
      /\ new[id] = [m \in DOMAIN hs[id] \ {n} |-> hs[id][m]]
      /\ \A x \in DOMAIN hs : x # id => new[x] = hs[x]
  BY DEF Unregistered, Without, Restrict
<1> HIDE DEF new
<1>2. TableOK(new)
  <2>1. ASSUME NEW x \in DOMAIN new
        PROVE  DOMAIN new[x] \subseteq 1..MaxTokens /\ new[x] \in [DOMAIN new[x] -> 1..MaxTokens]
    BY <1>1 DEF TableOK
  <2> QED
    BY <1>1, <2>1 DEF TableOK
<1>3. ASSUME NEW e \in EntriesOf(new) PROVE e \in EntriesOf(hs) /\ ~(e.id = id /\ e.n = n)
  <2>1. /\ e.id \in DOMAIN new /\ e.n \in DOMAIN new[e.id] /\ e.token = new[e.id][e.n]
        /\ e = Entry(e.id, e.n, e.token)
    BY <1>2, EntryOf DEF Entry
  <2>2. e.id \in DOMAIN hs /\ e.n \in DOMAIN hs[e.id] /\ e.token = hs[e.id][e.n]
    BY <1>1, <2>1
  <2> QED
    BY <1>1, <2>1, <2>2, EntryOf
<1>4. ASSUME NEW e \in EntriesOf(hs), ~(e.id = id /\ e.n = n) PROVE e \in EntriesOf(new)
  <2>1. /\ e.id \in DOMAIN hs /\ e.n \in DOMAIN hs[e.id] /\ e.token = hs[e.id][e.n]
        /\ e = Entry(e.id, e.n, e.token)
    BY EntryOf DEF Entry
  <2>2. e.id \in DOMAIN new /\ e.n \in DOMAIN new[e.id] /\ e.token = new[e.id][e.n]
    BY <1>1, <1>4, <2>1
  <2> QED
    BY <1>2, <2>1, <2>2, EntryOf
<1> QED
  BY <1>1, <1>2, <1>3, <1>4 DEF new

\* Erasing a list removes the entries of its CAN ID.
LEMMA ListErased ==
  ASSUME NEW hs, TableOK(hs), NEW id
  PROVE  LET new == Without(hs, id)
         IN /\ TableOK(new) /\ DOMAIN new = DOMAIN hs \ {id}
            /\ EntriesOf(new) = {e \in EntriesOf(hs) : e.id # id}
<1> DEFINE new == Without(hs, id)
<1>1. /\ DOMAIN new = DOMAIN hs \ {id}
      /\ \A x \in DOMAIN hs : x # id => new[x] = hs[x]
  BY DEF Without, Restrict
<1> HIDE DEF new
<1>2. TableOK(new)
  BY <1>1 DEF TableOK
<1>3. ASSUME NEW e \in EntriesOf(new) PROVE e \in EntriesOf(hs) /\ e.id # id
  <2>1. /\ e.id \in DOMAIN new /\ e.n \in DOMAIN new[e.id] /\ e.token = new[e.id][e.n]
        /\ e = Entry(e.id, e.n, e.token)
    BY <1>2, EntryOf DEF Entry
  <2> QED
    BY <1>1, <2>1, EntryOf
<1>4. ASSUME NEW e \in EntriesOf(hs), e.id # id PROVE e \in EntriesOf(new)
  <2>1. /\ e.id \in DOMAIN hs /\ e.n \in DOMAIN hs[e.id] /\ e.token = hs[e.id][e.n]
        /\ e = Entry(e.id, e.n, e.token)
    BY EntryOf DEF Entry
  <2> QED
    BY <1>1, <1>2, <1>4, <2>1, EntryOf
<1> QED
  BY <1>1, <1>2, <1>3, <1>4 DEF new

(***************************************************************************)
(* The calls of the threads.                                               *)
(***************************************************************************)
Registering == [op : {"check", "filter", "add"}, id : Ids, n : 1..MaxTokens, token : 1..MaxTokens]
Removing == [op : {"unfilter", "forget", "erase"}, id : Ids]

\* The step a call is at tells what it is.
LEMMA CallKinds ==
  ASSUME TypeOK, NEW t \in Threads
  PROVE  /\ call[t] \in Calls
         /\ Registers(t) <=> call[t] \in Registering
         /\ Registers(t) => /\ call[t].id \in Ids /\ call[t].n \in 1..MaxTokens
                            /\ call[t].token \in 1..MaxTokens
         /\ call[t].op \in {"unfilter", "forget", "erase"} =>
              call[t] \in Removing /\ call[t].id \in Ids
         /\ call[t] = Idle => ~Registers(t) /\ call[t].op = "none"
<1>1. call[t] \in Calls /\ Calls = {Idle} \cup Removing \cup Registering
  BY DEF TypeOK, Calls, Removing, Registering
<1>2. CASE call[t] = Idle
  BY <1>1, <1>2 DEF Idle, Registers, Registering
<1>3. CASE call[t] \in Removing
  BY <1>1, <1>3 DEF Removing, Idle, Registers, Registering
<1>4. CASE call[t] \in Registering
  BY <1>1, <1>4 DEF Registering, Idle, Registers
<1> QED
  BY <1>1, <1>2, <1>3, <1>4

\* What a step of a registration and of a removal leave of the call.
LEMMA NextOp ==
  ASSUME TypeOK, NEW t \in Threads, NEW o
  PROVE  /\ Registers(t) /\ o \in {"check", "filter", "add"} =>
              /\ [call[t] EXCEPT !.op = o] \in Registering
              /\ [call[t] EXCEPT !.op = o].op = o
              /\ [call[t] EXCEPT !.op = o].id = call[t].id
              /\ [call[t] EXCEPT !.op = o].n = call[t].n
              /\ [call[t] EXCEPT !.op = o].token = call[t].token
         /\ call[t].op = "unfilter" =>
              [call[t] EXCEPT !.op = "forget"] = [op |-> "forget", id |-> call[t].id]
<1>1. ASSUME Registers(t), o \in {"check", "filter", "add"}
      PROVE  /\ [call[t] EXCEPT !.op = o] \in Registering
             /\ [call[t] EXCEPT !.op = o].op = o
             /\ [call[t] EXCEPT !.op = o].id = call[t].id
             /\ [call[t] EXCEPT !.op = o].n = call[t].n
             /\ [call[t] EXCEPT !.op = o].token = call[t].token
  <2>1. call[t] \in Registering
    BY <1>1, CallKinds
  <2> QED
    BY <1>1, <2>1 DEF Registering
<1>2. ASSUME call[t].op = "unfilter"
      PROVE  [call[t] EXCEPT !.op = "forget"] = [op |-> "forget", id |-> call[t].id]
  <2>1. call[t] \in Removing
    BY <1>2, CallKinds
  <2> QED
    BY <1>2, <2>1 DEF Removing
<1> QED
  BY <1>1, <1>2

\* A step gives one thread another call.
LEMMA CallsStay ==
  ASSUME TypeOK, NEW t \in Threads, NEW c \in Calls, call' = [call EXCEPT ![t] = c]
  PROVE  /\ call' \in [Threads -> Calls]
         /\ call'[t] = c /\ \A u \in Threads : u # t => call'[u] = call[u]
BY DEF TypeOK

\* Registering, Removing and Idle are the calls.
LEMMA KindsAreCalls == Calls = {Idle} \cup Removing \cup Registering
BY DEF Calls, Removing, Registering

\* What TypeOK says of the table and of its entries.
LEMMA EntryTypes ==
  ASSUME TypeOK
  PROVE  /\ TableOK(handlers) /\ Entries = EntriesOf(handlers)
         /\ Entries \subseteq [id : Ids, n : 1..MaxTokens, token : 1..MaxTokens]
         /\ \A e \in Entries : /\ e.id \in DOMAIN handlers /\ e.n \in DOMAIN handlers[e.id]
                               /\ e.token = handlers[e.id][e.n]
         /\ \A id \in DOMAIN handlers : \A n \in DOMAIN handlers[id] :
              Entry(id, n, handlers[id][n]) \in Entries
<1>1. TableOK(handlers)
  BY DEF TypeOK, TableOK
<1> QED
  BY <1>1, EntriesAre, EntryOf

(***************************************************************************)
(* The filters of the driver.                                              *)
(***************************************************************************)
\* The next free filter is a free filter.
LEMMA NextFree ==
  ASSUME TypeOK, FreeFilters # {}
  PROVE  Min(FreeFilters) \in DOMAIN driver /\ driver[Min(FreeFilters)] = NoId
<1>1. FreeFilters \in SUBSET Nat
  BY CanBusAssumption DEF FreeFilters, TypeOK
<1>2. PICK x \in FreeFilters : \A y \in FreeFilters : x <= y
  BY <1>1, LeastNat
<1>3. Min(FreeFilters) \in FreeFilters
  BY <1>2 DEF Min
<1> QED
  BY <1>3 DEF FreeFilters

\* The driver after a filter has been added.
LEMMA FilterAdded ==
  ASSUME TypeOK, FreeFilters # {}, NEW id \in Ids, driver' = Added(id)
  PROVE  /\ driver' \in [0..(FilterCount - 1) -> Ids \cup {NoId}]
         /\ \E m \in DOMAIN driver :
              /\ driver[m] = NoId /\ driver'[m] = id
              /\ \A n \in DOMAIN driver : n # m => driver'[n] = driver[n]
         /\ HasFilter(id)'
         /\ \A x \in Ids : HasFilter(x) => HasFilter(x)'
<1> DEFINE m == Min(FreeFilters)
<1>1. m \in DOMAIN driver /\ driver[m] = NoId
  BY NextFree
<1>2. driver' = [driver EXCEPT ![m] = id]
  BY DEF Added
<1> HIDE DEF m
<1>3. /\ driver' \in [0..(FilterCount - 1) -> Ids \cup {NoId}]
      /\ DOMAIN driver' = DOMAIN driver
      /\ driver'[m] = id /\ \A n \in DOMAIN driver : n # m => driver'[n] = driver[n]
  BY <1>1, <1>2 DEF TypeOK
<1>4. HasFilter(id)'
  BY <1>1, <1>3 DEF HasFilter
<1>5. ASSUME NEW x \in Ids, HasFilter(x) PROVE HasFilter(x)'
  <2>1. PICK n \in DOMAIN driver : driver[n] = x
    BY <1>5 DEF HasFilter
  <2>2. x # NoId
    BY CanBusAssumption DEF NoId
  <2> QED
    BY <1>1, <1>3, <2>1, <2>2 DEF HasFilter
<1> QED
  BY <1>1, <1>3, <1>4, <1>5

(***************************************************************************)
(* What keeps the parts of the invariant.                                  *)
(***************************************************************************)
OwnersInv == HandlersServed /\ NoDeadHandler /\ TokenInv /\ ServedInv

\* A step that leaves the registrations alone, or erases entries as "crossed" says.
LEMMA OwnersStay ==
  ASSUME OwnersInv, UNCHANGED owners, odd \subseteq odd', Entries' \subseteq Entries,
         "crossed" \notin odd' => Entries' = Entries,
         \A u \in Threads :
           /\ Registers(u)' <=> Registers(u)
           /\ Registers(u) => /\ call'[u].id = call[u].id /\ call'[u].n = call[u].n
                              /\ call'[u].token = call[u].token
  PROVE  OwnersInv'
<1> USE DEF OwnersInv, owners
<1>1. HandlersServed'
  BY DEF HandlersServed
<1>2. NoDeadHandler'
  <2>1. ASSUME NEW e \in Entries'
        PROVE  \/ e.token \in blind'
               \/ \E h \in held' : h.token = e.token
               \/ \E t \in Threads : Registers(t)' /\ call'[t].token = e.token
    BY <2>1 DEF NoDeadHandler
  <2> QED
    BY <2>1 DEF NoDeadHandler
<1>3. \A u \in Threads : Registers(u) =>
        Registration(call'[u], call'[u].n) = Registration(call[u], call[u].n)
  BY DEF Registration
<1>4. TokenInv'
  <2>1. /\ \A e \in Entries' : e.n <= e.token /\ e.token <= tokens'
        /\ \A d, e \in Entries' : d.token = e.token => d = e
    BY DEF TokenInv
  <2>2. \A h \in held' : /\ h.token <= tokens' /\ (h.n = 0 => h.token \in blind')
                         /\ \A e \in Entries' : h.token = e.token => h.n = 0 \/ h = e
    BY DEF TokenInv
  <2>3. ASSUME NEW t \in Threads, Registers(t)'
        PROVE  /\ call'[t].token <= tokens'
               /\ \A h \in held' : h.token # call'[t].token
               /\ \A e \in Entries' : e.token = call'[t].token =>
                    e = Registration(call'[t], call'[t].n)
               /\ \A u \in Threads : Registers(u)' /\ call'[u].token = call'[t].token => t = u
    <3>1. Registers(t) /\ call'[t].token = call[t].token
      BY <2>3
    <3>2. call'[t].token <= tokens' /\ \A h \in held' : h.token # call'[t].token
      BY <3>1 DEF TokenInv
    <3>3. \A e \in Entries' : e.token = call'[t].token => e = Registration(call'[t], call'[t].n)
      BY <1>3, <3>1 DEF TokenInv
    <3>4. \A u \in Threads : Registers(u)' /\ call'[u].token = call'[t].token => t = u
      BY <3>1 DEF TokenInv
    <3> QED
      BY <3>2, <3>3, <3>4
  <2> QED
    BY <2>1, <2>2, <2>3 DEF TokenInv
<1>5. ServedInv'
  BY <1>3 DEF ServedInv
<1> QED
  BY <1>1, <1>2, <1>4, <1>5

\* The same, for a step that changes neither the table nor the calls.
LEMMA TableStays ==
  ASSUME OwnersInv, UNCHANGED <<handlers, call, owners>>, odd \subseteq odd'
  PROVE  OwnersInv'
<1>1. Entries' = Entries
  BY EntriesAre
<1>2. \A u \in Threads : (Registers(u)' <=> Registers(u)) /\ call'[u] = call[u]
  BY DEF Registers
<1> QED
  BY <1>1, <1>2, OwnersStay

\* A call of RegisterFrameReceivedHandler returns, or throws.
LEMMA RegistrationEnds ==
  ASSUME TypeOK, OwnersInv, NEW t \in Threads, Registers(t),
         call' = [call EXCEPT ![t] = Idle], UNCHANGED tokens,
         odd \subseteq odd', blind \subseteq blind', Entries' \subseteq Entries,
         NEW S \in SUBSET {Registration(call[t], call[t].n), Registration(call[t], 0)},
         held' = held \cup S,
         Registration(call[t], 0) \in S => call[t].token \in blind',
         "crossed" \notin odd' =>
           \A e \in Entries : e # Registration(call[t], call[t].n)
                              \/ Registration(call[t], call[t].n) \in S => e \in Entries',
         S = {} => \A e \in Entries' : e.token # call[t].token
  PROVE  OwnersInv'
<1> DEFINE c == call[t]
           r == Registration(c, c.n)
           o == Registration(c, 0)
<1>1. Idle \in Calls /\ c.id \in Ids /\ c.n \in 1..MaxTokens /\ c.token \in 1..MaxTokens
  BY CallKinds, KindsAreCalls
<1>2. /\ ~Registers(t)'
      /\ \A u \in Threads : u # t => call'[u] = call[u] /\ (Registers(u)' <=> Registers(u))
  BY <1>1, CallsStay DEF Registers, Idle
<1>3. r.token = c.token /\ r.n = c.n /\ o.token = c.token /\ o.n = 0 /\ r # o
  BY <1>1 DEF Registration
<1>4. \A u \in Threads : Registers(u)' => u # t /\ Registers(u) /\ call'[u] = call[u]
  BY <1>2
<1>5. /\ c.token <= tokens /\ \A h \in held : h.token # c.token
      /\ \A e \in Entries : e.token = c.token => e = r
      /\ \A u \in Threads : Registers(u) /\ call[u].token = c.token => t = u
  BY DEF OwnersInv, TokenInv
<1>6. "crossed" \notin odd' => r \in Entries
  BY DEF OwnersInv, ServedInv
<1> HIDE DEF r, o
<1>7. S \subseteq {r, o} /\ (o \in S => c.token \in blind')
  BY DEF r, o
<1>8. "crossed" \notin odd' => \A e \in Entries : e # r \/ r \in S => e \in Entries'
  BY DEF r
<1> HIDE DEF c
<1>9. HandlersServed'
  <2>1. ASSUME "crossed" \notin odd', NEW h \in held', h.n > 0 PROVE h \in Entries'
    <3>1. CASE h \in held
      BY <1>3, <1>5, <1>8, <2>1, <3>1 DEF OwnersInv, HandlersServed
    <3>2. CASE h \in S
      BY <1>3, <1>6, <1>7, <1>8, <2>1, <3>2
    <3> QED
      BY <3>1, <3>2
  <2> QED
    BY <2>1 DEF HandlersServed
<1>10. NoDeadHandler'
  <2>1. ASSUME NEW e \in Entries'
        PROVE  \/ e.token \in blind'
               \/ \E h \in held' : h.token = e.token
               \/ \E u \in Threads : Registers(u)' /\ call'[u].token = e.token
    <3>1. CASE e.token = c.token
      <4>1. PICK h \in S : TRUE
        BY <3>1 DEF c
      <4> QED
        BY <1>3, <1>7, <3>1, <4>1
    <3>2. CASE e.token # c.token
      <4>1. \/ e.token \in blind
            \/ \E h \in held : h.token = e.token
            \/ \E u \in Threads : Registers(u) /\ call[u].token = e.token
        BY DEF OwnersInv, NoDeadHandler
      <4> QED
        BY <1>2, <3>2, <4>1 DEF c
    <3> QED
      BY <3>1, <3>2
  <2> QED
    BY <2>1 DEF NoDeadHandler
<1>11. TokenInv'
  <2>1. /\ \A e \in Entries' : e.n <= e.token /\ e.token <= tokens'
        /\ \A d, e \in Entries' : d.token = e.token => d = e
    BY DEF OwnersInv, TokenInv
  <2>2. ASSUME NEW h \in held'
        PROVE  /\ h.token <= tokens' /\ (h.n = 0 => h.token \in blind')
               /\ \A e \in Entries' : h.token = e.token => h.n = 0 \/ h = e
    <3>1. CASE h \in held
      BY <3>1 DEF OwnersInv, TokenInv
    <3>2. CASE h = r
      BY <1>1, <1>3, <1>5, <3>2 DEF c
    <3>3. CASE h = o /\ o \in S
      BY <1>3, <1>5, <1>7, <3>3
    <3> QED
      BY <1>7, <3>1, <3>2, <3>3
  <2>3. ASSUME NEW u \in Threads, Registers(u)'
        PROVE  /\ call'[u].token <= tokens'
               /\ \A h \in held' : h.token # call'[u].token
               /\ \A e \in Entries' : e.token = call'[u].token =>
                    e = Registration(call'[u], call'[u].n)
               /\ \A v \in Threads : Registers(v)' /\ call'[v].token = call'[u].token => u = v
    <3>1. u # t /\ Registers(u) /\ call'[u] = call[u]
      BY <1>4, <2>3
    <3>2. /\ call[u].token <= tokens
          /\ \A h \in held : h.token # call[u].token
          /\ \A e \in Entries : e.token = call[u].token => e = Registration(call[u], call[u].n)
          /\ \A v \in Threads : Registers(v) /\ call[v].token = call[u].token => u = v
      BY <3>1 DEF OwnersInv, TokenInv
    <3>3. call[u].token # c.token
      BY <1>5, <3>1
    <3>4. \A h \in held' : h.token # call'[u].token
      BY <1>3, <1>7, <3>1, <3>2, <3>3
    <3>5. \A v \in Threads : Registers(v)' /\ call'[v].token = call'[u].token => u = v
      BY <1>4, <3>1, <3>2
    <3> QED
      BY <3>1, <3>2, <3>4, <3>5
  <2> QED
    BY <2>1, <2>2, <2>3 DEF TokenInv
<1>12. ServedInv'
  <2>1. ASSUME "crossed" \notin odd', NEW u \in Threads, Registers(u)'
        PROVE  Registration(call'[u], call'[u].n) \in Entries'
    <3>1. u # t /\ Registers(u) /\ call'[u] = call[u]
      BY <1>4, <2>1
    <3>2. Registration(call[u], call[u].n) \in Entries
      BY <2>1, <3>1 DEF OwnersInv, ServedInv
    <3>3. Registration(call[u], call[u].n).token = call[u].token
      BY DEF Registration
    <3> QED
      BY <1>3, <1>5, <1>8, <2>1, <3>1, <3>2, <3>3
  <2> QED
    BY <2>1 DEF ServedInv
<1> QED
  BY <1>9, <1>10, <1>11, <1>12 DEF OwnersInv

\* A step that forgets no filter, and ends no call that is about to.
LEMMA FilterStays ==
  ASSUME FilterInv, filters' \subseteq filters, odd \subseteq odd',
         \A id \in filters' : HasFilter(id) => HasFilter(id)',
         \A u \in Threads : call[u].op = "forget" => call'[u] = call[u]
  PROVE  FilterInv'
<1>1. ASSUME "taken" \notin odd', NEW id \in filters'
      PROVE  HasFilter(id)' \/ \E t \in Threads : call'[t] = [op |-> "forget", id |-> id]
  <2>1. HasFilter(id) \/ \E t \in Threads : call[t] = [op |-> "forget", id |-> id]
    BY <1>1 DEF FilterInv
  <2> QED
    BY <1>1, <2>1
<1> QED
  BY <1>1 DEF FilterInv

\* A step after which each entry is settled as it was.
LEMMA SettledStays ==
  ASSUME SettledInv, odd \subseteq odd', Entries' \subseteq Entries,
         \A e \in Entries' : e.id \in filters => e.id \in filters',
         \A e \in Entries' : e.token \in blind /\ Awaited(e) =>
           e.id \in filters' \/ (e.token \in blind' /\ Awaited(e)'),
         \A e \in Entries', u \in Threads :
           Registers(u) /\ call[u].token = e.token =>
             \/ Registers(u)' /\ call'[u].token = e.token
             \/ e.id \in filters'
             \/ e.token \in blind' /\ Awaited(e)'
  PROVE  SettledInv'
<1>1. ASSUME "short" \notin odd', NEW e \in Entries'
      PROVE  \/ e.id \in filters'
             \/ \E t \in Threads : Registers(t)' /\ call'[t].token = e.token
             \/ e.token \in blind' /\ Awaited(e)'
  <2>1. \/ e.id \in filters
        \/ \E t \in Threads : Registers(t) /\ call[t].token = e.token
        \/ e.token \in blind /\ Awaited(e)
    BY <1>1 DEF SettledInv
  <2> QED
    BY <2>1
<1> QED
  BY <1>1 DEF SettledInv

\* The same, for a step of the bus thread or of the environment.
LEMMA SettledAsBefore ==
  ASSUME SettledInv, odd \subseteq odd', UNCHANGED <<handlers, filters, call, blind>>,
         \A e \in Entries : Awaited(e) => e.id \in filters \/ Awaited(e)'
  PROVE  SettledInv'
<1>1. Entries' = Entries
  BY EntriesAre
<1>2. \A u \in Threads : Registers(u)' <=> Registers(u)
  BY DEF Registers
<1>3. \A e \in Entries' : e.id \in filters => e.id \in filters'
  OBVIOUS
<1>4. \A e \in Entries' : e.token \in blind /\ Awaited(e) =>
        e.id \in filters' \/ (e.token \in blind' /\ Awaited(e)')
  BY <1>1
<1>5. \A e \in Entries', u \in Threads :
        Registers(u) /\ call[u].token = e.token =>
          \/ Registers(u)' /\ call'[u].token = e.token
          \/ e.id \in filters'
          \/ e.token \in blind' /\ Awaited(e)'
  BY <1>2
<1> QED
  BY <1>1, <1>3, <1>4, <1>5, SettledStays

\* A step that neither queues a frame nor hands one out, and gives no ID another filter.
LEMMA OnceStays ==
  ASSUME OnceInv, UNCHANGED traffic, odd \subseteq odd', "twice" \in odd' => "twice" \in odd,
         DOMAIN driver' = DOMAIN driver,
         \A n \in DOMAIN driver : driver'[n] \in {driver[n], NoId},
         odd' \cap {"leaked", "raced"} = {} =>
           \A n \in DOMAIN driver : driver'[n] # NoId => driver'[n] \in filters \cap filters'
  PROVE  OnceInv'
<1>1. \A i \in DOMAIN queue' : queue'[i].frame <= frames'
  BY DEF OnceInv, traffic
<1>2. ASSUME odd' \cap {"leaked", "raced"} = {}
      PROVE  /\ \A n \in DOMAIN driver' : driver'[n] # NoId => driver'[n] \in filters'
             /\ \A n, m \in DOMAIN driver' : driver'[n] = driver'[m] => driver'[n] = NoId \/ n = m
             /\ \A i, j \in DOMAIN queue' : queue'[i].frame = queue'[j].frame => i = j
             /\ seen' = {} /\ "twice" \notin odd'
  <2>1. odd \cap {"leaked", "raced"} = {}
    BY <1>2
  <2>2. \A n, m \in DOMAIN driver' : driver'[n] = driver'[m] => driver'[n] = NoId \/ n = m
    BY <2>1 DEF OnceInv
  <2> QED
    BY <1>2, <2>1, <2>2 DEF OnceInv, traffic
<1> QED
  BY <1>1, <1>2 DEF OnceInv

\* A step that gives a free filter to an ID that had none.
LEMMA OnceAdded ==
  ASSUME TypeOK, OnceInv, UNCHANGED traffic, FreeFilters # {}, NEW id \in Ids,
         driver' = Added(id), filters' = filters \cup {id},
         odd' = IF id \in filters THEN odd \cup {"raced"} ELSE odd
  PROVE  OnceInv'
<1>1. PICK m \in DOMAIN driver :
        /\ driver[m] = NoId /\ driver'[m] = id
        /\ \A n \in DOMAIN driver : n # m => driver'[n] = driver[n]
  BY FilterAdded
<1>2. DOMAIN driver' = DOMAIN driver
  BY FilterAdded DEF TypeOK
<1>3. \A i \in DOMAIN queue' : queue'[i].frame <= frames'
  BY DEF OnceInv, traffic
<1>4. ASSUME odd' \cap {"leaked", "raced"} = {}
      PROVE  /\ \A n \in DOMAIN driver' : driver'[n] # NoId => driver'[n] \in filters'
             /\ \A n, k \in DOMAIN driver' : driver'[n] = driver'[k] => driver'[n] = NoId \/ n = k
             /\ \A i, j \in DOMAIN queue' : queue'[i].frame = queue'[j].frame => i = j
             /\ seen' = {} /\ "twice" \notin odd'
  <2>1. odd \cap {"leaked", "raced"} = {} /\ id \notin filters /\ odd' = odd
    BY <1>4
  <2>2. /\ \A n \in DOMAIN driver : driver[n] # NoId => driver[n] \in filters
        /\ \A n, k \in DOMAIN driver : driver[n] = driver[k] => driver[n] = NoId \/ n = k
        /\ \A i, j \in DOMAIN queue : queue[i].frame = queue[j].frame => i = j
        /\ seen = {} /\ "twice" \notin odd
    BY <2>1 DEF OnceInv
  <2>3. id # NoId
    BY CanBusAssumption DEF NoId
  <2>4. ASSUME NEW n \in DOMAIN driver PROVE driver'[n] # NoId => driver'[n] \in filters'
    BY <1>1, <2>2
  <2>5. ASSUME NEW n \in DOMAIN driver, NEW k \in DOMAIN driver, driver'[n] = driver'[k]
        PROVE  driver'[n] = NoId \/ n = k
    <3>1. CASE n = m \/ k = m
      BY <1>1, <2>1, <2>2, <2>3, <2>5, <3>1
    <3>2. CASE n # m /\ k # m
      BY <1>1, <2>2, <2>5, <3>2
    <3> QED
      BY <3>1, <3>2
  <2> QED
    BY <1>2, <2>1, <2>2, <2>4, <2>5 DEF traffic
<1> QED
  BY <1>3, <1>4 DEF OnceInv

(***************************************************************************)
(* The bus thread finds the bit rate.                                      *)
(***************************************************************************)
LEMMA Parts ==
  /\ InductiveInv <=> /\ TypeOK /\ OwnersInv /\ DetectionInv
                      /\ FilterInv /\ SettledInv /\ OnceInv
  /\ InductiveInv' <=> /\ TypeOK' /\ OwnersInv' /\ DetectionInv'
                       /\ FilterInv' /\ SettledInv' /\ OnceInv'
BY DEF InductiveInv, OwnersInv

\* What a step keeps that leaves the table, the calls and the frames alone.
LEMMA ThreadStays ==
  ASSUME InductiveInv, UNCHANGED <<table, driver, call, owners, traffic, odd>>,
         \A e \in Entries : Awaited(e) => Awaited(e)'
  PROVE  OwnersInv' /\ FilterInv' /\ SettledInv' /\ OnceInv'
<1> USE Parts DEF table, owners
<1>1. OwnersInv'
  BY TableStays
<1>2. FilterInv'
  BY FilterStays DEF HasFilter
<1>3. SettledInv'
  BY SettledAsBefore
<1>4. OnceInv'
  <2>1. odd \cap {"leaked", "raced"} = {} =>
          \A n \in DOMAIN driver : driver[n] # NoId => driver[n] \in filters
    BY DEF OnceInv
  <2> QED
    BY <2>1, OnceStays
<1> QED
  BY <1>1, <1>2, <1>3, <1>4

LEMMA DestroyKeeps ==
  ASSUME InductiveInv, Destroy
  PROVE  InductiveInv'
<1>1. TypeOK'
  BY Parts DEF TypeOK, Destroy, table, owners, traffic
<1>2. DetectionInv'
  BY DEF Destroy, DetectionInv
<1>3. \A e \in Entries : Awaited(e) => Awaited(e)'
  BY DEF Awaited, Destroy
<1> QED
  BY <1>1, <1>2, <1>3, ThreadStays, Parts DEF Destroy

LEMMA ThreadLoopKeeps ==
  ASSUME InductiveInv, ThreadLoop
  PROVE  InductiveInv'
<1>1. TypeOK'
  <2>1. 1 \in DOMAIN Rates
    BY CanBusAssumption
  <2> QED
    BY <2>1, Parts DEF TypeOK, ThreadLoop, driverVars, table, owners, traffic
<1>2. DetectionInv'
  BY DEF ThreadLoop, DetectionInv
<1>3. \A e \in Entries : Awaited(e) => Awaited(e)'
  BY DEF Awaited, ThreadLoop
<1> QED
  BY <1>1, <1>2, <1>3, ThreadStays, Parts DEF ThreadLoop, driverVars

LEMMA TestBitrateKeeps ==
  ASSUME InductiveInv, TestBitrate
  PROVE  InductiveInv'
<1>1. TypeOK'
  <2>1. Rates[next] \in Range(Rates)
    BY Parts DEF TypeOK, Range
  <2> QED
    BY <2>1, Parts DEF TypeOK, TestBitrate, table, owners, traffic
<1>2. DetectionInv'
  BY DEF TestBitrate, DetectionInv
<1>3. \A e \in Entries : Awaited(e) => Awaited(e)'
  BY DEF Awaited, TestBitrate
<1> QED
  BY <1>1, <1>2, <1>3, ThreadStays, Parts DEF TestBitrate

LEMMA DetectionStoppedKeeps ==
  ASSUME InductiveInv, DetectionStopped
  PROVE  InductiveInv'
<1>1. TypeOK'
  BY Parts DEF TypeOK, DetectionStopped, driverVars, table, owners, traffic
<1>2. DetectionInv'
  BY DEF DetectionStopped, DetectionInv
<1>3. \A e \in Entries : Awaited(e) => Awaited(e)'
  BY DEF Awaited, DetectionStopped
<1> QED
  BY <1>1, <1>2, <1>3, ThreadStays, Parts DEF DetectionStopped, driverVars

LEMMA TestFailsKeeps ==
  ASSUME InductiveInv, TestFails
  PROVE  InductiveInv'
<1>1. TypeOK'
  <2>1. NextRate \in DOMAIN Rates
    BY CanBusAssumption, Parts DEF TypeOK, NextRate
  <2> QED
    BY <2>1, Parts DEF TypeOK, TestFails, table, owners, traffic
<1>2. DetectionInv'
  BY DEF TestFails, DetectionInv
<1>3. \A e \in Entries : Awaited(e) => Awaited(e)'
  BY DEF Awaited, TestFails
<1> QED
  BY <1>1, <1>2, <1>3, ThreadStays, Parts DEF TestFails

LEMMA TestSucceedsKeeps ==
  ASSUME InductiveInv, TestSucceeds
  PROVE  InductiveInv'
<1>1. TypeOK'
  <2>1. busRate # 0
    BY CanBusAssumption, Parts DEF TypeOK
  <2>2. Rates[next] = busRate
    BY <2>1, Parts DEF TestSucceeds, DetectionInv
  <2> QED
    BY <2>2, Parts DEF TypeOK, TestSucceeds, driverVars, table, owners, traffic
<1>2. DetectionInv'
  BY DEF TestSucceeds, DetectionInv
<1>3. \A e \in Entries : Awaited(e) => Awaited(e)'
  BY DEF Awaited, TestSucceeds
<1> QED
  BY <1>1, <1>2, <1>3, ThreadStays, Parts DEF TestSucceeds, driverVars

LEMMA BitrateUpdatedKeeps ==
  ASSUME InductiveInv, BitrateUpdated
  PROVE  InductiveInv'
<1>1. TypeOK'
  BY Parts DEF TypeOK, BitrateUpdated, driverVars, table, owners, traffic
<1>2. DetectionInv'
  BY DEF BitrateUpdated, DetectionInv
<1>3. \A e \in Entries : Awaited(e) => Awaited(e)'
  BY EntryTypes, Parts DEF Awaited, BitrateUpdated
<1> QED
  BY <1>1, <1>2, <1>3, ThreadStays, Parts DEF BitrateUpdated, driverVars

LEMMA FiltersRegisteredKeeps ==
  ASSUME InductiveInv, FiltersRegistered
  PROVE  InductiveInv'
<1>1. TypeOK'
  BY Parts DEF TypeOK, FiltersRegistered, driverVars, table, owners, traffic
<1>2. DetectionInv'
  BY DEF FiltersRegistered, DetectionInv
<1>3. \A e \in Entries : Awaited(e) => Awaited(e)'
  BY DEF Awaited, FiltersRegistered
<1> QED
  BY <1>1, <1>2, <1>3, ThreadStays, Parts DEF FiltersRegistered, driverVars

LEMMA RegisterFiltersKeeps ==
  ASSUME InductiveInv, NEW id \in Ids, RegisterFilters(id)
  PROVE  InductiveInv'
<1> USE Parts
<1>1. /\ pc = "filters" /\ todo' = todo \ {id}
      /\ UNCHANGED <<busRate, saved, running, handlers, bitrate, detecting, detected, pc,
                     next, call, owners, traffic>>
  BY DEF RegisterFilters
<1>2. DetectionInv'
  BY <1>1 DEF DetectionInv
<1>3. \A e \in Entries : Awaited(e) => e.id = id \/ Awaited(e)'
  BY <1>1, EntryTypes DEF Awaited
<1>4. TypeOK' <=> /\ filters' \subseteq Ids
                  /\ driver' \in [0..(FilterCount - 1) -> Ids \cup {NoId}]
                  /\ odd' \subseteq {"raced", "leaked", "taken", "crossed", "short", "twice"}
  BY <1>1 DEF TypeOK, owners, traffic
<1>5. CASE id \in filters \/ id \notin DOMAIN handlers
  <2>1. UNCHANGED <<driver, filters, odd>>
    BY <1>5 DEF RegisterFilters
  <2>2. TypeOK'
    BY <1>4, <2>1 DEF TypeOK
  <2>3. OwnersInv' /\ FilterInv'
    BY <1>1, <2>1, TableStays, FilterStays DEF HasFilter
  <2>4. SettledInv'
    <3>1. \A e \in Entries : Awaited(e) => e.id \in filters \/ Awaited(e)'
      BY <1>3, <1>5, EntryTypes
    <3> QED
      BY <1>1, <2>1, <3>1, SettledAsBefore DEF owners
  <2>5. OnceInv'
    <3>1. odd \cap {"leaked", "raced"} = {} =>
            \A n \in DOMAIN driver : driver[n] # NoId => driver[n] \in filters
      BY DEF OnceInv
    <3> QED
      BY <1>1, <2>1, <3>1, OnceStays
  <2> QED
    BY <1>2, <2>2, <2>3, <2>4, <2>5
<1>6. CASE id \notin filters /\ id \in DOMAIN handlers /\ FreeFilters = {}
  <2>1. odd' = odd \cup {"short"} /\ UNCHANGED <<driver, filters>>
    BY <1>6 DEF RegisterFilters
  <2>2. TypeOK'
    BY <1>4, <2>1 DEF TypeOK
  <2>3. OwnersInv' /\ FilterInv'
    BY <1>1, <2>1, TableStays, FilterStays DEF HasFilter
  <2>4. SettledInv'
    BY <2>1 DEF SettledInv
  <2>5. OnceInv'
    <3>1. odd' \cap {"leaked", "raced"} = {} =>
            \A n \in DOMAIN driver : driver[n] # NoId => driver[n] \in filters
      BY <2>1 DEF OnceInv
    <3> QED
      BY <1>1, <2>1, <3>1, OnceStays
  <2> QED
    BY <1>2, <2>2, <2>3, <2>4, <2>5
<1>7. CASE id \notin filters /\ id \in DOMAIN handlers /\ FreeFilters # {}
  <2>1. driver' = Added(id) /\ filters' = filters \cup {id} /\ odd' = odd
    BY <1>7 DEF RegisterFilters
  <2>2. TypeOK'
    BY <1>4, <1>7, <2>1, FilterAdded DEF TypeOK
  <2>3. OwnersInv'
    BY <1>1, <2>1, TableStays
  <2>4. FilterInv'
    <3>1. HasFilter(id)' /\ \A x \in filters : HasFilter(x) => HasFilter(x)'
      BY <1>7, <2>1, FilterAdded DEF TypeOK
    <3>2. ASSUME "taken" \notin odd', NEW x \in filters'
          PROVE  HasFilter(x)' \/ \E t \in Threads : call'[t] = [op |-> "forget", id |-> x]
      BY <1>1, <2>1, <3>1, <3>2 DEF FilterInv
    <3> QED
      BY <3>2 DEF FilterInv
  <2>5. SettledInv'
    <3>1. Entries' = Entries
      BY <1>1, EntriesAre
    <3>2. \A u \in Threads : Registers(u)' <=> Registers(u)
      BY <1>1 DEF Registers
    <3>3. blind' = blind /\ call' = call /\ odd' = odd
      BY <1>1, <2>1 DEF owners
    <3>4. \A e \in Entries' : e.id \in filters => e.id \in filters'
      BY <2>1
    <3>5. \A e \in Entries' : e.token \in blind /\ Awaited(e) =>
            e.id \in filters' \/ (e.token \in blind' /\ Awaited(e)')
      BY <1>3, <2>1, <3>1, <3>3
    <3>6. \A e \in Entries', u \in Threads :
            Registers(u) /\ call[u].token = e.token =>
              \/ Registers(u)' /\ call'[u].token = e.token
              \/ e.id \in filters'
              \/ e.token \in blind' /\ Awaited(e)'
      BY <3>2, <3>3
    <3> QED
      BY <3>1, <3>3, <3>4, <3>5, <3>6, SettledStays
  <2>6. OnceInv'
    BY <1>1, <1>7, <2>1, OnceAdded
  <2> QED
    BY <1>2, <2>2, <2>3, <2>4, <2>5, <2>6
<1> QED
  BY <1>5, <1>6, <1>7

(***************************************************************************)
(* Frames.                                                                 *)
(***************************************************************************)
LEMMA LesserOfTwo ==
  ASSUME NEW a \in Int, NEW b \in Int
  PROVE  Min({a, b}) = IF a <= b THEN a ELSE b
BY DEF Min

\* A frame of an ID with a filter passes once, unless the ID has a filter twice.
LEMMA Passes ==
  ASSUME TypeOK, NEW id \in Ids
  PROVE  LET passes == Cardinality({n \in DOMAIN driver : driver[n] = id})
         IN /\ passes \in Nat
            /\ passes > 0
               /\ (\A n, m \in DOMAIN driver : driver[n] = driver[m] => driver[n] = NoId \/ n = m)
               => passes = 1
<1> DEFINE P == {n \in DOMAIN driver : driver[n] = id}
<1>1. IsFiniteSet(P)
  <2>1. IsFiniteSet(0..(FilterCount - 1))
    BY CanBusAssumption, FS_Interval
  <2>2. P \subseteq 0..(FilterCount - 1)
    BY DEF TypeOK
  <2> QED
    BY <2>1, <2>2, FS_Subset
<1>2. Cardinality(P) \in Nat
  BY <1>1, FS_CardinalityType
<1>3. ASSUME Cardinality(P) > 0,
             \A n, m \in DOMAIN driver : driver[n] = driver[m] => driver[n] = NoId \/ n = m
      PROVE  Cardinality(P) = 1
  <2>1. P # {}
    BY <1>3, FS_EmptySet
  <2>2. PICK n \in P : TRUE
    BY <2>1
  <2>3. id # NoId
    BY CanBusAssumption DEF NoId
  <2>4. P = {n}
    BY <1>3, <2>2, <2>3
  <2> QED
    BY <2>4, FS_Singleton
<1> QED
  BY <1>2, <1>3

\* Two sequences one after the other, and a sequence without its head.
LEMMA Joined ==
  ASSUME NEW T, NEW p \in Seq(T), NEW q \in Seq(T)
  PROVE  /\ p \o q \in Seq(T) /\ Len(p \o q) = Len(p) + Len(q) /\ \A i \in DOMAIN p : p[i] \in T
         /\ DOMAIN p = 1..Len(p) /\ DOMAIN (p \o q) = 1..(Len(p) + Len(q))
         /\ \A i \in 1..Len(p) : (p \o q)[i] = p[i]
         /\ \A i \in (Len(p) + 1)..(Len(p) + Len(q)) : (p \o q)[i] = q[i - Len(p)]
OBVIOUS

LEMMA Headless ==
  ASSUME NEW T, NEW q \in Seq(T), q # <<>>
  PROVE  /\ Len(q) \in Nat /\ Len(q) > 0
         /\ Tail(q) \in Seq(T) /\ Len(Tail(q)) = Len(q) - 1
         /\ Head(q) \in T /\ Head(q) = q[1] /\ 1 \in DOMAIN q
         /\ DOMAIN q = 1..Len(q) /\ DOMAIN Tail(q) = 1..(Len(q) - 1)
         /\ \A i \in DOMAIN Tail(q) : /\ i \in Nat /\ i > 0 /\ i + 1 \in DOMAIN q
                                      /\ Tail(q)[i] = q[i + 1]
OBVIOUS

\* What a step of a frame keeps that changes nothing but the queue and what was handed out.
LEMMA FrameStays ==
  ASSUME InductiveInv, UNCHANGED <<table, driver, detection, call, owners>>, odd \subseteq odd'
  PROVE  OwnersInv' /\ FilterInv' /\ SettledInv'
<1> USE Parts DEF table, owners, detection
<1>1. OwnersInv'
  BY TableStays
<1>2. FilterInv'
  BY FilterStays DEF HasFilter
<1>3. SettledInv'
  <2>1. \A e \in Entries : Awaited(e) => Awaited(e)'
    BY DEF Awaited
  <2> QED
    BY <2>1, SettledAsBefore
<1> QED
  BY <1>1, <1>2, <1>3

LEMMA FrameArrivesKeeps ==
  ASSUME InductiveInv, NEW id \in Ids, FrameArrives(id)
  PROVE  InductiveInv'
<1> USE Parts
<1> DEFINE passes == Cardinality({n \in DOMAIN driver : driver[n] = id})
           frame == [id |-> id, frame |-> frames + 1]
           copies == [i \in 1..passes |-> frame]
           Put(n) == SubSeq(copies, 1, Min({n, QueueSize - Len(queue)}))
<1>1. /\ running = busRate /\ frames < MaxFrames /\ passes > 0
      /\ frames' = frames + 1
      /\ UNCHANGED <<busRate, saved, driverVars, table, detection, call, owners, seen, odd>>
  BY DEF FrameArrives
<1>2. PICK n \in {1, passes} : queue' = IF id \in DOMAIN handlers THEN queue \o Put(n) ELSE queue
  BY DEF FrameArrives
<1>3. passes \in Nat
  BY Passes
<1>4. /\ frames \in Nat /\ frames' \in 1..MaxFrames
      /\ queue \in Seq([id : Ids, frame : 1..MaxFrames]) /\ Len(queue) <= QueueSize
      /\ Len(queue) \in Nat /\ QueueSize \in Nat
  BY <1>1, CanBusAssumption DEF TypeOK
<1>5. frame \in [id : Ids, frame : 1..MaxFrames] /\ frame.frame = frames'
  BY <1>1, <1>4
<1> HIDE DEF passes, frame
<1>6. PICK k \in 0..n : /\ Put(n) = [i \in 1..k |-> frame] /\ Len(queue) + k <= QueueSize
  <2> DEFINE k == Min({n, QueueSize - Len(queue)})
  <2>1. n \in Nat /\ n > 0 /\ n <= passes
    BY <1>1, <1>2, <1>3
  <2>2. k \in 0..n /\ k <= passes /\ Len(queue) + k <= QueueSize
    <3>1. k = IF n <= QueueSize - Len(queue) THEN n ELSE QueueSize - Len(queue)
      BY <1>4, <2>1, LesserOfTwo
    <3> HIDE DEF k
    <3> QED
      BY <1>3, <1>4, <2>1, <3>1
  <2> HIDE DEF k
  <2>3. copies \in Seq({frame}) /\ Len(copies) = passes
    BY <1>3
  <2>4. SubSeq(copies, 1, k) = [i \in 1..k |-> frame]
    BY <1>3, <2>1, <2>2, <2>3
  <2> QED
    BY <2>2, <2>4 DEF k
<1> HIDE DEF Put
<1>7. PICK j \in 0..n :
        /\ Len(queue) + j <= QueueSize
        /\ queue' \in Seq([id : Ids, frame : 1..MaxFrames])
        /\ Len(queue') = Len(queue) + j
        /\ \A i \in 1..Len(queue) : queue'[i] = queue[i]
        /\ \A i \in (Len(queue) + 1)..(Len(queue) + j) : queue'[i] = frame
  <2>1. n \in Nat /\ k \in Nat
    BY <1>1, <1>2, <1>3
  <2>2. CASE id \in DOMAIN handlers
    <3> DEFINE new == [i \in 1..k |-> frame]
    <3>1. queue' = queue \o new
      BY <1>2, <1>6, <2>2
    <3>2. new \in Seq([id : Ids, frame : 1..MaxFrames]) /\ Len(new) = k
      BY <1>5, <2>1
    <3>3. \A i \in 1..k : new[i] = frame
      OBVIOUS
    <3> HIDE DEF new
    <3>4. /\ queue' \in Seq([id : Ids, frame : 1..MaxFrames])
          /\ Len(queue') = Len(queue) + k /\ \A i \in 1..Len(queue) : queue'[i] = queue[i]
          /\ \A i \in (Len(queue) + 1)..(Len(queue) + k) : queue'[i] = new[i - Len(queue)]
      BY <1>4, <3>1, <3>2, Joined
    <3>5. \A i \in (Len(queue) + 1)..(Len(queue) + k) : i - Len(queue) \in 1..k
      BY <1>4, <2>1
    <3> QED
      BY <1>6, <3>3, <3>4, <3>5
  <2>3. CASE id \notin DOMAIN handlers
    <3>1. queue' = queue /\ 0 \in 0..n
      BY <1>2, <2>1, <2>3
    <3>2. Len(queue) + 0 = Len(queue) /\ (Len(queue) + 1)..(Len(queue) + 0) = {}
      BY <1>4
    <3> QED
      BY <1>4, <3>1, <3>2
  <2> QED
    BY <2>2, <2>3
<1>8. TypeOK'
  <2>1. /\ queue' \in Seq([id : Ids, frame : 1..MaxFrames]) /\ Len(queue') <= QueueSize
        /\ frames' \in 0..MaxFrames
    BY <1>4, <1>7
  <2> QED
    BY <1>1, <2>1 DEF TypeOK, driverVars, table, detection, owners
<1>9. DetectionInv'
  BY <1>1 DEF DetectionInv, driverVars, detection
<1>10. OnceInv'
  <2>1. /\ DOMAIN queue = 1..Len(queue) /\ DOMAIN queue' = 1..Len(queue')
        /\ \A i \in DOMAIN queue : queue[i].frame <= frames /\ queue[i].frame \in Nat
    <3>1. DOMAIN queue = 1..Len(queue) /\ DOMAIN queue' = 1..Len(queue')
      BY <1>4, <1>7
    <3>2. ASSUME NEW i \in DOMAIN queue PROVE queue[i].frame <= frames /\ queue[i].frame \in Nat
      <4>1. queue[i] \in [id : Ids, frame : 1..MaxFrames]
        BY <1>4, Joined
      <4>2. queue[i].frame \in 1..MaxFrames
        BY <4>1
      <4> QED
        BY <4>2 DEF OnceInv
    <3> QED
      BY <3>1, <3>2
  <2>2. ASSUME NEW i \in DOMAIN queue', i > Len(queue) PROVE queue'[i].frame = frames + 1
    <3>1. i \in (Len(queue) + 1)..(Len(queue) + j)
      BY <1>4, <1>7, <2>1, <2>2
    <3>2. queue'[i] = frame
      BY <1>7, <3>1
    <3> QED
      BY <1>1, <1>5, <3>2
  <2>3. \A i \in DOMAIN queue' : queue'[i].frame <= frames'
    <3>1. ASSUME NEW i \in DOMAIN queue' PROVE queue'[i].frame <= frames'
      <4>1. CASE i <= Len(queue)
        BY <1>1, <1>4, <1>7, <2>1, <4>1
      <4>2. CASE i > Len(queue)
        BY <1>1, <1>4, <2>2, <4>2
      <4> QED
        BY <1>4, <2>1, <4>1, <4>2
    <3> QED
      BY <3>1
  <2>4. ASSUME odd' \cap {"leaked", "raced"} = {}
        PROVE  /\ \A m \in DOMAIN driver' : driver'[m] # NoId => driver'[m] \in filters'
               /\ \A m, l \in DOMAIN driver' : driver'[m] = driver'[l] => driver'[m] = NoId \/ m = l
               /\ \A i, l \in DOMAIN queue' : queue'[i].frame = queue'[l].frame => i = l
               /\ seen' = {} /\ "twice" \notin odd'
    <3>1. /\ \A m \in DOMAIN driver : driver[m] # NoId => driver[m] \in filters
          /\ \A m, l \in DOMAIN driver : driver[m] = driver[l] => driver[m] = NoId \/ m = l
          /\ \A i, l \in DOMAIN queue : queue[i].frame = queue[l].frame => i = l
          /\ seen = {} /\ "twice" \notin odd
      BY <1>1, <2>4 DEF OnceInv
    <3>2. passes = 1
      BY <1>1, <3>1, Passes DEF passes
    <3>3. j \in {0, 1}
      BY <1>2, <1>7, <3>2
    <3>4. ASSUME NEW i \in DOMAIN queue', NEW l \in DOMAIN queue',
                 queue'[i].frame = queue'[l].frame
          PROVE  i = l
      <4>1. CASE i <= Len(queue) /\ l <= Len(queue)
        BY <1>4, <1>7, <2>1, <3>1, <3>4, <4>1
      <4>2. CASE i > Len(queue) /\ l > Len(queue)
        BY <1>4, <1>7, <2>1, <3>3, <4>2
      <4>3. ~(i <= Len(queue) /\ l > Len(queue))
        <5>1. SUFFICES ASSUME i <= Len(queue), l > Len(queue) PROVE FALSE
          OBVIOUS
        <5>2. queue'[i].frame <= frames /\ queue'[i].frame \in Nat
          BY <1>4, <1>7, <2>1, <5>1
        <5>3. queue'[l].frame = frames + 1
          BY <2>2, <5>1
        <5> QED
          BY <1>4, <3>4, <5>2, <5>3
      <4>4. ~(i > Len(queue) /\ l <= Len(queue))
        <5>1. SUFFICES ASSUME i > Len(queue), l <= Len(queue) PROVE FALSE
          OBVIOUS
        <5>2. queue'[l].frame <= frames /\ queue'[l].frame \in Nat
          BY <1>4, <1>7, <2>1, <5>1
        <5>3. queue'[i].frame = frames + 1
          BY <2>2, <5>1
        <5> QED
          BY <1>4, <3>4, <5>2, <5>3
      <4> QED
        BY <1>4, <2>1, <4>1, <4>2, <4>3, <4>4
    <3> QED
      BY <1>1, <3>1, <3>4 DEF driverVars, table
  <2> QED
    BY <2>3, <2>4 DEF OnceInv
<1> QED
  BY <1>1, <1>8, <1>9, <1>10, FrameStays DEF driverVars

LEMMA ProcessFramesTaskKeeps ==
  ASSUME InductiveInv, ProcessFramesTask
  PROVE  InductiveInv'
<1> USE Parts
<1> DEFINE f == Head(queue)
<1>1. /\ queue # <<>> /\ queue' = Tail(queue)
      /\ seen' = {s \in seen \cup Handed(f) : s.frame \in Waiting(Tail(queue))}
      /\ odd' = IF Handed(f) \cap seen # {} THEN odd \cup {"twice"} ELSE odd
      /\ UNCHANGED <<busRate, saved, driverVars, table, detection, call, owners, frames>>
  BY DEF ProcessFramesTask
<1>2. /\ queue \in Seq([id : Ids, frame : 1..MaxFrames]) /\ Len(queue) <= QueueSize
      /\ Len(queue) \in Nat /\ Len(queue) > 0 /\ QueueSize \in Nat
  BY <1>1, CanBusAssumption DEF TypeOK
<1>3. /\ queue' \in Seq([id : Ids, frame : 1..MaxFrames]) /\ Len(queue') = Len(queue) - 1
      /\ f \in [id : Ids, frame : 1..MaxFrames] /\ f = queue[1] /\ 1 \in DOMAIN queue
      /\ \A i \in DOMAIN queue' : /\ i \in Nat /\ i > 0 /\ i + 1 \in DOMAIN queue
                                  /\ queue'[i] = queue[i + 1]
  BY <1>1, <1>2, Headless
<1> HIDE DEF f
<1>4. Handed(f) \subseteq [frame : 1..MaxFrames, token : 1..MaxTokens]
  <2>1. CASE f.id \in DOMAIN handlers
    BY <1>3, <2>1 DEF Handed, List, TypeOK
  <2>2. CASE f.id \notin DOMAIN handlers
    BY <2>2 DEF Handed, List
  <2> QED
    BY <2>1, <2>2
<1>5. TypeOK'
  <2>1. seen' \subseteq [frame : 1..MaxFrames, token : 1..MaxTokens]
    BY <1>1, <1>4 DEF TypeOK
  <2>2. odd' \subseteq {"raced", "leaked", "taken", "crossed", "short", "twice"}
    BY <1>1 DEF TypeOK
  <2>3. queue' \in Seq([id : Ids, frame : 1..MaxFrames]) /\ Len(queue') <= QueueSize
    BY <1>2, <1>3
  <2> QED
    BY <1>1, <2>1, <2>2, <2>3 DEF TypeOK, driverVars, table, detection, owners
<1>6. DetectionInv'
  BY <1>1 DEF DetectionInv, driverVars, detection
<1>7. OnceInv'
  <2>1. \A i \in DOMAIN queue' : queue'[i].frame <= frames'
    BY <1>1, <1>3 DEF OnceInv
  <2>2. ASSUME odd' \cap {"leaked", "raced"} = {}
        PROVE  /\ \A m \in DOMAIN driver' : driver'[m] # NoId => driver'[m] \in filters'
               /\ \A m, l \in DOMAIN driver' : driver'[m] = driver'[l] => driver'[m] = NoId \/ m = l
               /\ \A i, l \in DOMAIN queue' : queue'[i].frame = queue'[l].frame => i = l
               /\ seen' = {} /\ "twice" \notin odd'
    <3>1. /\ \A m \in DOMAIN driver : driver[m] # NoId => driver[m] \in filters
          /\ \A m, l \in DOMAIN driver : driver[m] = driver[l] => driver[m] = NoId \/ m = l
          /\ \A i, l \in DOMAIN queue : queue[i].frame = queue[l].frame => i = l
          /\ seen = {} /\ "twice" \notin odd
      BY <1>1, <2>2 DEF OnceInv
    <3>2. odd' = odd
      BY <1>1, <3>1
    <3>3. seen' = {}
      <4>1. SUFFICES ASSUME NEW s \in Handed(f), s.frame \in Waiting(queue') PROVE FALSE
        BY <1>1, <3>1
      <4>2. s.frame = f.frame
        BY DEF Handed
      <4>3. PICK i \in DOMAIN queue' : queue'[i].frame = f.frame
        BY <4>1, <4>2 DEF Waiting
      <4>4. queue[i + 1].frame = queue[1].frame /\ 1 \in DOMAIN queue /\ i + 1 \in DOMAIN queue
        BY <1>2, <1>3, <4>3
      <4>5. i + 1 # 1
        BY <1>3
      <4> QED
        BY <3>1, <4>4, <4>5
    <3>4. ASSUME NEW i \in DOMAIN queue', NEW l \in DOMAIN queue',
                 queue'[i].frame = queue'[l].frame
          PROVE  i = l
      <4>1. i + 1 = l + 1
        BY <1>3, <3>1, <3>4
      <4> QED
        BY <1>3, <4>1
    <3> QED
      BY <1>1, <3>1, <3>2, <3>3, <3>4 DEF driverVars, table
  <2> QED
    BY <2>1, <2>2 DEF OnceInv
<1> QED
  BY <1>1, <1>5, <1>6, <1>7, FrameStays DEF driverVars

(***************************************************************************)
(* RegisterFrameReceivedHandler.                                           *)
(***************************************************************************)
LEMMA RegisterHandlerKeeps ==
  ASSUME InductiveInv, NEW t \in Threads, NEW id \in Ids, RegisterHandler(t, id)
  PROVE  InductiveInv'
<1> USE Parts
<1> DEFINE n == NewHandlerId(List(id))
           c == [op |-> "check", id |-> id, n |-> n, token |-> tokens']
           r == Registration(c, n)
<1>1. /\ call[t] = Idle /\ tokens' = tokens + 1
      /\ handlers' = [Emplaced(handlers, id, <<>>) EXCEPT ![id] = Emplaced(@, n, tokens')]
      /\ call' = [call EXCEPT ![t] = c]
      /\ UNCHANGED <<busRate, saved, driverVars, filters, detection, held, blind, traffic, odd>>
  BY DEF RegisterHandler
<1>2. tokens \in Nat /\ MaxTokens \in Nat /\ tokens < MaxTokens /\ tokens' \in 1..MaxTokens
  <2>1. tokens \in 0..MaxTokens /\ MaxTokens \in Nat
    BY CanBusAssumption DEF TypeOK
  <2>2. tokens < MaxTokens
    BY DEF RegisterHandler
  <2> QED
    BY <1>1, <2>1, <2>2
<1>3. n \in 1..tokens' /\ n \in 1..MaxTokens /\ n \notin DOMAIN List(id)
  <2>1. ASSUME NEW m \in DOMAIN List(id) PROVE m \in Nat /\ m <= tokens
    <3>1. id \in DOMAIN handlers /\ m \in DOMAIN handlers[id]
      BY <2>1 DEF List
    <3>2. Entry(id, m, handlers[id][m]) \in Entries
      BY <3>1, EntryTypes
    <3>3. Entry(id, m, handlers[id][m]) \in [id : Ids, n : 1..MaxTokens, token : 1..MaxTokens]
      BY <3>2, EntryTypes
    <3>4. /\ Entry(id, m, handlers[id][m]).n <= Entry(id, m, handlers[id][m]).token
          /\ Entry(id, m, handlers[id][m]).token <= tokens
      BY <3>2 DEF OwnersInv, TokenInv
    <3> QED
      BY <1>2, <3>3, <3>4 DEF Entry
  <2>2. n \in 1..(tokens + 1) /\ n \notin DOMAIN List(id)
    BY <1>2, <2>1, NewIsNew
  <2> QED
    BY <1>1, <1>2, <2>2
<1> HIDE DEF n
<1>4. /\ TableOK(handlers') /\ DOMAIN handlers' = DOMAIN handlers \cup {id}
      /\ Entries' = Entries \cup {r}
  <2>1. id \in DOMAIN handlers => n \notin DOMAIN handlers[id]
    BY <1>3 DEF List
  <2>2. r = Entry(id, n, tokens')
    BY DEF Registration, Entry
  <2>3. /\ TableOK(handlers') /\ DOMAIN handlers' = DOMAIN handlers \cup {id}
        /\ EntriesOf(handlers') = EntriesOf(handlers) \cup {Entry(id, n, tokens')}
    <3>1. TableOK(handlers)
      BY EntryTypes
    <3>2. handlers' = Registered(handlers, id, n, tokens')
      BY <1>1 DEF Registered
    <3> QED
      BY <1>2, <1>3, <2>1, <3>1, <3>2, EntryRegistered
  <2> QED
    BY <2>2, <2>3, EntriesAre
<1>5. c \in Calls /\ c.token = tokens' /\ c.n = n /\ r = [id |-> id, n |-> n, token |-> tokens']
  BY <1>2, <1>3 DEF Calls, Registration
<1> HIDE DEF c, r
<1>6. /\ call' \in [Threads -> Calls]
      /\ call'[t] = c /\ \A u \in Threads : u # t => call'[u] = call[u]
  BY <1>1, <1>5, CallsStay
<1>7. /\ ~Registers(t) /\ call[t].op = "none"
      /\ \A u \in Threads : u # t => (Registers(u)' <=> Registers(u))
  BY <1>1, <1>6, CallKinds DEF Registers
<1>8. TypeOK'
  BY <1>1, <1>2, <1>4, <1>6 DEF TypeOK, TableOK, driverVars, detection, traffic
<1>9. DetectionInv'
  BY <1>1 DEF DetectionInv, driverVars, detection
<1>10. HandlersServed'
  BY <1>1, <1>4 DEF OwnersInv, HandlersServed
<1>11. Registers(t)' /\ call'[t].token = tokens' /\ call'[t].n = n
  BY <1>5, <1>6 DEF Registers, c
<1>12. NoDeadHandler'
  <2>1. ASSUME NEW e \in Entries'
        PROVE  \/ e.token \in blind'
               \/ \E h \in held' : h.token = e.token
               \/ \E u \in Threads : Registers(u)' /\ call'[u].token = e.token
    <3>1. CASE e = r
      BY <1>5, <1>11, <3>1
    <3>2. CASE e \in Entries
      <4>1. \/ e.token \in blind
            \/ \E h \in held : h.token = e.token
            \/ \E u \in Threads : Registers(u) /\ call[u].token = e.token
        BY <3>2 DEF OwnersInv, NoDeadHandler
      <4> QED
        BY <1>1, <1>6, <1>7, <4>1
    <3> QED
      BY <1>4, <3>1, <3>2
  <2> QED
    BY <2>1 DEF NoDeadHandler
<1>13. TokenInv'
  <2>1. /\ \A e \in Entries : /\ e.n <= e.token /\ e.token <= tokens
                              /\ e.token \in Nat /\ e.n \in Nat
        /\ \A d, e \in Entries : d.token = e.token => d = e
        /\ \A h \in held : h.token <= tokens /\ h.token \in Nat /\ (h.n = 0 => h.token \in blind)
    BY EntryTypes DEF OwnersInv, TokenInv, TypeOK
  <2>2. /\ \A e \in Entries : e.token # tokens' /\ e.token <= tokens'
        /\ \A h \in held : h.token # tokens' /\ h.token <= tokens'
    BY <1>1, <1>2, <2>1
  <2>3. r.token = tokens' /\ r.n = n /\ r.n <= r.token /\ r.token <= tokens'
    BY <1>2, <1>3, <1>5
  <2>4. /\ \A e \in Entries' : e.n <= e.token /\ e.token <= tokens'
        /\ \A d, e \in Entries' : d.token = e.token => d = e
    BY <1>4, <2>1, <2>2, <2>3
  <2>5. ASSUME NEW h \in held'
        PROVE  /\ h.token <= tokens' /\ (h.n = 0 => h.token \in blind')
               /\ \A e \in Entries' : h.token = e.token => h.n = 0 \/ h = e
    <3>1. h \in held
      BY <1>1, <2>5
    <3> QED
      BY <1>1, <1>4, <2>1, <2>2, <2>3, <3>1 DEF OwnersInv, TokenInv
  <2>6. ASSUME NEW u \in Threads, Registers(u)'
        PROVE  /\ call'[u].token <= tokens'
               /\ \A h \in held' : h.token # call'[u].token
               /\ \A e \in Entries' : e.token = call'[u].token =>
                    e = Registration(call'[u], call'[u].n)
               /\ \A v \in Threads : Registers(v)' /\ call'[v].token = call'[u].token => u = v
    <3>1. \A v \in Threads : v # t /\ Registers(v)' =>
            /\ call'[v] = call[v] /\ call[v].token <= tokens /\ call[v].token \in Nat
      BY <1>6, <1>7, CallKinds DEF OwnersInv, TokenInv
    <3>2. CASE u = t
      <4>1. \A v \in Threads : Registers(v)' /\ call'[v].token = call'[u].token => u = v
        BY <1>1, <1>2, <1>11, <3>1, <3>2
      <4>2. \A h \in held' : h.token # call'[u].token
        BY <1>1, <1>11, <2>2, <3>2
      <4>3. Registration(call'[u], call'[u].n) = r
        BY <1>5, <1>6, <3>2 DEF r
      <4>4. \A e \in Entries' : e.token = call'[u].token => e = r
        BY <1>4, <1>11, <2>2, <3>2
      <4>5. call'[u].token <= tokens'
        BY <1>2, <1>11, <3>2
      <4> QED
        BY <4>1, <4>2, <4>3, <4>4, <4>5
    <3>3. CASE u # t
      <4>1. Registers(u) /\ call'[u] = call[u]
        BY <1>6, <1>7, <2>6, <3>3
      <4>2. /\ call[u].token <= tokens /\ call[u].token \in Nat
            /\ \A h \in held : h.token # call[u].token
            /\ \A e \in Entries : e.token = call[u].token => e = Registration(call[u], call[u].n)
            /\ \A v \in Threads : Registers(v) /\ call[v].token = call[u].token => u = v
        BY <4>1, CallKinds DEF OwnersInv, TokenInv
      <4>3. call[u].token # tokens' /\ call[u].token <= tokens'
        BY <1>1, <1>2, <4>2
      <4>4. \A v \in Threads : Registers(v)' /\ call'[v].token = call'[u].token => u = v
        BY <1>6, <1>7, <1>11, <4>1, <4>2, <4>3
      <4>5. \A e \in Entries' : e.token = call'[u].token => e = Registration(call'[u], call'[u].n)
        BY <1>4, <2>3, <4>1, <4>2, <4>3
      <4> QED
        BY <1>1, <4>1, <4>2, <4>3, <4>4, <4>5
    <3> QED
      BY <3>2, <3>3
  <2> QED
    BY <2>4, <2>5, <2>6 DEF TokenInv
<1>14. ServedInv'
  <2>1. ASSUME "crossed" \notin odd', NEW u \in Threads, Registers(u)'
        PROVE  Registration(call'[u], call'[u].n) \in Entries'
    <3>1. CASE u = t
      BY <1>4, <1>5, <1>6, <3>1 DEF r
    <3>2. CASE u # t
      BY <1>1, <1>4, <1>6, <1>7, <2>1, <3>2 DEF OwnersInv, ServedInv
    <3> QED
      BY <3>1, <3>2
  <2> QED
    BY <2>1 DEF ServedInv
<1>15. FilterInv'
  BY <1>1, <1>6, <1>7, FilterStays DEF HasFilter, driverVars
<1>16. SettledInv'
  <2>1. ASSUME "short" \notin odd', NEW e \in Entries'
        PROVE  \/ e.id \in filters'
               \/ \E u \in Threads : Registers(u)' /\ call'[u].token = e.token
               \/ e.token \in blind' /\ Awaited(e)'
    <3>1. CASE e = r
      BY <1>5, <1>11, <3>1
    <3>2. CASE e \in Entries
      <4>1. \/ e.id \in filters
            \/ \E u \in Threads : Registers(u) /\ call[u].token = e.token
            \/ e.token \in blind /\ Awaited(e)
        BY <1>1, <2>1, <3>2 DEF SettledInv
      <4>2. Awaited(e)' <=> Awaited(e)
        BY <1>1 DEF Awaited, detection
      <4> QED
        BY <1>1, <1>6, <1>7, <4>1, <4>2
    <3> QED
      BY <1>4, <3>1, <3>2
  <2> QED
    BY <2>1 DEF SettledInv
<1>17. OnceInv'
  <2>1. odd \cap {"leaked", "raced"} = {} =>
          \A m \in DOMAIN driver : driver[m] # NoId => driver[m] \in filters
    BY DEF OnceInv
  <2> QED
    BY <1>1, <2>1, OnceStays DEF driverVars
<1> QED
  BY <1>8, <1>9, <1>10, <1>12, <1>13, <1>14, <1>15, <1>16, <1>17 DEF OwnersInv

\* A call of RegisterFrameReceivedHandler goes on to its next step.
LEMMA RegistrationGoesOn ==
  ASSUME InductiveInv, NEW t \in Threads, Registers(t), NEW o \in {"check", "filter", "add"},
         call' = [call EXCEPT ![t].op = o], UNCHANGED <<handlers, filters, driver, owners, traffic, odd>>,
         UNCHANGED detection
  PROVE  /\ call' \in [Threads -> Calls]
         /\ OwnersInv' /\ FilterInv' /\ SettledInv' /\ OnceInv'
<1> USE Parts
<1> DEFINE c == [call[t] EXCEPT !.op = o]
<1>1. /\ c \in Registering /\ c.op = o
      /\ c.id = call[t].id /\ c.n = call[t].n /\ c.token = call[t].token
  BY NextOp
<1>2. call' = [call EXCEPT ![t] = c]
  OBVIOUS
<1> HIDE DEF c
<1>3. /\ call' \in [Threads -> Calls]
      /\ call'[t] = c /\ \A u \in Threads : u # t => call'[u] = call[u]
  BY <1>1, <1>2, CallsStay, KindsAreCalls
<1>4. \A u \in Threads :
        /\ Registers(u)' <=> Registers(u)
        /\ Registers(u) => /\ call'[u].id = call[u].id /\ call'[u].n = call[u].n
                           /\ call'[u].token = call[u].token
  BY <1>1, <1>3 DEF Registers
<1>5. Entries' = Entries
  BY EntriesAre
<1>6. OwnersInv'
  BY <1>4, <1>5, OwnersStay
<1>7. FilterInv'
  <2>1. call[t].op # "forget"
    BY DEF Registers
  <2> QED
    BY <1>3, <2>1, FilterStays DEF HasFilter
<1>8. SettledInv'
  <2>1. \A e \in Entries' : Awaited(e)' <=> Awaited(e)
    BY DEF Awaited, detection
  <2>2. blind' = blind
    BY DEF owners
  <2> QED
    BY <1>4, <1>5, <2>1, <2>2, SettledStays
<1>9. OnceInv'
  <2>1. odd \cap {"leaked", "raced"} = {} =>
          \A m \in DOMAIN driver : driver[m] # NoId => driver[m] \in filters
    BY DEF OnceInv
  <2> QED
    BY <2>1, OnceStays
<1> QED
  BY <1>3, <1>6, <1>7, <1>8, <1>9

\* What a call that ends leaves of the others, and what it adds to held.
LEMMA CallEnds ==
  ASSUME TypeOK, NEW t \in Threads, Registers(t), call' = [call EXCEPT ![t] = Idle]
  PROVE  /\ call' \in [Threads -> Calls]
         /\ \A u \in Threads : call[u].op = "forget" => call'[u] = call[u]
         /\ \A u \in Threads : u # t /\ Registers(u) => Registers(u)' /\ call'[u] = call[u]
         /\ \A n \in {0, call[t].n} :
              Registration(call[t], n) \in [id : Ids, n : 0..MaxTokens, token : 1..MaxTokens]
<1>1. Idle \in Calls
  BY KindsAreCalls
<1>2. /\ call' \in [Threads -> Calls] /\ \A u \in Threads : u # t => call'[u] = call[u]
  BY <1>1, CallsStay
<1>3. call[t].op # "forget"
  BY DEF Registers
<1>4. call[t].id \in Ids /\ call[t].n \in 1..MaxTokens /\ call[t].token \in 1..MaxTokens
  BY CallKinds
<1>5. \A n \in {0, call[t].n} :
        Registration(call[t], n) \in [id : Ids, n : 0..MaxTokens, token : 1..MaxTokens]
  BY <1>4, CanBusAssumption DEF Registration
<1> QED
  BY <1>2, <1>3, <1>5 DEF Registers

\* The entry with the token of a call is the one it made.
LEMMA OwnEntry ==
  ASSUME InductiveInv, NEW t \in Threads, Registers(t), NEW e \in Entries,
         e.token = call[t].token
  PROVE  /\ e = Registration(call[t], call[t].n)
         /\ e.id = call[t].id /\ e.n = call[t].n /\ e.id \in DOMAIN handlers
<1>1. e = Registration(call[t], call[t].n)
  BY Parts DEF OwnersInv, TokenInv
<1>2. e.id \in DOMAIN handlers
  BY Parts, EntryTypes
<1> QED
  BY <1>1, <1>2 DEF Registration

LEMMA RegisterChecksKeeps ==
  ASSUME InductiveInv, NEW t \in Threads, RegisterChecks(t)
  PROVE  InductiveInv'
<1> USE Parts
<1> DEFINE c == call[t]
<1>1. /\ c.op = "check" /\ Registers(t)
      /\ UNCHANGED <<busRate, saved, driverVars, table, detection, tokens, traffic, odd>>
  BY DEF RegisterChecks, Registers
<1>2. DetectionInv'
  BY <1>1 DEF DetectionInv, driverVars, detection
<1>3. Entries' = Entries
  BY <1>1, EntriesAre DEF table
<1>4. \A e : Awaited(e)' <=> Awaited(e)
  BY <1>1 DEF Awaited, detection
<1>5. TypeOK' <=> /\ call' \in [Threads -> Calls]
                  /\ held' \subseteq [id : Ids, n : 0..MaxTokens, token : 1..MaxTokens]
                  /\ blind' \subseteq 1..MaxTokens
  BY <1>1 DEF TypeOK, driverVars, table, detection, traffic
<1>6. CASE detecting /\ ~detected
  <2> DEFINE S == {Registration(c, 0)}
  <2>1. call' = [call EXCEPT ![t] = Idle] /\ held' = held \cup S /\ blind' = blind \cup {c.token}
    BY <1>6 DEF RegisterChecks, Returns
  <2>2. c.token \in 1..MaxTokens
    BY <1>1, CallKinds
  <2>3. TypeOK'
    BY <1>1, <1>5, <2>1, <2>2, CallEnds DEF TypeOK
  <2>4. OwnersInv'
    <3>1. S \in SUBSET {Registration(c, c.n), Registration(c, 0)} /\ S # {}
      OBVIOUS
    <3> HIDE DEF S
    <3> QED
      BY <1>1, <1>3, <2>1, <3>1, RegistrationEnds
  <2>5. FilterInv'
    BY <1>1, <2>1, CallEnds, FilterStays DEF HasFilter, table, driverVars
  <2>6. SettledInv'
    <3>1. \A e \in Entries' : Awaited(e)'
      BY <1>4, <1>6 DEF Awaited
    <3>2. \A e \in Entries', u \in Threads :
            Registers(u) /\ call[u].token = e.token =>
              \/ Registers(u)' /\ call'[u].token = e.token
              \/ e.token \in blind'
      BY <1>1, <2>1, CallEnds
    <3> QED
      BY <1>1, <1>3, <2>1, <3>1, <3>2, SettledStays DEF table
  <2>7. OnceInv'
    <3>1. odd \cap {"leaked", "raced"} = {} =>
            \A m \in DOMAIN driver : driver[m] # NoId => driver[m] \in filters
      BY DEF OnceInv
    <3> QED
      BY <1>1, <3>1, OnceStays DEF driverVars, table
  <2> QED
    BY <1>2, <2>3, <2>4, <2>5, <2>6, <2>7
<1>7. CASE ~(detecting /\ ~detected)
  <2>1. call' = [call EXCEPT ![t].op = "filter"] /\ UNCHANGED <<held, blind>>
    BY <1>7 DEF RegisterChecks
  <2>2. /\ call' \in [Threads -> Calls]
        /\ OwnersInv' /\ FilterInv' /\ SettledInv' /\ OnceInv'
    BY <1>1, <2>1, RegistrationGoesOn DEF driverVars, table, owners
  <2>3. TypeOK'
    BY <1>5, <2>1, <2>2 DEF TypeOK
  <2> QED
    BY <1>2, <2>2, <2>3
<1> QED
  BY <1>6, <1>7

LEMMA RegisterFilterKeeps ==
  ASSUME InductiveInv, NEW t \in Threads, RegisterFilter(t)
  PROVE  InductiveInv'
<1> USE Parts
<1> DEFINE c == call[t]
<1>1. /\ c.op = "filter" /\ Registers(t)
      /\ UNCHANGED <<busRate, saved, driverVars, table, detection, blind, tokens, traffic, odd>>
  BY DEF RegisterFilter, Registers
<1>2. DetectionInv'
  BY <1>1 DEF DetectionInv, driverVars, detection
<1>3. Entries' = Entries
  BY <1>1, EntriesAre DEF table
<1>4. \A e : Awaited(e)' <=> Awaited(e)
  BY <1>1 DEF Awaited, detection
<1>5. TypeOK' <=> /\ call' \in [Threads -> Calls]
                  /\ held' \subseteq [id : Ids, n : 0..MaxTokens, token : 1..MaxTokens]
  BY <1>1 DEF TypeOK, driverVars, table, detection, traffic
<1>6. \/ /\ c.id \notin DOMAIN handlers /\ Returns(t, {})
      \/ /\ c.id \in DOMAIN handlers \cap filters
         /\ Returns(t, {Registration(c, c.n)})
      \/ /\ call' = [call EXCEPT ![t].op = "add"] /\ UNCHANGED held
  BY DEF RegisterFilter
<1>7. ASSUME NEW S \in SUBSET {Registration(c, c.n)}, Returns(t, S),
             S = {} => c.id \notin DOMAIN handlers, S # {} => c.id \in filters
      PROVE  InductiveInv'
  <2>1. call' = [call EXCEPT ![t] = Idle] /\ held' = held \cup S
    BY <1>7 DEF Returns
  <2>2. TypeOK'
    BY <1>1, <1>5, <1>7, <2>1, CallEnds DEF TypeOK
  <2>3. \A e \in Entries : e.token = c.token => S # {} /\ e.id \in filters
    BY <1>1, <1>7, OwnEntry
  <2>4. OwnersInv'
    <3>1. S \in SUBSET {Registration(c, c.n), Registration(c, 0)}
      OBVIOUS
    <3>2. Registration(c, 0) \notin S
      <4>1. c.n # 0
        BY <1>1, CallKinds
      <4> QED
        BY <4>1 DEF Registration
    <3> QED
      BY <1>1, <1>3, <2>1, <2>3, <3>1, <3>2, RegistrationEnds
  <2>5. FilterInv'
    BY <1>1, <2>1, CallEnds, FilterStays DEF HasFilter, table, driverVars
  <2>6. SettledInv'
    <3>1. \A e \in Entries', u \in Threads :
            Registers(u) /\ call[u].token = e.token =>
              \/ Registers(u)' /\ call'[u].token = e.token
              \/ e.id \in filters'
      BY <1>1, <1>3, <2>1, <2>3, CallEnds DEF table
    <3> QED
      BY <1>1, <1>3, <1>4, <3>1, SettledStays DEF table
  <2>7. OnceInv'
    <3>1. odd \cap {"leaked", "raced"} = {} =>
            \A m \in DOMAIN driver : driver[m] # NoId => driver[m] \in filters
      BY DEF OnceInv
    <3> QED
      BY <1>1, <3>1, OnceStays DEF driverVars, table
  <2> QED
    BY <1>2, <2>2, <2>4, <2>5, <2>6, <2>7
<1>8. CASE call' = [call EXCEPT ![t].op = "add"] /\ UNCHANGED held
  <2>1. /\ call' \in [Threads -> Calls]
        /\ OwnersInv' /\ FilterInv' /\ SettledInv' /\ OnceInv'
    BY <1>1, <1>8, RegistrationGoesOn DEF driverVars, table, owners
  <2>2. TypeOK'
    BY <1>5, <1>8, <2>1 DEF TypeOK
  <2> QED
    BY <1>2, <2>1, <2>2
<1>9. CASE c.id \notin DOMAIN handlers /\ Returns(t, {})
  BY <1>7, <1>9
<1>10. CASE c.id \in DOMAIN handlers \cap filters /\ Returns(t, {Registration(c, c.n)})
  BY <1>7, <1>10
<1> QED
  BY <1>6, <1>8, <1>9, <1>10

LEMMA AddFilterKeeps ==
  ASSUME InductiveInv, NEW t \in Threads, AddFilter(t)
  PROVE  InductiveInv'
<1> USE Parts
<1> DEFINE c == call[t]
           r == Registration(c, c.n)
<1>1. /\ c.op = "add" /\ Registers(t) /\ FreeFilters # {}
      /\ driver' = Added(c.id) /\ filters' = filters \cup {c.id}
      /\ odd' = IF c.id \in filters THEN odd \cup {"raced"} ELSE odd
      /\ call' = [call EXCEPT ![t] = Idle] /\ held' = held \cup {r}
      /\ UNCHANGED <<busRate, saved, running, handlers, detection, blind, tokens, traffic>>
  BY DEF AddFilter, Registers, Returns
<1>2. c.id \in Ids /\ c.n # 0
  BY <1>1, CallKinds
<1> PICK id \in Ids : id = c.id
  BY <1>2
<1>3. DetectionInv'
  BY <1>1 DEF DetectionInv, detection
<1>4. Entries' = Entries
  BY <1>1, EntriesAre
<1>5. \A e : Awaited(e)' <=> Awaited(e)
  BY <1>1 DEF Awaited, detection
<1>6. /\ driver' \in [0..(FilterCount - 1) -> Ids \cup {NoId}]
      /\ HasFilter(id)' /\ \A x \in Ids : HasFilter(x) => HasFilter(x)'
  BY <1>1, <1>2, FilterAdded
<1>7. TypeOK'
  <2>1. /\ call' \in [Threads -> Calls]
        /\ held' \subseteq [id : Ids, n : 0..MaxTokens, token : 1..MaxTokens]
    BY <1>1, CallEnds DEF TypeOK
  <2>2. /\ filters' \subseteq Ids
        /\ odd' \subseteq {"raced", "leaked", "taken", "crossed", "short", "twice"}
    BY <1>1, <1>2 DEF TypeOK
  <2> QED
    BY <1>1, <1>6, <2>1, <2>2 DEF TypeOK, detection, traffic
<1>8. OwnersInv'
  <2> DEFINE S == {r}
  <2>1. /\ S \in SUBSET {Registration(c, c.n), Registration(c, 0)} /\ S # {}
        /\ held' = held \cup S
    BY <1>1
  <2>2. Registration(c, 0) \notin S
    BY <1>2 DEF Registration
  <2>3. odd \subseteq odd' /\ blind \subseteq blind'
    BY <1>1
  <2> HIDE DEF S
  <2> QED
    BY <1>1, <1>4, <2>1, <2>2, <2>3, RegistrationEnds
<1>9. FilterInv'
  <2>1. ASSUME "taken" \notin odd', NEW x \in filters'
        PROVE  HasFilter(x)' \/ \E u \in Threads : call'[u] = [op |-> "forget", id |-> x]
    <3>1. CASE x = id
      BY <1>6, <3>1
    <3>2. CASE x \in filters
      <4>1. x \in Ids /\ "taken" \notin odd
        BY <1>1, <2>1, <3>2 DEF TypeOK
      <4>2. HasFilter(x) \/ \E u \in Threads : call[u] = [op |-> "forget", id |-> x]
        BY <3>2, <4>1 DEF FilterInv
      <4>3. ASSUME NEW u \in Threads, call[u] = [op |-> "forget", id |-> x]
            PROVE  call'[u] = call[u]
        BY <1>1, <4>3, CallEnds
      <4> QED
        BY <1>6, <4>1, <4>2, <4>3
    <3> QED
      BY <1>1, <2>1, <3>1, <3>2
  <2> QED
    BY <2>1 DEF FilterInv
<1>10. SettledInv'
  <2>1. \A e \in Entries', u \in Threads :
          Registers(u) /\ call[u].token = e.token =>
            \/ Registers(u)' /\ call'[u].token = e.token
            \/ e.id \in filters'
    <3>1. ASSUME NEW e \in Entries, e.token = c.token PROVE e.id \in filters'
      BY <1>1, <3>1, OwnEntry
    <3>2. \A u \in Threads : u # t /\ Registers(u) => Registers(u)' /\ call'[u] = call[u]
      BY <1>1, CallEnds
    <3> QED
      BY <1>4, <3>1, <3>2
  <2>2. odd \subseteq odd' /\ blind' = blind
    BY <1>1
  <2> QED
    BY <1>1, <1>4, <1>5, <2>1, <2>2, SettledStays
<1>11. OnceInv'
  BY <1>1, <1>2, OnceAdded
<1> QED
  BY <1>3, <1>7, <1>8, <1>9, <1>10, <1>11

LEMMA AddFilterFailing ==
  ASSUME InductiveInv, NEW t \in Threads, AddFilterFails(t)
  PROVE  InductiveInv'
<1> USE Parts
<1> DEFINE c == call[t]
           r == Registration(c, c.n)
<1>1. /\ c.op = "add" /\ Registers(t)
      /\ handlers' = IF c.id \in DOMAIN handlers
                     THEN [handlers EXCEPT ![c.id] = Without(@, c.n)] ELSE handlers
      /\ call' = [call EXCEPT ![t] = Idle] /\ held' = held
      /\ UNCHANGED <<busRate, saved, driverVars, filters, detection, blind, tokens, traffic, odd>>
  BY DEF AddFilterFails, Registers, Returns
<1>2. DetectionInv'
  BY <1>1 DEF DetectionInv, detection, driverVars
<1>3. /\ TableOK(handlers')
      /\ Entries' = {e \in Entries : ~(e.id = c.id /\ e.n = c.n)}
  <2>1. TableOK(handlers) /\ Entries = EntriesOf(handlers)
    BY EntryTypes
  <2>2. CASE c.id \in DOMAIN handlers
    <3>1. handlers' = Unregistered(handlers, c.id, c.n)
      BY <1>1, <2>2 DEF Unregistered
    <3> QED
      BY <2>1, <2>2, <3>1, EntriesAre, EntryRemoved
  <2>3. CASE c.id \notin DOMAIN handlers
    BY <1>1, <2>1, <2>3, EntriesAre, EntryTypes
  <2> QED
    BY <2>2, <2>3
<1>4. \A e : Awaited(e)' <=> Awaited(e)
  BY <1>1 DEF Awaited, detection
<1>5. TypeOK'
  <2>1. call' \in [Threads -> Calls]
    BY <1>1, CallEnds
  <2> QED
    BY <1>1, <1>3, <2>1 DEF TypeOK, TableOK, driverVars, detection, traffic
<1>6. r.id = c.id /\ r.n = c.n
  BY DEF Registration
<1>7. \A e \in Entries' : e \in Entries /\ e.token # c.token
  BY <1>1, <1>3, OwnEntry
<1>8. OwnersInv'
  <2> DEFINE S == {}
  <2>1. /\ S \in SUBSET {Registration(c, c.n), Registration(c, 0)}
        /\ held' = held \cup S
    BY <1>1
  <2>2. "crossed" \notin odd' => \A e \in Entries : e # r => e \in Entries'
    <3>1. SUFFICES ASSUME "crossed" \notin odd, NEW e \in Entries, e # r,
                          e.id = c.id, e.n = c.n
                   PROVE  FALSE
      BY <1>1, <1>3
    <3>2. r \in Entries
      BY <1>1, <3>1 DEF OwnersInv, ServedInv
    <3> QED
      BY <1>6, <3>1, <3>2, OneEntry, EntryTypes
  <2> QED
    BY <1>1, <1>7, <2>1, <2>2, RegistrationEnds
<1>9. FilterInv'
  BY <1>1, CallEnds, FilterStays DEF HasFilter, driverVars
<1>10. SettledInv'
  <2>1. \A e \in Entries', u \in Threads :
          Registers(u) /\ call[u].token = e.token => Registers(u)' /\ call'[u].token = e.token
    BY <1>1, <1>7, CallEnds
  <2>2. Entries' \subseteq Entries
    BY <1>7
  <2> QED
    BY <1>1, <1>4, <2>1, <2>2, SettledStays
<1>11. OnceInv'
  <2>1. odd \cap {"leaked", "raced"} = {} =>
          \A m \in DOMAIN driver : driver[m] # NoId => driver[m] \in filters
    BY DEF OnceInv
  <2> QED
    BY <1>1, <2>1, OnceStays DEF driverVars
<1> QED
  BY <1>2, <1>5, <1>8, <1>9, <1>10, <1>11

(***************************************************************************)
(* RemoveFrameReceivedHandler.                                             *)
(***************************************************************************)
LEMMA RemoveHandlerKeeps ==
  ASSUME InductiveInv, NEW t \in Threads, NEW h \in held, RemoveHandler(t, h)
  PROVE  InductiveInv'
<1> USE Parts
<1>1. /\ call[t] = Idle /\ held' = held \ {h}
      /\ UNCHANGED <<busRate, saved, driverVars, filters, detection, blind, tokens, traffic, odd>>
  BY DEF RemoveHandler
<1>2. h \in [id : Ids, n : 0..MaxTokens, token : 1..MaxTokens]
  BY DEF TypeOK
<1>3. ~Registers(t) /\ call[t].op = "none"
  BY <1>1, CallKinds
<1>4. /\ call' \in [Threads -> Calls]
      /\ \A u \in Threads : u # t => call'[u] = call[u]
      /\ ~Registers(t)'
  <2>1. CASE call' = call
    BY <1>3, <2>1 DEF TypeOK, Registers
  <2>2. CASE call' # call
    <3> DEFINE c == [op |-> IF h.id \in filters THEN "unfilter" ELSE "erase", id |-> h.id]
    <3>1. call' = [call EXCEPT ![t] = c]
      BY <2>2 DEF RemoveHandler
    <3>2. c \in Removing /\ c.op \notin {"check", "filter", "add"}
      BY <1>2 DEF Removing
    <3> HIDE DEF c
    <3>3. /\ call' \in [Threads -> Calls]
          /\ call'[t] = c /\ \A u \in Threads : u # t => call'[u] = call[u]
      BY <3>1, <3>2, CallsStay, KindsAreCalls
    <3> QED
      BY <3>2, <3>3 DEF Registers
  <2> QED
    BY <2>1, <2>2
<1>5. \A u \in Threads : Registers(u)' <=> (Registers(u) /\ call'[u] = call[u])
  BY <1>3, <1>4 DEF Registers
<1>6. \A u \in Threads : Registers(u) => call'[u] = call[u]
  BY <1>3, <1>4
<1>7. /\ TableOK(handlers')
      /\ Entries' = {e \in Entries : ~(e.id = h.id /\ e.n = h.n)}
  <2>1. TableOK(handlers) /\ Entries = EntriesOf(handlers)
    BY EntryTypes
  <2>2. CASE h.n \in DOMAIN List(h.id)
    <3>1. h.id \in DOMAIN handlers
      BY <2>2 DEF List
    <3>2. handlers' = Unregistered(handlers, h.id, h.n)
      BY <2>2 DEF RemoveHandler, Unregistered
    <3> QED
      BY <2>1, <3>1, <3>2, EntriesAre, EntryRemoved
  <2>3. CASE h.n \notin DOMAIN List(h.id)
    <3>1. handlers' = handlers
      BY <2>3 DEF RemoveHandler
    <3>2. ASSUME NEW e \in Entries, e.id = h.id, e.n = h.n PROVE FALSE
      BY <2>3, <3>2, EntryTypes DEF List
    <3> QED
      BY <2>1, <3>1, <3>2, EntriesAre
  <2> QED
    BY <2>2, <2>3
<1>8. TypeOK'
  BY <1>1, <1>4, <1>7 DEF TypeOK, TableOK, driverVars, detection, traffic
<1>9. DetectionInv'
  BY <1>1 DEF DetectionInv, driverVars, detection
<1>10. OwnersInv'
  <2>1. /\ \A e \in Entries : e.n <= e.token /\ e.token <= tokens
        /\ \A d, e \in Entries : d.token = e.token => d = e
        /\ \A g \in held : /\ g.token <= tokens /\ (g.n = 0 => g.token \in blind)
                           /\ \A e \in Entries : g.token = e.token => g.n = 0 \/ g = e
    BY DEF OwnersInv, TokenInv
  <2>2. "crossed" \notin odd => \A g \in held : g.n > 0 => g \in Entries
    BY DEF OwnersInv, HandlersServed
  <2>3. ASSUME "crossed" \notin odd, NEW e \in Entries, e # h PROVE e \in Entries'
    <3>1. SUFFICES ASSUME e.id = h.id, e.n = h.n PROVE FALSE
      BY <1>7, <2>3
    <3>2. h.n > 0
      BY <3>1, EntryTypes
    <3> QED
      BY <2>2, <2>3, <3>1, <3>2, OneEntry, EntryTypes
  <2>4. HandlersServed'
    BY <1>1, <2>2, <2>3 DEF HandlersServed
  <2>5. NoDeadHandler'
    <3>1. ASSUME NEW e \in Entries'
          PROVE  \/ e.token \in blind'
                 \/ \E g \in held' : g.token = e.token
                 \/ \E u \in Threads : Registers(u)' /\ call'[u].token = e.token
      <4>1. e \in Entries /\ ~(e.id = h.id /\ e.n = h.n)
        BY <1>7
      <4>2. \/ e.token \in blind
            \/ \E g \in held : g.token = e.token
            \/ \E u \in Threads : Registers(u) /\ call[u].token = e.token
        BY <4>1 DEF OwnersInv, NoDeadHandler
      <4>3. h.token = e.token => e.token \in blind
        BY <2>1, <4>1
      <4> QED
        BY <1>1, <1>5, <1>6, <4>2, <4>3
    <3> QED
      BY <3>1 DEF NoDeadHandler
  <2>6. TokenInv'
    <3>1. \A e \in Entries' : e \in Entries
      BY <1>7
    <3>2. /\ \A e \in Entries' : e.n <= e.token /\ e.token <= tokens'
          /\ \A d, e \in Entries' : d.token = e.token => d = e
          /\ \A g \in held' : /\ g.token <= tokens' /\ (g.n = 0 => g.token \in blind')
                              /\ \A e \in Entries' : g.token = e.token => g.n = 0 \/ g = e
      BY <1>1, <2>1, <3>1
    <3>3. ASSUME NEW u \in Threads, Registers(u)'
          PROVE  /\ call'[u].token <= tokens'
                 /\ \A g \in held' : g.token # call'[u].token
                 /\ \A e \in Entries' : e.token = call'[u].token =>
                      e = Registration(call'[u], call'[u].n)
                 /\ \A v \in Threads : Registers(v)' /\ call'[v].token = call'[u].token => u = v
      <4>1. Registers(u) /\ call'[u] = call[u]
        BY <1>5, <3>3
      <4>2. /\ call[u].token <= tokens
            /\ \A g \in held : g.token # call[u].token
            /\ \A e \in Entries : e.token = call[u].token => e = Registration(call[u], call[u].n)
            /\ \A v \in Threads : Registers(v) /\ call[v].token = call[u].token => u = v
        BY <4>1 DEF OwnersInv, TokenInv
      <4>3. \A v \in Threads : Registers(v)' /\ call'[v].token = call'[u].token => u = v
        BY <1>5, <4>1, <4>2
      <4> QED
        BY <1>1, <3>1, <4>1, <4>2, <4>3
    <3> QED
      BY <3>2, <3>3 DEF TokenInv
  <2>7. ServedInv'
    <3>1. ASSUME "crossed" \notin odd', NEW u \in Threads, Registers(u)'
          PROVE  Registration(call'[u], call'[u].n) \in Entries'
      <4>1. Registers(u) /\ call'[u] = call[u] /\ "crossed" \notin odd
        BY <1>1, <1>5, <3>1
      <4>2. Registration(call[u], call[u].n) \in Entries
        BY <4>1 DEF OwnersInv, ServedInv
      <4>3. h.token # call[u].token
        BY <4>1 DEF OwnersInv, TokenInv
      <4>4. Registration(call[u], call[u].n) # h
        BY <4>3 DEF Registration
      <4> QED
        BY <2>3, <4>1, <4>2, <4>4
    <3> QED
      BY <3>1 DEF ServedInv
  <2> QED
    BY <2>4, <2>5, <2>6, <2>7 DEF OwnersInv
<1>11. FilterInv'
  BY <1>1, <1>3, <1>4, FilterStays DEF HasFilter, driverVars
<1>12. SettledInv'
  <2>1. \A e \in Entries' : e \in Entries /\ (Awaited(e)' <=> Awaited(e))
    BY <1>1, <1>7 DEF Awaited, detection
  <2> QED
    BY <1>1, <1>5, <1>6, <2>1, SettledStays
<1>13. OnceInv'
  <2>1. odd \cap {"leaked", "raced"} = {} =>
          \A m \in DOMAIN driver : driver[m] # NoId => driver[m] \in filters
    BY DEF OnceInv
  <2> QED
    BY <1>1, <2>1, OnceStays DEF driverVars
<1> QED
  BY <1>8, <1>9, <1>10, <1>11, <1>12, <1>13

LEMMA RemoveFilterKeeps ==
  ASSUME InductiveInv, NEW t \in Threads, RemoveFilter(t)
  PROVE  InductiveInv'
<1> USE Parts
<1>1. call[t].op = "unfilter" /\ call[t].id \in Ids
  BY CallKinds DEF RemoveFilter
<1> PICK id \in Ids : id = call[t].id
  BY <1>1
<1>2. /\ driver' = [n \in DOMAIN driver |-> IF n \in FilterNumber(id) THEN NoId ELSE driver[n]]
      /\ odd' = IF \E n \in DOMAIN driver : driver[n] \notin {id, driver'[n]}
                THEN odd \cup {"taken"} ELSE odd
      /\ call' = [call EXCEPT ![t].op = "forget"]
      /\ UNCHANGED <<busRate, saved, running, table, detection, owners, traffic>>
  BY DEF RemoveFilter
<1>3. /\ call' \in [Threads -> Calls] /\ call'[t] = [op |-> "forget", id |-> id]
      /\ \A u \in Threads : u # t => call'[u] = call[u]
  <2> DEFINE c == [op |-> "forget", id |-> id]
  <2>1. call' = [call EXCEPT ![t] = c]
    BY <1>1, <1>2, NextOp
  <2>2. c \in Calls
    BY KindsAreCalls DEF Removing
  <2> QED
    BY <2>1, <2>2, CallsStay
<1>4. ~Registers(t) /\ ~Registers(t)'
  BY <1>1, <1>3 DEF Registers
<1>5. \A u \in Threads :
        (Registers(u)' <=> Registers(u)) /\ (Registers(u) => call'[u] = call[u])
  BY <1>3, <1>4 DEF Registers
<1>6. /\ DOMAIN driver' = DOMAIN driver
      /\ driver' \in [0..(FilterCount - 1) -> Ids \cup {NoId}]
      /\ \A n \in DOMAIN driver : driver'[n] \in {driver[n], NoId}
  BY <1>2 DEF TypeOK
<1>7. odd \subseteq odd' /\ odd' \subseteq odd \cup {"taken"}
  BY <1>2
<1>8. TypeOK'
  BY <1>2, <1>3, <1>6, <1>7 DEF TypeOK, table, detection, owners, traffic
<1>9. DetectionInv'
  BY <1>2 DEF DetectionInv, detection
<1>10. Entries' = Entries
  BY <1>2, EntriesAre DEF table
<1>11. OwnersInv'
  BY <1>2, <1>5, <1>7, <1>10, OwnersStay
<1>12. FilterInv'
  <2>1. ASSUME "taken" \notin odd', NEW x \in filters'
        PROVE  HasFilter(x)' \/ \E u \in Threads : call'[u] = [op |-> "forget", id |-> x]
    <3>1. CASE x = id
      BY <1>3, <3>1
    <3>2. CASE x # id
      <4>1. HasFilter(x) \/ \E u \in Threads : call[u] = [op |-> "forget", id |-> x]
        BY <1>2, <1>7, <2>1 DEF FilterInv, table
      <4>2. \A n \in DOMAIN driver : driver[n] # id => driver'[n] = driver[n]
        BY <1>2, <2>1
      <4>3. HasFilter(x) => HasFilter(x)'
        BY <1>6, <3>2, <4>2 DEF HasFilter
      <4>4. ASSUME NEW u \in Threads, call[u] = [op |-> "forget", id |-> x]
            PROVE  call'[u] = call[u]
        BY <1>1, <1>3, <4>4
      <4> QED
        BY <4>1, <4>3, <4>4
    <3> QED
      BY <3>1, <3>2
  <2> QED
    BY <2>1 DEF FilterInv
<1>13. SettledInv'
  <2>1. \A e \in Entries' : Awaited(e)' <=> Awaited(e)
    BY <1>2 DEF Awaited, detection
  <2>2. blind' = blind /\ filters' = filters
    BY <1>2 DEF owners, table
  <2> QED
    BY <1>5, <1>7, <1>10, <2>1, <2>2, SettledStays
<1>14. OnceInv'
  <2>1. odd' \cap {"leaked", "raced"} = {} =>
          \A n \in DOMAIN driver : driver'[n] # NoId => driver'[n] \in filters \cap filters'
    BY <1>2, <1>6, <1>7 DEF OnceInv, table
  <2>2. "twice" \in odd' => "twice" \in odd
    BY <1>7
  <2> QED
    BY <1>2, <1>6, <1>7, <2>1, <2>2, OnceStays
<1> QED
  BY <1>8, <1>9, <1>11, <1>12, <1>13, <1>14

LEMMA EraseHandlersKeeps ==
  ASSUME InductiveInv, NEW t \in Threads, EraseHandlers(t)
  PROVE  InductiveInv'
<1> USE Parts
<1>1. call[t].op \in {"forget", "erase"} /\ call[t].id \in Ids
  BY CallKinds DEF EraseHandlers
<1> PICK id \in Ids : id = call[t].id
  BY <1>1
<1>2. /\ filters' = IF call[t].op = "forget" THEN filters \ {id} ELSE filters
      /\ odd' = odd \cup (IF List(id) # <<>> THEN {"crossed"} ELSE {})
                    \cup (IF call[t].op = "forget" /\ HasFilter(id) THEN {"leaked"} ELSE {})
      /\ handlers' = Without(handlers, id)
      /\ call' = [call EXCEPT ![t] = Idle]
      /\ UNCHANGED <<busRate, saved, driverVars, detection, owners, traffic>>
  BY DEF EraseHandlers
<1>3. /\ call' \in [Threads -> Calls] /\ call'[t] = Idle
      /\ \A u \in Threads : u # t => call'[u] = call[u]
  BY <1>2, CallsStay, KindsAreCalls
<1>4. ~Registers(t) /\ ~Registers(t)'
  BY <1>1, <1>3 DEF Registers, Idle
<1>5. \A u \in Threads :
        (Registers(u)' <=> Registers(u)) /\ (Registers(u) => call'[u] = call[u])
  BY <1>3, <1>4 DEF Registers
<1>6. /\ TableOK(handlers') /\ DOMAIN handlers' = DOMAIN handlers \ {id}
      /\ Entries' = {e \in Entries : e.id # id}
  <2>1. TableOK(handlers) /\ Entries = EntriesOf(handlers) /\ handlers' = Without(handlers, id)
    BY <1>2, EntryTypes
  <2>2. /\ TableOK(handlers') /\ DOMAIN handlers' = DOMAIN handlers \ {id}
        /\ EntriesOf(handlers') = {e \in EntriesOf(handlers) : e.id # id}
    BY <2>1, ListErased
  <2> QED
    BY <2>1, <2>2, EntriesAre
<1>7. odd \subseteq odd' /\ odd' \subseteq odd \cup {"crossed", "leaked"}
  BY <1>2
<1>8. TypeOK'
  BY <1>2, <1>3, <1>6, <1>7 DEF TypeOK, TableOK, driverVars, detection, owners, traffic
<1>9. DetectionInv'
  BY <1>2 DEF DetectionInv, driverVars, detection
<1>10. OwnersInv'
  <2>1. "crossed" \notin odd' => Entries' = Entries
    <3>1. ASSUME "crossed" \notin odd', NEW e \in Entries PROVE e.id # id
      <4>1. List(id) = <<>>
        BY <1>2, <3>1
      <4> QED
        BY <4>1, EntryTypes DEF List
    <3> QED
      BY <1>6, <3>1
  <2>2. Entries' \subseteq Entries
    BY <1>6
  <2> QED
    BY <1>2, <1>5, <1>7, <2>1, <2>2, OwnersStay
<1>11. FilterInv'
  <2>1. ASSUME "taken" \notin odd', NEW x \in filters'
        PROVE  HasFilter(x)' \/ \E u \in Threads : call'[u] = [op |-> "forget", id |-> x]
    <3>1. HasFilter(x) \/ \E u \in Threads : call[u] = [op |-> "forget", id |-> x]
      BY <1>2, <1>7, <2>1 DEF FilterInv
    <3>2. HasFilter(x) => HasFilter(x)'
      BY <1>2 DEF HasFilter, driverVars
    <3>3. ASSUME NEW u \in Threads, call[u] = [op |-> "forget", id |-> x]
          PROVE  call'[u] = call[u]
      <4>1. u # t
        BY <1>2, <2>1, <3>3
      <4> QED
        BY <1>3, <4>1
    <3> QED
      BY <3>1, <3>2, <3>3
  <2> QED
    BY <2>1 DEF FilterInv
<1>12. SettledInv'
  <2>1. \A e \in Entries' : /\ Awaited(e)' <=> Awaited(e)
                            /\ e.id \in filters => e.id \in filters'
    BY <1>2, <1>6 DEF Awaited, detection
  <2>2. blind' = blind /\ Entries' \subseteq Entries
    BY <1>2, <1>6 DEF owners
  <2> QED
    BY <1>5, <1>7, <2>1, <2>2, SettledStays
<1>13. OnceInv'
  <2>1. ASSUME odd' \cap {"leaked", "raced"} = {}, NEW n \in DOMAIN driver, driver[n] # NoId
        PROVE  driver[n] \in filters \cap filters'
    <3>1. driver[n] \in filters
      BY <1>7, <2>1 DEF OnceInv
    <3>2. call[t].op = "forget" => driver[n] # id
      BY <1>2, <2>1 DEF HasFilter
    <3> QED
      BY <1>2, <3>1, <3>2
  <2>2. "twice" \in odd' => "twice" \in odd
    BY <1>7
  <2> QED
    BY <1>2, <1>7, <2>1, <2>2, OnceStays DEF driverVars
<1> QED
  BY <1>8, <1>9, <1>10, <1>11, <1>12, <1>13

(***************************************************************************)
(* The theorems.                                                           *)
(***************************************************************************)
LEMMA InitGood ==
  ASSUME Init
  PROVE  InductiveInv
<1> USE DEF Init
<1>1. TypeOK
  <2>1. 1 \in DOMAIN Rates
    BY CanBusAssumption
  <2>2. queue \in Seq([id : Ids, frame : 1..MaxFrames]) /\ Len(queue) <= QueueSize
    BY CanBusAssumption
  <2>3. call \in [Threads -> Calls]
    BY KindsAreCalls
  <2>4. running \in {0} \cup BusRates /\ bitrate \in {0, busRate}
    OBVIOUS
  <2> QED
    BY <2>1, <2>2, <2>3, <2>4, CanBusAssumption DEF TypeOK
<1>2. Entries = {}
  BY EntryTypes, <1>1 DEF TableOK
<1>3. \A t \in Threads : ~Registers(t)
  BY DEF Registers, Idle
<1>4. HandlersServed /\ NoDeadHandler /\ TokenInv /\ ServedInv
  BY <1>2, <1>3 DEF HandlersServed, NoDeadHandler, TokenInv, ServedInv
<1>5. DetectionInv /\ FilterInv /\ SettledInv
  BY <1>2 DEF DetectionInv, FilterInv, SettledInv
<1>6. OnceInv
  BY DEF OnceInv
<1> QED
  BY <1>1, <1>4, <1>5, <1>6 DEF InductiveInv

\* A step that changes nothing.
LEMMA Stuttering ==
  ASSUME InductiveInv, UNCHANGED vars
  PROVE  InductiveInv'
<1> USE DEF vars, driverVars, table, detection, owners, traffic
<1>1. TypeOK' /\ DetectionInv'
  BY Parts DEF TypeOK, DetectionInv
<1>2. \A e \in Entries : Awaited(e) => Awaited(e)'
  BY DEF Awaited
<1> QED
  BY <1>1, <1>2, ThreadStays, Parts

LEMMA NextStep ==
  ASSUME InductiveInv, [Next]_vars
  PROVE  InductiveInv'
<1>1. CASE BusThread
  <2>1. CASE \E id \in Ids : RegisterFilters(id)
    BY <2>1, RegisterFiltersKeeps
  <2> QED
    BY <1>1, <2>1, ThreadLoopKeeps, TestBitrateKeeps, DetectionStoppedKeeps, TestFailsKeeps,
       TestSucceedsKeeps, BitrateUpdatedKeeps, FiltersRegisteredKeeps, ProcessFramesTaskKeeps
       DEF BusThread
<1>2. CASE Destroy
  BY <1>2, DestroyKeeps
<1>3. ASSUME NEW t \in Threads, Application(t) PROVE InductiveInv'
  <2>1. CASE \E id \in Ids : RegisterHandler(t, id)
    BY <2>1, RegisterHandlerKeeps
  <2>2. CASE RegisterChecks(t)
    BY <2>2, RegisterChecksKeeps
  <2>3. CASE RegisterFilter(t)
    BY <2>3, RegisterFilterKeeps
  <2>4. CASE AddFilter(t)
    BY <2>4, AddFilterKeeps
  <2>5. CASE AddFilterFails(t)
    BY <2>5, AddFilterFailing
  <2>6. CASE \E h \in held : RemoveHandler(t, h)
    BY <2>6, RemoveHandlerKeeps
  <2>7. CASE RemoveFilter(t)
    BY <2>7, RemoveFilterKeeps
  <2>8. CASE EraseHandlers(t)
    BY <2>8, EraseHandlersKeeps
  <2> QED
    BY <1>3, <2>1, <2>2, <2>3, <2>4, <2>5, <2>6, <2>7, <2>8 DEF Application
<1>4. ASSUME NEW id \in Ids, FrameArrives(id) PROVE InductiveInv'
  BY <1>4, FrameArrivesKeeps
<1>5. CASE UNCHANGED vars
  BY <1>5, Stuttering
<1> QED
  BY <1>1, <1>2, <1>3, <1>4, <1>5 DEF Next

\* What is needed of the registrations, the filters and the queue to show the theorems
\* below: it holds of the first state and every step keeps it.
THEOREM Inductive == Spec => []InductiveInv
<1>1. Init => InductiveInv
  BY InitGood
<1>2. InductiveInv /\ [Next]_vars => InductiveInv'
  BY NextStep
<1> QED
  BY <1>1, <1>2, PTL DEF Spec

\* However many threads register and remove handlers at once, and whatever the bus
\* thread does meanwhile: a handler is in the table as long as its owner wants, and
\* none is left in it afterwards (canbus.cpp:202-297).
THEOREM HandlersInvHolds == Spec => []HandlersInv
<1>1. InductiveInv => HandlersInv
  BY DEF InductiveInv, HandlersInv
<1> QED
  BY <1>1, Inductive, PTL

\* Whatever the number of filters, of CAN IDs and of registrations: a handler that has
\* been registered hears its ID, before, during or after the detection of the bit rate,
\* and hears no frame twice (canbus.cpp:219-258, 310-353).
THEOREM HeardOnceHolds == Spec => []HeardOnce
<1>1. ASSUME InductiveInv PROVE RegisteredIsHeard
  <2>1. SUFFICES ASSUME detected, pc = "frames", Quiet, odd \cap {"taken", "short"} = {},
                        NEW e \in Entries
                 PROVE  HasFilter(e.id)
    BY DEF RegisteredIsHeard
  <2>2. \A t \in Threads : ~Registers(t) /\ call[t] = Idle
    BY <1>1, <2>1, Parts, CallKinds DEF Quiet
  <2>3. ~Awaited(e)
    BY <2>1 DEF Awaited
  <2>4. e.id \in filters
    BY <1>1, <2>1, <2>2, <2>3 DEF InductiveInv, SettledInv
  <2>5. \A t \in Threads : call[t] # [op |-> "forget", id |-> e.id]
    BY <2>2 DEF Idle
  <2> QED
    BY <1>1, <2>1, <2>4, <2>5 DEF InductiveInv, FilterInv
<1>2. InductiveInv => NeverTwice
  BY DEF InductiveInv, OnceInv, NeverTwice
<1>3. InductiveInv => HeardOnce
  BY <1>1, <1>2 DEF HeardOnce
<1> QED
  BY <1>3, Inductive, PTL
=============================================================================
