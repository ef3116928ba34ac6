----------------------- MODULE SensorProcessingProofs -----------------------
(***************************************************************************)
(* Theorems about SensorProcessing, for any set of sensors of any types,   *)
(* inputs, scripts and orders, and any number of starts.                   *)
(***************************************************************************)
EXTENDS SensorProcessing, TLAPS, WellFoundedInduction

(***************************************************************************)
(* Numbers and sequences.                                                  *)
(***************************************************************************)
\* A set of numbers that is not empty has a least one.
LEMMA LeastNat ==
  ASSUME NEW S \in SUBSET Nat, S # {}
  PROVE  \E x \in S : \A y \in S : x <= y
<1> DEFINE Less == {p \in Nat \X Nat : p[1] < p[2]}
<1>1. IsWellFoundedOn(Less, Nat)
  <2>1. OpToRel(<, Nat) = Less
    BY DEF OpToRel
  <2> QED
    BY <2>1, NatLessThanWellFounded
<1>2. PICK x \in S : \A y \in S : <<y, x>> \notin Less
  <2> HIDE DEF Less
  <2> QED
    BY <1>1, WFMin
<1>3. ASSUME NEW y \in S PROVE x <= y
  <2>1. <<y, x>> \notin Less /\ x \in Nat /\ y \in Nat
    BY <1>2
  <2> QED
    BY <2>1
<1> QED
  BY <1>3

\* What a sequence without its first element is.
LEMMA Behead ==
  ASSUME NEW S, NEW p \in Seq(S), p # <<>>
  PROVE  /\ Tail(p) \in Seq(S) /\ Len(p) \in Nat \ {0}
         /\ DOMAIN Tail(p) = 1..(Len(p) - 1) /\ Len(Tail(p)) = Len(p) - 1
         /\ \A i \in DOMAIN Tail(p) : i + 1 \in DOMAIN p /\ Tail(p)[i] = p[i + 1]
         /\ Head(p) = p[1] /\ 1 \in DOMAIN p /\ DOMAIN p = 1..Len(p)
  OBVIOUS

\* What two sequences are, one behind the other.
LEMMA Behind ==
  ASSUME NEW S, NEW p \in Seq(S), NEW q \in Seq(S)
  PROVE  /\ p \o q \in Seq(S)
         /\ \A i \in DOMAIN (p \o q) :
              \/ i \in DOMAIN p /\ (p \o q)[i] = p[i]
              \/ i > Len(p) /\ i - Len(p) \in DOMAIN q /\ (p \o q)[i] = q[i - Len(p)]
         /\ \A i \in DOMAIN p : i \in DOMAIN (p \o q) /\ (p \o q)[i] = p[i] /\ i <= Len(p)
         /\ \A i \in DOMAIN q : i + Len(p) \in DOMAIN (p \o q)
                                 /\ (p \o q)[i + Len(p)] = q[i]
  OBVIOUS

\* What a sequence with an element appended is.
LEMMA Appended ==
  ASSUME NEW S, NEW p \in Seq(S), NEW e \in S
  PROVE  /\ Append(p, e) \in Seq(S) /\ Len(p) \in Nat
         /\ DOMAIN Append(p, e) = 1..(Len(p) + 1) /\ DOMAIN p = 1..Len(p)
         /\ \A i \in DOMAIN p : Append(p, e)[i] = p[i]
         /\ Append(p, e)[Len(p) + 1] = e
  OBVIOUS

(***************************************************************************)
(* Items, stages and the order of the tasks.                               *)
(***************************************************************************)
\* Items of the two kinds are different from each other and from none.
LEMMA Kinds ==
  /\ \A w \in Tasks : w # NoItem /\ w[1] = "task" /\ w \notin Jobs
                      /\ w[2] \in Sensors /\ HasTask(w[2]) /\ w = TaskOf(w[2])
  /\ \A j \in Jobs : j # NoItem /\ j[1] = "job" /\ j \notin Tasks
                     /\ j[2] \in Sensors /\ HasIsrReader(j[2]) /\ j[3] \in 1..MaxStarts
  BY DEF Tasks, Jobs, TaskOf, JobOf, NoItem

LEMMA StatusItems ==
  ItemsOf(Status) = {"UNINITIALIZED", "RAW", "INTERPOLATED", "EXPRESSION_EVALUATED", "PROCESSED"}
  BY DEF ItemsOf, Status

LEMMA ProcessorItems ==
  /\ ItemsOf(Processors) = {"pre", "adc", "expression", "post"}
  /\ \A i \in DOMAIN Processors : i \in Nat /\ Processors[i] \in ItemsOf(Processors)
  BY DEF ItemsOf, Processors

\* The next stage is that of a processor or the end of the chain.
LEMMA NextStageIs ==
  ASSUME NEW s \in Sensors
  PROVE  NextStage(s) \in {"pre", "adc", "expression", "post", "publish"}
<1> DEFINE here  == {i \in DOMAIN Processors : Processors[i] = chain.stage}
           later == {i \in DOMAIN Processors :
                       Acts(s, Processors[i]) /\ \A h \in here : h < i}
<1>1. CASE later = {}
  BY <1>1 DEF NextStage
<1>2. CASE later # {}
  <2>1. later \in SUBSET Nat
    BY ProcessorItems
  <2>2. PICK x \in later : \A y \in later : x <= y
    <3> HIDE DEF later
    <3> QED
      BY <1>2, <2>1, LeastNat
  <2>3. (CHOOSE i \in later : \A j \in later : i <= j) \in later
    <3> HIDE DEF later
    <3> QED
      BY <2>2
  <2>4. (CHOOSE i \in later : \A j \in later : i <= j) \in DOMAIN Processors
    BY <2>3
  <2>5. NextStage(s) = Processors[CHOOSE i \in later : \A j \in later : i <= j]
    BY <1>2 DEF NextStage
  <2> QED
    BY <2>4, <2>5, ProcessorItems
<1> QED
  BY <1>1, <1>2

\* Some sensors have places in the order: an enumeration of those among the first m
\* goes on to one of those among the first m + 1.
LEMMA PositionsAre ==
  ASSUME NEW some
  PROVE  /\ \E n \in Nat : Positions(some) \in [1..n -> {i \in DOMAIN Order : Order[i] \in some}]
         /\ ItemsOf(Positions(some)) = {i \in DOMAIN Order : Order[i] \in some}
         /\ \A i, j \in DOMAIN Positions(some) : i < j => Positions(some)[i] < Positions(some)[j]
<1> DEFINE T(m) == {i \in 1..m : Order[i] \in some}
           Places(p, m) == /\ ItemsOf(p) = T(m)
                           /\ \A i, j \in DOMAIN p : i < j => p[i] < p[j]
           Has(m) == \E n \in 0..m : \E p \in [1..n -> T(m)] : Places(p, m)
<1>1. Len(Order) \in Nat /\ DOMAIN Order = 1..Len(Order)
  BY SensorAssumption
<1>2. Has(0)
  <2>1. [i \in 1..0 |-> i] \in [1..0 -> T(0)] /\ T(0) = {}
    OBVIOUS
  <2>2. Places([i \in 1..0 |-> i], 0)
    BY DEF ItemsOf
  <2>3. 0 \in 0..0
    OBVIOUS
  <2>4. \E p \in [1..0 -> T(0)] : Places(p, 0)
    <3> HIDE DEF Places, T
    <3> QED
      BY <2>1, <2>2
  <2> HIDE DEF Places, T
  <2> QED
    BY <2>3, <2>4
<1>3. ASSUME NEW m \in Nat, Has(m) PROVE Has(m + 1)
  <2>1. PICK n \in 0..m : \E p \in [1..n -> T(m)] : Places(p, m)
    BY <1>3
  <2>2. PICK p \in [1..n -> T(m)] : Places(p, m)
    BY <2>1
  <2>3. CASE Order[m + 1] \notin some
    <3>1. T(m + 1) = T(m)
      BY <2>3
    <3> QED
      BY <2>2, <3>1
  <2>4. CASE Order[m + 1] \in some
    <3> DEFINE r == [i \in 1..(n + 1) |-> IF i = n + 1 THEN m + 1 ELSE p[i]]
    <3>1. T(m + 1) = T(m) \cup {m + 1}
      BY <2>4
    <3>2. r \in [1..(n + 1) -> T(m + 1)]
      BY <3>1
    <3>3. ItemsOf(r) = T(m + 1)
      <4>1. ItemsOf(p) = {p[i] : i \in 1..n} /\ ItemsOf(r) = {r[i] : i \in 1..(n + 1)}
        BY DEF ItemsOf
      <4>2. \A i \in 1..n : r[i] = p[i] /\ i \in 1..(n + 1)
        OBVIOUS
      <4>3. r[n + 1] = m + 1 /\ n + 1 \in 1..(n + 1)
        OBVIOUS
      <4>4. \A i \in 1..(n + 1) : i = n + 1 \/ i \in 1..n
        OBVIOUS
      <4>5. {p[i] : i \in 1..n} = T(m)
        BY <2>2, <4>1
      <4> HIDE DEF r, T
      <4>6. {r[i] : i \in 1..(n + 1)} = {p[i] : i \in 1..n} \cup {m + 1}
        BY <4>2, <4>3, <4>4
      <4> QED
        BY <3>1, <4>1, <4>5, <4>6
    <3>4. \A i, j \in DOMAIN r : i < j => r[i] < r[j]
      <4>1. \A i \in 1..n : p[i] \in 1..m
        OBVIOUS
      <4>2. \A i, j \in 1..n : i < j => p[i] < p[j]
        BY <2>2
      <4> QED
        BY <4>1, <4>2
    <3>5. Places(r, m + 1) /\ n + 1 \in 0..(m + 1)
      BY <3>3, <3>4
    <3> QED
      BY <3>2, <3>5
  <2> QED
    BY <2>3, <2>4
<1>4. \A m \in Nat : Has(m)
  <2> HIDE DEF Has
  <2> DEFINE Lacks == {m \in Nat : ~Has(m)}
  <2>1. SUFFICES ASSUME Lacks # {} PROVE FALSE
    OBVIOUS
  <2>2. PICK x \in Lacks : \A y \in Lacks : x <= y
    <3>1. Lacks \in SUBSET Nat
      OBVIOUS
    <3> HIDE DEF Lacks
    <3> QED
      BY <2>1, <3>1, LeastNat
  <2>3. x # 0 /\ x - 1 \in Nat /\ x - 1 + 1 = x
    BY <1>2
  <2>4. Has(x - 1)
    BY <2>2, <2>3
  <2> QED
    BY <1>3, <2>3, <2>4
<1>5. Has(Len(Order))
  BY <1>1, <1>4
<1> DEFINE places == {i \in DOMAIN Order : Order[i] \in some}
           Good(p) == /\ ItemsOf(p) = places
                      /\ \A i, j \in DOMAIN p : i < j => p[i] < p[j]
           All == UNION {[1..n -> places] : n \in 0..Len(Order)}
<1>6. T(Len(Order)) = places
  BY <1>1
<1>7. \E p \in All : Good(p)
  BY <1>1, <1>5, <1>6
<1>8. Positions(some) = CHOOSE p \in All : Good(p)
  BY DEF Positions
<1>9. Positions(some) \in All /\ Good(Positions(some))
  <2> HIDE DEF All, Good
  <2> QED
    BY <1>7, <1>8
<1> QED
  BY <1>1, <1>9

\* A step for each of some sensors, and for nothing else.
LEMMA StepsForAre ==
  ASSUME NEW step \in StepsForSensors, NEW some \in SUBSET Sensors,
         \A s \in some : <<step, s>> \in Steps
  PROVE  /\ StepsFor(step, some) \in Seq(Steps)
         /\ InOrder(StepsFor(step, some), {step})
         /\ \A s \in some : <<step, s>> \in ItemsOf(StepsFor(step, some))
<1> DEFINE places == {i \in DOMAIN Order : Order[i] \in some}
           P == Positions(some)
           steps == StepsFor(step, some)
<1>1. PICK n \in Nat : P \in [1..n -> places]
  BY PositionsAre
<1>2. ItemsOf(P) = places /\ \A i, j \in DOMAIN P : i < j => P[i] < P[j]
  BY PositionsAre
<1>3. steps = [i \in 1..n |-> <<step, Order[P[i]]>>]
  BY <1>1 DEF StepsFor
<1> HIDE DEF steps, P
<1>4. \A i \in 1..n : /\ steps[i] = <<step, Order[P[i]]>>
                      /\ Order[P[i]] \in some /\ P[i] \in DOMAIN Order
  BY <1>1, <1>3
<1>5. steps \in [1..n -> Steps]
  BY <1>3, <1>4
<1>6. steps \in Seq(Steps)
  BY <1>5
<1>7. \A i, j \in 1..n : i < j => steps[i] # steps[j]
  <2> SUFFICES ASSUME NEW i \in 1..n, NEW j \in 1..n, i < j
               PROVE  steps[i] # steps[j]
    OBVIOUS
  <2>1. P[i] < P[j]
    BY <1>1, <1>2
  <2>2. P[i] \in Nat /\ P[j] \in Nat /\ P[i] # P[j]
    BY <1>4, <2>1, SensorAssumption
  <2>3. Order[P[i]] # Order[P[j]]
    BY <1>4, <2>2, SensorAssumption
  <2> QED
    BY <1>4, <2>3
<1>8. InOrder(steps, {step})
  <2>1. \A i \in 1..n : steps[i][1] = step
    BY <1>4
  <2> QED
    BY <1>3, <1>7, <2>1 DEF InOrder
<1>9. ASSUME NEW s \in some PROVE <<step, s>> \in ItemsOf(steps)
  <2>1. PICK i \in DOMAIN Order : Order[i] = s
    BY SensorAssumption DEF ItemsOf
  <2>2. PICK k \in 1..n : P[k] = i
    BY <1>1, <1>2, <2>1 DEF ItemsOf
  <2>3. steps[k] = <<step, s>>
    BY <1>4, <2>1, <2>2
  <2> QED
    BY <1>3, <2>3 DEF ItemsOf
<1> QED
  BY <1>6, <1>8, <1>9 DEF steps

(***************************************************************************)
(* The calls.                                                              *)
(***************************************************************************)
LEMMA Short ==
  ASSUME NEW S, NEW x \in S, NEW y \in S
  PROVE  /\ <<x>> \in Seq(S) /\ DOMAIN <<x>> = {1} /\ <<x>>[1] = x
         /\ <<x, y>> \in Seq(S) /\ DOMAIN <<x, y>> = {1, 2}
         /\ <<x, y>>[1] = x /\ <<x, y>>[2] = y
  OBVIOUS

\* The parts of a step.
LEMMA Parts ==
  ASSUME NEW x, NEW y, NEW z
  PROVE  /\ z = <<x>> => z[1] = x
         /\ z = <<x, y>> => z[1] = x /\ z[2] = y
  OBVIOUS

LEMMA Places ==
  /\ ~(PlaceOf("schedule") < PlaceOf("reset samples"))
  /\ ~(PlaceOf("schedule") < PlaceOf("make readers"))
  /\ ~(PlaceOf("schedule") < PlaceOf("make reader"))
  /\ ~(PlaceOf("make readers") < PlaceOf("make readers"))
  BY DEF PlaceOf

LEMMA NoSteps ==
  ASSUME NEW p, p = <<>>
  PROVE  p \in Seq(Steps) /\ DOMAIN p = {} /\ ItemsOf(p) = {}
<1>1. DOMAIN p = {}
  OBVIOUS
<1> QED
  BY <1>1 DEF ItemsOf

LEMMA OneStep ==
  ASSUME NEW step \in PlainSteps
  PROVE  /\ <<<<step>>>> \in Seq(Steps) /\ InOrder(<<<<step>>>>, {step})
         /\ <<step>> \in ItemsOf(<<<<step>>>>)
<1>1. <<step>> \in Steps /\ <<step>>[1] = step
  BY DEF Steps
<1> DEFINE e == <<step>>
<1>2. <<e>> \in Seq(Steps) /\ DOMAIN <<e>> = {1} /\ <<e>>[1] = e
  BY <1>1, Short
<1>3. InOrder(<<e>>, {step})
  BY <1>1, <1>2 DEF InOrder
<1>4. e \in ItemsOf(<<e>>)
  BY <1>2 DEF ItemsOf
<1> QED
  BY <1>2, <1>3, <1>4

LEMMA TwoSteps ==
  ASSUME NEW first \in PlainSteps, NEW second \in PlainSteps,
         PlaceOf(first) < PlaceOf(second)
  PROVE  /\ <<<<first>>, <<second>>>> \in Seq(Steps)
         /\ InOrder(<<<<first>>, <<second>>>>, {first, second})
         /\ <<first>> \in ItemsOf(<<<<first>>, <<second>>>>)
         /\ <<second>> \in ItemsOf(<<<<first>>, <<second>>>>)
<1> DEFINE d == <<first>>
           e == <<second>>
           p == <<d, e>>
<1>1. d \in Steps /\ e \in Steps /\ d[1] = first /\ e[1] = second
  BY DEF Steps
<1>2. p \in Seq(Steps) /\ DOMAIN p = {1, 2} /\ p[1] = d /\ p[2] = e
  BY <1>1, Short
<1>3. InOrder(p, {first, second})
  <2> HIDE DEF p, d, e
  <2> QED
    BY <1>1, <1>2 DEF InOrder
<1>4. d \in ItemsOf(p) /\ e \in ItemsOf(p)
  <2> HIDE DEF p, d, e
  <2> QED
    BY <1>2 DEF ItemsOf
<1> QED
  BY <1>2, <1>3, <1>4

\* Steps that come behind others in place can come behind them in a plan.
LEMMA Chained ==
  ASSUME NEW p \in Seq(Steps), NEW q \in Seq(Steps), NEW K, NEW L,
         InOrder(p, K), InOrder(q, L), \A k \in K, l \in L : PlaceOf(k) < PlaceOf(l)
  PROVE  /\ p \o q \in Seq(Steps) /\ InOrder(p \o q, K \cup L)
         /\ ItemsOf(p) \subseteq ItemsOf(p \o q) /\ ItemsOf(q) \subseteq ItemsOf(p \o q)
<1> DEFINE r == p \o q
<1>1. /\ r \in Seq(Steps)
      /\ \A i \in DOMAIN r :
           \/ i \in DOMAIN p /\ r[i] = p[i]
           \/ i > Len(p) /\ i - Len(p) \in DOMAIN q /\ r[i] = q[i - Len(p)]
      /\ \A i \in DOMAIN p : i \in DOMAIN r /\ r[i] = p[i] /\ i <= Len(p)
      /\ \A i \in DOMAIN q : i + Len(p) \in DOMAIN r /\ r[i + Len(p)] = q[i]
  BY Behind
<1>2. Len(p) \in Nat /\ DOMAIN r \subseteq Nat /\ DOMAIN p \subseteq Nat
  BY <1>1
<1> HIDE DEF r
<1>3. \A i \in DOMAIN r : r[i][1] \in K \cup L
  BY <1>1 DEF InOrder
<1>4. ASSUME NEW i \in DOMAIN r, NEW j \in DOMAIN r, i < j
      PROVE  \/ PlaceOf(r[i][1]) < PlaceOf(r[j][1])
             \/ r[i][1] = r[j][1] /\ r[i][1] \in StepsForSensors /\ r[i] # r[j]
  <2>1. CASE j \in DOMAIN p /\ r[j] = p[j]
    <3>1. i \in DOMAIN p /\ r[i] = p[i]
      BY <1>1, <1>2, <1>4, <2>1
    <3> QED
      BY <1>4, <2>1, <3>1 DEF InOrder
  <2>2. CASE j > Len(p) /\ j - Len(p) \in DOMAIN q /\ r[j] = q[j - Len(p)]
    <3>1. CASE i \in DOMAIN p /\ r[i] = p[i]
      <4>1. r[i][1] \in K /\ r[j][1] \in L
        BY <2>2, <3>1 DEF InOrder
      <4> QED
        BY <4>1
    <3>2. CASE i > Len(p) /\ i - Len(p) \in DOMAIN q /\ r[i] = q[i - Len(p)]
      <4>1. i - Len(p) < j - Len(p)
        BY <1>2, <1>4
      <4> QED
        BY <2>2, <3>2, <4>1 DEF InOrder
    <3> QED
      BY <1>1, <3>1, <3>2
  <2> QED
    BY <1>1, <2>1, <2>2
<1>5. InOrder(r, K \cup L)
  BY <1>3, <1>4 DEF InOrder
<1>6. ItemsOf(p) \subseteq ItemsOf(r) /\ ItemsOf(q) \subseteq ItemsOf(r)
  BY <1>1 DEF ItemsOf
<1> QED
  BY <1>1, <1>5, <1>6 DEF r

\* The steps of each call are steps it may take, in order, and the ones that matter
\* are among them.
LEMMA PauseStepsAre ==
  /\ PauseSteps \in Seq(Steps) /\ InOrder(PauseSteps, {"drop readers", "cancel"})
  /\ \A s \in Sensors : HasTask(s) => <<"cancel", s>> \in ItemsOf(PauseSteps)
<1> DEFINE p == <<<<"drop readers">>>>
           q == StepsFor("cancel", WithTask)
           K == {"drop readers"}
           L == {"cancel"}
<1>1. p \in Seq(Steps) /\ InOrder(p, K)
  BY OneStep DEF PlainSteps
<1>2. /\ q \in Seq(Steps) /\ InOrder(q, L)
      /\ \A s \in Sensors : HasTask(s) => <<"cancel", s>> \in ItemsOf(q)
  <2>1. WithTask \in SUBSET Sensors /\ \A s \in WithTask : <<"cancel", s>> \in Steps
    BY DEF WithTask, Steps
  <2>2. "cancel" \in StepsForSensors
    BY DEF StepsForSensors
  <2> QED
    BY <2>1, <2>2, StepsForAre DEF WithTask
<1>3. \A k \in K, l \in L : PlaceOf(k) < PlaceOf(l)
  <2>1. PlaceOf("drop readers") < PlaceOf("cancel")
    BY DEF PlaceOf
  <2> QED
    BY <2>1, Zenon
<1>4. {"drop readers"} \cup {"cancel"} = {"drop readers", "cancel"}
  OBVIOUS
<1>5. PauseSteps = p \o q
  BY DEF PauseSteps
<1> HIDE DEF p, q, K, L
<1>6. /\ p \o q \in Seq(Steps) /\ InOrder(p \o q, K \cup L)
      /\ ItemsOf(q) \subseteq ItemsOf(p \o q)
  BY <1>1, <1>2, <1>3, Chained
<1> QED
  BY <1>2, <1>4, <1>5, <1>6 DEF K, L

LEMMA StopStepsAre ==
  /\ StopSteps \in Seq(Steps) /\ InOrder(StopSteps, {"drop readers", "cancel", "clear"})
  /\ \A s \in Sensors : HasTask(s) => <<"cancel", s>> \in ItemsOf(StopSteps)
<1> DEFINE p == PauseSteps
           q == <<<<"clear">>>>
           K == {"drop readers", "cancel"}
           L == {"clear"}
<1>1. /\ p \in Seq(Steps) /\ InOrder(p, K)
      /\ \A s \in Sensors : HasTask(s) => <<"cancel", s>> \in ItemsOf(p)
  BY PauseStepsAre
<1>2. q \in Seq(Steps) /\ InOrder(q, L)
  BY OneStep DEF PlainSteps
<1>3. \A k \in K, l \in L : PlaceOf(k) < PlaceOf(l)
  <2>1. PlaceOf("drop readers") < PlaceOf("clear") /\ PlaceOf("cancel") < PlaceOf("clear")
    BY DEF PlaceOf
  <2> QED
    BY <2>1, Zenon
<1>4. {"drop readers", "cancel"} \cup {"clear"} = {"drop readers", "cancel", "clear"}
  OBVIOUS
<1>5. StopSteps = p \o q
  BY DEF StopSteps
<1> HIDE DEF p, q, K, L
<1>6. /\ p \o q \in Seq(Steps)
      /\ InOrder(p \o q, K \cup L)
      /\ ItemsOf(p) \subseteq ItemsOf(p \o q)
  BY <1>1, <1>2, <1>3, Chained
<1> QED
  BY <1>1, <1>4, <1>5, <1>6 DEF K, L

LEMMA CalibrateStepsAre ==
  /\ CalibrateSteps \in Seq(Steps)
  /\ InOrder(CalibrateSteps, {"drop readers", "cancel", "many samples", "calibrate"})
  /\ \A s \in Sensors : HasTask(s) => <<"cancel", s>> \in ItemsOf(CalibrateSteps)
  /\ <<"many samples">> \in ItemsOf(CalibrateSteps)
<1> DEFINE p == PauseSteps
           q == <<<<"many samples">>, <<"calibrate">>>>
           K == {"drop readers", "cancel"}
           L == {"many samples", "calibrate"}
<1>1. /\ p \in Seq(Steps) /\ InOrder(p, K)
      /\ \A s \in Sensors : HasTask(s) => <<"cancel", s>> \in ItemsOf(p)
  BY PauseStepsAre
<1>2. /\ q \in Seq(Steps) /\ InOrder(q, L)
      /\ <<"many samples">> \in ItemsOf(q)
  <2>1. PlaceOf("many samples") < PlaceOf("calibrate")
    BY DEF PlaceOf
  <2> QED
    BY <2>1, TwoSteps DEF PlainSteps
<1>3. \A k \in K, l \in L : PlaceOf(k) < PlaceOf(l)
  <2>1. PlaceOf("drop readers") < PlaceOf("many samples") /\ PlaceOf("drop readers") < PlaceOf("calibrate") /\ PlaceOf("cancel") < PlaceOf("many samples") /\ PlaceOf("cancel") < PlaceOf("calibrate")
    BY DEF PlaceOf
  <2> QED
    BY <2>1, Zenon
<1>4. {"drop readers", "cancel"} \cup {"many samples", "calibrate"}
        = {"drop readers", "cancel", "many samples", "calibrate"}
  OBVIOUS
<1>5. CalibrateSteps = p \o q
  BY DEF CalibrateSteps
<1> HIDE DEF p, q, K, L
<1>6. /\ p \o q \in Seq(Steps)
      /\ InOrder(p \o q, K \cup L)
      /\ ItemsOf(p) \subseteq ItemsOf(p \o q) /\ ItemsOf(q) \subseteq ItemsOf(p \o q)
  BY <1>1, <1>2, <1>3, Chained
<1> QED
  BY <1>1, <1>2, <1>4, <1>5, <1>6 DEF K, L

LEMMA ResumeStepsAre ==
  /\ ResumeSteps \in Seq(Steps)
  /\ InOrder(ResumeSteps, {"make readers", "make reader", "schedule"})
  /\ <<"make readers">> \in ItemsOf(ResumeSteps)
<1> DEFINE p == <<<<"make readers">>>>
           q == StepsFor("make reader", WithReader)
           r == StepsFor("schedule", WithTask)
           K == {"make readers"}
           L == {"make reader"}
           M == {"schedule"}
<1>1. p \in Seq(Steps) /\ InOrder(p, K) /\ <<"make readers">> \in ItemsOf(p)
  BY OneStep DEF PlainSteps
<1>2. q \in Seq(Steps) /\ InOrder(q, L)
  <2>1. WithReader \in SUBSET Sensors /\ \A s \in WithReader : <<"make reader", s>> \in Steps
    BY DEF WithReader, Steps
  <2>2. "make reader" \in StepsForSensors
    BY DEF StepsForSensors
  <2> QED
    BY <2>1, <2>2, StepsForAre
<1>3. r \in Seq(Steps) /\ InOrder(r, M)
  <2>1. WithTask \in SUBSET Sensors /\ \A s \in WithTask : <<"schedule", s>> \in Steps
    BY DEF WithTask, Steps
  <2>2. "schedule" \in StepsForSensors
    BY DEF StepsForSensors
  <2> QED
    BY <2>1, <2>2, StepsForAre
<1>4. /\ \A k \in K, l \in L : PlaceOf(k) < PlaceOf(l)
      /\ \A k \in K \cup L, l \in M : PlaceOf(k) < PlaceOf(l)
  <2>1. /\ PlaceOf("make readers") < PlaceOf("make reader")
        /\ PlaceOf("make readers") < PlaceOf("schedule")
        /\ PlaceOf("make reader") < PlaceOf("schedule")
    BY DEF PlaceOf
  <2> QED
    BY <2>1, Zenon
<1>5. (K \cup L) \cup M = {"make readers", "make reader", "schedule"}
  OBVIOUS
<1>6. ResumeSteps = (p \o q) \o r
  BY DEF ResumeSteps
<1> HIDE DEF p, q, r, K, L, M
<1>7. /\ p \o q \in Seq(Steps) /\ InOrder(p \o q, K \cup L)
      /\ ItemsOf(p) \subseteq ItemsOf(p \o q)
  BY <1>1, <1>2, <1>4, Chained
<1>8. /\ (p \o q) \o r \in Seq(Steps) /\ InOrder((p \o q) \o r, (K \cup L) \cup M)
      /\ ItemsOf(p \o q) \subseteq ItemsOf((p \o q) \o r)
  BY <1>3, <1>4, <1>7, Chained
<1> QED
  BY <1>1, <1>5, <1>6, <1>7, <1>8

LEMMA EndCalibrationStepsAre ==
  /\ EndCalibrationSteps \in Seq(Steps)
  /\ InOrder(EndCalibrationSteps,
             {"end calibration", "reset samples", "make readers", "make reader", "schedule"})
  /\ <<"make readers">> \in ItemsOf(EndCalibrationSteps)
  /\ <<"end calibration">> \in ItemsOf(EndCalibrationSteps)
  /\ <<"reset samples">> \in ItemsOf(EndCalibrationSteps)
<1> DEFINE p == <<<<"end calibration">>, <<"reset samples">>>>
           q == ResumeSteps
           K == {"end calibration", "reset samples"}
           L == {"make readers", "make reader", "schedule"}
<1>1. /\ p \in Seq(Steps) /\ InOrder(p, K)
      /\ <<"end calibration">> \in ItemsOf(p) /\ <<"reset samples">> \in ItemsOf(p)
  <2>1. PlaceOf("end calibration") < PlaceOf("reset samples")
    BY DEF PlaceOf
  <2> QED
    BY <2>1, TwoSteps DEF PlainSteps
<1>2. q \in Seq(Steps) /\ InOrder(q, L) /\ <<"make readers">> \in ItemsOf(q)
  BY ResumeStepsAre
<1>3. \A k \in K, l \in L : PlaceOf(k) < PlaceOf(l)
  <2>1. /\ PlaceOf("end calibration") < PlaceOf("make readers")
        /\ PlaceOf("end calibration") < PlaceOf("make reader")
        /\ PlaceOf("end calibration") < PlaceOf("schedule")
        /\ PlaceOf("reset samples") < PlaceOf("make readers")
        /\ PlaceOf("reset samples") < PlaceOf("make reader")
        /\ PlaceOf("reset samples") < PlaceOf("schedule")
    BY DEF PlaceOf
  <2> QED
    BY <2>1, Zenon
<1>4. {"end calibration", "reset samples"} \cup {"make readers", "make reader", "schedule"}
        = {"end calibration", "reset samples", "make readers", "make reader", "schedule"}
  OBVIOUS
<1>5. EndCalibrationSteps = p \o q
  BY DEF EndCalibrationSteps
<1> HIDE DEF p, q, K, L
<1>6. /\ p \o q \in Seq(Steps)
      /\ InOrder(p \o q, K \cup L)
      /\ ItemsOf(p) \subseteq ItemsOf(p \o q) /\ ItemsOf(q) \subseteq ItemsOf(p \o q)
  BY <1>1, <1>2, <1>3, Chained
<1> QED
  BY <1>1, <1>2, <1>4, <1>5, <1>6 DEF K, L

\* What is left of a call when a step of it is done.
LEMMA InOrderTail ==
  ASSUME NEW p \in Seq(Steps), p # <<>>, NEW K, InOrder(p, K)
  PROVE  /\ Tail(p) \in Seq(Steps) /\ InOrder(Tail(p), K)
         /\ ItemsOf(p) = ItemsOf(Tail(p)) \cup {Head(p)}
         /\ Head(p)[1] \in K
         /\ \A i \in DOMAIN Tail(p) :
              \/ PlaceOf(Head(p)[1]) < PlaceOf(Tail(p)[i][1])
              \/ /\ Head(p)[1] = Tail(p)[i][1] /\ Head(p)[1] \in StepsForSensors
                 /\ Head(p) # Tail(p)[i]
<1>1. /\ Tail(p) \in Seq(Steps) /\ Len(p) \in Nat \ {0}
      /\ DOMAIN Tail(p) = 1..(Len(p) - 1) /\ Len(Tail(p)) = Len(p) - 1
      /\ \A i \in DOMAIN Tail(p) : i + 1 \in DOMAIN p /\ Tail(p)[i] = p[i + 1]
      /\ Head(p) = p[1] /\ 1 \in DOMAIN p /\ DOMAIN p = 1..Len(p)
  BY Behead
<1>2. \A i, j \in DOMAIN Tail(p) : i < j => i + 1 < j + 1
  BY <1>1
<1>3. InOrder(Tail(p), K)
  BY <1>1, <1>2 DEF InOrder
<1>4. ItemsOf(p) = ItemsOf(Tail(p)) \cup {Head(p)}
  <2>1. \A i \in DOMAIN p : i = 1 \/ (i - 1 \in DOMAIN Tail(p) /\ Tail(p)[i - 1] = p[i])
    BY <1>1
  <2>2. \A x \in ItemsOf(p) : x \in ItemsOf(Tail(p)) \/ x = Head(p)
    BY <1>1, <2>1 DEF ItemsOf
  <2>3. ItemsOf(Tail(p)) \subseteq ItemsOf(p) /\ Head(p) \in ItemsOf(p)
    BY <1>1 DEF ItemsOf
  <2> QED
    BY <2>2, <2>3
<1>5. \A i \in DOMAIN Tail(p) : 1 < i + 1
  BY <1>1
<1> QED
  BY <1>1, <1>3, <1>4, <1>5 DEF InOrder

(***************************************************************************)
(* The work queue.                                                         *)
(***************************************************************************)
LEMMA AppendIs ==
  ASSUME NEW I, NEW f \in Seq(I), Distinct(f), NEW w \in I, w \notin ItemsOf(f)
  PROVE  /\ Append(f, w) \in Seq(I) /\ Distinct(Append(f, w))
         /\ ItemsOf(Append(f, w)) = ItemsOf(f) \cup {w}
<1> DEFINE a == Append(f, w)
<1>1. /\ a \in Seq(I) /\ Len(f) \in Nat
      /\ DOMAIN a = 1..(Len(f) + 1) /\ DOMAIN f = 1..Len(f)
      /\ \A i \in DOMAIN f : a[i] = f[i]
      /\ a[Len(f) + 1] = w
  BY Appended
<1> HIDE DEF a
<1>2. \A i \in DOMAIN a : i \in DOMAIN f \/ i = Len(f) + 1
  BY <1>1
<1>3. DOMAIN f \subseteq DOMAIN a /\ Len(f) + 1 \in DOMAIN a
  BY <1>1
<1>4. \A i \in DOMAIN f : f[i] # w
  BY DEF ItemsOf
<1>5. Distinct(a)
  BY <1>1, <1>2, <1>4 DEF Distinct
<1>6. ItemsOf(a) = ItemsOf(f) \cup {w}
  BY <1>1, <1>2, <1>3 DEF ItemsOf
<1> QED
  BY <1>1, <1>5, <1>6 DEF a

LEMMA UnlinkedIs ==
  ASSUME NEW I, NEW f \in Seq(I), Distinct(f), NEW w
  PROVE  /\ Unlinked(f, w) \in Seq(I) /\ Distinct(Unlinked(f, w))
         /\ ItemsOf(Unlinked(f, w)) = ItemsOf(f) \ {w}
<1>1. CASE w \notin ItemsOf(f)
  BY <1>1 DEF Unlinked
<1>2. CASE w \in ItemsOf(f)
  <2> DEFINE at == CHOOSE i \in DOMAIN f : f[i] = w
             u  == [i \in 1..(Len(f) - 1) |-> f[IF i < at THEN i ELSE i + 1]]
  <2>1. at \in DOMAIN f /\ f[at] = w
    BY <1>2 DEF ItemsOf
  <2>2. u = Unlinked(f, w)
    BY <1>2 DEF Unlinked
  <2>3. Len(f) \in Nat /\ DOMAIN f = 1..Len(f) /\ \A i \in DOMAIN f : f[i] \in I
    OBVIOUS
  <2> HIDE DEF at
  <2>4. \A i \in 1..(Len(f) - 1) :
          (IF i < at THEN i ELSE i + 1) \in DOMAIN f /\ (IF i < at THEN i ELSE i + 1) # at
    BY <2>1, <2>3
  <2>5. u \in [1..(Len(f) - 1) -> I] /\ Len(f) - 1 \in Nat
    BY <2>1, <2>3, <2>4
  <2>6. u \in Seq(I)
    BY <2>5
  <2>7. \A i \in 1..(Len(f) - 1) : u[i] = f[IF i < at THEN i ELSE i + 1]
    OBVIOUS
  <2>8. DOMAIN u = 1..(Len(f) - 1)
    OBVIOUS
  <2> HIDE DEF u
  <2>9. Distinct(u)
    <3>1. SUFFICES ASSUME NEW i \in DOMAIN u, NEW j \in DOMAIN u, u[i] = u[j] PROVE i = j
      BY DEF Distinct
    <3>2. (IF i < at THEN i ELSE i + 1) = (IF j < at THEN j ELSE j + 1)
      BY <2>4, <2>7, <2>8, <3>1 DEF Distinct
    <3> QED
      BY <2>1, <2>3, <2>8, <3>2
  <2>10. ASSUME NEW i \in DOMAIN f, i # at PROVE f[i] \in ItemsOf(u)
    <3> DEFINE k == IF i < at THEN i ELSE i - 1
    <3>1. k \in DOMAIN u /\ (IF k < at THEN k ELSE k + 1) = i
      BY <2>1, <2>3, <2>8, <2>10
    <3>2. u[k] = f[i]
      BY <2>7, <2>8, <3>1
    <3> HIDE DEF k
    <3> QED
      BY <3>1, <3>2 DEF ItemsOf
  <2>11. ASSUME NEW x \in ItemsOf(u) PROVE x \in ItemsOf(f) /\ x # w
    <3>1. PICK i \in DOMAIN u : u[i] = x
      BY <2>11 DEF ItemsOf
    <3> DEFINE k == IF i < at THEN i ELSE i + 1
    <3>2. k \in DOMAIN f /\ k # at /\ x = f[k]
      BY <2>4, <2>7, <2>8, <3>1
    <3> HIDE DEF k
    <3> QED
      BY <2>1, <3>2 DEF ItemsOf, Distinct
  <2>12. ASSUME NEW x \in ItemsOf(f), x # w PROVE x \in ItemsOf(u)
    <3>1. PICK i \in DOMAIN f : f[i] = x
      BY DEF ItemsOf
    <3> QED
      BY <2>1, <2>10, <2>12, <3>1
  <2> QED
    BY <2>2, <2>6, <2>9, <2>11, <2>12
<1> QED
  BY <1>1, <1>2

LEMMA TailIs ==
  ASSUME NEW I, NEW f \in Seq(I), Distinct(f), f # <<>>
  PROVE  /\ Tail(f) \in Seq(I) /\ Distinct(Tail(f)) /\ Head(f) \in I
         /\ ItemsOf(f) = ItemsOf(Tail(f)) \cup {Head(f)}
         /\ Head(f) \notin ItemsOf(Tail(f))
<1>1. /\ Tail(f) \in Seq(I) /\ Len(f) \in Nat \ {0}
      /\ DOMAIN Tail(f) = 1..(Len(f) - 1) /\ Len(Tail(f)) = Len(f) - 1
      /\ \A i \in DOMAIN Tail(f) : i + 1 \in DOMAIN f /\ Tail(f)[i] = f[i + 1]
      /\ Head(f) = f[1] /\ 1 \in DOMAIN f /\ DOMAIN f = 1..Len(f)
  BY Behead
<1>2. Distinct(Tail(f))
  <2>1. \A i, j \in DOMAIN Tail(f) : i + 1 = j + 1 => i = j
    BY <1>1
  <2> QED
    BY <1>1, <2>1 DEF Distinct
<1>3. \A i \in DOMAIN f : i = 1 \/ (i - 1 \in DOMAIN Tail(f) /\ Tail(f)[i - 1] = f[i])
  BY <1>1
<1>4. ASSUME NEW x \in ItemsOf(f) PROVE x \in ItemsOf(Tail(f)) \/ x = Head(f)
  <2>1. PICK i \in DOMAIN f : f[i] = x
    BY DEF ItemsOf
  <2> QED
    BY <1>1, <1>3, <2>1 DEF ItemsOf
<1>5. ItemsOf(Tail(f)) \subseteq ItemsOf(f) /\ Head(f) \in ItemsOf(f)
  BY <1>1 DEF ItemsOf
<1>6. \A i \in DOMAIN Tail(f) : i + 1 # 1
  BY <1>1
<1>7. Head(f) \notin ItemsOf(Tail(f))
  BY <1>1, <1>6 DEF ItemsOf, Distinct
<1> QED
  BY <1>1, <1>2, <1>4, <1>5, <1>7

\* A queue of items of I, with jobs of H on the heap, no item in it twice.
QueueOk(q, I, H) == q \in QueueOf(I, H) /\ Distinct(q.fifo)

LEMMA SubmitIs ==
  ASSUME NEW I, NEW H, NEW q, QueueOk(q, I, H), NEW w \in I
  PROVE  /\ QueueOk(Submit(q, w), I, H)
         /\ w \in q.cancelling => ItemsOf(Submit(q, w).fifo) = ItemsOf(q.fifo)
         /\ w \notin q.cancelling => ItemsOf(Submit(q, w).fifo) = ItemsOf(q.fifo) \cup {w}
         /\ Submit(q, w).running = q.running /\ Submit(q, w).delayed = q.delayed
         /\ Submit(q, w).cancelling = q.cancelling /\ Submit(q, w).tasks = q.tasks
         /\ Submit(q, w).completed = q.completed
<1>1. CASE w \in q.cancelling \cup ItemsOf(q.fifo)
  BY <1>1 DEF Submit
<1>2. CASE w \notin q.cancelling \cup ItemsOf(q.fifo)
  <2>1. Submit(q, w) = [q EXCEPT !.fifo = Append(q.fifo, w)]
    BY <1>2 DEF Submit
  <2>2. q.fifo \in Seq(I) /\ Distinct(q.fifo)
    BY DEF QueueOk, QueueOf
  <2>3. /\ Append(q.fifo, w) \in Seq(I) /\ Distinct(Append(q.fifo, w))
        /\ ItemsOf(Append(q.fifo, w)) = ItemsOf(q.fifo) \cup {w}
    BY <1>2, <2>2, AppendIs
  <2> QED
    BY <1>2, <2>1, <2>3 DEF QueueOk, QueueOf
<1> QED
  BY <1>1, <1>2

LEMMA ExpireIs ==
  ASSUME NEW I, NEW H, NEW q, QueueOk(q, I, H), NEW w \in I
  PROVE  /\ QueueOk(Expire(q, w), I, H)
         /\ w \in q.cancelling => ItemsOf(Expire(q, w).fifo) = ItemsOf(q.fifo)
         /\ w \notin q.cancelling => ItemsOf(Expire(q, w).fifo) = ItemsOf(q.fifo) \cup {w}
         /\ Expire(q, w).running = q.running /\ Expire(q, w).delayed = q.delayed \ {w}
         /\ Expire(q, w).cancelling = q.cancelling /\ Expire(q, w).tasks = q.tasks
         /\ Expire(q, w).completed = q.completed
<1> DEFINE u == Unscheduled(q, w)
<1>1. /\ QueueOk(u, I, H) /\ u.fifo = q.fifo /\ u.running = q.running
      /\ u.delayed = q.delayed \ {w} /\ u.cancelling = q.cancelling
      /\ u.tasks = q.tasks /\ u.completed = q.completed
  BY DEF QueueOk, QueueOf, Unscheduled
<1>2. Expire(q, w) = Submit(u, w)
  BY DEF Expire
<1> HIDE DEF u
<1> QED
  BY <1>1, <1>2, SubmitIs

LEMMA TakeIs ==
  ASSUME NEW I, NEW H, NEW q, QueueOk(q, I, H), q.fifo # <<>>
  PROVE  /\ QueueOk(Take(q), I, H)
         /\ ItemsOf(q.fifo) = ItemsOf(Take(q).fifo) \cup {Take(q).running}
         /\ Take(q).running \notin ItemsOf(Take(q).fifo) /\ Take(q).running = Head(q.fifo)
         /\ Take(q).running \in I
         /\ Take(q).delayed = q.delayed /\ Take(q).cancelling = q.cancelling
         /\ Take(q).tasks = q.tasks /\ Take(q).completed = q.completed
<1>1. q.fifo \in Seq(I) /\ Distinct(q.fifo)
  BY DEF QueueOk, QueueOf
<1>2. /\ Tail(q.fifo) \in Seq(I) /\ Distinct(Tail(q.fifo)) /\ Head(q.fifo) \in I
      /\ ItemsOf(q.fifo) = ItemsOf(Tail(q.fifo)) \cup {Head(q.fifo)}
      /\ Head(q.fifo) \notin ItemsOf(Tail(q.fifo))
  BY <1>1, TailIs
<1>3. Take(q) = [q EXCEPT !.fifo = Tail(q.fifo), !.running = Head(q.fifo)]
  BY DEF Take
<1> QED
  BY <1>2, <1>3 DEF QueueOk, QueueOf

LEMMA RetireIs ==
  ASSUME NEW I, NEW H, NEW q, QueueOk(q, I, H)
  PROVE  /\ QueueOk(Retire(q), I, H) /\ Retire(q).fifo = q.fifo
         /\ Retire(q).running = NoItem
         /\ Retire(q).delayed = q.delayed
         /\ Retire(q).cancelling = q.cancelling \ {q.running}
         /\ Retire(q).tasks = q.tasks /\ Retire(q).completed = q.completed
  BY DEF QueueOk, QueueOf, Retire

\* A queue with one more item that has a timer.
Delayed(q, w) == [q EXCEPT !.delayed = (q.delayed \ {w}) \cup {w}]

LEMMA DelayedIs ==
  ASSUME NEW I, NEW H, NEW q, QueueOk(q, I, H), NEW w \in I
  PROVE  /\ QueueOk(Delayed(q, w), I, H) /\ Delayed(q, w).fifo = q.fifo
         /\ Delayed(q, w).running = q.running
         /\ Delayed(q, w).delayed = q.delayed \cup {w}
         /\ Delayed(q, w).cancelling = q.cancelling
         /\ Delayed(q, w).tasks = q.tasks /\ Delayed(q, w).completed = q.completed
  BY DEF QueueOk, QueueOf, Delayed

LEMMA CancelIs ==
  ASSUME NEW I, NEW H, NEW q, QueueOk(q, I, H), NEW w \in I
  PROVE  /\ QueueOk(Cancel(q, w), I, H)
         /\ ItemsOf(Cancel(q, w).fifo) = ItemsOf(q.fifo) \ {w}
         /\ Cancel(q, w).running = q.running /\ Cancel(q, w).delayed = q.delayed \ {w}
         /\ q.running = w => Cancel(q, w).cancelling = q.cancelling \cup {w}
         /\ q.running # w => Cancel(q, w).cancelling = q.cancelling
         /\ Cancel(q, w).tasks = q.tasks /\ Cancel(q, w).completed = q.completed
<1>1. q.fifo \in Seq(I) /\ Distinct(q.fifo)
  BY DEF QueueOk, QueueOf
<1>2. /\ Unlinked(q.fifo, w) \in Seq(I) /\ Distinct(Unlinked(q.fifo, w))
      /\ ItemsOf(Unlinked(q.fifo, w)) = ItemsOf(q.fifo) \ {w}
  BY <1>1, UnlinkedIs
<1> DEFINE c == IF q.running = w THEN q.cancelling \cup {w} ELSE q.cancelling
           u == Unlinked(q.fifo, w)
           r == [q EXCEPT !.delayed = q.delayed \ {w}, !.fifo = u, !.cancelling = c]
<1>3. Cancel(q, w) = r
  BY DEF Cancel
<1>4. c \in SUBSET I
  BY DEF QueueOk, QueueOf
<1> HIDE DEF c, u
<1>5. /\ r.fifo = u /\ r.running = q.running /\ r.delayed = q.delayed \ {w}
      /\ r.cancelling = c /\ r.tasks = q.tasks /\ r.completed = q.completed
      /\ r \in QueueOf(I, H)
  BY <1>2, <1>4 DEF QueueOk, QueueOf, u
<1> HIDE DEF r
<1> QED
  BY <1>2, <1>3, <1>5 DEF QueueOk, c, u

LEMMA RunIs ==
  ASSUME NEW I, NEW H \in SUBSET I, NEW q, QueueOk(q, I, H), NEW j \in H,
         j \notin q.cancelling
  PROVE  /\ QueueOk(Run(q, j), I, H)
         /\ ItemsOf(Run(q, j).fifo) = ItemsOf(q.fifo) \cup {j}
         /\ Run(q, j).running = q.running /\ Run(q, j).delayed = q.delayed
         /\ Run(q, j).cancelling = q.cancelling /\ Run(q, j).tasks = q.tasks \cup {j}
         /\ Run(q, j).completed = q.completed
<1> DEFINE u == [q EXCEPT !.tasks = @ \cup {j}]
<1>1. /\ QueueOk(u, I, H) /\ u.fifo = q.fifo /\ u.running = q.running
      /\ u.delayed = q.delayed /\ u.cancelling = q.cancelling
      /\ u.tasks = q.tasks \cup {j} /\ u.completed = q.completed
  BY DEF QueueOk, QueueOf
<1>2. Run(q, j) = Submit(u, j)
  BY DEF Run
<1> HIDE DEF u
<1>3. j \in I
  OBVIOUS
<1>4. /\ QueueOk(Submit(u, j), I, H)
      /\ j \in u.cancelling => ItemsOf(Submit(u, j).fifo) = ItemsOf(u.fifo)
      /\ j \notin u.cancelling => ItemsOf(Submit(u, j).fifo) = ItemsOf(u.fifo) \cup {j}
      /\ Submit(u, j).running = u.running /\ Submit(u, j).delayed = u.delayed
      /\ Submit(u, j).cancelling = u.cancelling /\ Submit(u, j).tasks = u.tasks
      /\ Submit(u, j).completed = u.completed
  BY <1>1, <1>3, SubmitIs
<1> QED
  BY <1>1, <1>2, <1>4

LEMMA RunnerDoneIs ==
  ASSUME NEW I, NEW H, NEW q, QueueOk(q, I, H), q.running \in H
  PROVE  /\ QueueOk(RunnerDone(q), I, H) /\ RunnerDone(q).fifo = q.fifo
         /\ RunnerDone(q).running = q.running
         /\ RunnerDone(q).delayed = q.delayed /\ RunnerDone(q).cancelling = q.cancelling
         /\ RunnerDone(q).tasks = q.tasks \ {q.running}
         /\ RunnerDone(q).completed = {j \in q.completed : Busy(q, j)} \cup {q.running}
  BY DEF QueueOk, QueueOf, RunnerDone

(***************************************************************************)
(* The frame and the chain.                                                *)
(***************************************************************************)
Frames ==
  [isr : [Sensors -> Reading], readings : [Sensors -> Reading],
   processed : [Sensors -> Reading], values : [Sensors -> Value]]

Faults == {"reader", "null", "dangling", "unknown", "calibration"}
Bindings == [Sensors -> {"unbound", "live", "null", "dangling"}]

LEMMA ReadingFields ==
  /\ NoReading \in Reading /\ NoValue \in Value /\ Fresh \in Value
  /\ \A r \in Reading : r.value \in Value
  /\ \A st \in ItemsOf(Status), v \in Value : [status |-> st, value |-> v] \in Reading
  /\ \A v \in Value, what \in {"interpolated", "evaluated"} : Did(v, what) \in Value
<1>1. NoValue \in Value /\ Fresh \in Value
  BY DEF Value, NoValue, Fresh
<1>2. NoReading \in Reading
  BY DEF Reading
<1>3. \A r \in Reading : r.value \in Value
  BY <1>1 DEF Reading, NoReading
<1>4. \A st \in ItemsOf(Status), v \in Value : [status |-> st, value |-> v] \in Reading
  BY DEF Reading
<1>5. \A v \in Value, what \in {"interpolated", "evaluated"} : Did(v, what) \in Value
  BY DEF Did, Value
<1> QED
  BY <1>1, <1>2, <1>3, <1>4, <1>5

LEMMA FrameWrites ==
  ASSUME NEW f \in Frames, NEW s \in Sensors, NEW r \in Reading
  PROVE  /\ AddOrUpdateReadingIsr(f, s, r) \in Frames
         /\ AddOrUpdateReadingProcessing(f, s, r) \in Frames
<1>1. \A g \in Frames : Publish(g, s, r) \in Frames
  BY ReadingFields DEF Publish, Frames
<1>2. [f EXCEPT !.isr[s] = r] \in Frames
  BY DEF Frames
<1>3. [f EXCEPT !.isr[s] = NoReading, !.readings[s] = r] \in Frames
  BY ReadingFields DEF Frames
<1> QED
  BY <1>1, <1>2, <1>3 DEF AddOrUpdateReadingIsr, AddOrUpdateReadingProcessing

LEMMA AtIs ==
  ASSUME NEW stage \in Stages
  PROVE  /\ At(stage) \in Chain /\ At(stage).stage = stage /\ At(stage).of = NoItem
         /\ ~At(stage).fetched
  BY ReadingFields DEF At, Chain

LEMMA NextStageAt ==
  ASSUME NEW s \in Sensors
  PROVE  /\ At(NextStage(s)) \in Chain /\ At(NextStage(s)).of = NoItem
         /\ At(NextStage(s)).stage \notin {"idle", "read", "frame", "retire", "collect",
                                           "sleep", "done"}
<1>1. NextStage(s) \in {"pre", "adc", "expression", "post", "publish"}
  BY NextStageIs
<1>2. NextStage(s) \in Stages
  BY <1>1, ProcessorItems DEF Stages
<1>3. NextStage(s) \notin {"idle", "read", "frame", "retire", "collect", "sleep", "done"}
  BY <1>1
<1> HIDE DEF NextStage
<1> QED
  BY <1>2, <1>3, AtIs

\* The item that runs is a task or a job, of the sensor that is its second part.
LEMMA RunningIs ==
  ASSUME TypeOK, wq.running # NoItem
  PROVE  /\ IsJob => wq.running \in Jobs
         /\ ~IsJob => wq.running \in Tasks
         /\ wq.running \in Tasks \cup Jobs
<1>1. wq.running \in Tasks \cup Jobs
  BY DEF TypeOK, QueueOf
<1> QED
  BY <1>1, Kinds DEF IsJob

(***************************************************************************)
(* An item at work leaves the queue, the readers and the calls alone.      *)
(***************************************************************************)
LEMMA ItemWorks ==
  ASSUME InductiveInv,
         UNCHANGED <<wq, reader, gate, starts, plan, phase, cq, samples>>,
         frame' \in Frames, chain' \in Chain, bound' \in Bindings,
         faults \subseteq faults', faults' \subseteq Faults, missed' \in BOOLEAN,
         wq.running # NoItem,
         \/ chain'.stage = chain.stage
         \/ /\ chain.stage \notin {"idle", "done", "retire"}
            /\ chain'.stage \notin {"idle", "read", "frame", "retire"}
            /\ chain'.stage \in {"collect", "sleep"} => wq.running \in Jobs
            /\ chain'.stage = "done" => wq.running \in Tasks,
         chain'.of # NoItem => chain'.stage \in {"pre", "post"} /\ chain'.local # NoReading
  PROVE  InductiveInv'
<1> USE DEF InductiveInv, ReadersInv
<1>1. TypeOK'
  BY DEF TypeOK, Frames, Bindings, Faults
<1>2. \A j \in Jobs : Unfinished(j)' <=> Unfinished(j)
  BY Kinds DEF Unfinished
<1>3. GateInv'
  <2>1. \A s \in Sensors :
          {j \in Jobs : j[2] = s /\ j[3] = reader[s] /\ Unfinished(j)'}
            = {j \in Jobs : j[2] = s /\ j[3] = reader[s] /\ Unfinished(j)}
    BY <1>2
  <2> QED
    BY <2>1 DEF GateInv
<1>4. JobsAllocated' /\ CompletedBounded'
  BY DEF JobsAllocated, CompletedBounded, Allocated, Busy
<1>5. PausedIsQuiet'
  BY DEF PausedIsQuiet, Busy
<1>6. CalibrationAlone'
  BY DEF CalibrationAlone, Busy
<1>7. PlanInv' /\ CalibrationInv'
  BY DEF PlanInv, CalibrationInv, HasStep, Busy
<1>8. StageInv' /\ QueueInv' /\ ReaderInv'
  BY DEF StageInv, QueueInv, ReaderInv, NotMade, HasStep
<1> QED
  BY <1>1, <1>3, <1>4, <1>5, <1>6, <1>7, <1>8

\* What the readers find are readings, and none of them is no reading.
LEMMA NewReadingIs ==
  ASSUME NEW s \in Sensors
  PROVE  NewReading(s) \in Reading
<1>1. \A st \in {"RAW", "UNINITIALIZED"} : st \in ItemsOf(Status)
  BY StatusItems
<1>2. MeasuredReading \in Reading /\ VirtualReading \in Reading /\ RawFrameReading \in Reading
  BY <1>1, ReadingFields DEF MeasuredReading, VirtualReading, RawFrameReading
<1>3. SignalReading = [status |-> "RAW", value |-> Fresh]
  BY DEF SignalReading, RawFrameReading
<1>4. SignalReading \in Reading /\ UserReading(s) \in Reading
  BY <1>1, <1>2, <1>3, ReadingFields DEF UserReading
<1> QED
  BY <1>2, <1>4 DEF NewReading

\* Readings that a processor makes from one.
LEMMA MadeReadings ==
  ASSUME NEW r \in Reading, NEW s \in Sensors
  PROVE  /\ [status |-> "INTERPOLATED", value |-> Did(r.value, "interpolated")] \in Reading
         /\ Evaluated(s, r) \in Reading
         /\ [r EXCEPT !.status = "PROCESSED"] \in Reading
         /\ r # NoReading => [r EXCEPT !.value.has = TRUE] \in Reading
<1>1. \A st \in {"INTERPOLATED", "EXPRESSION_EVALUATED", "PROCESSED"} : st \in ItemsOf(Status)
  BY StatusItems
<1>2. r.value \in Value /\ Did(r.value, "interpolated") \in Value
      /\ Did(r.value, "evaluated") \in Value
  BY ReadingFields
<1>3. [status |-> "INTERPOLATED", value |-> Did(r.value, "interpolated")] \in Reading
  BY <1>1, <1>2, ReadingFields
<1>4. Evaluated(s, r) \in Reading
  <2>1. CASE Type[s] \in UserTypes /\ s \notin Formula
    BY <1>1, <1>2, <2>1, ReadingFields DEF Evaluated
  <2>2. CASE ~(Type[s] \in UserTypes /\ s \notin Formula)
    <3>1. Evaluated(s, r)
            = [status |-> "EXPRESSION_EVALUATED", value |-> Did(r.value, "evaluated")]
      BY <2>2 DEF Evaluated
    <3> QED
      BY <1>1, <1>2, <3>1, ReadingFields
  <2> QED
    BY <2>1, <2>2
<1>5. [r EXCEPT !.status = "PROCESSED"] \in Reading
  <2>1. [r EXCEPT !.status = "PROCESSED"] = [status |-> "PROCESSED", value |-> r.value]
    BY DEF Reading, NoReading
  <2> QED
    BY <1>1, <1>2, <2>1, ReadingFields
<1>6. ASSUME r # NoReading PROVE [r EXCEPT !.value.has = TRUE] \in Reading
  <2>1. r \in [status : ItemsOf(Status), value : Value]
    BY <1>6 DEF Reading
  <2>2. [r.value EXCEPT !.has = TRUE] \in Value
    BY <1>2 DEF Value
  <2>3. [r EXCEPT !.value.has = TRUE]
          = [status |-> r.status, value |-> [r.value EXCEPT !.has = TRUE]]
    <3> DEFINE v == [r.value EXCEPT !.has = TRUE]
    <3>1. [r EXCEPT !.value.has = TRUE] = [r EXCEPT !.value = v]
      OBVIOUS
    <3> HIDE DEF v
    <3>2. [r EXCEPT !.value = v] = [status |-> r.status, value |-> v]
      BY <2>1
    <3> QED
      BY <3>1, <3>2 DEF v
  <2>4. r.status \in ItemsOf(Status)
    BY <2>1
  <2>5. [status |-> r.status, value |-> [r.value EXCEPT !.has = TRUE]] \in Reading
    BY <2>2, <2>4, ReadingFields, Zenon
  <2> QED
    BY <2>3, <2>5, Zenon
<1> QED
  BY <1>3, <1>4, <1>5, <1>6

LEMMA ReadKeeps ==
  ASSUME InductiveInv, NEW s \in Sensors, Read(s)
  PROVE  InductiveInv'
<1> USE DEF InductiveInv, ReadersInv
<1>1. /\ frame \in Frames /\ bound \in Bindings /\ faults \subseteq Faults
      /\ missed \in BOOLEAN
  BY DEF TypeOK, Frames, Bindings, Faults
<1>2. wq.running # NoItem /\ chain.stage = "read" /\ wq.running \in Tasks
  BY DEF Read, Running, StageInv
<1>3. CASE chain' = At(NextStage(s))
  <2>1. frame' \in Frames /\ missed' \in BOOLEAN
    <3>1. frame' = AddOrUpdateReadingProcessing(frame, s, NewReading(s)) \/ frame' = frame
      BY DEF Read
    <3> QED
      BY <1>1, <3>1, NewReadingIs, FrameWrites DEF Read
  <2> QED
    BY <1>1, <1>2, <1>3, <2>1, NextStageAt, ItemWorks DEF Read
<1>4. CASE chain' = At("done")
  <2>1. chain' \in Chain /\ chain'.stage = "done" /\ chain'.of = NoItem
    BY <1>4, AtIs DEF Stages
  <2>2. frame' \in Frames /\ missed' \in BOOLEAN
    <3>1. frame' = AddOrUpdateReadingProcessing(frame, s, NewReading(s)) \/ frame' = frame
      BY DEF Read
    <3> QED
      BY <1>1, <3>1, NewReadingIs, FrameWrites DEF Read
  <2> QED
    BY <1>1, <1>2, <2>1, <2>2, ItemWorks DEF Read
<1> QED
  BY <1>3, <1>4 DEF Read

LEMMA Typed ==
  ASSUME InductiveInv
  PROVE  /\ frame \in Frames /\ chain \in Chain /\ bound \in Bindings
         /\ faults \subseteq Faults /\ missed \in BOOLEAN
  BY DEF InductiveInv, ReadersInv, TypeOK, Frames, Bindings, Faults

LEMMA EndStageAt ==
  ASSUME TypeOK, wq.running # NoItem
  PROVE  /\ At(EndStage) \in Chain /\ At(EndStage).of = NoItem
         /\ At(EndStage).stage \in {"sleep", "done"}
         /\ At(EndStage).stage = "sleep" => wq.running \in Jobs
         /\ At(EndStage).stage = "done" => wq.running \in Tasks
<1>1. CASE IsJob
  <2>1. EndStage = "sleep" /\ EndStage \in Stages /\ wq.running \in Jobs
    BY <1>1, RunningIs DEF EndStage, Stages
  <2> QED
    BY <2>1, AtIs
<1>2. CASE ~IsJob
  <2>1. EndStage = "done" /\ EndStage \in Stages /\ wq.running \in Tasks
    BY <1>2, RunningIs DEF EndStage, Stages
  <2> QED
    BY <2>1, AtIs
<1> QED
  BY <1>1, <1>2

LEMMA IsrFrameKeeps ==
  ASSUME InductiveInv, NEW s \in Sensors, IsrFrame(s)
  PROVE  InductiveInv'
<1>1. wq.running # NoItem /\ chain.stage = "frame" /\ wq.running \in Jobs
  BY DEF IsrFrame, Running, StageInv, InductiveInv
<1>2. faults \subseteq faults' /\ faults' \subseteq Faults
  BY Typed DEF IsrFrame, Faults
<1>3. frame' \in Frames
  <2>1. frame' = AddOrUpdateReadingIsr(frame, s, NewReading(s)) \/ frame' = frame
    BY DEF IsrFrame
  <2> QED
    BY <2>1, Typed, NewReadingIs, FrameWrites
<1>4. /\ chain' \in Chain /\ chain'.of = NoItem
      /\ chain'.stage \notin {"idle", "read", "frame", "retire", "done"}
  <2>1. chain' = At("collect") \/ chain' = At("halted")
    BY DEF IsrFrame
  <2> QED
    BY <2>1, AtIs DEF Stages
<1> QED
  BY <1>1, <1>2, <1>3, <1>4, Typed, ItemWorks DEF IsrFrame

LEMMA CollectKeeps ==
  ASSUME InductiveInv, NEW s \in Sensors, Collect(s)
  PROVE  InductiveInv'
<1>1. wq.running # NoItem /\ chain.stage = "collect" /\ wq.running \in Jobs
  BY DEF Collect, Running, StageInv, InductiveInv
<1>2. frame.isr[s] \in Reading /\ chain.local \in Reading
  BY Typed DEF Frames, Chain
<1>3. CASE chain' = [chain EXCEPT !.fetched = TRUE, !.local = frame.isr[s]]
           /\ frame.isr[s] # NoReading /\ UNCHANGED frame
  <2>1. chain' \in Chain /\ chain'.stage = chain.stage /\ chain'.local # NoReading
        /\ chain'.of = chain.of
    BY <1>2, <1>3, Typed DEF Chain
  <2> QED
    BY <1>1, <1>3, <2>1, Typed, ItemWorks DEF Collect, InductiveInv, StageInv
<1>4. CASE chain' = At("sleep") /\ UNCHANGED frame
  <2>1. chain' \in Chain /\ chain'.of = NoItem /\ chain'.stage = "sleep"
    BY <1>4, AtIs DEF Stages
  <2> QED
    BY <1>1, <1>4, <2>1, Typed, ItemWorks DEF Collect, InductiveInv, StageInv
<1>5. CASE chain' = At(NextStage(s)) /\ frame' \in Frames
  BY <1>1, <1>5, NextStageAt, Typed, ItemWorks DEF Collect, InductiveInv, StageInv
<1>6. AddOrUpdateReadingProcessing(frame, s, chain.local) \in Frames
  BY <1>2, Typed, FrameWrites
<1> QED
  BY <1>3, <1>4, <1>5, <1>6 DEF Collect

LEMMA FetchKeeps ==
  ASSUME InductiveInv, NEW s \in Sensors, Fetch(s)
  PROVE  InductiveInv'
<1>1. /\ wq.running # NoItem
      /\ chain.stage \in {"pre", "adc", "expression", "post", "publish"}
  BY ProcessorItems DEF Fetch, Running
<1>2. CASE frame.readings[s] # NoReading
  <2> DEFINE left == CASE chain.stage = "pre"  -> PreWrites[s]
                       [] chain.stage = "post" -> PostWrites[s]
                       [] OTHER                -> {}
  <2>1. left \in SUBSET Sensors /\ frame.readings[s] \in Reading
    BY SensorAssumption, Typed DEF Frames
  <2>2. chain' = [chain EXCEPT !.fetched = TRUE, !.local = frame.readings[s], !.left = left]
    BY <1>2 DEF Fetch
  <2> HIDE DEF left
  <2>3. chain' \in Chain /\ chain'.stage = chain.stage /\ chain'.local # NoReading
        /\ chain'.of = chain.of
    BY <1>2, <2>1, <2>2, Typed DEF Chain
  <2> QED
    BY <1>1, <2>3, Typed, ItemWorks DEF Fetch, InductiveInv, StageInv
<1>3. CASE chain' = At(EndStage)
  <2>1. /\ chain' \in Chain /\ chain'.of = NoItem
        /\ chain'.stage \in {"sleep", "done"}
        /\ chain'.stage = "sleep" => wq.running \in Jobs
        /\ chain'.stage = "done" => wq.running \in Tasks
    BY <1>1, <1>3, EndStageAt DEF InductiveInv, ReadersInv
  <2> QED
    BY <1>1, <2>1, Typed, ItemWorks DEF Fetch, InductiveInv, StageInv
<1>4. CASE chain' = At(NextStage(s))
  BY <1>1, <1>4, NextStageAt, Typed, ItemWorks DEF Fetch, InductiveInv, StageInv
<1> QED
  BY <1>2, <1>3, <1>4 DEF Fetch

LEMMA ScriptKeeps ==
  ASSUME InductiveInv, NEW s \in Sensors,
         ScriptReturns(s) \/ \E t \in Sensors : ScriptGets(s, t)
  PROVE  InductiveInv'
<1>1. wq.running # NoItem /\ chain.stage \in {"pre", "post"}
  BY DEF ScriptReturns, ScriptGets, InStage, Running
<1>2. CASE ScriptReturns(s)
  BY <1>1, <1>2, NextStageAt, Typed, ItemWorks DEF ScriptReturns
<1>3. ASSUME NEW t \in Sensors, ScriptGets(s, t) PROVE InductiveInv'
  <2> DEFINE of == IF frame.readings[t] = NoReading THEN NoItem ELSE <<t>>
  <2>1. /\ of \in {NoItem} \cup {<<x>> : x \in Sensors}
        /\ frame.readings[t] \in Reading
        /\ of # NoItem => frame.readings[t] # NoReading
    BY Typed DEF Frames
  <2>2. chain' = [chain EXCEPT !.left = chain.left \ {t}, !.local = frame.readings[t], !.of = of]
    BY <1>3 DEF ScriptGets
  <2> HIDE DEF of
  <2>3. /\ chain' \in Chain /\ chain'.stage = chain.stage
        /\ chain'.of # NoItem => chain'.local # NoReading
    BY <2>1, <2>2, Typed DEF Chain
  <2> QED
    BY <1>1, <1>3, <2>3, Typed, ItemWorks DEF ScriptGets
<1> QED
  BY <1>2, <1>3

LEMMA ScriptPutsKeeps ==
  ASSUME InductiveInv, ScriptPuts
  PROVE  InductiveInv'
<1>1. chain.local \in Reading /\ chain.local # NoReading
  BY Typed DEF ScriptPuts, InductiveInv, StageInv, Chain
<1>2. wq.running # NoItem
  BY DEF ScriptPuts, InductiveInv, StageInv
<1>3. chain.of[1] \in Sensors
  BY Typed DEF ScriptPuts, Chain
<1>4. frame' \in Frames
  BY <1>1, <1>3, Typed, MadeReadings, FrameWrites DEF ScriptPuts
<1>5. chain' \in Chain /\ chain'.stage = chain.stage /\ chain'.of = NoItem
  BY Typed DEF ScriptPuts, Chain
<1> QED
  BY <1>2, <1>4, <1>5, Typed, ItemWorks DEF ScriptPuts

LEMMA InterpolateKeeps ==
  ASSUME InductiveInv, NEW s \in Sensors, Interpolate(s)
  PROVE  InductiveInv'
<1>1. wq.running # NoItem /\ chain.stage = "adc" /\ chain.local \in Reading
  BY Typed DEF Interpolate, InStage, Running, Chain
<1>2. frame' \in Frames
  BY <1>1, Typed, MadeReadings, FrameWrites DEF Interpolate
<1> QED
  BY <1>1, <1>2, NextStageAt, Typed, ItemWorks DEF Interpolate

LEMMA EvaluateKeeps ==
  ASSUME InductiveInv, NEW s \in Sensors, Evaluate(s)
  PROVE  InductiveInv'
<1>1. wq.running # NoItem /\ chain.stage = "expression" /\ chain.local \in Reading
  BY Typed DEF Evaluate, InStage, Running, Chain
<1>2. CASE ~Evaluable(s, chain.local)
  <2>1. chain' = At(NextStage(s)) /\ UNCHANGED <<frame, bound, faults>>
    BY <1>2 DEF Evaluate
  <2>2. UNCHANGED <<wq, reader, gate, starts, plan, phase, cq, samples, missed>>
    BY DEF Evaluate
  <2> QED
    BY <1>1, <2>1, <2>2, NextStageAt, Typed, ItemWorks
<1>3. CASE Evaluable(s, chain.local) /\ Unreachable(s)
  <2>1. /\ chain' = At("halted") /\ faults' = faults \cup {"unknown"}
        /\ UNCHANGED <<frame, bound>>
    BY <1>3 DEF Evaluate
  <2>2. chain' \in Chain /\ chain'.of = NoItem /\ chain'.stage = "halted"
    BY <2>1, AtIs DEF Stages
  <2>3. faults \subseteq faults' /\ faults' \subseteq Faults
    BY <2>1, Typed DEF Faults
  <2>4. UNCHANGED <<wq, reader, gate, starts, plan, phase, cq, samples, missed>>
    BY DEF Evaluate
  <2> QED
    BY <1>1, <2>1, <2>2, <2>3, <2>4, Typed, ItemWorks
<1>4. CASE Evaluable(s, chain.local) /\ ~Unreachable(s)
  <2> DEFINE b   == IF s \in Formula THEN Binding(s) ELSE bound[s]
             bad == s \in Formula /\ b \in {"null", "dangling"}
  <2>1. b \in {"unbound", "live", "null", "dangling"}
    BY Typed DEF Binding, Bindings
  <2>2. /\ bound' = [bound EXCEPT ![s] = b]
        /\ faults' = IF bad THEN faults \cup {b} ELSE faults
    BY <1>4 DEF Evaluate
  <2>3. bound' \in Bindings /\ faults \subseteq faults' /\ faults' \subseteq Faults
    <3> HIDE DEF b
    <3> QED
      BY <2>1, <2>2, Typed DEF Bindings, Faults
  <2>4. frame' \in Frames
    <3>1. \/ frame' = AddOrUpdateReadingProcessing(frame, s, Evaluated(s, chain.local))
          \/ frame' = frame
      BY <1>4 DEF Evaluate
    <3> QED
      BY <1>1, <3>1, Typed, MadeReadings, FrameWrites
  <2>5. UNCHANGED <<wq, reader, gate, starts, plan, phase, cq, samples, missed>>
    BY DEF Evaluate
  <2>6. CASE chain' = At(NextStage(s))
    BY <1>1, <2>3, <2>4, <2>6, <2>5, NextStageAt, Typed, ItemWorks
  <2>7. CASE chain' = At("halted")
    <3>1. chain' \in Chain /\ chain'.of = NoItem /\ chain'.stage = "halted"
      BY <2>7, AtIs DEF Stages
    <3> QED
      BY <1>1, <2>3, <2>4, <2>5, <3>1, Typed, ItemWorks
  <2> QED
    BY <1>4, <2>6, <2>7 DEF Evaluate
<1> QED
  BY <1>2, <1>3, <1>4

LEMMA MarkProcessedKeeps ==
  ASSUME InductiveInv, NEW s \in Sensors, MarkProcessed(s)
  PROVE  InductiveInv'
<1>1. wq.running # NoItem /\ chain.stage = "publish" /\ chain.local \in Reading
  BY Typed DEF MarkProcessed, InStage, Running, Chain
<1>2. frame' \in Frames
  BY <1>1, Typed, MadeReadings, FrameWrites DEF MarkProcessed
<1>3. /\ chain' \in Chain /\ chain'.of = NoItem
      /\ chain'.stage \in {"sleep", "done"}
      /\ chain'.stage = "sleep" => wq.running \in Jobs
      /\ chain'.stage = "done" => wq.running \in Tasks
  BY <1>1, EndStageAt DEF MarkProcessed, InductiveInv, ReadersInv
<1> QED
  BY <1>1, <1>2, <1>3, Typed, ItemWorks DEF MarkProcessed

(***************************************************************************)
(* Steps of the queue.                                                     *)
(***************************************************************************)
LEMMA QueuesAreOk ==
  ASSUME InductiveInv
  PROVE  /\ QueueOk(wq, Tasks \cup Jobs, Jobs)
         /\ QueueOk(cq, {Calibration}, {})
  BY DEF InductiveInv, ReadersInv, TypeOK, QueueInv, QueueOk

\* The heap holds every job that is busy.
LEMMA AllocatedBy ==
  QueueInv' => JobsAllocated'
  BY Kinds DEF QueueInv, JobsAllocated, Allocated, Busy

LEMMA GateKeeps ==
  ASSUME GateInv, UNCHANGED <<reader, gate>>, faults \subseteq faults',
         \A j \in Jobs : Unfinished(j)' <=> Unfinished(j)
  PROVE  GateInv'
<1>1. \A s \in Sensors :
        {j \in Jobs : j[2] = s /\ j[3] = reader[s] /\ Unfinished(j)'}
          = {j \in Jobs : j[2] = s /\ j[3] = reader[s] /\ Unfinished(j)}
  OBVIOUS
<1> QED
  BY <1>1 DEF GateInv

\* A queue that makes no task busy disturbs neither pauses nor calibrations.
LEMMA QueueMoves ==
  ASSUME InductiveInv, UNCHANGED <<plan, phase, cq, samples, starts, reader>>,
         \A w \in Tasks : Busy(wq', w) => Busy(wq, w), TypeOK', StageInv'
  PROVE  PausedIsQuiet' /\ CalibrationAlone' /\ PlanInv' /\ CalibrationInv' /\ ReaderInv'
<1> USE DEF InductiveInv, ReadersInv
<1>1. PausedIsQuiet'
  BY Kinds DEF PausedIsQuiet, Tasks
<1>2. CalibrationInv'
  BY DEF CalibrationInv, HasStep
<1>3. CalibrationAlone'
  <2>1. Busy(cq, Calibration)' =>
          samples' = "calibration" /\ \A w \in Tasks : ~Busy(wq', w)
    BY DEF CalibrationAlone
  <2>2. ASSUME chain'.stage = "read" PROVE samples' = "configured"
    <3>1. wq'.running \in Tasks /\ Busy(wq', wq'.running)
      BY <2>2 DEF StageInv, Busy
    <3>2. samples' # "calibration"
      BY <1>2, <3>1 DEF CalibrationInv
    <3> QED
      BY <3>2 DEF TypeOK
  <2> QED
    BY <2>1, <2>2 DEF CalibrationAlone
<1>4. PlanInv' /\ ReaderInv'
  BY DEF PlanInv, ReaderInv, NotMade, HasStep
<1> QED
  BY <1>1, <1>2, <1>3, <1>4

LEMMA StartItemKeeps ==
  ASSUME InductiveInv, StartItem
  PROVE  InductiveInv'
<1> USE DEF InductiveInv, ReadersInv
<1> DEFINE w == Head(wq.fifo)
<1>1. /\ QueueOk(wq', Tasks \cup Jobs, Jobs)
      /\ ItemsOf(wq.fifo) = ItemsOf(wq'.fifo) \cup {w}
      /\ w \notin ItemsOf(wq'.fifo) /\ wq'.running = w /\ w \in Tasks \cup Jobs
      /\ wq'.delayed = wq.delayed /\ wq'.cancelling = wq.cancelling
      /\ wq'.tasks = wq.tasks /\ wq'.completed = wq.completed
  BY QueuesAreOk, TakeIs DEF StartItem
<1>2. /\ chain' \in Chain /\ chain'.of = NoItem
      /\ chain'.stage = IF w[1] = "job" THEN "frame" ELSE "read"
  BY AtIs DEF StartItem, Stages
<1> HIDE DEF w
<1>3. TypeOK'
  BY <1>1, <1>2 DEF StartItem, TypeOK, QueueOk
<1>4. w # NoItem /\ (w \in Tasks => chain'.stage = "read") /\ (w \in Jobs => chain'.stage = "frame")
  BY <1>1, <1>2, Kinds
<1>5. StageInv'
  BY <1>1, <1>2, <1>4 DEF StageInv
<1>6. wq.running = NoItem /\ chain.stage = "idle"
  BY DEF StartItem, StageInv
<1>7. QueueInv'
  <2>1. starts' = starts /\ cq' = cq /\ \A x : NotMade(x)' <=> NotMade(x)
    BY DEF StartItem, NotMade, HasStep
  <2> QED
    BY <1>1, <1>4, <1>6, <2>1 DEF QueueInv, QueueOk
<1>8. \A j \in Jobs : Unfinished(j)' <=> Unfinished(j)
  BY <1>1, <1>4, <1>6, Kinds DEF Unfinished
<1>9. GateInv'
  BY <1>8, GateKeeps DEF StartItem
<1>10. JobsAllocated' /\ CompletedBounded'
  BY <1>1, <1>7, AllocatedBy DEF CompletedBounded
<1>11. \A v \in Tasks : Busy(wq', v) => Busy(wq, v)
  BY <1>1 DEF Busy
<1>12. PausedIsQuiet' /\ CalibrationAlone' /\ PlanInv' /\ CalibrationInv' /\ ReaderInv'
  BY <1>3, <1>5, <1>11, QueueMoves DEF StartItem
<1> QED
  BY <1>3, <1>5, <1>7, <1>9, <1>10, <1>12

LEMMA TaskEndsKeeps ==
  ASSUME InductiveInv, TaskEnds
  PROVE  InductiveInv'
<1> USE DEF InductiveInv, ReadersInv
<1> DEFINE w == wq.running
<1>1. w # NoItem /\ w \in Tasks /\ chain.stage = "done"
  BY RunningIs DEF TaskEnds, StageInv
<1>2. /\ QueueOk(wq', Tasks \cup Jobs, Jobs) /\ wq'.fifo = wq.fifo /\ wq'.running = w
      /\ wq'.delayed = wq.delayed \cup {w} /\ wq'.cancelling = wq.cancelling
      /\ wq'.tasks = wq.tasks /\ wq'.completed = wq.completed
  <2>1. wq' = [[wq EXCEPT !.delayed = wq.delayed \ {w}]
                EXCEPT !.delayed = (wq.delayed \ {w}) \cup {w}]
    BY QueuesAreOk DEF TaskEnds, TaskDone, Reschedule, After, Unscheduled, QueueOk, QueueOf
  <2>3. wq' = Delayed(wq, w)
    BY <2>1, QueuesAreOk DEF Delayed, QueueOk, QueueOf
  <2>2. w \in Tasks \cup Jobs /\ w = wq.running
    BY <1>1
  <2> HIDE DEF w
  <2> QED
    BY <2>2, <2>3, QueuesAreOk, DelayedIs
<1>3. chain' \in Chain /\ chain'.of = NoItem /\ chain'.stage = "retire"
  BY AtIs DEF TaskEnds, Stages
<1> HIDE DEF w
<1>4. TypeOK'
  BY <1>2, <1>3 DEF TaskEnds, TypeOK, QueueOk
<1>5. StageInv'
  BY <1>1, <1>2, <1>3 DEF StageInv
<1>6. QueueInv'
  <2>1. starts' = starts /\ cq' = cq /\ \A x : NotMade(x)' <=> NotMade(x)
    BY DEF TaskEnds, NotMade, HasStep
  <2> QED
    BY <1>1, <1>2, <2>1, Kinds DEF QueueInv, QueueOk, w
<1>7. \A j \in Jobs : Unfinished(j)' <=> Unfinished(j)
  BY <1>1, <1>2, <1>3, Kinds DEF Unfinished, w
<1>8. GateInv'
  BY <1>7, GateKeeps DEF TaskEnds
<1>9. JobsAllocated' /\ CompletedBounded'
  BY <1>2, <1>6, AllocatedBy DEF CompletedBounded
<1>10. \A v \in Tasks : Busy(wq', v) => Busy(wq, v)
  BY <1>2 DEF Busy, w
<1>11. PausedIsQuiet' /\ CalibrationAlone' /\ PlanInv' /\ CalibrationInv' /\ ReaderInv'
  BY <1>4, <1>5, <1>10, QueueMoves DEF TaskEnds
<1> QED
  BY <1>4, <1>5, <1>6, <1>8, <1>9, <1>11

LEMMA GiveKeeps ==
  ASSUME InductiveInv, NEW s \in Sensors, Give(s)
  PROVE  InductiveInv'
<1> USE DEF InductiveInv, ReadersInv
<1>1. /\ wq.running # NoItem /\ wq.running \in Jobs /\ wq.running[2] = s
      /\ chain.stage = "sleep"
  BY DEF Give, Running, StageInv
<1>2. /\ chain' \in Chain /\ chain'.of = NoItem
      /\ chain'.stage \in {"done", "halted"}
  <2>1. chain' = At("done") \/ chain' = At("halted")
    BY DEF Give
  <2> QED
    BY <2>1, AtIs DEF Stages
<1>3. gate' \in [Sensors -> BOOLEAN] /\ faults \subseteq faults' /\ faults' \subseteq Faults
  BY DEF Give, TypeOK, Faults
<1>4. UNCHANGED <<frame, wq, reader, starts, plan, phase, cq, samples, bound, missed>>
  BY DEF Give
<1>5. TypeOK'
  BY <1>2, <1>3, <1>4 DEF TypeOK, Faults
<1>6. StageInv' /\ QueueInv'
  <2>1. \A x : NotMade(x)' <=> NotMade(x)
    BY <1>4 DEF NotMade, HasStep
  <2> QED
    BY <1>1, <1>2, <1>4, <2>1, Kinds DEF StageInv, QueueInv
<1>7. ASSUME "reader" \notin faults', NEW t \in Sensors, reader'[t] # 0
      PROVE  LET mine == {j \in Jobs : j[2] = t /\ j[3] = reader'[t] /\ Unfinished(j)'}
             IN IF gate'[t] THEN mine = {} ELSE \E j \in Jobs : mine = {j}
  <2> DEFINE mine == {j \in Jobs : j[2] = t /\ j[3] = reader[t] /\ Unfinished(j)}
             next == {j \in Jobs : j[2] = t /\ j[3] = reader[t] /\ Unfinished(j)'}
  <2>1. ~ReaderGone(s) /\ "reader" \notin faults
    BY <1>7 DEF Give
  <2>2. gate' = [gate EXCEPT ![s] = TRUE] /\ chain' = At("done")
    BY <2>1 DEF Give
  <2>3. chain'.stage = "done"
    BY <2>2, AtIs DEF Stages
  <2>4. \A j \in Jobs : Unfinished(j)' <=> (Unfinished(j) /\ j # wq.running)
    BY <1>1, <1>4, <2>3 DEF Unfinished, QueueInv
  <2>5. IF gate[t] THEN mine = {} ELSE \E j \in Jobs : mine = {j}
    BY <1>4, <1>7, <2>1 DEF GateInv
  <2>6. CASE t = s
    <3>1. wq.running \in mine
      BY <1>1, <2>1, <2>6 DEF ReaderGone, Unfinished
    <3>2. mine = {wq.running}
      BY <2>5, <3>1
    <3>3. next = {}
      BY <2>4, <3>2
    <3>4. gate'[t]
      BY <2>2, <2>6 DEF TypeOK
    <3> QED
      BY <1>4, <3>3, <3>4
  <2>7. CASE t # s
    <3>1. next = mine
      BY <1>1, <2>4, <2>7
    <3>2. gate'[t] = gate[t]
      BY <2>2, <2>7 DEF TypeOK
    <3> QED
      BY <1>4, <2>5, <3>1, <3>2
  <2> QED
    BY <2>6, <2>7
<1>8. GateInv'
  BY <1>7 DEF GateInv
<1>9. JobsAllocated' /\ CompletedBounded'
  BY <1>4, <1>6, AllocatedBy DEF CompletedBounded
<1>10. PausedIsQuiet' /\ CalibrationAlone' /\ PlanInv' /\ CalibrationInv' /\ ReaderInv'
  BY <1>4, <1>5, <1>6, QueueMoves
<1> QED
  BY <1>5, <1>6, <1>8, <1>9, <1>10

LEMMA JobEndsKeeps ==
  ASSUME InductiveInv, JobEnds
  PROVE  InductiveInv'
<1> USE DEF InductiveInv, ReadersInv
<1>1. wq.running # NoItem /\ wq.running \in Jobs /\ chain.stage = "done"
  BY RunningIs DEF JobEnds, StageInv
<1>2. /\ QueueOk(wq', Tasks \cup Jobs, Jobs) /\ wq'.fifo = wq.fifo
      /\ wq'.running = wq.running
      /\ wq'.delayed = wq.delayed /\ wq'.cancelling = wq.cancelling
      /\ wq'.tasks = wq.tasks \ {wq.running}
      /\ wq'.completed = {j \in wq.completed : Busy(wq, j)} \cup {wq.running}
  BY <1>1, QueuesAreOk, RunnerDoneIs DEF JobEnds
<1>3. chain' \in Chain /\ chain'.of = NoItem /\ chain'.stage = "retire"
  BY AtIs DEF JobEnds, Stages
<1>4. wq'.completed = {wq.running}
  <2>1. \A j \in wq.completed : j \in Jobs
    BY DEF TypeOK, QueueOf
  <2>2. \A j \in wq.completed : ~Busy(wq, j)
    BY <1>1, <2>1, Kinds DEF QueueInv, Busy
  <2> QED
    BY <1>2, <2>2
<1>5. TypeOK'
  BY <1>2, <1>3 DEF JobEnds, TypeOK, QueueOk
<1>6. StageInv'
  BY <1>1, <1>2, <1>3 DEF StageInv
<1>7. QueueInv'
  <2>1. starts' = starts /\ cq' = cq /\ \A x : NotMade(x)' <=> NotMade(x)
    BY DEF JobEnds, NotMade, HasStep
  <2>2. wq.running \in wq.tasks
    BY <1>1 DEF QueueInv
  <2> QED
    BY <1>1, <1>2, <1>3, <1>4, <2>1, <2>2 DEF QueueInv, QueueOk
<1>8. \A j \in Jobs : Unfinished(j)' <=> Unfinished(j)
  BY <1>1, <1>2, <1>3 DEF Unfinished
<1>9. GateInv'
  BY <1>8, GateKeeps DEF JobEnds
<1>10. JobsAllocated' /\ CompletedBounded'
  BY <1>4, <1>7, AllocatedBy DEF CompletedBounded
<1>11. \A v \in Tasks : Busy(wq', v) => Busy(wq, v)
  BY <1>2 DEF Busy
<1>12. PausedIsQuiet' /\ CalibrationAlone' /\ PlanInv' /\ CalibrationInv' /\ ReaderInv'
  BY <1>5, <1>6, <1>11, QueueMoves DEF JobEnds
<1> QED
  BY <1>5, <1>6, <1>7, <1>9, <1>10, <1>12

LEMMA ItemRetiresKeeps ==
  ASSUME InductiveInv, ItemRetires
  PROVE  InductiveInv'
<1> USE DEF InductiveInv, ReadersInv
<1>1. wq.running # NoItem /\ chain.stage = "retire"
  BY DEF ItemRetires, StageInv
<1>2. /\ QueueOk(wq', Tasks \cup Jobs, Jobs) /\ wq'.fifo = wq.fifo /\ wq'.running = NoItem
      /\ wq'.delayed = wq.delayed /\ wq'.cancelling = wq.cancelling \ {wq.running}
      /\ wq'.tasks = wq.tasks /\ wq'.completed = wq.completed
  BY QueuesAreOk, RetireIs DEF ItemRetires
<1>3. chain' \in Chain /\ chain'.of = NoItem /\ chain'.stage = "idle"
  BY AtIs DEF ItemRetires, Stages, Idle
<1>4. TypeOK'
  BY <1>2, <1>3 DEF ItemRetires, TypeOK, QueueOk
<1>5. StageInv'
  BY <1>2, <1>3 DEF StageInv
<1>6. QueueInv'
  <2>1. starts' = starts /\ cq' = cq /\ \A x : NotMade(x)' <=> NotMade(x)
    BY DEF ItemRetires, NotMade, HasStep
  <2> QED
    BY <1>2, <2>1, Kinds DEF QueueInv, QueueOk
<1>7. \A j \in Jobs : Unfinished(j)' <=> Unfinished(j)
  BY <1>1, <1>2, Kinds DEF Unfinished
<1>8. GateInv'
  BY <1>7, GateKeeps DEF ItemRetires
<1>9. JobsAllocated' /\ CompletedBounded'
  BY <1>2, <1>6, AllocatedBy DEF CompletedBounded
<1>10. \A v \in Tasks : Busy(wq', v) => Busy(wq, v)
  BY <1>2, Kinds DEF Busy
<1>11. PausedIsQuiet' /\ CalibrationAlone' /\ PlanInv' /\ CalibrationInv' /\ ReaderInv'
  BY <1>4, <1>5, <1>10, QueueMoves DEF ItemRetires
<1> QED
  BY <1>4, <1>5, <1>6, <1>8, <1>9, <1>11

LEMMA TimerExpiresKeeps ==
  ASSUME InductiveInv, NEW w \in Tasks, TimerExpires(w)
  PROVE  InductiveInv'
<1> USE DEF InductiveInv, ReadersInv
<1>1. /\ QueueOk(wq', Tasks \cup Jobs, Jobs)
      /\ ItemsOf(wq'.fifo) \in {ItemsOf(wq.fifo), ItemsOf(wq.fifo) \cup {w}}
      /\ wq'.running = wq.running /\ wq'.delayed = wq.delayed \ {w}
      /\ wq'.cancelling = wq.cancelling /\ wq'.tasks = wq.tasks
      /\ wq'.completed = wq.completed
  BY QueuesAreOk, ExpireIs DEF TimerExpires
<1>2. TypeOK'
  BY <1>1 DEF TimerExpires, TypeOK, QueueOk
<1>3. StageInv'
  BY <1>1 DEF StageInv, TimerExpires
<1>4. QueueInv'
  <2>1. starts' = starts /\ cq' = cq /\ chain' = chain /\ \A x : NotMade(x)' <=> NotMade(x)
    BY DEF TimerExpires, NotMade, HasStep
  <2> QED
    BY <1>1, <2>1, Kinds DEF QueueInv, QueueOk
<1>5. \A j \in Jobs : Unfinished(j)' <=> Unfinished(j)
  BY <1>1, Kinds DEF Unfinished, TimerExpires
<1>6. GateInv'
  BY <1>5, GateKeeps DEF TimerExpires
<1>7. JobsAllocated' /\ CompletedBounded'
  BY <1>1, <1>4, AllocatedBy DEF CompletedBounded
<1>8. \A v \in Tasks : Busy(wq', v) => Busy(wq, v)
  BY <1>1 DEF Busy, TimerExpires
<1>9. PausedIsQuiet' /\ CalibrationAlone' /\ PlanInv' /\ CalibrationInv' /\ ReaderInv'
  BY <1>2, <1>3, <1>8, QueueMoves DEF TimerExpires
<1> QED
  BY <1>2, <1>3, <1>4, <1>6, <1>7, <1>9

LEMMA FrameReceivedKeeps ==
  ASSUME InductiveInv, NEW s \in Sensors, FrameReceived(s)
  PROVE  InductiveInv'
<1> USE DEF InductiveInv, ReadersInv
<1> DEFINE free == {a \in Addresses :
                      JobOf(s, reader[s], a) \notin wq.tasks \cup wq.completed}
           job == JobOf(s, reader[s], CHOOSE a \in free : TRUE)
<1>1. (CHOOSE a \in free : TRUE) \in Addresses /\ job \notin wq.tasks \cup wq.completed
  BY DEF FrameReceived
<1>2. job \in Jobs /\ job[2] = s /\ job[3] = reader[s]
  <2>1. HasIsrReader(s) /\ reader[s] \in 1..MaxStarts
    BY DEF FrameReceived, ReaderInv, TypeOK
  <2> QED
    BY <1>1, <2>1 DEF Jobs, JobOf
<1>3. /\ job \notin ItemsOf(wq.fifo) /\ wq.running # job /\ job \notin wq.cancelling
  BY <1>1, <1>2, Kinds DEF QueueInv
<1>4. wq' = Run(wq, job) /\ gate' = [gate EXCEPT ![s] = FALSE] /\ gate[s] /\ reader[s] # 0
  BY DEF FrameReceived
<1>5. UNCHANGED <<frame, chain, reader, starts, plan, phase, cq, samples, bound,
                  faults, missed>>
  BY DEF FrameReceived
<1> HIDE DEF job
<1>6. /\ QueueOk(wq', Tasks \cup Jobs, Jobs)
      /\ ItemsOf(wq'.fifo) = ItemsOf(wq.fifo) \cup {job}
      /\ wq'.running = wq.running /\ wq'.delayed = wq.delayed
      /\ wq'.cancelling = wq.cancelling /\ wq'.tasks = wq.tasks \cup {job}
      /\ wq'.completed = wq.completed
  <2>1. Jobs \in SUBSET (Tasks \cup Jobs)
    OBVIOUS
  <2> QED
    BY <1>2, <1>3, <1>4, <2>1, QueuesAreOk, RunIs
<1>7. TypeOK'
  BY <1>4, <1>5, <1>6 DEF TypeOK, QueueOk
<1>8. StageInv'
  BY <1>5, <1>6 DEF StageInv
<1>9. QueueInv'
  <2>1. job[3] <= starts /\ ~NotMade(job[2])
    BY <1>2, <1>4 DEF ReaderInv
  <2>2. \A x : NotMade(x)' <=> NotMade(x)
    BY <1>5 DEF NotMade, HasStep
  <2> QED
    BY <1>1, <1>2, <1>3, <1>5, <1>6, <2>1, <2>2, Kinds DEF QueueInv, QueueOk, job
<1>10. \A j \in Jobs : Unfinished(j)' <=> (Unfinished(j) \/ j = job)
  BY <1>5, <1>6 DEF Unfinished
<1>11. ASSUME "reader" \notin faults', NEW t \in Sensors, reader'[t] # 0
       PROVE  LET mine == {j \in Jobs : j[2] = t /\ j[3] = reader'[t] /\ Unfinished(j)'}
              IN IF gate'[t] THEN mine = {} ELSE \E j \in Jobs : mine = {j}
  <2> DEFINE mine == {j \in Jobs : j[2] = t /\ j[3] = reader[t] /\ Unfinished(j)}
             next == {j \in Jobs : j[2] = t /\ j[3] = reader[t] /\ Unfinished(j)'}
  <2>1. IF gate[t] THEN mine = {} ELSE \E j \in Jobs : mine = {j}
    BY <1>5, <1>11 DEF GateInv
  <2>2. CASE t = s
    <3>1. next = {job}
      BY <1>2, <1>4, <1>10, <2>1, <2>2
    <3>2. ~gate'[t]
      BY <1>4, <2>2 DEF TypeOK
    <3> QED
      BY <1>2, <1>5, <3>1, <3>2
  <2>3. CASE t # s
    <3>1. next = mine
      BY <1>2, <1>10, <2>3
    <3>2. gate'[t] = gate[t]
      BY <1>4, <2>3 DEF TypeOK
    <3> QED
      BY <1>5, <2>1, <3>1, <3>2
  <2> QED
    BY <2>2, <2>3
<1>12. GateInv'
  BY <1>11 DEF GateInv
<1>13. JobsAllocated' /\ CompletedBounded'
  BY <1>6, <1>9, AllocatedBy DEF CompletedBounded
<1>14. \A v \in Tasks : Busy(wq', v) => Busy(wq, v)
  BY <1>2, <1>6, Kinds DEF Busy
<1>15. PausedIsQuiet' /\ CalibrationAlone' /\ PlanInv' /\ CalibrationInv' /\ ReaderInv'
  BY <1>5, <1>7, <1>8, <1>14, QueueMoves
<1> QED
  BY <1>7, <1>8, <1>9, <1>12, <1>13, <1>15

(***************************************************************************)
(* Calls and their steps.                                                  *)
(***************************************************************************)
\* The calibration has the ADCs for itself while no task is busy.
LEMMA AloneBy ==
  ASSUME TypeOK', StageInv', CalibrationInv'
  PROVE  CalibrationAlone'
<1>1. ASSUME chain'.stage = "read" PROVE samples' = "configured"
  <2>1. wq'.running \in Tasks /\ Busy(wq', wq'.running)
    BY <1>1 DEF StageInv, Busy
  <2>2. samples' # "calibration"
    BY <2>1 DEF CalibrationInv
  <2> QED
    BY <2>2 DEF TypeOK
<1>2. Busy(cq', Calibration) => samples' = "calibration" /\ \A w \in Tasks : ~Busy(wq', w)
  BY DEF CalibrationInv
<1> QED
  BY <1>1, <1>2 DEF CalibrationAlone

\* A call starts when the one before it has returned.
LEMMA CallKeeps ==
  ASSUME InductiveInv, NEW to \in {"stopped", "running", "paused", "calibrating"},
         NEW steps \in Seq(Steps), plan = <<>>, phase' = to, plan' = steps,
         UNCHANGED <<frame, wq, chain, reader, gate, starts, cq, samples, bound, faults, missed>>,
         InOrder(steps, StepsTo(to)),
         to # "running" => \A s \in Sensors : HasTask(s) => <<"cancel", s>> \in ItemsOf(steps),
         to = "running" => phase # "running" /\ <<"make readers">> \in ItemsOf(steps),
         to \in {"running", "calibrating"} => starts < MaxStarts,
         CalibrationInv'
  PROVE  InductiveInv'
<1> USE DEF InductiveInv, ReadersInv
<1>1. TypeOK'
  BY DEF TypeOK
<1>0. /\ HasStep("make readers")' \/ HasStep("make reader")' => to = "running"
      /\ to = "running" => HasStep("make readers")'
      /\ \A s \in Sensors : ~NotMade(s)'
  <2>1. ASSUME NEW step \in {"make readers", "make reader"}, HasStep(step)'
        PROVE  to = "running"
    <3>1. PICK i \in DOMAIN plan' : plan'[i][1] = step
      BY <2>1 DEF HasStep
    <3>2. step \in StepsTo(to)
      BY <3>1 DEF InOrder
    <3> QED
      BY <3>2 DEF StepsTo
  <2>2. ASSUME to = "running" PROVE HasStep("make readers")'
    <3>1. PICK i \in DOMAIN steps : steps[i] = <<"make readers">>
      BY <2>2 DEF ItemsOf
    <3>2. plan'[i][1] = "make readers" /\ i \in DOMAIN plan'
      BY <3>1, Parts
    <3> QED
      BY <3>2 DEF HasStep
  <2>3. ASSUME NEW s \in Sensors, NotMade(s)' PROVE FALSE
    <3>1. PICK i \in DOMAIN plan' : plan'[i] = <<"make reader", s>>
      BY <2>3 DEF NotMade, ItemsOf
    <3>2. plan'[i][1] = "make reader"
      BY <3>1, Parts
    <3>3. HasStep("make reader")'
      BY <3>2 DEF HasStep
    <3> QED
      BY <2>1, <2>2, <2>3, <3>3 DEF NotMade
  <2> QED
    BY <2>1, <2>2, <2>3
<1>2. StageInv' /\ QueueInv' /\ ReaderInv'
  <2>1. StageInv'
    BY DEF StageInv
  <2>2. \A j \in Jobs : j[2] \in Sensors
    BY Kinds
  <2> QED
    BY <1>0, <2>1, <2>2 DEF QueueInv, ReaderInv
<1>3. \A j \in Jobs : Unfinished(j)' <=> Unfinished(j)
  BY DEF Unfinished
<1>4. GateInv' /\ JobsAllocated' /\ CompletedBounded'
  BY <1>2, <1>3, GateKeeps, AllocatedBy DEF CompletedBounded
<1>5. PausedIsQuiet'
  BY DEF PausedIsQuiet
<1>6. PlanInv'
  <2>1. InOrder(plan', StepsTo(phase'))
    OBVIOUS
  <2>2. ASSUME to = "running", NEW w \in Tasks PROVE ~Busy(wq', w)
    <3>1. PICK s \in Sensors : HasTask(s) /\ w = TaskOf(s)
      BY DEF Tasks
    <3>2. phase # "running" /\ <<"cancel", s>> \notin ItemsOf(plan)
      <4>1. phase # "running"
        BY <2>2
      <4>2. ItemsOf(plan) = {}
        BY NoSteps
      <4>3. <<"cancel", s>> \notin ItemsOf(plan)
        BY <4>2
      <4> QED
        BY <4>1, <4>3
    <3>3. ~Busy(wq, TaskOf(s))
      BY <3>1, <3>2 DEF PausedIsQuiet
    <3> QED
      BY <3>1, <3>3
  <2> QED
    BY <1>0, <2>1, <2>2 DEF PlanInv
<1>7. CalibrationAlone'
  BY <1>1, <1>2, AloneBy
<1> QED
  BY <1>1, <1>2, <1>4, <1>5, <1>6, <1>7

\* Outside a calibration the ADCs are configured.
LEMMA ConfiguredOutside ==
  ASSUME InductiveInv, plan = <<>>, phase # "calibrating"
  PROVE  samples = "configured" /\ ~Busy(cq, Calibration)
<1>1. samples # "calibration"
  BY DEF InductiveInv, CalibrationInv, HasStep
<1> QED
  BY <1>1 DEF InductiveInv, ReadersInv, TypeOK, CalibrationInv

\* During a calibration, when no call is made, they are not.
LEMMA CalibratesInside ==
  ASSUME InductiveInv, plan = <<>>, phase = "calibrating"
  PROVE  samples = "calibration" /\ \A w \in Tasks : ~Busy(wq, w)
<1>1. samples = "calibration"
  BY DEF InductiveInv, CalibrationInv, HasStep
<1> QED
  BY <1>1 DEF InductiveInv, CalibrationInv

LEMMA WiderOrder ==
  ASSUME NEW p, NEW K, NEW L, InOrder(p, K), K \subseteq L
  PROVE  InOrder(p, L)
  BY DEF InOrder

LEMMA CallsKeep ==
  ASSUME InductiveInv,
         \/ Start \/ Stop \/ Pause \/ Resume \/ StartCalibration \/ StopCalibration
  PROVE  InductiveInv'
<1> USE DEF Call
<1>1. /\ plan = <<>>
      /\ UNCHANGED <<frame, wq, chain, reader, gate, starts, cq, samples, bound, faults, missed>>
  BY DEF Start, Stop, Pause, Resume, StartCalibration, StopCalibration
<1>2. CASE Start \/ Resume
  <2>1. /\ phase' = "running" /\ plan' = ResumeSteps /\ phase \in {"stopped", "paused"}
        /\ starts < MaxStarts
    BY <1>2 DEF Start, Resume
  <2>2. CalibrationInv'
    BY <1>1, <2>1, ConfiguredOutside DEF CalibrationInv
  <2>3. InOrder(ResumeSteps, StepsTo("running"))
    <3>1. {"make readers", "make reader", "schedule"} \subseteq StepsTo("running")
      BY DEF StepsTo
    <3> QED
      BY <3>1, ResumeStepsAre, WiderOrder
  <2> QED
    BY <1>1, <2>1, <2>2, <2>3, ResumeStepsAre, CallKeeps
<1>3. CASE Stop
  <2>1. phase' = "stopped" /\ plan' = StopSteps /\ phase # "calibrating"
    BY <1>3 DEF Stop
  <2>2. CalibrationInv'
    BY <1>1, <2>1, ConfiguredOutside DEF CalibrationInv
  <2>3. InOrder(StopSteps, StepsTo("stopped"))
    BY StopStepsAre, WiderOrder DEF StepsTo
  <2> QED
    BY <1>1, <2>1, <2>2, <2>3, StopStepsAre, CallKeeps
<1>4. CASE Pause
  <2>1. phase' = "paused" /\ plan' = PauseSteps /\ phase # "calibrating"
    BY <1>4 DEF Pause
  <2>2. CalibrationInv'
    BY <1>1, <2>1, ConfiguredOutside DEF CalibrationInv
  <2>3. InOrder(PauseSteps, StepsTo("paused"))
    BY PauseStepsAre, WiderOrder DEF StepsTo
  <2> QED
    BY <1>1, <2>1, <2>2, <2>3, PauseStepsAre, CallKeeps
<1>5. CASE StartCalibration
  <2>1. /\ phase' = "calibrating" /\ plan' = CalibrateSteps
        /\ starts < MaxStarts
    BY <1>5 DEF StartCalibration
  <2>2. HasStep("many samples")'
    <3>1. PICK i \in DOMAIN plan' : plan'[i] = <<"many samples">>
      BY <2>1, CalibrateStepsAre DEF ItemsOf
    <3>2. plan'[i][1] = "many samples"
      BY <3>1, Parts
    <3> QED
      BY <3>2 DEF HasStep
  <2>3. CalibrationInv'
    <3>1. CASE phase = "calibrating"
      <4>1. samples' = "calibration" /\ \A w \in Tasks : ~Busy(wq', w)
        BY <1>1, <3>1, CalibratesInside
      <4> QED
        BY <2>1, <4>1 DEF CalibrationInv
    <3>2. CASE phase # "calibrating"
      BY <1>1, <2>1, <2>2, <3>2, ConfiguredOutside DEF CalibrationInv
    <3> QED
      BY <3>1, <3>2
  <2>4. InOrder(CalibrateSteps, StepsTo("calibrating"))
    BY CalibrateStepsAre, WiderOrder DEF StepsTo
  <2> QED
    BY <1>1, <2>1, <2>3, <2>4, CalibrateStepsAre, CallKeeps
<1>6. CASE StopCalibration
  <2>1. /\ phase' = "running" /\ plan' = EndCalibrationSteps /\ phase = "calibrating"
        /\ starts < MaxStarts
    BY <1>6 DEF StopCalibration, InductiveInv, PlanInv
  <2>2. HasStep("end calibration")' /\ HasStep("reset samples")'
    <3>1. PICK i \in DOMAIN plan' : plan'[i] = <<"end calibration">>
      BY <2>1, EndCalibrationStepsAre DEF ItemsOf
    <3>2. PICK j \in DOMAIN plan' : plan'[j] = <<"reset samples">>
      BY <2>1, EndCalibrationStepsAre DEF ItemsOf
    <3>3. plan'[i][1] = "end calibration" /\ plan'[j][1] = "reset samples"
      BY <3>1, <3>2, Parts
    <3> QED
      BY <3>3 DEF HasStep
  <2>3. CalibrationInv'
    <3>1. samples' = "calibration" /\ \A w \in Tasks : ~Busy(wq', w)
      BY <1>1, <2>1, CalibratesInside
    <3> QED
      BY <2>1, <2>2, <3>1 DEF CalibrationInv
  <2>4. InOrder(EndCalibrationSteps, StepsTo("running"))
    BY EndCalibrationStepsAre, WiderOrder DEF StepsTo
  <2> QED
    BY <1>1, <2>1, <2>3, <2>4, EndCalibrationStepsAre, CallKeeps
<1> QED
  BY <1>2, <1>3, <1>4, <1>5, <1>6

\* What is left of a call when its next step is done.
LEMMA StepTaken ==
  ASSUME InductiveInv, plan # <<>>, plan' = Tail(plan), phase' = phase
  PROVE  /\ plan' \in Seq(Steps) /\ InOrder(plan', StepsTo(phase))
         /\ Head(plan)[1] \in StepsTo(phase) /\ HasStep(Head(plan)[1])
         /\ ItemsOf(plan) = ItemsOf(plan') \cup {Head(plan)}
         /\ \A i \in DOMAIN plan' :
              /\ plan'[i][1] \in StepsTo(phase)
              /\ \/ PlaceOf(Head(plan)[1]) < PlaceOf(plan'[i][1])
                 \/ /\ Head(plan)[1] = plan'[i][1] /\ Head(plan)[1] \in StepsForSensors
                    /\ Head(plan) # plan'[i]
         /\ \A step : HasStep(step) => HasStep(step)' \/ Head(plan)[1] = step
         /\ \A step : HasStep(step)' => HasStep(step)
         /\ Head(plan)[1] # "make readers" => \A s \in Sensors : NotMade(s)' => NotMade(s)
<1>1. plan \in Seq(Steps) /\ InOrder(plan, StepsTo(phase))
  BY DEF InductiveInv, ReadersInv, TypeOK, PlanInv
<1>2. /\ plan' \in Seq(Steps) /\ InOrder(plan', StepsTo(phase))
      /\ ItemsOf(plan) = ItemsOf(plan') \cup {Head(plan)}
      /\ Head(plan)[1] \in StepsTo(phase)
      /\ \A i \in DOMAIN plan' :
           \/ PlaceOf(Head(plan)[1]) < PlaceOf(plan'[i][1])
           \/ /\ Head(plan)[1] = plan'[i][1] /\ Head(plan)[1] \in StepsForSensors
              /\ Head(plan) # plan'[i]
  BY <1>1, InOrderTail
<1>3. \A step : HasStep(step) <=> \E x \in ItemsOf(plan) : x[1] = step
  BY DEF HasStep, ItemsOf
<1>4. \A step : HasStep(step)' <=> \E x \in ItemsOf(plan') : x[1] = step
  BY DEF HasStep, ItemsOf
<1>5. \A i \in DOMAIN plan' : plan'[i][1] \in StepsTo(phase)
  BY <1>2 DEF InOrder
<1>6. /\ \A step : HasStep(step) => HasStep(step)' \/ Head(plan)[1] = step
      /\ \A step : HasStep(step)' => HasStep(step)
  BY <1>2, <1>3, <1>4
<1>7. ASSUME Head(plan)[1] # "make readers", NEW s \in Sensors, NotMade(s)'
      PROVE  NotMade(s)
  <2>1. <<"make reader", s>> \in ItemsOf(plan) /\ ~HasStep("make readers")'
    BY <1>2, <1>7 DEF NotMade
  <2> QED
    BY <1>6, <1>7, <2>1 DEF NotMade
<1>8. HasStep(Head(plan)[1])
  BY <1>2, <1>3
<1> QED
  BY <1>2, <1>5, <1>6, <1>7, <1>8

\* A step of a call that leaves the calibration alone, and makes no task busy but
\* one that it schedules.
LEMMA PlanMoves ==
  ASSUME InductiveInv, plan # <<>>, plan' = Tail(plan), UNCHANGED <<phase, cq, samples>>,
         Head(plan)[1] \notin {"many samples", "reset samples", "end calibration"},
         \/ starts' = starts
         \/ Head(plan)[1] = "make readers",
         \A w \in Tasks : Busy(wq', w) => Busy(wq, w) \/ Head(plan)[1] = "schedule",
         Head(plan)[1] = "cancel" => ~Busy(wq', TaskOf(Head(plan)[2]))
  PROVE  /\ PausedIsQuiet' /\ PlanInv' /\ CalibrationInv'
         /\ Head(plan)[1] # "make readers" => \A s \in Sensors : NotMade(s)' => NotMade(s)
<1> DEFINE head == Head(plan)[1]
<1>1. /\ InOrder(plan', StepsTo(phase)) /\ head \in StepsTo(phase)
      /\ ItemsOf(plan) = ItemsOf(plan') \cup {Head(plan)}
      /\ \A i \in DOMAIN plan' :
           /\ plan'[i][1] \in StepsTo(phase)
           /\ \/ PlaceOf(head) < PlaceOf(plan'[i][1])
              \/ head = plan'[i][1] /\ head \in StepsForSensors
      /\ \A step : HasStep(step) => HasStep(step)' \/ head = step
      /\ \A step : HasStep(step)' => HasStep(step)
  BY StepTaken
<1> HIDE DEF head
<1>2. head = "schedule" => phase = "running"
  BY <1>1 DEF InductiveInv, ReadersInv, TypeOK, StepsTo
<1>3. PausedIsQuiet'
  <2>1. SUFFICES ASSUME phase # "running", NEW s \in Sensors, HasTask(s),
                        <<"cancel", s>> \notin ItemsOf(plan')
                 PROVE  ~Busy(wq', TaskOf(s))
    BY DEF PausedIsQuiet
  <2>2. TaskOf(s) \in Tasks
    BY <2>1 DEF Tasks
  <2>3. CASE <<"cancel", s>> \in ItemsOf(plan)
    <3>1. Head(plan) = <<"cancel", s>>
      BY <1>1, <2>1, <2>3
    <3>2. <<"cancel", s>>[1] = "cancel" /\ <<"cancel", s>>[2] = s
      OBVIOUS
    <3>3. Head(plan)[1] = "cancel" /\ Head(plan)[2] = s
      BY <3>1, <3>2, Zenon
    <3> QED
      BY <3>3
  <2>4. CASE <<"cancel", s>> \notin ItemsOf(plan)
    BY <1>2, <2>1, <2>2, <2>4 DEF InductiveInv, PausedIsQuiet, head
  <2> QED
    BY <2>3, <2>4
<1>4. PlanInv'
  <2>1. HasStep("make readers")' \/ phase = "calibrating" => starts' < MaxStarts
    <3>1. CASE starts' = starts
      BY <1>1, <3>1 DEF InductiveInv, PlanInv
    <3>2. CASE head = "make readers"
      <4>1. phase # "calibrating"
        BY <1>1, <3>2 DEF StepsTo
      <4>2. ~HasStep("make readers")'
        <5>1. ~(PlaceOf("make readers") < PlaceOf("make readers"))
          BY Places
        <5>2. "make readers" \notin StepsForSensors
          BY DEF StepsForSensors
        <5> QED
          BY <1>1, <3>2, <5>1, <5>2 DEF HasStep
      <4> QED
        BY <4>1, <4>2
    <3> QED
      BY <3>1, <3>2 DEF head
  <2>2. ASSUME HasStep("make readers")' \/ HasStep("make reader")', NEW w \in Tasks
        PROVE  ~Busy(wq', w)
    <3>1. HasStep("make readers") \/ HasStep("make reader")
      BY <1>1, <2>2
    <3>2. ~Busy(wq, w)
      BY <3>1 DEF InductiveInv, PlanInv
    <3>3. PICK i \in DOMAIN plan' : plan'[i][1] \in {"make readers", "make reader"}
      BY <2>2 DEF HasStep
    <3>4. head # "schedule"
      <4>1. /\ ~(PlaceOf("schedule") < PlaceOf("make readers"))
            /\ ~(PlaceOf("schedule") < PlaceOf("make reader"))
        BY Places
      <4>2. \/ PlaceOf(head) < PlaceOf(plan'[i][1])
            \/ head = plan'[i][1]
        BY <1>1, <3>3
      <4> QED
        BY <3>3, <4>1, <4>2
    <3> QED
      BY <3>2, <3>4 DEF head
  <2> QED
    BY <1>1, <2>1, <2>2 DEF PlanInv
<1>5. CalibrationInv'
  <2>1. ASSUME samples = "calibration"
        PROVE  /\ phase = "calibrating" \/ (phase = "running" /\ HasStep("reset samples")')
               /\ \A w \in Tasks : ~Busy(wq', w)
    <3>1. CASE phase = "calibrating"
      <4>1. \A w \in Tasks : ~Busy(wq', w)
        BY <1>2, <2>1, <3>1 DEF InductiveInv, CalibrationInv, head
      <4> QED
        BY <3>1, <4>1
    <3>2. CASE phase = "running" /\ HasStep("reset samples")
      <4>1. HasStep("reset samples")'
        BY <1>1, <3>2 DEF head
      <4>2. head # "schedule"
        <5>1. ~(PlaceOf("schedule") < PlaceOf("reset samples"))
          BY Places
        <5>2. PICK i \in DOMAIN plan' : plan'[i][1] = "reset samples"
          BY <4>1 DEF HasStep
        <5>3. \/ PlaceOf(head) < PlaceOf("reset samples")
              \/ head = "reset samples"
          BY <1>1, <5>2
        <5> QED
          BY <5>1, <5>3
      <4> QED
        BY <2>1, <3>2, <4>1, <4>2 DEF InductiveInv, CalibrationInv, head
    <3> QED
      BY <2>1, <3>1, <3>2 DEF InductiveInv, CalibrationInv
  <2>2. phase = "calibrating" /\ ~HasStep("many samples")' => samples = "calibration"
    BY <1>1 DEF InductiveInv, CalibrationInv, head
  <2>3. ASSUME Busy(cq, Calibration)
        PROVE  /\ samples = "calibration"
               /\ phase = "calibrating" \/ (phase = "running" /\ HasStep("end calibration")')
    BY <1>1, <2>3 DEF InductiveInv, CalibrationInv, head
  <2> QED
    BY <2>1, <2>2, <2>3 DEF CalibrationInv
<1> QED
  BY <1>3, <1>4, <1>5, StepTaken

\* A step of a call that leaves the queues alone leaves the chain and the jobs alone.
LEMMA QueueStays ==
  ASSUME InductiveInv, UNCHANGED <<wq, cq, chain>>,
         \/ starts' = starts + 1
         \/ starts' = starts /\ \A s \in Sensors : NotMade(s)' => NotMade(s)
  PROVE  StageInv' /\ QueueInv' /\ JobsAllocated' /\ CompletedBounded'
<1> USE DEF InductiveInv, ReadersInv
<1>1. StageInv'
  BY DEF StageInv
<1>2. ASSUME NEW j \in Jobs, j[3] <= starts /\ (j[3] = starts => ~NotMade(j[2]))
      PROVE  j[3] <= starts' /\ (j[3] = starts' => ~NotMade(j[2])')
  <2>1. j[3] \in Nat /\ starts \in Nat /\ j[2] \in Sensors
    BY Kinds DEF TypeOK
  <2>2. CASE starts' = starts + 1
    <3>1. j[3] <= starts
      BY <1>2
    <3> HIDE DEF InductiveInv, ReadersInv
    <3>2. j[3] <= starts' /\ j[3] # starts'
      BY <2>1, <2>2, <3>1
    <3> QED
      BY <3>2
  <2>3. CASE starts' = starts /\ \A s \in Sensors : NotMade(s)' => NotMade(s)
    <3> HIDE DEF InductiveInv, ReadersInv
    <3> QED
      BY <1>2, <2>1, <2>3, Zenon
  <2> QED
    BY <2>2, <2>3
<1>3. QueueInv'
  BY <1>2 DEF QueueInv
<1>4. JobsAllocated' /\ CompletedBounded'
  BY <1>3, AllocatedBy DEF CompletedBounded
<1> QED
  BY <1>1, <1>3, <1>4

LEMMA DropReadersKeeps ==
  ASSUME InductiveInv, DropReaders
  PROVE  InductiveInv'
<1> USE DEF InductiveInv, ReadersInv
<1>1. /\ plan # <<>> /\ plan' = Tail(plan) /\ Head(plan)[1] = "drop readers"
      /\ reader' = [s \in Sensors |-> 0]
      /\ UNCHANGED <<frame, wq, chain, gate, starts, phase, cq, samples, bound, faults, missed>>
  BY DEF DropReaders, Step, Goes
<1>2. PausedIsQuiet' /\ PlanInv' /\ CalibrationInv'
  BY <1>1, PlanMoves
<1>3. StageInv' /\ QueueInv' /\ JobsAllocated' /\ CompletedBounded'
  BY <1>1, StepTaken, QueueStays
<1>4. TypeOK'
  <2>1. 0 \in 0..MaxStarts
    BY SensorAssumption
  <2>2. reader' \in [Sensors -> 0..MaxStarts]
    BY <1>1, <2>1
  <2> QED
    BY <1>1, <2>2, StepTaken DEF TypeOK
<1>5. GateInv' /\ ReaderInv'
  BY <1>1 DEF GateInv, ReaderInv
<1>6. CalibrationAlone'
  BY <1>2, <1>3, <1>4, AloneBy
<1> QED
  BY <1>2, <1>3, <1>4, <1>5, <1>6

\* No reader is left when they are made again.
LEMMA MakeReadersKeeps ==
  ASSUME InductiveInv, MakeReaders
  PROVE  InductiveInv'
<1> USE DEF InductiveInv, ReadersInv
<1>1. /\ plan # <<>> /\ plan' = Tail(plan) /\ Head(plan)[1] = "make readers"
      /\ starts' = starts + 1 /\ reader' = [s \in Sensors |-> 0]
      /\ UNCHANGED <<frame, wq, chain, gate, phase, cq, samples, bound, faults, missed>>
  BY DEF MakeReaders, Step, Goes
<1>2. PausedIsQuiet' /\ PlanInv' /\ CalibrationInv'
  BY <1>1, PlanMoves
<1>3. StageInv' /\ QueueInv' /\ JobsAllocated' /\ CompletedBounded'
  BY <1>1, StepTaken, QueueStays
<1>4. starts' \in 0..MaxStarts
  <2>1. HasStep("make readers")
    BY <1>1, StepTaken
  <2>2. starts < MaxStarts /\ starts \in 0..MaxStarts /\ MaxStarts \in Nat
    BY <2>1, SensorAssumption DEF PlanInv, TypeOK
  <2>3. starts' = starts + 1
    BY <1>1
  <2> HIDE DEF InductiveInv, ReadersInv
  <2> QED
    BY <2>2, <2>3
<1>5. TypeOK'
  <2>1. reader' \in [Sensors -> 0..MaxStarts]
    <3>1. 0 \in 0..MaxStarts
      BY SensorAssumption
    <3> QED
      BY <1>1, <3>1
  <2> QED
    BY <1>1, <1>4, <2>1, StepTaken DEF TypeOK
<1>6. GateInv' /\ ReaderInv'
  BY <1>1 DEF GateInv, ReaderInv
<1>7. CalibrationAlone'
  BY <1>2, <1>3, <1>5, AloneBy
<1> QED
  BY <1>2, <1>3, <1>5, <1>6, <1>7

LEMMA Pairs ==
  ASSUME NEW S, NEW T, NEW e \in S \X T
  PROVE  e = <<e[1], e[2]>> /\ e[1] \in S /\ e[2] \in T
  OBVIOUS

LEMMA ReaderSteps ==
  ASSUME NEW e \in Steps, e[1] = "make reader"
  PROVE  e[2] \in Sensors /\ HasIsrReader(e[2]) /\ e = <<"make reader", e[2]>>
<1>1. ASSUME NEW step \in PlainSteps PROVE e # <<step>>
  <2>1. step # "make reader"
    BY DEF PlainSteps
  <2>2. <<step>>[1] = step
    OBVIOUS
  <2> QED
    BY <2>1, <2>2, Zenon
<1>2. e \notin {"cancel", "schedule"} \X WithTask
  BY Pairs
<1>3. e \in {"make reader"} \X WithReader
  BY <1>1, <1>2 DEF Steps
<1>4. e = <<e[1], e[2]>> /\ e[2] \in WithReader
  BY <1>3, Pairs, Zenon
<1> QED
  BY <1>4, Zenon DEF WithReader

\* What a step for a reader finds: it is the first for that reader, the loop is under
\* way, no task is busy and the ADCs are configured.
LEMMA ReaderStepIs ==
  ASSUME InductiveInv, MakeReader
  PROVE  /\ Head(plan)[2] \in Sensors /\ HasIsrReader(Head(plan)[2])
         /\ Head(plan) = <<"make reader", Head(plan)[2]>>
         /\ NotMade(Head(plan)[2]) /\ phase = "running"
         /\ \A w \in Tasks : ~Busy(wq, w)
         /\ samples # "calibration" /\ ~Busy(cq, Calibration)
<1>1. plan \in Seq(Steps) /\ plan # <<>> /\ Head(plan)[1] = "make reader"
  BY DEF InductiveInv, ReadersInv, TypeOK, MakeReader, Step
<1>2. InOrder(plan, StepsTo(phase))
  BY DEF InductiveInv, PlanInv
<1>3. /\ ItemsOf(plan) = ItemsOf(Tail(plan)) \cup {Head(plan)}
      /\ Head(plan)[1] \in StepsTo(phase)
      /\ \A i \in DOMAIN Tail(plan) :
           \/ PlaceOf(Head(plan)[1]) < PlaceOf(Tail(plan)[i][1])
           \/ Head(plan)[1] = Tail(plan)[i][1]
  BY <1>1, <1>2, InOrderTail
<1>4. Head(plan) \in Steps
  <2>1. \A S : \A p \in Seq(S) : p # <<>> => Head(p) \in S
    OBVIOUS
  <2> QED
    BY <1>1, <2>1
<1> DEFINE s == Head(plan)[2]
<1>5. s \in Sensors /\ HasIsrReader(s) /\ Head(plan) = <<"make reader", s>>
  BY <1>1, <1>4, ReaderSteps
<1>6. ASSUME NEW x \in ItemsOf(plan)
      PROVE  x[1] \notin {"make readers", "reset samples", "end calibration"}
  <2>1. CASE x = Head(plan)
    BY <1>1, <2>1
  <2>2. CASE x \in ItemsOf(Tail(plan))
    <3>1. PICK i \in DOMAIN Tail(plan) : x = Tail(plan)[i]
      BY <2>2 DEF ItemsOf
    <3>2. PlaceOf("make reader") < PlaceOf(x[1]) \/ "make reader" = x[1]
      BY <1>1, <1>3, <3>1
    <3>3. /\ ~(PlaceOf("make reader") < PlaceOf("make readers"))
          /\ ~(PlaceOf("make reader") < PlaceOf("reset samples"))
          /\ ~(PlaceOf("make reader") < PlaceOf("end calibration"))
      BY DEF PlaceOf
    <3> QED
      BY <3>2, <3>3
  <2> QED
    BY <1>3, <2>1, <2>2
<1>7. ~HasStep("make readers") /\ ~HasStep("reset samples") /\ ~HasStep("end calibration")
  BY <1>6 DEF HasStep, ItemsOf
<1>8. phase = "running"
  BY <1>1, <1>3 DEF StepsTo, InductiveInv, ReadersInv, TypeOK
<1>9. samples # "calibration" /\ ~Busy(cq, Calibration)
  BY <1>7, <1>8 DEF InductiveInv, CalibrationInv
<1>10. \A w \in Tasks : ~Busy(wq, w)
  <2>1. HasStep("make reader")
    <3>1. Head(plan) \in ItemsOf(plan)
      BY <1>3
    <3>2. PICK i \in DOMAIN plan : plan[i] = Head(plan)
      BY <3>1 DEF ItemsOf
    <3> QED
      BY <1>1, <3>2 DEF HasStep
  <2> QED
    BY <2>1 DEF InductiveInv, PlanInv
<1>11. NotMade(s)
  <2>1. <<"make reader", s>> \in ItemsOf(plan)
    BY <1>3, <1>5
  <2> QED
    BY <1>7, <2>1 DEF NotMade
<1> QED
  BY <1>5, <1>8, <1>9, <1>10, <1>11

\* A reader that is made has no frame in work: the jobs there are have older numbers.
LEMMA MakeReaderKeeps ==
  ASSUME InductiveInv, MakeReader
  PROVE  InductiveInv'
<1> USE DEF InductiveInv, ReadersInv
<1>1. PICK s \in Sensors :
      /\ s = Head(plan)[2] /\ HasIsrReader(s) /\ Head(plan) = <<"make reader", s>>
      /\ NotMade(s) /\ phase = "running" /\ \A w \in Tasks : ~Busy(wq, w)
      /\ samples # "calibration" /\ ~Busy(cq, Calibration)
  BY ReaderStepIs
<1>2. /\ plan # <<>> /\ Head(plan)[1] = "make reader"
      /\ UNCHANGED <<frame, wq, chain, starts, cq, samples, bound, faults, missed>>
  BY DEF MakeReader, Step
<1>3. CASE /\ plan' = Tail(plan) /\ phase' = phase
           /\ reader' = [reader EXCEPT ![s] = starts] /\ gate' = [gate EXCEPT ![s] = TRUE]
  <2>1. /\ PausedIsQuiet' /\ PlanInv' /\ CalibrationInv'
        /\ \A t \in Sensors : NotMade(t)' => NotMade(t)
    BY <1>2, <1>3, PlanMoves
  <2>2. StageInv' /\ QueueInv' /\ JobsAllocated' /\ CompletedBounded'
    BY <1>2, <2>1, QueueStays
  <2>3. /\ reader' \in [Sensors -> 0..MaxStarts] /\ gate' \in [Sensors -> BOOLEAN]
        /\ reader'[s] = starts /\ gate'[s]
        /\ \A t \in Sensors \ {s} : reader'[t] = reader[t] /\ gate'[t] = gate[t]
    BY <1>1, <1>3 DEF TypeOK
  <2>4. TypeOK'
    BY <1>2, <1>3, <2>3, StepTaken DEF TypeOK
  <2>5. ~NotMade(s)'
    <3>1. ASSUME NEW i \in DOMAIN plan', plan'[i] = Head(plan) PROVE FALSE
      <4>1. ~(PlaceOf("make reader") < PlaceOf("make reader"))
        BY DEF PlaceOf
      <4>2. PlaceOf(Head(plan)[1]) < PlaceOf(plan'[i][1])
        BY <1>2, <1>3, <3>1, StepTaken
      <4> QED
        BY <1>2, <3>1, <4>1, <4>2, Zenon
    <3>2. <<"make reader", s>> \notin ItemsOf(plan')
      BY <1>1, <3>1 DEF ItemsOf
    <3> QED
      BY <3>2 DEF NotMade
  <2>6. ReaderInv'
    <3>1. starts <= starts /\ starts' = starts
      <4>1. starts \in 0..MaxStarts
        BY DEF TypeOK
      <4>2. starts' = starts
        BY <1>2
      <4> HIDE DEF InductiveInv, ReadersInv
      <4> QED
        BY <4>1, <4>2
    <3>2. reader'[s] # 0 => HasIsrReader(s) /\ reader'[s] <= starts' /\ ~NotMade(s)'
      BY <1>1, <2>3, <2>5, <3>1, Zenon
    <3>3. ASSUME NEW t \in Sensors \ {s}, reader'[t] # 0
          PROVE  HasIsrReader(t) /\ reader'[t] <= starts' /\ ~NotMade(t)'
      BY <2>1, <2>3, <3>1, <3>3 DEF ReaderInv
    <3> QED
      BY <3>2, <3>3 DEF ReaderInv
  <2>7. \A j \in Jobs : Unfinished(j)' <=> Unfinished(j)
    BY <1>2 DEF Unfinished
  <2>8. \A j \in Jobs : Unfinished(j) /\ j[2] = s => j[3] # starts
    BY <1>1, Kinds DEF Unfinished, QueueInv
  <2>9. ASSUME "reader" \notin faults', NEW t \in Sensors, reader'[t] # 0
        PROVE  LET mine == {j \in Jobs : j[2] = t /\ j[3] = reader'[t] /\ Unfinished(j)'}
               IN IF gate'[t] THEN mine = {} ELSE \E j \in Jobs : mine = {j}
    <3>1. CASE t = s
      <4>1. {j \in Jobs : j[2] = t /\ j[3] = reader'[t] /\ Unfinished(j)'} = {}
        BY <2>3, <2>7, <2>8, <3>1
      <4> QED
        BY <2>3, <3>1, <4>1
    <3>2. CASE t # s
      <4>1. {j \in Jobs : j[2] = t /\ j[3] = reader'[t] /\ Unfinished(j)'}
              = {j \in Jobs : j[2] = t /\ j[3] = reader[t] /\ Unfinished(j)}
        BY <2>3, <2>7, <3>2
      <4> QED
        BY <1>2, <2>3, <2>9, <3>2, <4>1 DEF GateInv
    <3> QED
      BY <3>1, <3>2
  <2>10. GateInv'
    BY <2>9 DEF GateInv
  <2>11. CalibrationAlone'
    BY <2>1, <2>2, <2>4, AloneBy
  <2> QED
    BY <2>1, <2>2, <2>4, <2>6, <2>10, <2>11
<1>4. CASE plan' = <<>> /\ phase' = "failed" /\ UNCHANGED <<reader, gate>>
  <2>0. DOMAIN plan' = {}
    BY <1>4, NoSteps
  <2>1. /\ \A step : ~HasStep(step)'
        /\ \A t \in Sensors : ~NotMade(t)'
    BY <2>0 DEF HasStep, NotMade, ItemsOf
  <2>2. PlanInv'
    BY <1>4, <2>0, <2>1 DEF PlanInv, InOrder
  <2>3. PausedIsQuiet'
    BY <1>1, <1>2 DEF PausedIsQuiet, Tasks
  <2>4. CalibrationInv'
    BY <1>1, <1>2, <1>4 DEF CalibrationInv
  <2>5. StageInv' /\ QueueInv' /\ JobsAllocated' /\ CompletedBounded'
    <3>1. starts' = starts /\ \A t \in Sensors : NotMade(t)' => NotMade(t)
      BY <1>2, <2>1
    <3>2. UNCHANGED <<wq, cq, chain>>
      BY <1>2
    <3>3. InductiveInv
      OBVIOUS
    <3> HIDE DEF InductiveInv, ReadersInv
    <3> QED
      BY <3>1, <3>2, <3>3, QueueStays
  <2>6. TypeOK'
    BY <1>2, <1>4, NoSteps DEF TypeOK
  <2>7. GateInv' /\ ReaderInv'
    <3>1. \A j \in Jobs : Unfinished(j)' <=> Unfinished(j)
      BY <1>2 DEF Unfinished
    <3> QED
      <4>0. UNCHANGED <<reader, gate>> /\ faults \subseteq faults' /\ GateInv
        BY <1>2, <1>4
      <4>1. GateInv'
        BY <3>1, <4>0, GateKeeps
      <4>2. reader' = reader /\ starts' = starts
        BY <1>2, <1>4
      <4>3. ReaderInv'
        BY <2>1, <4>2 DEF ReaderInv
      <4> QED
        BY <4>1, <4>3
  <2>8. CalibrationAlone'
    BY <2>4, <2>5, <2>6, AloneBy
  <2> QED
    BY <2>2, <2>3, <2>4, <2>5, <2>6, <2>7, <2>8
<1> QED
  BY <1>1, <1>3, <1>4 DEF MakeReader, Goes

LEMMA ClearReadingsKeeps ==
  ASSUME InductiveInv, ClearReadings
  PROVE  InductiveInv'
<1> USE DEF InductiveInv, ReadersInv
<1>1. /\ plan # <<>> /\ plan' = Tail(plan) /\ Head(plan)[1] = "clear"
      /\ UNCHANGED <<wq, chain, reader, gate, starts, phase, cq, samples, faults, missed>>
  BY DEF ClearReadings, Step, Goes
<1>2. PausedIsQuiet' /\ PlanInv' /\ CalibrationInv'
  BY <1>1, PlanMoves
<1>3. StageInv' /\ QueueInv' /\ JobsAllocated' /\ CompletedBounded'
  BY <1>1, StepTaken, QueueStays
<1>4. TypeOK'
  <2>1. frame' \in Frames
    BY ReadingFields DEF ClearReadings, EmptyFrame, Frames
  <2>2. bound' \in Bindings
    BY Typed DEF ClearReadings, Bindings
  <2> QED
    BY <1>1, <2>1, <2>2, StepTaken DEF TypeOK, Frames, Bindings
<1>5. GateInv' /\ ReaderInv'
  <2>1. \A j \in Jobs : Unfinished(j)' <=> Unfinished(j)
    BY <1>1 DEF Unfinished
  <2>2. GateInv'
    BY <1>1, <2>1, GateKeeps
  <2>3. \A s \in Sensors : NotMade(s)' => NotMade(s)
    BY <1>1, StepTaken
  <2>4. reader' = reader /\ starts' = starts
    BY <1>1
  <2>5. ReaderInv'
    BY <2>3, <2>4 DEF ReaderInv
  <2> QED
    BY <2>2, <2>5
<1>6. CalibrationAlone'
  BY <1>2, <1>3, <1>4, AloneBy
<1> QED
  BY <1>2, <1>3, <1>4, <1>5, <1>6

\* The step for a task names one.
LEMMA TaskStepIs ==
  ASSUME InductiveInv, plan # <<>>, Head(plan)[1] \in {"cancel", "schedule"}
  PROVE  TaskOf(Head(plan)[2]) \in Tasks /\ Head(plan)[2] \in Sensors
<1>1. Head(plan) \in Steps
  <2>1. plan \in Seq(Steps)
    BY DEF InductiveInv, ReadersInv, TypeOK
  <2> QED
    BY <2>1
<1>2. Head(plan)[1] \notin PlainSteps
  BY DEF PlainSteps
<1>3. Head(plan) \in {"cancel", "schedule"} \X WithTask
  <2>1. \A step \in PlainSteps : <<step>>[1] = step
    OBVIOUS
  <2> QED
    BY <1>1, <1>2, <2>1 DEF Steps
<1>4. Head(plan)[2] \in WithTask
  BY <1>3
<1> QED
  BY <1>4 DEF Tasks, WithTask

\* A step of a call that moves tasks in the queue leaves the jobs alone.
LEMMA JobsStay ==
  ASSUME InductiveInv, QueueOk(wq', Tasks \cup Jobs, Jobs),
         \A j \in Jobs : j \in ItemsOf(wq'.fifo) <=> j \in ItemsOf(wq.fifo),
         wq'.running = wq.running, wq'.delayed \subseteq Tasks, wq'.cancelling \subseteq Tasks,
         wq'.tasks = wq.tasks, wq'.completed = wq.completed,
         UNCHANGED <<chain, reader, gate, starts, cq, faults>>,
         \A s \in Sensors : NotMade(s)' => NotMade(s)
  PROVE  /\ StageInv' /\ QueueInv' /\ ReaderInv'
         /\ GateInv' /\ JobsAllocated' /\ CompletedBounded'
<1> USE DEF InductiveInv, ReadersInv
<1>1. StageInv' /\ ReaderInv'
  BY DEF StageInv, ReaderInv
<1>2. QueueInv'
  <2>1. \A j \in Jobs : j[2] \in Sensors
    BY Kinds
  <2> QED
    BY <2>1 DEF QueueInv, QueueOk
<1>3. \A j \in Jobs : Unfinished(j)' <=> Unfinished(j)
  BY DEF Unfinished
<1>4. GateInv'
  BY <1>3, GateKeeps
<1>5. JobsAllocated' /\ CompletedBounded'
  BY <1>2, AllocatedBy DEF CompletedBounded
<1> QED
  BY <1>1, <1>2, <1>4, <1>5

LEMMA ScheduleTaskKeeps ==
  ASSUME InductiveInv, ScheduleTask
  PROVE  InductiveInv'
<1> USE DEF InductiveInv, ReadersInv
<1> DEFINE w == TaskOf(Head(plan)[2])
<1>1. /\ plan # <<>> /\ plan' = Tail(plan) /\ Head(plan)[1] = "schedule"
      /\ wq' = Schedule(wq, w, FALSE)
      /\ UNCHANGED <<frame, chain, reader, gate, starts, phase, cq, samples, bound,
                     faults, missed>>
  BY DEF ScheduleTask, Step, Goes
<1>2. w \in Tasks
  BY <1>1, TaskStepIs
<1> HIDE DEF w
<1>3. wq' = wq \/ wq' = Submit(wq, w)
  BY <1>1 DEF Schedule, After
<1>4. /\ QueueOk(wq', Tasks \cup Jobs, Jobs)
      /\ ItemsOf(wq'.fifo) \in {ItemsOf(wq.fifo), ItemsOf(wq.fifo) \cup {w}}
      /\ wq'.running = wq.running /\ wq'.delayed = wq.delayed
      /\ wq'.cancelling = wq.cancelling /\ wq'.tasks = wq.tasks
      /\ wq'.completed = wq.completed
  BY <1>2, <1>3, QueuesAreOk, SubmitIs
<1>5. /\ StageInv' /\ QueueInv' /\ ReaderInv'
      /\ GateInv' /\ JobsAllocated' /\ CompletedBounded'
  BY <1>1, <1>2, <1>4, StepTaken, Kinds, JobsStay DEF QueueInv
<1>6. PausedIsQuiet' /\ PlanInv' /\ CalibrationInv'
  BY <1>1, PlanMoves
<1>7. TypeOK'
  BY <1>1, <1>4, StepTaken DEF TypeOK, QueueOk
<1>8. CalibrationAlone'
  BY <1>5, <1>6, <1>7, AloneBy
<1> QED
  BY <1>5, <1>6, <1>7, <1>8

\* A task that was not busy when it was cancelled stays so; one that was busy is
\* cancelled again.
LEMMA CancelTaskKeeps ==
  ASSUME InductiveInv, CancelTask
  PROVE  InductiveInv'
<1> USE DEF InductiveInv, ReadersInv
<1> DEFINE w == TaskOf(Head(plan)[2])
<1>1. /\ plan # <<>> /\ Head(plan)[1] = "cancel" /\ ~CancelWaits(wq, w)
      /\ wq' = Cancel(wq, w) /\ missed' \in BOOLEAN
      /\ UNCHANGED <<frame, chain, reader, gate, starts, phase, cq, samples, bound, faults>>
      /\ Busy(wq, w) => plan' = plan
      /\ ~Busy(wq, w) => plan' = Tail(plan)
  BY DEF CancelTask, Step, Goes
<1>2. w \in Tasks
  BY <1>1, TaskStepIs
<1>3. w = TaskOf(Head(plan)[2])
  OBVIOUS
<1> HIDE DEF w
<1>4. /\ QueueOk(wq', Tasks \cup Jobs, Jobs)
      /\ ItemsOf(wq'.fifo) = ItemsOf(wq.fifo) \ {w}
      /\ wq'.running = wq.running /\ wq'.delayed = wq.delayed \ {w}
      /\ wq.running = w => wq'.cancelling = wq.cancelling \cup {w}
      /\ wq.running # w => wq'.cancelling = wq.cancelling
      /\ wq'.tasks = wq.tasks /\ wq'.completed = wq.completed
  BY <1>1, <1>2, QueuesAreOk, CancelIs
<1>5. /\ StageInv' /\ QueueInv' /\ ReaderInv'
      /\ GateInv' /\ JobsAllocated' /\ CompletedBounded'
  <2>1. \A s \in Sensors : NotMade(s)' => NotMade(s)
    <3>1. plan' = plan => \A s \in Sensors : NotMade(s)' => NotMade(s)
      BY DEF NotMade, HasStep
    <3> QED
      BY <1>1, <3>1, StepTaken
  <2> QED
    BY <1>1, <1>2, <1>4, <2>1, Kinds, JobsStay DEF QueueInv
<1>6. \A v \in Tasks : Busy(wq', v) => Busy(wq, v)
  BY <1>4 DEF Busy
<1>7. TypeOK' /\ PausedIsQuiet' /\ PlanInv' /\ CalibrationInv'
  <2>1. CASE Busy(wq, w)
    <3>1. TypeOK'
      BY <1>1, <1>4, <2>1 DEF TypeOK, QueueOk
    <3> QED
      BY <1>1, <1>5, <1>6, <2>1, <3>1, QueueMoves
  <2>2. CASE ~Busy(wq, w)
    <3>1. TypeOK'
      BY <1>1, <1>4, <2>2, StepTaken DEF TypeOK, QueueOk
    <3>2. Head(plan)[1] = "cancel" => ~Busy(wq', TaskOf(Head(plan)[2]))
      BY <1>2, <1>3, <1>6, <2>2
    <3> QED
      BY <1>1, <1>6, <2>2, <3>1, <3>2, PlanMoves
  <2> QED
    BY <2>1, <2>2
<1>8. CalibrationAlone'
  BY <1>5, <1>7, AloneBy
<1> QED
  BY <1>5, <1>7, <1>8

(***************************************************************************)
(* The calibration.                                                        *)
(***************************************************************************)
\* A step of the calibration leaves the work queue and the readers alone.
LEMMA ReadersStay ==
  ASSUME InductiveInv, QueueOk(cq', {Calibration}, {}),
         UNCHANGED <<wq, chain, reader, gate, starts>>, faults \subseteq faults',
         \A s \in Sensors : NotMade(s)' => NotMade(s)
  PROVE  /\ StageInv' /\ QueueInv' /\ ReaderInv'
         /\ GateInv' /\ JobsAllocated' /\ CompletedBounded'
<1> USE DEF InductiveInv, ReadersInv
<1>1. StageInv' /\ ReaderInv'
  BY DEF StageInv, ReaderInv
<1>2. QueueInv'
  <2>1. \A j \in Jobs : j[2] \in Sensors
    BY Kinds
  <2> QED
    BY <2>1 DEF QueueInv, QueueOk
<1>3. \A j \in Jobs : Unfinished(j)' <=> Unfinished(j)
  BY DEF Unfinished
<1>4. GateInv'
  BY <1>3, GateKeeps
<1>5. JobsAllocated' /\ CompletedBounded'
  BY <1>2, AllocatedBy DEF CompletedBounded
<1> QED
  BY <1>1, <1>2, <1>4, <1>5

\* When the ADCs get the samples count of the calibration, every task has been
\* cancelled; when they lose it, the calibration has.
LEMMA UpdateSamplesKeeps ==
  ASSUME InductiveInv, UpdateSamples
  PROVE  InductiveInv'
<1> USE DEF InductiveInv, ReadersInv
<1> DEFINE head == Head(plan)[1]
<1>1. /\ plan # <<>> /\ plan' = Tail(plan)
      /\ UNCHANGED <<frame, wq, chain, reader, gate, starts, phase, cq, bound,
                     faults, missed>>
      /\ \/ head = "many samples" /\ samples' = "calibration"
         \/ head = "reset samples" /\ samples' = "configured"
  BY DEF UpdateSamples, Step, Goes
<1>2. /\ plan' \in Seq(Steps) /\ InOrder(plan', StepsTo(phase)) /\ head \in StepsTo(phase)
      /\ ItemsOf(plan) = ItemsOf(plan') \cup {Head(plan)}
      /\ \A i \in DOMAIN plan' :
           /\ plan'[i][1] \in StepsTo(phase)
           /\ \/ PlaceOf(head) < PlaceOf(plan'[i][1])
              \/ head = plan'[i][1] /\ head \in StepsForSensors
      /\ \A step : HasStep(step) => HasStep(step)' \/ head = step
      /\ \A step : HasStep(step)' => HasStep(step)
  BY <1>1, StepTaken
<1>3. /\ StageInv' /\ QueueInv' /\ ReaderInv'
      /\ GateInv' /\ JobsAllocated' /\ CompletedBounded'
  BY <1>1, StepTaken, QueuesAreOk, ReadersStay
<1> HIDE DEF head
<1>4. TypeOK'
  BY <1>1, <1>2 DEF TypeOK
<1>5. PausedIsQuiet'
  <2>1. Head(plan)[1] # "cancel"
    BY <1>1 DEF head
  <2>2. \A s \in Sensors : <<"cancel", s>> \in ItemsOf(plan) => <<"cancel", s>> \in ItemsOf(plan')
    <3>1. \A s \in Sensors : <<"cancel", s>>[1] = "cancel"
      OBVIOUS
    <3> QED
      BY <1>2, <2>1, <3>1
  <2> QED
    BY <1>1, <2>2 DEF PausedIsQuiet
<1>6. PlanInv'
  BY <1>1, <1>2 DEF PlanInv
<1>7. CASE head = "many samples" /\ samples' = "calibration"
  <2>1. phase = "calibrating"
    BY <1>2, <1>7 DEF TypeOK, StepsTo
  <2>2. \A i \in DOMAIN plan' : plan'[i][1] = "calibrate"
    <3>1. /\ ~(PlaceOf("many samples") < PlaceOf("drop readers"))
          /\ ~(PlaceOf("many samples") < PlaceOf("cancel"))
          /\ ~(PlaceOf("many samples") < PlaceOf("many samples"))
      BY DEF PlaceOf
    <3>2. \A i \in DOMAIN plan' : PlaceOf("many samples") < PlaceOf(plan'[i][1])
      BY <1>2, <1>7 DEF StepsForSensors
    <3>3. \A i \in DOMAIN plan' :
            plan'[i][1] \in {"drop readers", "cancel", "many samples", "calibrate"}
      BY <1>2, <2>1 DEF StepsTo
    <3> QED
      BY <3>1, <3>2, <3>3
  <2>3. ASSUME NEW w \in Tasks PROVE ~Busy(wq', w)
    <3>1. PICK s \in Sensors : HasTask(s) /\ w = TaskOf(s)
      BY DEF Tasks
    <3>2. <<"cancel", s>> \notin ItemsOf(plan')
      <4>1. \A x \in ItemsOf(plan') : x[1] = "calibrate"
        BY <2>2 DEF ItemsOf
      <4>2. <<"cancel", s>>[1] # "calibrate"
        OBVIOUS
      <4> QED
        BY <4>1, <4>2
    <3> QED
      BY <1>1, <1>5, <2>1, <3>1, <3>2 DEF PausedIsQuiet
  <2>4. CalibrationInv'
    BY <1>1, <1>7, <2>1, <2>3 DEF CalibrationInv
  <2> QED
    BY <1>3, <1>4, <1>5, <1>6, <2>4, AloneBy
<1>8. CASE head = "reset samples" /\ samples' = "configured"
  <2>1. phase = "running"
    BY <1>2, <1>8 DEF TypeOK, StepsTo
  <2>2. ~HasStep("end calibration")
    <3>1. ~(PlaceOf("reset samples") < PlaceOf("end calibration"))
      BY DEF PlaceOf
    <3>2. \A i \in DOMAIN plan' : PlaceOf("reset samples") < PlaceOf(plan'[i][1])
      BY <1>2, <1>8 DEF StepsForSensors
    <3>3. ~HasStep("end calibration")'
      BY <3>1, <3>2 DEF HasStep
    <3> QED
      BY <1>2, <1>8, <3>3
  <2>3. ~Busy(cq, Calibration)
    BY <2>1, <2>2 DEF CalibrationInv
  <2>4. CalibrationInv'
    BY <1>1, <1>8, <2>1, <2>3 DEF CalibrationInv
  <2> QED
    BY <1>3, <1>4, <1>5, <1>6, <2>4, AloneBy
<1> QED
  BY <1>1, <1>7, <1>8

LEMMA ScheduleCalibrationKeeps ==
  ASSUME InductiveInv, ScheduleCalibration
  PROVE  InductiveInv'
<1> USE DEF InductiveInv, ReadersInv
<1> DEFINE head == Head(plan)[1]
<1>1. /\ plan # <<>> /\ plan' = Tail(plan) /\ head = "calibrate"
      /\ \E q \in {cq, [EmptyQueue EXCEPT !.running = cq.running]} :
           cq' = Schedule(q, Calibration, FALSE)
      /\ faults' \in {faults, faults \cup {"calibration"}}
      /\ UNCHANGED <<frame, wq, chain, reader, gate, starts, phase, samples, bound, missed>>
  BY DEF ScheduleCalibration, Step, Goes
<1>2. /\ plan' \in Seq(Steps) /\ InOrder(plan', StepsTo(phase)) /\ head \in StepsTo(phase)
      /\ ItemsOf(plan) = ItemsOf(plan') \cup {Head(plan)}
      /\ \A i \in DOMAIN plan' :
           /\ plan'[i][1] \in StepsTo(phase)
           /\ \/ PlaceOf(head) < PlaceOf(plan'[i][1])
              \/ head = plan'[i][1] /\ head \in StepsForSensors
      /\ \A step : HasStep(step) => HasStep(step)' \/ head = step
      /\ \A step : HasStep(step)' => HasStep(step)
  BY <1>1, StepTaken
<1> HIDE DEF head
<1>3. phase = "calibrating"
  BY <1>1, <1>2 DEF TypeOK, StepsTo
<1>4. plan' = <<>>
  <2>1. /\ ~(PlaceOf("calibrate") < PlaceOf("drop readers"))
        /\ ~(PlaceOf("calibrate") < PlaceOf("cancel"))
        /\ ~(PlaceOf("calibrate") < PlaceOf("many samples"))
        /\ ~(PlaceOf("calibrate") < PlaceOf("calibrate"))
    BY DEF PlaceOf
  <2>2. \A i \in DOMAIN plan' : PlaceOf("calibrate") < PlaceOf(plan'[i][1])
    BY <1>1, <1>2 DEF StepsForSensors
  <2>3. \A i \in DOMAIN plan' :
          plan'[i][1] \in {"drop readers", "cancel", "many samples", "calibrate"}
    BY <1>2, <1>3 DEF StepsTo
  <2>4. DOMAIN plan' = {}
    BY <2>1, <2>2, <2>3
  <2>5. plan' \in Seq(Steps)
    BY <1>2
  <2> QED
    BY <2>4, <2>5
<1>5. samples = "calibration"
  <2>1. ~HasStep("many samples")'
    BY <1>4 DEF HasStep
  <2> QED
    BY <1>1, <1>2, <1>3, <2>1 DEF CalibrationInv
<1>6. QueueOk(cq', {Calibration}, {})
  <2>1. PICK q \in {cq, [EmptyQueue EXCEPT !.running = cq.running]} :
          cq' = Schedule(q, Calibration, FALSE)
    BY <1>1
  <2>2. QueueOk(q, {Calibration}, {})
    <3>1. QueueOk(cq, {Calibration}, {})
      BY QueuesAreOk
    <3>2. QueueOk([EmptyQueue EXCEPT !.running = cq.running], {Calibration}, {})
      <4> DEFINE lost == [EmptyQueue EXCEPT !.running = cq.running]
      <4>1. cq.running \in {Calibration} \cup {NoItem}
        BY <3>1 DEF QueueOk, QueueOf
      <4>2. lost.fifo = <<>>
        BY DEF EmptyQueue
      <4>3. lost \in QueueOf({Calibration}, {})
        <5>1. <<>> \in Seq({Calibration})
          OBVIOUS
        <5>2. EmptyQueue \in QueueOf({Calibration}, {})
          BY <5>1 DEF EmptyQueue, QueueOf
        <5> HIDE DEF InductiveInv, ReadersInv
        <5> QED
          BY <4>1, <5>2 DEF QueueOf
      <4>4. Distinct(lost.fifo)
        <5>1. lost.fifo = <<>>
          BY <4>2
        <5> HIDE DEF lost
        <5>2. DOMAIN lost.fifo = {}
          BY <5>1
        <5> QED
          BY <5>2 DEF Distinct
      <4> QED
        BY <4>3, <4>4 DEF QueueOk
    <3> QED
      BY <2>1, <3>1, <3>2
  <2>3. cq' = q \/ cq' = Submit(q, Calibration)
    BY <2>1 DEF Schedule, After
  <2> QED
    BY <2>2, <2>3, SubmitIs
<1>7. /\ StageInv' /\ QueueInv' /\ ReaderInv'
      /\ GateInv' /\ JobsAllocated' /\ CompletedBounded'
  BY <1>1, <1>6, StepTaken, ReadersStay DEF head
<1>8. TypeOK'
  <2>1. faults' \subseteq Faults
    BY <1>1, Typed DEF Faults
  <2> QED
    BY <1>1, <1>2, <1>6, <2>1 DEF TypeOK, QueueOk, Faults
<1>9. PausedIsQuiet'
  <2>1. \A s \in Sensors : <<"cancel", s>> \in ItemsOf(plan) => <<"cancel", s>> \in ItemsOf(plan')
    <3>1. \A s \in Sensors : <<"cancel", s>>[1] = "cancel"
      OBVIOUS
    <3> QED
      BY <1>1, <1>2, <3>1 DEF head
  <2> QED
    BY <1>1, <2>1 DEF PausedIsQuiet
<1>10. PlanInv'
  BY <1>1, <1>2 DEF PlanInv
<1>11. CalibrationInv'
  <2>1. DOMAIN plan' = {}
    BY <1>4
  <2>2. \A w \in Tasks : ~Busy(wq, w)
    BY <1>5 DEF CalibrationInv
  <2> QED
    BY <1>1, <1>3, <1>4, <1>5, <2>1, <2>2 DEF CalibrationInv
<1>12. CalibrationAlone'
  BY <1>7, <1>8, <1>11, AloneBy
<1> QED
  BY <1>7, <1>8, <1>9, <1>10, <1>11, <1>12

\* A queue of the calibration that makes it no busier than it was.
LEMMA CalibrationMoves ==
  ASSUME InductiveInv, QueueOk(cq', {Calibration}, {}),
         Busy(cq', Calibration) => Busy(cq, Calibration),
         UNCHANGED <<frame, wq, chain, reader, gate, starts, plan, phase, samples,
                     bound, faults, missed>>
  PROVE  InductiveInv'
<1> USE DEF InductiveInv, ReadersInv
<1>1. /\ StageInv' /\ QueueInv' /\ ReaderInv'
      /\ GateInv' /\ JobsAllocated' /\ CompletedBounded'
  BY ReadersStay DEF NotMade, HasStep
<1>2. TypeOK'
  BY DEF TypeOK, QueueOk
<1>3. PausedIsQuiet' /\ PlanInv'
  BY DEF PausedIsQuiet, PlanInv, HasStep
<1>4. CalibrationInv'
  BY DEF CalibrationInv, HasStep
<1>5. CalibrationAlone'
  BY <1>1, <1>2, <1>4, AloneBy
<1> QED
  BY <1>1, <1>2, <1>3, <1>4, <1>5

LEMMA CalibrationCancelled ==
  ASSUME InductiveInv
  PROVE  /\ QueueOk(Cancel(cq, Calibration), {Calibration}, {})
         /\ Busy(Cancel(cq, Calibration), Calibration) => Busy(cq, Calibration)
<1> DEFINE c == Cancel(cq, Calibration)
<1>1. /\ QueueOk(c, {Calibration}, {}) /\ ItemsOf(c.fifo) = ItemsOf(cq.fifo) \ {Calibration}
      /\ c.running = cq.running /\ c.delayed = cq.delayed \ {Calibration}
      /\ cq.running = Calibration => c.cancelling = cq.cancelling \cup {Calibration}
      /\ cq.running # Calibration => c.cancelling = cq.cancelling
  BY QueuesAreOk, CancelIs
<1> HIDE DEF c
<1>2. Busy(c, Calibration) => Busy(cq, Calibration)
  BY <1>1 DEF Busy
<1> QED
  BY <1>1, <1>2 DEF c

LEMMA CancelCalibrationKeeps ==
  ASSUME InductiveInv, CancelCalibration
  PROVE  InductiveInv'
<1>1. /\ plan # <<>> /\ Head(plan)[1] = "end calibration"
      /\ cq' = Cancel(cq, Calibration)
      /\ UNCHANGED <<frame, wq, chain, reader, gate, starts, phase, samples, bound,
                     faults, missed>>
      /\ Busy(cq, Calibration) => plan' = plan
      /\ ~Busy(cq, Calibration) => plan' = Tail(plan)
  BY DEF CancelCalibration, Step, Goes
<1>2. /\ QueueOk(cq', {Calibration}, {})
      /\ Busy(cq', Calibration) => Busy(cq, Calibration)
  BY <1>1, CalibrationCancelled
<1>3. CASE Busy(cq, Calibration)
  BY <1>1, <1>2, <1>3, CalibrationMoves
<1>4. CASE ~Busy(cq, Calibration)
  <2> USE DEF InductiveInv, ReadersInv
  <2>1. /\ plan' = Tail(plan) /\ plan' \in Seq(Steps)
        /\ InOrder(plan', StepsTo(phase)) /\ Head(plan)[1] \in StepsTo(phase)
        /\ \A step : HasStep(step) => HasStep(step)' \/ Head(plan)[1] = step
        /\ \A step : HasStep(step)' => HasStep(step)
        /\ \A s \in Sensors : NotMade(s)' => NotMade(s)
    BY <1>1, <1>4, StepTaken
  <2>2. phase = "running"
    BY <1>1, <2>1 DEF TypeOK, StepsTo
  <2>3. /\ StageInv' /\ QueueInv' /\ ReaderInv'
        /\ GateInv' /\ JobsAllocated' /\ CompletedBounded'
    BY <1>1, <1>2, <2>1, ReadersStay
  <2>4. TypeOK'
    BY <1>1, <1>2, <2>1 DEF TypeOK, QueueOk
  <2>5. PausedIsQuiet'
    BY <1>1, <2>2 DEF PausedIsQuiet
  <2>6. PlanInv'
    BY <1>1, <2>1 DEF PlanInv
  <2>7. CalibrationInv'
    BY <1>1, <1>2, <1>4, <2>1, <2>2 DEF CalibrationInv
  <2>8. CalibrationAlone'
    BY <2>3, <2>4, <2>7, AloneBy
  <2> QED
    BY <2>3, <2>4, <2>5, <2>6, <2>7, <2>8
<1> QED
  BY <1>3, <1>4

LEMMA CalibratesKeeps ==
  ASSUME InductiveInv, Calibrates
  PROVE  InductiveInv'
<1>1. UNCHANGED <<frame, wq, chain, reader, gate, starts, plan, phase, samples,
                  bound, faults, missed>>
  BY DEF Calibrates
<1>2. QueueOk(cq, {Calibration}, {})
  BY QueuesAreOk
<1>3. CASE cq.running = NoItem /\ cq.fifo # <<>> /\ cq' = Take(cq)
  <2>1. /\ QueueOk(cq', {Calibration}, {})
        /\ ItemsOf(cq.fifo) = ItemsOf(cq'.fifo) \cup {cq'.running}
        /\ cq'.delayed = cq.delayed /\ cq'.cancelling = cq.cancelling
    BY <1>2, <1>3, TakeIs
  <2>2. Busy(cq', Calibration) => Busy(cq, Calibration)
    BY <2>1 DEF Busy
  <2> QED
    BY <1>1, <2>1, <2>2, CalibrationMoves
<1>4. CASE cq.running = Calibration /\ cq' = Retire(TaskDone(cq, Calibration, TRUE))
  <2>1. Busy(cq, Calibration)
    BY <1>4 DEF Busy
  <2>2. TaskDone(cq, Calibration, TRUE) = Delayed(cq, Calibration)
    <3>1. TaskDone(cq, Calibration, TRUE)
            = [[cq EXCEPT !.delayed = cq.delayed \ {Calibration}]
                EXCEPT !.delayed = (cq.delayed \ {Calibration}) \cup {Calibration}]
      BY <1>2 DEF TaskDone, Reschedule, After, Unscheduled, QueueOk, QueueOf
    <3> QED
      BY <1>2, <3>1 DEF Delayed, QueueOk, QueueOf
  <2>3. QueueOk(Delayed(cq, Calibration), {Calibration}, {})
    BY <1>2, DelayedIs
  <2>4. QueueOk(cq', {Calibration}, {})
    BY <1>4, <2>2, <2>3, RetireIs
  <2> QED
    BY <1>1, <2>1, <2>4, CalibrationMoves
<1>5. CASE Calibration \in cq.delayed /\ cq' = Expire(cq, Calibration)
  <2>1. Busy(cq, Calibration)
    BY <1>5 DEF Busy
  <2>2. QueueOk(cq', {Calibration}, {})
    BY <1>2, <1>5, ExpireIs
  <2> QED
    BY <1>1, <2>1, <2>2, CalibrationMoves
<1> QED
  BY <1>3, <1>4, <1>5 DEF Calibrates

(***************************************************************************)
(* The theorems.                                                           *)
(***************************************************************************)
LEMMA InitInv ==
  ASSUME Init
  PROVE  InductiveInv
<1>1. TypeOK
  <2>1. frame \in Frames
    BY ReadingFields DEF Init, EmptyFrame, Frames
  <2>2. EmptyQueue \in QueueOf(Tasks \cup Jobs, Jobs) /\ EmptyQueue \in QueueOf({Calibration}, {})
    BY DEF EmptyQueue, QueueOf
  <2>3. chain \in Chain
    BY AtIs DEF Init, Idle, Stages
  <2>4. /\ reader \in [Sensors -> 0..MaxStarts] /\ gate \in [Sensors -> BOOLEAN]
        /\ starts \in 0..MaxStarts
        /\ bound \in [Sensors -> {"unbound", "live", "null", "dangling"}]
    BY SensorAssumption DEF Init
  <2>5. plan \in Seq(Steps) /\ faults \subseteq Faults /\ missed \in BOOLEAN
    BY NoSteps DEF Init
  <2> QED
    BY <2>1, <2>2, <2>3, <2>4, <2>5 DEF Init, TypeOK, Frames, Faults
<1>2. /\ wq.running = NoItem /\ ItemsOf(wq.fifo) = {} /\ wq.fifo = <<>>
      /\ wq.delayed = {} /\ wq.cancelling = {} /\ wq.tasks = {} /\ wq.completed = {}
      /\ cq.running = NoItem /\ ItemsOf(cq.fifo) = {} /\ cq.fifo = <<>>
      /\ cq.delayed = {} /\ cq.cancelling = {}
  BY DEF Init, EmptyQueue, ItemsOf
<1>3. chain.stage = "idle" /\ chain.of = NoItem
  BY AtIs DEF Init, Idle, Stages
<1>4. \A w \in Tasks : ~Busy(wq, w)
  BY <1>2, Kinds DEF Busy
<1>5. ~Busy(cq, Calibration)
  BY <1>2 DEF Busy, NoItem, Calibration
<1>6. GateInv /\ ReaderInv
  BY DEF Init, GateInv, ReaderInv
<1>7. StageInv /\ QueueInv
  <2>1. StageInv
    BY <1>2, <1>3 DEF StageInv
  <2>2. Distinct(wq.fifo) /\ Distinct(cq.fifo)
    BY <1>2 DEF Distinct
  <2> QED
    BY <1>2, <2>1, <2>2, Kinds DEF QueueInv
<1>8. JobsAllocated /\ CompletedBounded
  BY <1>2, Kinds DEF JobsAllocated, Allocated, Busy, CompletedBounded
<1>9. PausedIsQuiet
  BY <1>4 DEF PausedIsQuiet, Tasks
<1>10. CalibrationAlone
  BY <1>3, <1>5 DEF CalibrationAlone
<1>11. PlanInv
  BY DEF Init, PlanInv, InOrder, HasStep
<1>12. CalibrationInv
  BY <1>5 DEF Init, CalibrationInv
<1> QED
  BY <1>1, <1>6, <1>7, <1>8, <1>9, <1>10, <1>11, <1>12 DEF InductiveInv, ReadersInv

LEMMA StepKeeps ==
  ASSUME InductiveInv, [Next]_vars
  PROVE  InductiveInv'
<1>1. CASE WorkStep
  BY <1>1, StartItemKeeps, TaskEndsKeeps, JobEndsKeeps, ItemRetiresKeeps, ScriptPutsKeeps,
     ReadKeeps, IsrFrameKeeps, CollectKeeps, FetchKeeps, ScriptKeeps, InterpolateKeeps,
     EvaluateKeeps, MarkProcessedKeeps, GiveKeeps DEF WorkStep
<1>2. CASE CallStep
  BY <1>2, DropReadersKeeps, MakeReadersKeeps, MakeReaderKeeps, ScheduleTaskKeeps, CancelTaskKeeps,
     ClearReadingsKeeps, UpdateSamplesKeeps, ScheduleCalibrationKeeps,
     CancelCalibrationKeeps DEF CallStep
<1>3. CASE Calibrates
  BY <1>3, CalibratesKeeps
<1>4. ASSUME NEW w \in Tasks, TimerExpires(w) PROVE InductiveInv'
  BY <1>4, TimerExpiresKeeps
<1>5. ASSUME NEW s \in Sensors, FrameReceived(s) PROVE InductiveInv'
  BY <1>5, FrameReceivedKeeps
<1>6. CASE Start \/ Stop \/ Pause \/ Resume \/ StartCalibration \/ StopCalibration
  BY <1>6, CallsKeep
<1>7. CASE UNCHANGED vars
  <2>1. UNCHANGED <<frame, wq, chain, reader, gate, starts, plan, phase, cq, samples, bound,
                    faults, missed>>
    BY <1>7 DEF vars
  <2> QED
    BY <2>1, QueuesAreOk, CalibrationMoves
<1> QED
  BY <1>1, <1>2, <1>3, <1>4, <1>5, <1>6, <1>7 DEF Next

\* The inductive invariant holds in every state, for every configuration of sensors
\* that the validators accept and any number of starts.
THEOREM Inductive == Spec => []InductiveInv
<1>1. Init => InductiveInv
  BY InitInv
<1>2. InductiveInv /\ [Next]_vars => InductiveInv'
  BY StepKeeps
<1> QED
  BY <1>1, <1>2, PTL DEF Spec

\* A task that a pause, a stop or the start of a calibration has got past neither
\* runs nor waits to run until the service resumes, for any number of tasks and
\* however their timers, cycles and cancellations interleave.
THEOREM PausedIsQuietHolds == Spec => []PausedIsQuiet
<1>1. InductiveInv => PausedIsQuiet
  BY DEF InductiveInv
<1> QED
  BY <1>1, Inductive, PTL

\* Readers, their semaphores and the jobs of their frames agree at every moment, and
\* no job is freed that the kernel still uses.
THEOREM ReadersInvHolds == Spec => []ReadersInv
<1>1. InductiveInv => ReadersInv
  BY DEF InductiveInv
<1> QED
  BY <1>1, Inductive, PTL

\* The calibration never shares the ADCs with a task, and no task reads with the
\* samples count of a calibration.
THEOREM CalibrationAloneHolds == Spec => []CalibrationAlone
<1>1. InductiveInv => CalibrationAlone
  BY DEF InductiveInv
<1> QED
  BY <1>1, Inductive, PTL

(***************************************************************************)
(* The values.                                                             *)
(***************************************************************************)
\* What the readers find.
LEMMA NewReadingHas ==
  ASSUME NEW s \in Sensors
  PROVE  /\ NewReading(s) \in Reading /\ NewReading(s) # NoReading
         /\ NewReading(s).status \in {"RAW", "UNINITIALIZED"}
         /\ Type[s] = "PHYSICAL_ANALOG" =>
              NewReading(s).status = "RAW" /\ NewReading(s).value.has
<1>1. Type[s] \in SensorType
  BY SensorAssumption
<1>2. MeasuredReading.status = "RAW" /\ MeasuredReading.value.has
  BY DEF MeasuredReading, Fresh
<1>3. RawFrameReading.status = "RAW" /\ VirtualReading.status = "UNINITIALIZED"
  BY DEF RawFrameReading, VirtualReading
<1>4. SignalReading.status = "RAW"
  BY DEF SignalReading, RawFrameReading
<1>5. UserReading(s) \in {MeasuredReading, VirtualReading}
  BY DEF UserReading
<1>6. NewReading(s) \in {MeasuredReading, RawFrameReading, SignalReading, VirtualReading}
      /\ (Type[s] = "PHYSICAL_ANALOG" => NewReading(s) = MeasuredReading)
  <2> HIDE DEF MeasuredReading, RawFrameReading, SignalReading, VirtualReading
  <2>1. CASE Type[s] \in {"PHYSICAL_ANALOG", "PHYSICAL_INDICATOR"}
    BY <2>1 DEF NewReading, CanTypes, UserTypes
  <2>2. CASE Type[s] \in CanTypes
    BY <2>2 DEF NewReading, CanTypes, UserTypes
  <2>3. CASE Type[s] \in UserTypes
    BY <1>5, <2>3 DEF NewReading, UserTypes, CanTypes
  <2>4. CASE Type[s] \in VirtualTypes
    BY <2>4 DEF NewReading, VirtualTypes, UserTypes, CanTypes
  <2>5. \/ Type[s] \in {"PHYSICAL_ANALOG", "PHYSICAL_INDICATOR"}
        \/ Type[s] \in CanTypes \/ Type[s] \in UserTypes \/ Type[s] \in VirtualTypes
    BY <1>1 DEF SensorType
  <2> QED
    BY <2>1, <2>2, <2>3, <2>4, <2>5
<1>7. NoReading.status = "none"
  BY DEF NoReading
<1>8. NewReading(s) # NoReading
  BY <1>2, <1>3, <1>4, <1>6, <1>7
<1> QED
  BY <1>2, <1>3, <1>4, <1>6, <1>8, NewReadingIs

\* The stages behind one: none that acts is passed over.
LEMMA NextStageSkips ==
  ASSUME NEW s \in Sensors,
         chain.stage \in {"read", "collect", "pre", "adc", "expression", "post"}
  PROVE  /\ NextStage(s) \in {"pre", "adc"} => chain.stage \in {"read", "collect", "pre"}
         /\ NextStage(s) = "expression" =>
              /\ chain.stage \in {"read", "collect", "pre", "adc"}
              /\ chain.stage = "adc" \/ Type[s] # "PHYSICAL_ANALOG"
         /\ NextStage(s) \in {"post", "publish"} =>
              chain.stage \in {"expression", "post"} \/ Type[s] = "CANBUS_RAW"
         /\ NextStage(s) # "publish" => Acts(s, NextStage(s))
<1> DEFINE here  == {i \in DOMAIN Processors : Processors[i] = chain.stage}
           later == {i \in DOMAIN Processors :
                       Acts(s, Processors[i]) /\ \A h \in here : h < i}
           k == CHOOSE i \in later : \A j \in later : i <= j
<1>1. /\ DOMAIN Processors = {1, 2, 3, 4} /\ Processors[1] = "pre" /\ Processors[2] = "adc"
      /\ Processors[3] = "expression" /\ Processors[4] = "post"
  BY DEF Processors
<1>2. NextStage(s) = IF later = {} THEN "publish" ELSE Processors[k]
  BY DEF NextStage
<1>3. later # {} => k \in later /\ \A j \in later : k <= j
  <2> SUFFICES ASSUME later # {} PROVE k \in later /\ \A j \in later : k <= j
    OBVIOUS
  <2>1. later \in SUBSET Nat
    BY <1>1
  <2>2. PICK x \in later : \A y \in later : x <= y
    <3> HIDE DEF later
    <3> QED
      BY <2>1, LeastNat
  <2> HIDE DEF later
  <2> QED
    BY <2>2
<1>4. /\ Acts(s, "adc") <=> Type[s] = "PHYSICAL_ANALOG"
      /\ Acts(s, "expression") <=> Type[s] # "CANBUS_RAW"
  BY DEF Acts
<1>5. \A i \in {1, 2, 3, 4} :
        i \in later <=> /\ Acts(s, Processors[i])
                        /\ \A h \in {1, 2, 3, 4} : Processors[h] = chain.stage => h < i
  BY <1>1
<1>6. later \subseteq {1, 2, 3, 4}
  BY <1>1
<1> HIDE DEF later, k
<1>7. /\ 1 \in later <=> Acts(s, "pre") /\ chain.stage \in {"read", "collect"}
      /\ 2 \in later <=> Acts(s, "adc") /\ chain.stage \in {"read", "collect", "pre"}
      /\ 3 \in later <=> Acts(s, "expression")
                         /\ chain.stage \in {"read", "collect", "pre", "adc"}
      /\ 4 \in later <=> Acts(s, "post")
                         /\ chain.stage \in {"read", "collect", "pre", "adc", "expression"}
  BY <1>1, <1>5
<1>8. CASE later = {}
  BY <1>2, <1>4, <1>7, <1>8
<1>9. CASE later # {}
  <2>1. k \in {1, 2, 3, 4} /\ k \in later /\ \A j \in later : k <= j
    BY <1>3, <1>6, <1>9
  <2>2. NextStage(s) = Processors[k]
    BY <1>2, <1>9
  <2>3. CASE k = 1
    BY <1>1, <1>7, <2>1, <2>2, <2>3
  <2>4. CASE k = 2
    BY <1>1, <1>4, <1>7, <2>1, <2>2, <2>4
  <2>5. CASE k = 3
    <3>1. ~(2 <= 1) /\ 2 \notin later
      BY <2>1, <2>5
    <3> QED
      BY <1>1, <1>4, <1>7, <2>1, <2>2, <2>5, <3>1
  <2>6. CASE k = 4
    <3>1. 2 \notin later /\ 3 \notin later
      BY <2>1, <2>6
    <3> QED
      BY <1>1, <1>4, <1>7, <2>1, <2>2, <2>6, <3>1
  <2> QED
    BY <2>1, <2>3, <2>4, <2>5, <2>6
<1> QED
  BY <1>8, <1>9

Put(f, s, r) == AddOrUpdateReadingProcessing(f, s, r)

\* What a reading that is put back does to the frame.
LEMMA PutIs ==
  ASSUME NEW f \in Frames, NEW s \in Sensors, NEW r \in Reading
  PROVE  /\ Put(f, s, r) \in Frames
         /\ \A x \in Sensors :
              /\ Put(f, s, r).isr[x] = IF x = s THEN NoReading ELSE f.isr[x]
              /\ Put(f, s, r).readings[x] = IF x = s THEN r ELSE f.readings[x]
              /\ Put(f, s, r).values[x] =
                   IF x = s /\ r.status = "PROCESSED" /\ r.value.has
                   THEN r.value ELSE f.values[x]
              /\ Put(f, s, r).processed[x] =
                   IF x = s /\ r.status = "PROCESSED" /\ r.value.has
                   THEN r ELSE f.processed[x]
<1> DEFINE g == [f EXCEPT !.isr[s] = NoReading, !.readings[s] = r]
<1>1. /\ g \in Frames
      /\ \A x \in Sensors : /\ g.isr[x] = IF x = s THEN NoReading ELSE f.isr[x]
                            /\ g.readings[x] = IF x = s THEN r ELSE f.readings[x]
                            /\ g.values[x] = f.values[x]
                            /\ g.processed[x] = f.processed[x]
  BY ReadingFields DEF Frames
<1>2. Put(f, s, r) = Publish(g, s, r)
  BY DEF Put, AddOrUpdateReadingProcessing
<1>3. r.value \in Value
  BY ReadingFields
<1> HIDE DEF g
<1>4. CASE r.status = "PROCESSED" /\ r.value.has
  <2> DEFINE h == [g EXCEPT !.values[s] = r.value, !.processed[s] = r]
  <2>1. Put(f, s, r) = h
    BY <1>2, <1>4 DEF Publish
  <2>2. /\ h \in Frames
        /\ \A x \in Sensors : /\ h.isr[x] = g.isr[x] /\ h.readings[x] = g.readings[x]
                              /\ h.values[x] = IF x = s THEN r.value ELSE g.values[x]
                              /\ h.processed[x] = IF x = s THEN r ELSE g.processed[x]
    BY <1>1, <1>3 DEF Frames
  <2> HIDE DEF h
  <2> QED
    BY <1>1, <1>4, <2>1, <2>2
<1>5. CASE ~(r.status = "PROCESSED" /\ r.value.has)
  <2>1. Put(f, s, r) = g
    BY <1>2, <1>5 DEF Publish
  <2> QED
    BY <1>1, <1>5, <2>1
<1> QED
  BY <1>4, <1>5

LEMMA PutHere ==
  ASSUME NEW f \in Frames, NEW s \in Sensors, NEW r \in Reading
  PROVE  Put(f, s, r).readings[s] = r
  BY PutIs

LEMMA PutElsewhere ==
  ASSUME NEW f \in Frames, NEW t \in Sensors, NEW r \in Reading, NEW s \in Sensors \ {t}
  PROVE  /\ Put(f, t, r).readings[s] = f.readings[s]
         /\ Put(f, t, r).processed[s] = f.processed[s]
         /\ Put(f, t, r).values[s] = f.values[s]
  BY PutIs

\* A reading that is put back publishes what is complete, and no value is lost.
LEMMA PutConsistent ==
  ASSUME frame \in Frames, FrameInv, NEW t \in Sensors, NEW r \in Reading,
         Consistent(t, r), frame' = Put(frame, t, r)
  PROVE  /\ FrameInv'
         /\ \A s \in Sensors : Arrived(s) => Arrived(s)'
<1>1. \A s \in Sensors :
        /\ frame'.isr[s] = IF s = t THEN NoReading ELSE frame.isr[s]
        /\ frame'.readings[s] = IF s = t THEN r ELSE frame.readings[s]
        /\ frame'.values[s] = IF s = t /\ r.status = "PROCESSED" /\ r.value.has
                              THEN r.value ELSE frame.values[s]
  BY PutIs
<1>2. \A s \in Sensors : /\ frame'.isr[s] \in {NoReading, frame.isr[s]}
                         /\ frame'.readings[s] = IF s = t THEN r ELSE frame.readings[s]
                         /\ \/ frame'.values[s] = frame.values[s]
                            \/ s = t /\ frame'.values[s] = r.value
                               /\ r.status = "PROCESSED" /\ r.value.has
  BY <1>1
<1>3. ASSUME NEW s \in Sensors
      PROVE  /\ frame'.isr[s] \in {NoReading, NewReading(s)}
             /\ Consistent(s, frame'.readings[s])
             /\ frame'.values[s].has => Complete(s, frame'.values[s])
             /\ Arrived(s) => Arrived(s)'
  <2>1. /\ frame.isr[s] \in {NoReading, NewReading(s)}
        /\ Consistent(s, frame.readings[s])
        /\ frame.values[s].has => Complete(s, frame.values[s])
    BY DEF FrameInv
  <2>2. Consistent(s, frame'.readings[s])
    BY <1>2, <2>1
  <2>3. frame'.values[s].has => Complete(s, frame'.values[s])
    BY <1>2, <2>1 DEF Consistent
  <2> QED
    BY <1>2, <2>1, <2>2, <2>3 DEF Arrived
<1> QED
  BY <1>3 DEF FrameInv, NewReading, UserReading, Complete, Consistent

\* A sensor that a task reads has no frames.
LEMMA TaskOrFrames ==
  ASSUME NEW s \in Sensors, HasIsrReader(s)
  PROVE  ~HasTask(s)
  BY DEF HasIsrReader, HasTask, GetReadingUpdateMethod

\* The readings and the values of the sensors that only tasks make are left alone.
LeavesTasks ==
  \A s \in Sensors : HasTask(s) /\ s \notin InHands =>
    /\ frame'.readings[s] = frame.readings[s]
    /\ frame'.processed[s] = frame.processed[s]
    /\ frame'.values[s] = frame.values[s]

LEMMA PutLeavesTasks ==
  ASSUME frame \in Frames, NEW t \in Sensors, NEW r \in Reading,
         ~HasTask(t) \/ t \in InHands,
         \/ frame' = Put(frame, t, r)
         \/ frame' = AddOrUpdateReadingIsr(frame, t, r) /\ r.status # "PROCESSED"
  PROVE  LeavesTasks
<1>1. CASE frame' = Put(frame, t, r)
  <2>1. \A s \in Sensors \ {t} :
          /\ frame'.readings[s] = frame.readings[s]
          /\ frame'.processed[s] = frame.processed[s]
          /\ frame'.values[s] = frame.values[s]
    BY <1>1, PutElsewhere
  <2> QED
    BY <2>1 DEF LeavesTasks
<1>2. CASE frame' = AddOrUpdateReadingIsr(frame, t, r) /\ r.status # "PROCESSED"
  <2>1. frame' = [frame EXCEPT !.isr[t] = r]
    BY <1>2 DEF AddOrUpdateReadingIsr, Publish
  <2> QED
    BY <2>1 DEF Frames, LeavesTasks
<1> QED
  BY <1>1, <1>2

\* What jobs make is not what a stop has cleared.
LEMMA ClearedStays ==
  ASSUME InductiveInv, ClearedInv, plan' = plan, phase' = phase,
         frame' = frame \/ (wq.running # NoItem /\ (wq.running \in Jobs => LeavesTasks))
  PROVE  ClearedInv'
<1>1. CASE phase = "stopped" /\ plan = <<>> /\ frame' # frame
  <2>1. \A s \in Sensors : HasTask(s) => ~Busy(wq, TaskOf(s))
    BY <1>1 DEF PausedIsQuiet, ItemsOf, InductiveInv
  <2>2. wq.running \notin Tasks
    BY <2>1, Kinds DEF Busy
  <2>3. wq.running \in Jobs
    BY <1>1, <2>2, RunningIs DEF InductiveInv, ReadersInv
  <2>4. LeavesTasks
    BY <1>1, <2>3
  <2> QED
    BY <1>1, <2>4 DEF ClearedInv, StoppedStaysClear, LeavesTasks
<1>2. CASE ~(phase = "stopped" /\ plan = <<>> /\ frame' # frame)
  BY <1>2 DEF ClearedInv, StoppedStaysClear
<1> QED
  BY <1>1, <1>2

\* An expression that has met a missing value has met it before, or for a reason.
NullsExplained ==
  \A s \in Sensors : bound'[s] = "null" =>
    bound[s] = "null" \/ missed' \/ \E i \in Inputs[s] : ~Makes(i)

\* The arrival of values does not depend on more of the item at work than that its
\* sensor has its value when its turn is over.
LEMMA ArrivalStays ==
  ASSUME ArrivalInv, UNCHANGED <<plan, phase>>, missed => missed',
         wq'.fifo = wq.fifo, wq'.running = wq.running, wq'.delayed = wq.delayed,
         wq'.cancelling = wq.cancelling,
         bound' = bound \/ NullsExplained,
         \A s \in Sensors : Arrived(s) => Arrived(s)',
         ~missed' => \A s \in Sensors : Makes(s) /\ Making(s) => Making(s)' \/ Arrived(s)'
  PROVE  ArrivalInv'
<1>1. InputsArrive'
  BY DEF ArrivalInv, InputsArrive, NullsExplained
<1>2. ASSUME ~missed', NEW s \in WithTask
      PROVE  InTurn(s)' /\ (Makes(s) => Delivers(s))'
  <2>1. InTurn(s) /\ (Makes(s) => Delivers(s)) /\ s \in Sensors
    BY <1>2 DEF ArrivalInv, WithTask
  <2>2. \A i \in Inputs[s] : i \in Sensors
    BY <2>1, SensorAssumption
  <2>3. \A i \in Sensors : Makes(i) /\ Making(i) => Making(i)' \/ Arrived(i)'
    BY <1>2
  <2>4. InTurn(s)'
    <3> HIDE DEF Makes
    <3> QED
      BY <2>1, <2>2, <2>3 DEF InTurn
  <2>5. (Makes(s) => Delivers(s))'
    BY <2>1, <2>3 DEF Delivers
  <2> QED
    BY <2>4, <2>5
<1> QED
  BY <1>1, <1>2 DEF ArrivalInv, InputsFirst

\* An item that comes to a stage has fetched nothing there yet.
LEMMA ArrivesAt ==
  ASSUME NEW s \in Sensors, Running(s)', NEW stage, chain' = At(stage),
         stage \in ItemsOf(Processors) => Acts(s, stage),
         stage \in OnTheWay =>
           \/ Reached(s, stage, frame'.readings[s])
           \/ wq'.running \in Jobs /\ frame'.readings[s] = NoReading
  PROVE  ChainInv'
<1>1. /\ chain'.stage = stage /\ ~chain'.fetched /\ chain'.of = NoItem /\ chain'.left = {}
      /\ \A t \in Sensors : chain'.of # <<t>>
  BY DEF At, NoItem
<1>2. ChainOf(s)'
  BY <1>1 DEF ChainOf, Acts, OnTheWay
<1> QED
  BY <1>2 DEF ChainInv, Running

\* What a stage leaves of a reading.
Leaves(s, stage, r) ==
  \/ stage \in {"read", "collect"} /\ r = NewReading(s)
  \/ stage \in {"pre", "post"} /\ Reached(s, stage, r)
  \/ stage = "adc" /\ Reached(s, "expression", r)
  \/ stage = "expression" /\ Reached(s, "post", r)

\* It is what the next stage wants: a stage that is passed over would have done nothing.
LEMMA LeavesReach ==
  ASSUME NEW s \in Sensors, NEW r,
         chain.stage \in {"read", "collect", "pre", "adc", "expression", "post"},
         chain.stage \in ItemsOf(Processors) => Acts(s, chain.stage),
         Leaves(s, chain.stage, r)
  PROVE  Reached(s, NextStage(s), r)
<1>1. NextStage(s) \in {"pre", "adc", "expression", "post", "publish"}
  BY NextStageIs
<1>2. /\ NextStage(s) \in {"pre", "adc"} => chain.stage \in {"read", "collect", "pre"}
      /\ NextStage(s) = "expression" =>
           /\ chain.stage \in {"read", "collect", "pre", "adc"}
           /\ chain.stage = "adc" \/ Type[s] # "PHYSICAL_ANALOG"
      /\ NextStage(s) \in {"post", "publish"} =>
           chain.stage \in {"expression", "post"} \/ Type[s] = "CANBUS_RAW"
  BY NextStageSkips
<1>3. /\ chain.stage = "adc" => Type[s] = "PHYSICAL_ANALOG"
      /\ chain.stage = "expression" => Type[s] # "CANBUS_RAW"
  BY ProcessorItems DEF Acts
<1>4. Reached(s, "pre", NewReading(s))
  BY NewReadingHas DEF Reached, StatusAt
<1> DEFINE n == NextStage(s)
           st == NewReading(s).status
           has == NewReading(s).value.has
<1>5. CASE chain.stage \in {"read", "collect", "pre"}
  <2>1. Reached(s, "pre", r)
    BY <1>4, <1>5 DEF Leaves
  <2>2. r # NoReading /\ r.status = st /\ (has => r.value.has)
    BY <2>1 DEF Reached, StatusAt
  <2>3. \/ n \in {"pre", "adc"}
        \/ n = "expression" /\ Type[s] # "PHYSICAL_ANALOG"
        \/ n \in {"post", "publish"} /\ Type[s] = "CANBUS_RAW"
    BY <1>1, <1>2, <1>5
  <2> HIDE DEF n, st, has
  <2>4. Reached(s, n, r)
    BY <2>2, <2>3 DEF Reached, StatusAt, Passes, Evaluates, st, has
  <2> QED
    BY <2>4 DEF n
<1>6. CASE chain.stage = "adc"
  <2>1. n = "expression"
    BY <1>1, <1>2, <1>3, <1>6
  <2> QED
    BY <1>6, <2>1 DEF Leaves
<1>7. CASE chain.stage \in {"expression", "post"}
  <2>1. n \in {"post", "publish"}
    BY <1>1, <1>2, <1>7
  <2>2. Reached(s, "post", r)
    BY <1>7 DEF Leaves
  <2>3. StatusAt(s, "post") = StatusAt(s, "publish")
    BY DEF StatusAt
  <2> HIDE DEF n
  <2>4. Reached(s, n, r)
    BY <2>1, <2>2, <2>3 DEF Reached
  <2> QED
    BY <2>4 DEF n
<1> QED
  BY <1>5, <1>6, <1>7

LEMMA GoesOn ==
  ASSUME wq' = wq, NEW s \in Sensors, Running(s),
         chain.stage \in {"read", "collect", "pre", "adc", "expression", "post"},
         chain.stage \in ItemsOf(Processors) => Acts(s, chain.stage),
         chain' = At(NextStage(s)),
         \/ Leaves(s, chain.stage, frame'.readings[s])
         \/ wq.running \in Jobs /\ frame'.readings[s] = NoReading
  PROVE  ChainInv'
<1>1. Leaves(s, chain.stage, frame'.readings[s]) => Reached(s, NextStage(s), frame'.readings[s])
  BY LeavesReach
<1>2. NextStage(s) \in ItemsOf(Processors) => Acts(s, NextStage(s))
  BY NextStageSkips, ProcessorItems
<1>3. Running(s)'
  BY DEF Running
<1> HIDE DEF NextStage
<1> QED
  BY <1>1, <1>2, <1>3, ArrivesAt

\* An item at work: it leaves the queue and the calls alone, puts one reading back at
\* most, and has made its value when its turn is over.
LEMMA WorkKeeps ==
  ASSUME InductiveInv, ValuesInductiveInv, wq.running # NoItem,
         UNCHANGED <<wq, plan, phase>>,
         frame' # frame =>
           \E t \in Sensors : \E r \in Reading :
             /\ frame' = Put(frame, t, r) /\ Consistent(t, r)
             /\ wq.running \in Jobs => ~HasTask(t) \/ t \in InHands,
         ChainInv', missed => missed',
         bound' = bound \/ NullsExplained,
         /\ ~missed' /\ wq.running \in Tasks /\ Makes(wq.running[2])
         /\ chain.stage \notin {"done", "retire"}
         => chain'.stage \notin {"done", "retire"} \/ Arrived(wq.running[2])'
  PROVE  ValuesInductiveInv'
<1> USE DEF ValuesInductiveInv
<1>1. FrameInv' /\ \A s \in Sensors : Arrived(s) => Arrived(s)'
  <2>1. CASE frame' = frame
    BY <2>1 DEF FrameInv, Arrived, Consistent, Complete, NewReading, UserReading
  <2>2. CASE frame' # frame
    <3>1. PICK t \in Sensors, r \in Reading : frame' = Put(frame, t, r) /\ Consistent(t, r)
      BY <2>2
    <3>2. frame \in Frames /\ FrameInv
      BY Typed
    <3> QED
      BY <3>1, <3>2, PutConsistent
  <2> QED
    BY <2>1, <2>2
<1>2. ClearedInv'
  <2>1. ASSUME frame' # frame, wq.running \in Jobs PROVE LeavesTasks
    <3>1. PICK t \in Sensors, r \in Reading :
            frame' = Put(frame, t, r) /\ (~HasTask(t) \/ t \in InHands)
      BY <2>1
    <3>2. frame \in Frames
      BY Typed
    <3> QED
      BY <3>1, <3>2, PutLeavesTasks
  <2>2. ClearedInv /\ plan' = plan /\ phase' = phase
    OBVIOUS
  <2>3. frame' = frame \/ (wq.running # NoItem /\ (wq.running \in Jobs => LeavesTasks))
    BY <2>1
  <2> QED
    BY <2>2, <2>3, ClearedStays, Zenon
<1>3. ~missed' => \A s \in Sensors : Makes(s) /\ Making(s) => Making(s)' \/ Arrived(s)'
  <2>1. ASSUME ~missed', NEW s \in Sensors, Makes(s), Making(s)
        PROVE  Making(s)' \/ Arrived(s)'
    <3>1. wq.running = TaskOf(s) /\ wq.running[2] = s
      BY <2>1 DEF Making, TaskOf
    <3>2. wq.running \in Tasks
      BY <3>1, RunningIs, Kinds DEF TaskOf, InductiveInv, ReadersInv
    <3> QED
      BY <2>1, <3>1, <3>2 DEF Making
  <2> QED
    BY <2>1
<1>4. ArrivalInv'
  BY <1>1, <1>3, ArrivalStays
<1> QED
  BY <1>1, <1>2, <1>4

LEMMA RanksAre ==
  /\ Rank("UNINITIALIZED") = 1 /\ Rank("RAW") = 2 /\ Rank("INTERPOLATED") = 3
  /\ Rank("EXPRESSION_EVALUATED") = 4 /\ Rank("PROCESSED") = 5
<1>1. /\ DOMAIN Status = {1, 2, 3, 4, 5}
      /\ Status[1] = "UNINITIALIZED" /\ Status[2] = "RAW" /\ Status[3] = "INTERPOLATED"
      /\ Status[4] = "EXPRESSION_EVALUATED" /\ Status[5] = "PROCESSED"
  BY DEF Status
<1> HIDE DEF Status
<1>2. ASSUME NEW n \in {1, 2, 3, 4, 5} PROVE Rank(Status[n]) = n
  <2>1. \A i \in DOMAIN Status : Status[i] = Status[n] <=> i = n
    BY <1>1
  <2> QED
    BY <1>1, <2>1 DEF Rank
<1> QED
  BY <1>1, <1>2

\* The item at work and its sensor.
LEMMA AtWork ==
  ASSUME InductiveInv, ValuesInductiveInv, NEW s \in Sensors, Running(s)
  PROVE  /\ wq.running # NoItem /\ wq.running[2] = s /\ ChainOf(s)
         /\ wq.running \in Tasks => HasTask(s) /\ wq.running = TaskOf(s)
         /\ wq.running \in Jobs => HasIsrReader(s) /\ ~HasTask(s)
         /\ wq.running \in Tasks \cup Jobs
         /\ FrameInv /\ ArrivalInv
<1>1. wq.running # NoItem /\ wq.running[2] = s
  BY DEF Running
<1>2. wq.running \in Tasks \cup Jobs
  BY <1>1, RunningIs DEF InductiveInv, ReadersInv
<1>3. wq.running \in Tasks => HasTask(s) /\ wq.running = TaskOf(s)
  BY <1>1, Kinds
<1>4. wq.running \in Jobs => HasIsrReader(s) /\ ~HasTask(s)
  BY <1>1, Kinds, TaskOrFrames
<1>5. ChainOf(s)
  BY <1>1 DEF ValuesInductiveInv, ChainInv
<1> QED
  BY <1>1, <1>2, <1>3, <1>4, <1>5 DEF ValuesInductiveInv

LEMMA ReadNow ==
  ASSUME InductiveInv, ValuesInductiveInv, NEW s \in Sensors, Read(s)
  PROVE  ValuesInductiveInv'
<1>1. /\ wq.running # NoItem /\ wq.running \in Tasks /\ chain.stage = "read" /\ Running(s)
      /\ UNCHANGED <<wq, plan, phase, bound, faults>>
  BY DEF Read, Running, StageInv, InductiveInv
<1>2. /\ NewReading(s) \in Reading /\ Consistent(s, NewReading(s))
  BY NewReadingHas DEF Consistent
<1>3. frame \in Frames
  BY Typed
<1>4. "read" \notin ItemsOf(Processors)
  BY ProcessorItems
<1>5. CASE frame' = Put(frame, s, NewReading(s)) /\ chain' = At(NextStage(s))
           /\ missed' = missed
  <2>1. frame'.readings[s] = NewReading(s)
    BY <1>2, <1>3, <1>5, PutHere
  <2>2. ChainInv'
    BY <1>1, <1>4, <1>5, <2>1, GoesOn DEF Leaves
  <2>3. chain'.stage \notin {"done", "retire"}
    BY <1>5, NextStageAt
  <2>4. wq.running \in Jobs => ~HasTask(s)
    BY AtWork, <1>1
  <2> QED
    BY <1>1, <1>2, <1>5, <2>2, <2>3, <2>4, WorkKeeps
<1>6. CASE chain' = At("done") /\ missed' /\ frame' = frame
  <2>1. "done" \notin OnTheWay
    BY ProcessorItems DEF OnTheWay
  <2>2. Running(s)'
    BY <1>1 DEF Running
  <2>3. ChainInv'
    BY <1>6, <2>1, <2>2, ArrivesAt DEF OnTheWay
  <2> QED
    BY <1>1, <1>6, <2>3, WorkKeeps
<1> QED
  BY <1>5, <1>6 DEF Read, Put

LEMMA FetchNow ==
  ASSUME InductiveInv, ValuesInductiveInv, NEW s \in Sensors, Fetch(s)
  PROVE  ValuesInductiveInv'
<1>1. /\ Running(s) /\ ~chain.fetched /\ chain.stage \in OnTheWay
      /\ UNCHANGED <<frame, wq, plan, phase, bound, faults, missed>>
  BY DEF Fetch, OnTheWay
<1>2. ChainOf(s) /\ wq.running # NoItem /\ wq.running[2] = s
  BY <1>1, AtWork
<1>3. chain.stage \in {"pre", "adc", "expression", "post", "publish"}
  BY <1>1, ProcessorItems DEF OnTheWay
<1>4. Running(s)'
  BY <1>1 DEF Running
<1>5. CASE frame.readings[s] # NoReading
  <2> DEFINE left == CASE chain.stage = "pre"  -> PreWrites[s]
                       [] chain.stage = "post" -> PostWrites[s]
                       [] OTHER                -> {}
  <2>1. left \subseteq PreWrites[s] \cup PostWrites[s]
    OBVIOUS
  <2>2. chain' = [chain EXCEPT !.fetched = TRUE, !.local = frame.readings[s], !.left = left]
    BY <1>5 DEF Fetch
  <2> HIDE DEF left
  <2>3. /\ chain'.stage = chain.stage /\ chain'.fetched /\ chain'.local = frame.readings[s]
        /\ chain'.left = left /\ chain'.of = chain.of
    BY <2>2, Typed DEF Chain
  <2>4. Reached(s, chain.stage, frame.readings[s])
    BY <1>1, <1>2, <1>5 DEF ChainOf
  <2>5. chain.of = NoItem /\ \A t \in Sensors : NoItem # <<t>>
    BY <1>1, <1>2 DEF ChainOf, NoItem
  <2>6. ChainOf(s)'
    BY <1>1, <1>2, <1>3, <2>1, <2>3, <2>4, <2>5 DEF ChainOf, OnTheWay, Acts
  <2>7. ChainInv'
    BY <1>1, <1>2, <2>6 DEF ChainInv
  <2> QED
    BY <1>1, <1>2, <2>3, <2>7, WorkKeeps
<1>6. CASE frame.readings[s] = NoReading
  <2>1. ~Reached(s, chain.stage, frame.readings[s])
    BY <1>6 DEF Reached
  <2>2. wq.running \in Jobs /\ wq.running \notin Tasks
    BY <1>1, <1>2, <2>1, Kinds DEF ChainOf
  <2>3. CASE chain.stage = "publish"
    <3>1. chain' = At("sleep")
      BY <1>2, <1>6, <2>2, <2>3, Kinds DEF Fetch, EndStage, IsJob
    <3>2. "sleep" \notin ItemsOf(Processors) \cup {"publish"}
      BY ProcessorItems
    <3>3. ChainInv'
      BY <1>4, <3>1, <3>2, ArrivesAt DEF OnTheWay
    <3> QED
      BY <1>1, <1>2, <2>2, <3>3, WorkKeeps
  <2>4. CASE chain.stage # "publish"
    <3>1. chain' = At(NextStage(s))
      BY <1>6, <2>4 DEF Fetch
    <3>2. chain.stage \in ItemsOf(Processors) => Acts(s, chain.stage)
      BY <1>2 DEF ChainOf
    <3>3. ChainInv'
      BY <1>1, <1>3, <1>6, <2>2, <2>4, <3>1, <3>2, GoesOn
    <3> QED
      BY <1>1, <1>2, <2>2, <3>3, WorkKeeps
  <2> QED
    BY <2>3, <2>4
<1> QED
  BY <1>5, <1>6

LEMMA IsrFrameNow ==
  ASSUME InductiveInv, ValuesInductiveInv, NEW s \in Sensors, IsrFrame(s)
  PROVE  ValuesInductiveInv'
<1>1. /\ Running(s) /\ chain.stage = "frame" /\ missed' = missed /\ bound' = bound
      /\ UNCHANGED <<wq, plan, phase>> /\ plan' = plan /\ phase' = phase
  BY DEF IsrFrame
<1>2. /\ wq.running # NoItem /\ wq.running \in Jobs /\ wq.running \notin Tasks
      /\ FrameInv /\ ArrivalInv /\ ClearedInv /\ ~HasTask(s)
  BY <1>1, AtWork, Kinds DEF InductiveInv, StageInv, ValuesInductiveInv
<1>3. Running(s)'
  BY <1>1 DEF Running
<1>4. "collect" \notin OnTheWay /\ "halted" \notin OnTheWay
  BY ProcessorItems DEF OnTheWay
<1>5. chain' = At("collect") \/ chain' = At("halted")
  BY DEF IsrFrame
<1>6. ChainInv'
  BY <1>3, <1>4, <1>5, ArrivesAt DEF OnTheWay
<1>7. CASE frame' = frame
  BY <1>1, <1>2, <1>6, <1>7, WorkKeeps
<1>8. CASE frame' = AddOrUpdateReadingIsr(frame, s, NewReading(s))
  <2>1. NewReading(s) \in Reading /\ NewReading(s).status # "PROCESSED"
    BY NewReadingHas
  <2>2. frame' = [frame EXCEPT !.isr[s] = NewReading(s)]
    BY <1>8, <2>1 DEF AddOrUpdateReadingIsr, Publish
  <2>3. frame \in Frames
    BY Typed
  <2>4. /\ frame'.readings = frame.readings /\ frame'.values = frame.values
        /\ frame'.isr[s] = NewReading(s)
        /\ \A t \in Sensors \ {s} : frame'.isr[t] = frame.isr[t]
    BY <2>2, <2>3 DEF Frames
  <2>5. FrameInv'
    BY <1>2, <2>4 DEF FrameInv, NewReading, UserReading, Complete, Consistent
  <2>6. LeavesTasks
    BY <1>2, <1>8, <2>1, <2>3, PutLeavesTasks
  <2>7. ClearedInv'
    BY <1>1, <1>2, <2>6, ClearedStays
  <2>8. \A t \in Sensors : ~Making(t)
    BY <1>2, Kinds DEF Making, TaskOf
  <2>9. \A t \in Sensors : Arrived(t) => Arrived(t)'
    BY <2>4 DEF Arrived
  <2>10. ArrivalInv'
    BY <1>1, <1>2, <2>8, <2>9, ArrivalStays
  <2> QED
    BY <1>6, <2>5, <2>7, <2>10 DEF ValuesInductiveInv
<1> QED
  BY <1>7, <1>8 DEF IsrFrame

LEMMA CollectNow ==
  ASSUME InductiveInv, ValuesInductiveInv, NEW s \in Sensors, Collect(s)
  PROVE  ValuesInductiveInv'
<1>1. /\ Running(s) /\ chain.stage = "collect"
      /\ UNCHANGED <<wq, plan, phase, bound, faults, missed>>
  BY DEF Collect
<1>2. /\ wq.running # NoItem /\ wq.running \in Jobs /\ wq.running \notin Tasks
      /\ wq.running[2] = s /\ FrameInv /\ ChainOf(s) /\ ~HasTask(s)
  BY <1>1, AtWork, Kinds DEF InductiveInv, StageInv
<1>3. Running(s)'
  BY <1>1 DEF Running
<1>4. {"collect", "sleep"} \cap OnTheWay = {}
  BY ProcessorItems DEF OnTheWay
<1> DEFINE r == IF chain.fetched THEN chain.local ELSE frame.isr[s]
<1>5. CASE /\ ~chain.fetched /\ r # NoReading
           /\ chain' = [chain EXCEPT !.fetched = TRUE, !.local = r]
           /\ frame' = frame
  <2>1. r = NewReading(s)
    BY <1>2, <1>5 DEF FrameInv
  <2> HIDE DEF r
  <2>2. /\ chain'.stage = "collect" /\ chain'.fetched /\ chain'.local = NewReading(s)
        /\ chain'.left = chain.left /\ chain'.of = chain.of
    BY <1>1, <1>5, <2>1, Typed DEF Chain
  <2>3. chain.of = NoItem /\ \A t \in Sensors : NoItem # <<t>>
    BY <1>2, <1>5 DEF ChainOf, NoItem
  <2>4. ChainOf(s)'
    BY <1>1, <1>2, <1>4, <2>2, <2>3 DEF ChainOf, OnTheWay, NewReading, UserReading
  <2>5. ChainInv'
    BY <1>1, <1>2, <2>4 DEF ChainInv
  <2> QED
    BY <1>1, <1>2, <1>5, <2>5, WorkKeeps
<1>6. CASE chain' = At("sleep") /\ frame' = frame
  <2>1. ChainInv'
    BY <1>3, <1>4, <1>6, ArrivesAt DEF OnTheWay
  <2> QED
    BY <1>1, <1>2, <1>6, <2>1, WorkKeeps
<1>7. CASE chain.fetched /\ frame' = Put(frame, s, r) /\ chain' = At(NextStage(s))
  <2>1. r = NewReading(s)
    BY <1>1, <1>2, <1>7 DEF ChainOf
  <2> HIDE DEF r
  <2>2. r \in Reading /\ Consistent(s, r)
    BY <2>1, NewReadingHas DEF Consistent
  <2>3. frame'.readings[s] = r
    BY <1>7, <2>2, Typed, PutHere
  <2>4. ChainInv'
    BY <1>1, <1>4, <1>7, <2>1, <2>3, GoesOn DEF Leaves, OnTheWay
  <2> QED
    BY <1>1, <1>2, <1>7, <2>2, <2>4, WorkKeeps
<1> QED
  BY <1>5, <1>6, <1>7 DEF Collect, Put

LEMMA ScriptGetsNow ==
  ASSUME InductiveInv, ValuesInductiveInv, NEW s \in Sensors,
         NEW t \in Sensors, ScriptGets(s, t)
  PROVE  ValuesInductiveInv'
<1>1. /\ Running(s) /\ chain.stage \in {"pre", "post"} /\ chain.fetched
      /\ t \in chain.left
      /\ UNCHANGED <<frame, wq, plan, phase, bound, faults, missed>>
  BY DEF ScriptGets, InStage
<1>2. wq.running # NoItem /\ wq.running[2] = s /\ FrameInv /\ ChainOf(s)
  BY <1>1, AtWork
<1> DEFINE of == IF frame.readings[t] = NoReading THEN NoItem ELSE <<t>>
<1>3. chain' = [chain EXCEPT !.left = chain.left \ {t}, !.local = frame.readings[t], !.of = of]
  BY DEF ScriptGets
<1> HIDE DEF of
<1>4. /\ chain'.stage = chain.stage /\ chain'.fetched = chain.fetched
      /\ chain'.local = frame.readings[t] /\ chain'.left = chain.left \ {t} /\ chain'.of = of
  BY <1>3, Typed DEF Chain
<1>5. t \in PreWrites[s] \cup PostWrites[s] /\ Consistent(t, frame.readings[t])
  BY <1>1, <1>2 DEF ChainOf, FrameInv
<1>6. \A x \in Sensors : of = <<x>> => x = t /\ frame.readings[t] # NoReading
  BY DEF of, NoItem
<1>7. ASSUME frame.readings[s] # NoReading PROVE Reached(s, chain.stage, frame.readings[s])
  BY <1>1, <1>2, <1>7, ProcessorItems DEF ChainOf, OnTheWay
<1>8. ChainOf(s)'
  <2>1. \A x \in Sensors : chain'.of = <<x>> =>
          /\ x \in PreWrites[s] \cup PostWrites[s]
          /\ Consistent(x, chain'.local)
          /\ x = s => Reached(s, chain'.stage, chain'.local)
    BY <1>4, <1>5, <1>6, <1>7
  <2> QED
    BY <1>1, <1>2, <1>4, <2>1 DEF ChainOf, Acts, Consistent, Complete, OnTheWay, Reached,
       StatusAt, NewReading, UserReading
<1>9. ChainInv'
  BY <1>1, <1>2, <1>8 DEF ChainInv
<1> QED
  BY <1>1, <1>2, <1>4, <1>9, WorkKeeps

LEMMA ScriptReturnsNow ==
  ASSUME InductiveInv, ValuesInductiveInv, NEW s \in Sensors,
         ScriptReturns(s)
  PROVE  ValuesInductiveInv'
<1>1. /\ Running(s) /\ chain.stage \in {"pre", "post"} /\ chain' = At(NextStage(s))
      /\ UNCHANGED <<frame, wq, plan, phase, bound, faults, missed>>
  BY DEF ScriptReturns, InStage
<1>2. wq.running # NoItem /\ ChainOf(s)
  BY <1>1, AtWork
<1>3. /\ chain.stage \in ItemsOf(Processors) => Acts(s, chain.stage)
      /\ \/ Leaves(s, chain.stage, frame'.readings[s])
         \/ wq.running \in Jobs /\ frame'.readings[s] = NoReading
  BY <1>1, <1>2, ProcessorItems DEF ChainOf, OnTheWay, Leaves
<1>4. ChainInv'
  BY <1>1, <1>3, GoesOn
<1>5. chain'.stage \notin {"done", "retire"}
  BY <1>1, NextStageAt
<1> QED
  BY <1>1, <1>2, <1>4, <1>5, WorkKeeps

LEMMA ScriptPutsNow ==
  ASSUME InductiveInv, ValuesInductiveInv, ScriptPuts
  PROVE  ValuesInductiveInv'
<1>1. /\ chain.of # NoItem
      /\ frame' = Put(frame, chain.of[1], [chain.local EXCEPT !.value.has = TRUE])
      /\ chain' = [chain EXCEPT !.of = NoItem]
      /\ UNCHANGED <<wq, plan, phase, bound, faults, missed>>
  BY DEF ScriptPuts, Put
<1>2. /\ chain.stage \in {"pre", "post"} /\ chain.local # NoReading /\ wq.running # NoItem
      /\ chain.local \in Reading
  BY <1>1, Typed DEF InductiveInv, StageInv, Chain
<1>3. PICK s \in Sensors : Running(s)
  BY <1>2, RunningIs, Kinds DEF Running, InductiveInv, ReadersInv
<1>4. /\ wq.running[2] = s /\ FrameInv /\ ChainOf(s)
      /\ wq.running \in Jobs => HasIsrReader(s)
  BY <1>3, AtWork
<1>5. PICK t \in Sensors : chain.of = <<t>>
  BY <1>1, Typed DEF Chain
<1> DEFINE r == [chain.local EXCEPT !.value.has = TRUE]
<1>6. /\ r \in Reading /\ r.status = chain.local.status /\ r.value.has
      /\ r.value.done = chain.local.value.done /\ r # NoReading
  <2>1. r \in Reading
    BY <1>2, MadeReadings, <1>5
  <2>2. chain.local \in [status : ItemsOf(Status), value : Value]
    BY <1>2 DEF Reading
  <2>3. /\ r.status = chain.local.status /\ r.value.has
        /\ r.value.done = chain.local.value.done
    BY <2>2 DEF Value
  <2>4. r # NoReading
    BY <2>3 DEF NoReading, NoValue
  <2> QED
    BY <2>1, <2>3, <2>4
<1> HIDE DEF r
<1>7. frame' = Put(frame, t, r)
  BY <1>1, <1>5 DEF r
<1>8. Consistent(t, chain.local) /\ t \in PreWrites[s] \cup PostWrites[s]
  BY <1>4, <1>5 DEF ChainOf
<1>9. Consistent(t, r)
  BY <1>6, <1>8 DEF Consistent, Complete
<1>10. wq.running \in Jobs => t \in InHands
  BY <1>3, <1>4, <1>8 DEF InHands
<1>11. /\ chain'.stage = chain.stage /\ chain'.left = chain.left /\ chain'.of = NoItem
       /\ \A x \in Sensors : NoItem # <<x>>
  BY <1>1, Typed DEF Chain, NoItem
<1>12. \/ Reached(s, chain.stage, frame'.readings[s])
       \/ wq.running \in Jobs /\ frame'.readings[s] = NoReading
  <2>1. CASE t = s
    <3>1. frame'.readings[s] = r
      BY <1>6, <1>7, <2>1, Typed, PutHere
    <3>2. Reached(s, chain.stage, chain.local)
      BY <1>4, <1>5, <2>1 DEF ChainOf
    <3> QED
      BY <1>6, <3>1, <3>2 DEF Reached
  <2>2. CASE t # s
    <3>1. frame'.readings[s] = frame.readings[s]
      BY <1>6, <1>7, <2>2, Typed, PutElsewhere
    <3> QED
      BY <1>2, <1>4, <3>1, ProcessorItems DEF ChainOf, OnTheWay
  <2> QED
    BY <2>1, <2>2
<1>13. ChainOf(s)'
  BY <1>1, <1>2, <1>4, <1>11, <1>12 DEF ChainOf, Acts, OnTheWay
<1>14. ChainInv'
  BY <1>1, <1>4, <1>13 DEF ChainInv
<1> QED
  BY <1>1, <1>2, <1>6, <1>7, <1>9, <1>10, <1>11, <1>14, WorkKeeps

LEMMA InterpolateNow ==
  ASSUME InductiveInv, ValuesInductiveInv, NEW s \in Sensors,
         Interpolate(s)
  PROVE  ValuesInductiveInv'
<1> DEFINE r == [status |-> "INTERPOLATED", value |-> Did(chain.local.value, "interpolated")]
<1>1. /\ Running(s) /\ chain.stage = "adc" /\ chain.fetched /\ chain' = At(NextStage(s))
      /\ chain.local.status = "RAW" => frame' = Put(frame, s, r)
      /\ UNCHANGED <<wq, plan, phase, bound, faults, missed>>
  BY DEF Interpolate, InStage, Put
<1>2. /\ wq.running # NoItem /\ ChainOf(s) /\ chain.local \in Reading
      /\ wq.running \in Jobs => ~HasTask(s)
  BY <1>1, AtWork, Typed DEF Chain
<1>3. /\ chain.stage \in ItemsOf(Processors) => Acts(s, chain.stage)
      /\ Type[s] = "PHYSICAL_ANALOG"
  BY <1>1, <1>2, ProcessorItems DEF ChainOf, Acts
<1>4. Reached(s, "adc", chain.local)
  BY <1>1, <1>2, ProcessorItems DEF ChainOf, OnTheWay
<1>5. chain.local.status = "RAW"
  BY <1>3, <1>4, NewReadingHas DEF Reached, StatusAt
<1>6. r \in Reading
  BY <1>2, MadeReadings
<1>7. Consistent(s, r)
  BY DEF Consistent
<1>8. Reached(s, "expression", r)
  <2>1. r.value.has /\ "interpolated" \in r.value.done
    BY DEF Did
  <2>2. r # NoReading
    BY DEF NoReading
  <2>3. r.status = "INTERPOLATED"
    OBVIOUS
  <2> HIDE DEF r
  <2> QED
    BY <1>3, <2>1, <2>2, <2>3 DEF Reached, StatusAt
<1> HIDE DEF r
<1>9. frame' = Put(frame, s, r) /\ frame'.readings[s] = r
  BY <1>1, <1>5, <1>6, Typed, PutHere
<1>10. ChainInv'
  BY <1>1, <1>3, <1>8, <1>9, GoesOn DEF Leaves
<1>11. chain'.stage \notin {"done", "retire"}
  BY <1>1, NextStageAt
<1> QED
  BY <1>1, <1>2, <1>6, <1>7, <1>9, <1>10, <1>11, WorkKeeps

\* An expression that can be evaluated finds the values that tasks make.
LEMMA InputsFound ==
  ASSUME InductiveInv, ValuesInductiveInv, NEW s \in Sensors, Running(s), ~missed,
         ~Unreachable(s), Binding(s) = "null"
  PROVE  bound[s] = "null" \/ \E i \in Inputs[s] : ~Makes(i)
<1> SUFFICES ASSUME bound[s] # "null", \A i \in Inputs[s] : Makes(i) PROVE FALSE
  OBVIOUS
<1>1. ASSUME NEW i \in Inputs[s] PROVE frame.values[i].has
  <2>1. HasTask(s) /\ i \in Sensors
    BY SensorAssumption DEF Unreachable
  <2>2. wq.running = TaskOf(s)
    BY <2>1, AtWork, RunningIs, Kinds DEF InductiveInv, ReadersInv
  <2>3. InTurn(s)
    BY <2>1 DEF ValuesInductiveInv, ArrivalInv, WithTask
  <2> QED
    BY <2>1, <2>2, <2>3 DEF InTurn, Arrived
<1> QED
  BY <1>1 DEF Binding

\* An expression that can be evaluated gives a reading what comes behind it asks for.
LEMMA EvaluatedNow ==
  ASSUME InductiveInv, ValuesInductiveInv, NEW s \in Sensors,
         Evaluate(s), Evaluable(s, chain.local), ~Unreachable(s)
  PROVE  ValuesInductiveInv'
<1>1. /\ Running(s) /\ chain.stage = "expression" /\ chain.fetched
      /\ UNCHANGED <<wq, plan, phase, missed>>
  BY DEF Evaluate, InStage
<1>2. /\ wq.running # NoItem /\ ChainOf(s) /\ chain.local \in Reading
      /\ wq.running \in Jobs => ~HasTask(s)
  BY <1>1, AtWork, Typed DEF Chain
<1>3. /\ chain.stage \in ItemsOf(Processors) => Acts(s, chain.stage)
      /\ Type[s] # "CANBUS_RAW"
  BY <1>1, <1>2, ProcessorItems DEF ChainOf, Acts
<1>4. Reached(s, "expression", chain.local)
  BY <1>1, <1>2, ProcessorItems DEF ChainOf, OnTheWay
<1>5. /\ NewReading(s).value.has => chain.local.value.has
      /\ Type[s] = "PHYSICAL_ANALOG" => "interpolated" \in chain.local.value.done
  BY <1>4 DEF Reached
<1> DEFINE r   == Evaluated(s, chain.local)
           b   == IF s \in Formula THEN Binding(s) ELSE bound[s]
<1>6. /\ bound' = [bound EXCEPT ![s] = b]
      /\ \/ frame' = Put(frame, s, r) /\ chain' = At(NextStage(s))
         \/ frame' = frame /\ chain' = At("halted")
  BY DEF Evaluate, Put
<1>7. NullsExplained
  <2>1. missed \/ (b = "null" => bound[s] = "null" \/ \E i \in Inputs[s] : ~Makes(i))
    BY <1>1, InputsFound
  <2> HIDE DEF b
  <2>2. \A t \in Sensors : bound'[t] = IF t = s THEN b ELSE bound[t]
    BY <1>6, Typed DEF Bindings
  <2> QED
    BY <1>1, <2>1, <2>2 DEF NullsExplained
<1>8. /\ r \in Reading /\ Consistent(s, r)
  <2>1. r \in Reading
    BY <1>2, MadeReadings
  <2> QED
    BY <2>1 DEF Consistent, Evaluated
<1>9. Reached(s, "post", r)
  <2>1. r.status = "EXPRESSION_EVALUATED"
    BY DEF Evaluated
  <2>2. NewReading(s).value.has => r.value.has
    BY <1>5 DEF Evaluated, Did
  <2>3. Type[s] = "PHYSICAL_ANALOG" => "interpolated" \in r.value.done
    BY <1>5 DEF Evaluated, Did
  <2>4. Evaluates(s) => r.value.has /\ "evaluated" \in r.value.done
    BY DEF Evaluated, Evaluates, Did
  <2>5. r # NoReading
    BY <2>1 DEF NoReading
  <2> HIDE DEF r
  <2> QED
    BY <1>3, <2>1, <2>2, <2>3, <2>4, <2>5 DEF Reached, StatusAt
<1> HIDE DEF r, b
<1>10. CASE frame' = Put(frame, s, r) /\ chain' = At(NextStage(s))
  <2>1. frame'.readings[s] = r
    BY <1>8, <1>10, Typed, PutHere
  <2>2. ChainInv'
    BY <1>1, <1>3, <1>9, <1>10, <2>1, GoesOn DEF Leaves
  <2>3. chain'.stage \notin {"done", "retire"}
    BY <1>10, NextStageAt
  <2> QED
    BY <1>1, <1>2, <1>7, <1>8, <1>10, <2>2, <2>3, WorkKeeps
<1>11. CASE frame' = frame /\ chain' = At("halted")
  <2>1. "halted" \notin OnTheWay
    BY ProcessorItems DEF OnTheWay
  <2>2. Running(s)'
    BY <1>1 DEF Running
  <2>3. ChainInv'
    BY <1>11, <2>1, <2>2, ArrivesAt DEF OnTheWay
  <2>4. chain'.stage = "halted"
    BY <1>11 DEF At
  <2> QED
    BY <1>1, <1>2, <1>7, <1>11, <2>3, <2>4, WorkKeeps
<1> QED
  BY <1>6, <1>10, <1>11

LEMMA EvaluateNow ==
  ASSUME InductiveInv, ValuesInductiveInv, NEW s \in Sensors,
         Evaluate(s)
  PROVE  ValuesInductiveInv'
<1>1. /\ Running(s) /\ chain.stage = "expression" /\ chain.fetched
      /\ UNCHANGED <<wq, plan, phase, missed>>
  BY DEF Evaluate, InStage
<1>2. /\ wq.running # NoItem /\ ChainOf(s) /\ chain.local \in Reading
      /\ wq.running \in Jobs => ~HasTask(s)
  BY <1>1, AtWork, Typed DEF Chain
<1>3. /\ chain.stage \in ItemsOf(Processors) => Acts(s, chain.stage)
      /\ Type[s] # "CANBUS_RAW"
  BY <1>1, <1>2, ProcessorItems DEF ChainOf, Acts
<1>4. Reached(s, "expression", chain.local)
  BY <1>1, <1>2, ProcessorItems DEF ChainOf, OnTheWay
<1>5. /\ chain.local.status \in {"UNINITIALIZED", "RAW", "INTERPOLATED"}
      /\ NewReading(s).value.has => chain.local.value.has
      /\ Type[s] = "PHYSICAL_ANALOG" => "interpolated" \in chain.local.value.done
  BY <1>4, NewReadingHas DEF Reached, StatusAt
<1>6. ~Evaluable(s, chain.local) => ~Passes(s)
  <2>1. Rank(chain.local.status) <= Rank("INTERPOLATED")
    BY <1>5, RanksAre
  <2> QED
    BY <1>5, <2>1 DEF Evaluable, Passes
<1>7. "halted" \notin OnTheWay /\ Running(s)' /\ At("halted").stage = "halted"
  BY <1>1, ProcessorItems DEF OnTheWay, Running, At
<1>8. NextStage(s) \notin {"done", "retire"} /\ At(NextStage(s)).stage = NextStage(s)
  BY NextStageIs DEF At
<1>9. CASE ~Evaluable(s, chain.local)
  <2>1. frame' = frame /\ bound' = bound /\ chain' = At(NextStage(s))
    BY <1>9 DEF Evaluate
  <2>2. \/ Reached(s, "expression", frame.readings[s])
        \/ wq.running \in Jobs /\ frame.readings[s] = NoReading
    BY <1>1, <1>2, ProcessorItems DEF ChainOf, OnTheWay
  <2>3. ~Passes(s) /\ Type[s] # "PHYSICAL_ANALOG"
    BY <1>6, <1>9, NewReadingHas DEF Passes
  <2>4. ASSUME Reached(s, "expression", frame.readings[s])
        PROVE  Reached(s, "post", frame.readings[s])
    BY <2>3, <2>4 DEF Reached, StatusAt, Evaluates
  <2>5. ChainInv'
    BY <1>1, <1>3, <2>1, <2>2, <2>4, GoesOn DEF Leaves
  <2> QED
    BY <1>1, <1>2, <1>8, <2>1, <2>5, WorkKeeps
<1>10. CASE Evaluable(s, chain.local) /\ Unreachable(s)
  <2>1. frame' = frame /\ bound' = bound /\ chain' = At("halted")
    BY <1>10 DEF Evaluate
  <2>2. ChainInv'
    BY <1>7, <2>1, ArrivesAt DEF OnTheWay
  <2> QED
    BY <1>1, <1>2, <1>7, <2>1, <2>2, WorkKeeps
<1>11. CASE Evaluable(s, chain.local) /\ ~Unreachable(s)
  BY <1>11, EvaluatedNow
<1> QED
  BY <1>9, <1>10, <1>11

LEMMA MarkProcessedNow ==
  ASSUME InductiveInv, ValuesInductiveInv, NEW s \in Sensors,
         MarkProcessed(s)
  PROVE  ValuesInductiveInv'
<1> DEFINE r == [chain.local EXCEPT !.status = "PROCESSED"]
<1>1. /\ Running(s) /\ chain.stage = "publish" /\ chain.fetched /\ chain' = At(EndStage)
      /\ Rank(chain.local.status) < Rank("PROCESSED") => frame' = Put(frame, s, r)
      /\ UNCHANGED <<wq, plan, phase, bound, faults, missed>>
  BY DEF MarkProcessed, InStage, Put
<1>2. /\ wq.running # NoItem /\ ChainOf(s) /\ chain.local \in Reading
      /\ wq.running \in Tasks => HasTask(s) /\ wq.running[2] = s
      /\ wq.running \in Jobs => ~HasTask(s)
  BY <1>1, AtWork, Typed DEF Chain
<1>3. Reached(s, "publish", chain.local)
  BY <1>1, <1>2, ProcessorItems DEF ChainOf, OnTheWay
<1>4. chain.local.status \in {"UNINITIALIZED", "RAW", "EXPRESSION_EVALUATED"}
  BY <1>3, NewReadingHas DEF Reached, StatusAt
<1>5. Rank(chain.local.status) < Rank("PROCESSED")
  BY <1>4, RanksAre
<1>6. r \in Reading /\ r.status = "PROCESSED" /\ r.value = chain.local.value
  <2>1. r \in Reading
    BY <1>2, MadeReadings
  <2>2. chain.local \in [status : ItemsOf(Status), value : Value]
    BY <1>2, <1>3 DEF Reading, Reached
  <2> QED
    BY <2>1, <2>2
<1>7. Complete(s, r.value)
  BY <1>3, <1>6 DEF Complete, Reached
<1>8. Makes(s) => r.value.has
  BY <1>3, <1>6 DEF Reached, Makes
<1> HIDE DEF r
<1>9. frame' = Put(frame, s, r) /\ Consistent(s, r)
  BY <1>1, <1>5, <1>7 DEF Consistent
<1>10. Makes(s) => frame'.values[s].has
  <2>1. frame'.values[s] = IF r.status = "PROCESSED" /\ r.value.has
                           THEN r.value ELSE frame.values[s]
    BY <1>6, <1>9, Typed, PutIs
  <2> QED
    BY <1>6, <1>8, <2>1
<1>11. ChainInv'
  <2>1. EndStage \in {"sleep", "done"}
    BY DEF EndStage
  <2>2. EndStage \notin OnTheWay
    BY <2>1, ProcessorItems DEF OnTheWay
  <2>3. Running(s)'
    BY <1>1 DEF Running
  <2> HIDE DEF EndStage
  <2> QED
    BY <1>1, <2>2, <2>3, ArrivesAt DEF OnTheWay
<1> QED
  BY <1>1, <1>2, <1>6, <1>9, <1>10, <1>11, WorkKeeps DEF Arrived

LEMMA GiveNow ==
  ASSUME InductiveInv, ValuesInductiveInv, NEW s \in Sensors, Give(s)
  PROVE  ValuesInductiveInv'
<1>1. /\ Running(s) /\ chain.stage = "sleep" /\ frame' = frame /\ missed' = missed
      /\ bound' = bound /\ UNCHANGED <<wq, plan, phase>>
      /\ chain' = At("done") \/ chain' = At("halted")
  BY DEF Give
<1>2. wq.running # NoItem /\ wq.running \notin Tasks
  BY <1>1, AtWork, Kinds DEF InductiveInv, StageInv
<1>3. "done" \notin OnTheWay /\ "halted" \notin OnTheWay /\ Running(s)'
  BY <1>1, ProcessorItems DEF OnTheWay, Running
<1>4. ChainInv'
  BY <1>1, <1>3, ArrivesAt DEF OnTheWay
<1> QED
  BY <1>1, <1>2, <1>4, WorkKeeps

\* Nothing moves in the chain but by its own steps.
LEMMA ChainStays ==
  ASSUME ChainInv, UNCHANGED <<frame, chain>>, wq'.running = wq.running
  PROVE  ChainInv'
<1>1. ASSUME NEW s, ChainOf(s) PROVE ChainOf(s)'
  <2>1. /\ Acts(s, chain.stage)' <=> Acts(s, chain.stage)
        /\ NewReading(s)' = NewReading(s)
    BY DEF Acts, NewReading, UserReading
  <2>2. /\ Reached(s, chain.stage, frame.readings[s])'
             <=> Reached(s, chain.stage, frame.readings[s])
        /\ Reached(s, chain.stage, chain.local)' <=> Reached(s, chain.stage, chain.local)
    BY DEF Reached, StatusAt, NewReading, UserReading
  <2>3. \A t \in Sensors : Consistent(t, chain.local)' <=> Consistent(t, chain.local)
    BY DEF Consistent, Complete
  <2> QED
    BY <1>1, <2>1, <2>2, <2>3 DEF ChainOf
<1> QED
  BY <1>1 DEF ChainInv

LEMMA TaskIsNamed ==
  ASSUME NEW w \in Tasks
  PROVE  w[2] \in Sensors /\ HasTask(w[2]) /\ w = TaskOf(w[2]) /\ w \notin Jobs /\ w # NoItem
  BY Kinds

LEMMA TasksDiffer ==
  ASSUME NEW s, NEW t, TaskOf(s) = TaskOf(t)
  PROVE  s = t
  BY DEF TaskOf

LEMMA FrameStays ==
  ASSUME ValuesInductiveInv, frame' = frame
  PROVE  FrameInv'
  BY DEF ValuesInductiveInv, FrameInv, Consistent, Complete, NewReading, UserReading

LEMMA TaskEndsNow ==
  ASSUME InductiveInv, ValuesInductiveInv, TaskEnds
  PROVE  ValuesInductiveInv'
<1>1. /\ chain.stage = "done" /\ ~IsJob /\ chain' = At("retire")
      /\ wq' = TaskDone(wq, wq.running, TRUE)
      /\ UNCHANGED <<frame, plan, phase, bound, faults, missed>>
  BY DEF TaskEnds
<1>2. wq.running # NoItem /\ wq.running \in Tasks
  BY <1>1, RunningIs DEF InductiveInv, ReadersInv, StageInv
<1>3. PICK s \in Sensors : wq.running = TaskOf(s) /\ wq.running[2] = s /\ HasTask(s)
  BY <1>2, TaskIsNamed
<1>4. /\ wq'.fifo = wq.fifo /\ wq'.running = wq.running
      /\ wq'.delayed = wq.delayed \cup {wq.running} /\ wq'.cancelling = wq.cancelling
  <2>1. wq' = Delayed(wq, wq.running)
    BY <1>1 DEF TaskDone, Reschedule, Unscheduled, After, Delayed, InductiveInv, ReadersInv,
       TypeOK, QueueOf
  <2> QED
    BY <1>2, <2>1, QueuesAreOk, DelayedIs
<1>5. ChainInv'
  <2>1. "retire" \notin OnTheWay
    BY ProcessorItems DEF OnTheWay
  <2>2. Running(s)'
    BY <1>2, <1>3, <1>4 DEF Running
  <2> QED
    BY <1>1, <2>1, <2>2, ArrivesAt DEF OnTheWay
<1>6. \A x \in Sensors : ~Making(x)
  BY <1>1 DEF Making
<1>7. ASSUME ~missed, NEW x \in WithTask
      PROVE  InTurn(x)' /\ (Makes(x) => Delivers(x))'
  <2>1. /\ x \in Sensors /\ HasTask(x) /\ InTurn(x) /\ (Makes(x) => Delivers(x))
        /\ Makes(s) => Delivers(s)
    BY <1>1, <1>3, <1>7 DEF ValuesInductiveInv, ArrivalInv, WithTask
  <2>2. Makes(s) => Arrived(s)
    BY <1>3, <1>6, <2>1 DEF Delivers
  <2>3. \A i \in Sensors : Arrived(i)' <=> Arrived(i)
    BY <1>1 DEF Arrived
  <2>4. \A i \in Inputs[x] : i \in Sensors
    BY <2>1, SensorAssumption
  <2>5. InTurn(x)'
    BY <1>4, <1>6, <2>1, <2>3, <2>4 DEF InTurn
  <2>6. TaskOf(x) = TaskOf(s) => x = s
    BY TasksDiffer
  <2>7. (Makes(x) => Delivers(x))'
    BY <1>1, <1>3, <1>4, <1>6, <2>1, <2>2, <2>3, <2>6 DEF Delivers
  <2> QED
    BY <2>5, <2>7
<1>8. ArrivalInv'
  BY <1>1, <1>4, <1>7 DEF ValuesInductiveInv, ArrivalInv, InputsArrive, InputsFirst
<1>9. ClearedInv'
  BY <1>1, ClearedStays DEF ValuesInductiveInv
<1> QED
  BY <1>1, <1>5, <1>8, <1>9, FrameStays DEF ValuesInductiveInv

LEMMA JobEndsNow ==
  ASSUME InductiveInv, ValuesInductiveInv, JobEnds
  PROVE  ValuesInductiveInv'
<1>1. /\ chain.stage = "done" /\ IsJob /\ chain' = At("retire") /\ wq' = RunnerDone(wq)
      /\ UNCHANGED <<frame, plan, phase, bound, faults, missed>>
  BY DEF JobEnds
<1>2. wq.running # NoItem /\ wq.running \in Jobs
  BY <1>1, RunningIs DEF InductiveInv, ReadersInv, IsJob
<1>3. /\ wq'.fifo = wq.fifo /\ wq'.running = wq.running /\ wq'.delayed = wq.delayed
      /\ wq'.cancelling = wq.cancelling
  BY <1>1, <1>2, QueuesAreOk, RunnerDoneIs
<1>4. PICK s \in Sensors : wq.running[2] = s
  BY <1>2, Kinds
<1>5. ChainInv'
  <2>1. "retire" \notin OnTheWay
    BY ProcessorItems DEF OnTheWay
  <2>2. Running(s)'
    BY <1>2, <1>3, <1>4 DEF Running
  <2> QED
    BY <1>1, <2>1, <2>2, ArrivesAt DEF OnTheWay
<1>6. \A x \in Sensors : ~Making(x)
  BY <1>1 DEF Making
<1>7. \A x \in Sensors : Arrived(x) => Arrived(x)'
  BY <1>1 DEF Arrived
<1>8. ArrivalInv'
  BY <1>1, <1>3, <1>6, <1>7, ArrivalStays DEF ValuesInductiveInv
<1>9. ClearedInv'
  BY <1>1, ClearedStays DEF ValuesInductiveInv
<1> QED
  BY <1>1, <1>5, <1>8, <1>9, FrameStays DEF ValuesInductiveInv

LEMMA ItemRetiresNow ==
  ASSUME InductiveInv, ValuesInductiveInv, ItemRetires
  PROVE  ValuesInductiveInv'
<1>1. /\ chain.stage = "retire" /\ wq' = Retire(wq)
      /\ UNCHANGED <<frame, plan, phase, bound, faults, missed>>
  BY DEF ItemRetires
<1>2. /\ wq'.fifo = wq.fifo /\ wq'.running = NoItem /\ wq'.delayed = wq.delayed
      /\ wq'.cancelling \subseteq wq.cancelling
  <2>1. /\ QueueOk(wq', Tasks \cup Jobs, Jobs) /\ wq'.fifo = wq.fifo /\ wq'.running = NoItem
        /\ wq'.delayed = wq.delayed /\ wq'.cancelling = wq.cancelling \ {wq.running}
        /\ wq'.tasks = wq.tasks /\ wq'.completed = wq.completed
    BY QueuesAreOk, RetireIs DEF ItemRetires
  <2> QED
    BY <2>1
<1>3. ChainInv'
  BY <1>2 DEF ChainInv
<1>4. \A x \in Sensors : ~Making(x)
  BY <1>1 DEF Making
<1>5. ASSUME ~missed, NEW x \in WithTask
      PROVE  InTurn(x)' /\ (Makes(x) => Delivers(x))'
  <2>1. x \in Sensors /\ HasTask(x) /\ InTurn(x) /\ (Makes(x) => Delivers(x))
    BY <1>5 DEF ValuesInductiveInv, ArrivalInv, WithTask
  <2>2. \A i \in Sensors : Arrived(i)' <=> Arrived(i)
    BY <1>1 DEF Arrived
  <2>3. \A i \in Inputs[x] : i \in Sensors
    BY <2>1, SensorAssumption
  <2>4. TaskOf(x) # NoItem
    BY DEF TaskOf, NoItem
  <2>5. InTurn(x)'
    BY <1>2, <1>4, <2>1, <2>2, <2>3, <2>4 DEF InTurn
  <2>6. (Makes(x) => Delivers(x))'
    BY <1>1, <1>2, <1>4, <2>1, <2>2, <2>4 DEF Delivers
  <2> QED
    BY <2>5, <2>6
<1>6. ArrivalInv'
  BY <1>1, <1>2, <1>5 DEF ValuesInductiveInv, ArrivalInv, InputsArrive, InputsFirst
<1>7. ClearedInv'
  BY <1>1, ClearedStays DEF ValuesInductiveInv
<1> QED
  BY <1>1, <1>3, <1>6, <1>7, FrameStays DEF ValuesInductiveInv

\* The next item has its turn: if it is a task, the values that its sensor reads are
\* there, and it is now making its own.
LEMMA StartItemNow ==
  ASSUME InductiveInv, ValuesInductiveInv, StartItem
  PROVE  ValuesInductiveInv'
<1>1. /\ wq.running = NoItem /\ wq.fifo # <<>> /\ wq' = Take(wq)
      /\ chain' = At(IF Head(wq.fifo)[1] = "job" THEN "frame" ELSE "read")
      /\ UNCHANGED <<frame, plan, phase, bound, faults, missed>>
  BY DEF StartItem
<1>2. /\ ItemsOf(wq.fifo) = ItemsOf(wq'.fifo) \cup {wq'.running}
      /\ wq'.running = Head(wq.fifo) /\ wq'.running \in Tasks \cup Jobs
      /\ wq'.delayed = wq.delayed /\ wq'.cancelling = wq.cancelling
  <2>1. /\ QueueOk(wq', Tasks \cup Jobs, Jobs)
        /\ ItemsOf(wq.fifo) = ItemsOf(wq'.fifo) \cup {Head(wq.fifo)}
        /\ Head(wq.fifo) \notin ItemsOf(wq'.fifo) /\ wq'.running = Head(wq.fifo)
        /\ Head(wq.fifo) \in Tasks \cup Jobs
        /\ wq'.delayed = wq.delayed /\ wq'.cancelling = wq.cancelling
        /\ wq'.tasks = wq.tasks /\ wq'.completed = wq.completed
    BY QueuesAreOk, TakeIs DEF StartItem
  <2> QED
    BY <2>1
<1>3. /\ wq'.fifo = Tail(wq.fifo) /\ wq.fifo \in Seq(Tasks \cup Jobs)
  BY <1>1 DEF Take, InductiveInv, ReadersInv, TypeOK, QueueOf
<1>4. /\ DOMAIN wq.fifo = 1..Len(wq.fifo) /\ Len(wq.fifo) \in Nat \ {0}
      /\ wq.fifo[1] = wq'.running
      /\ DOMAIN wq'.fifo = 1..(Len(wq.fifo) - 1)
      /\ \A q \in DOMAIN wq'.fifo : q + 1 \in DOMAIN wq.fifo /\ wq'.fifo[q] = wq.fifo[q + 1]
  BY <1>1, <1>2, <1>3
<1>5. /\ wq'.running \in Tasks => chain'.stage = "read"
      /\ chain'.stage \in {"read", "frame"}
  BY <1>1, <1>2, Kinds DEF At
<1>6. ChainInv'
  <2>1. PICK s \in Sensors : Running(s)'
    BY <1>2, Kinds DEF Running
  <2>2. "read" \notin OnTheWay /\ "frame" \notin OnTheWay
    BY ProcessorItems DEF OnTheWay
  <2> QED
    BY <1>1, <2>1, <2>2, ArrivesAt DEF OnTheWay
<1>7. \A x \in Sensors : ~Making(x)
  BY <1>1 DEF Making, NoItem, TaskOf
<1>8. \A x \in Sensors : HasTask(x) /\ wq'.running = TaskOf(x) => Making(x)'
  BY <1>5 DEF Making, Tasks
<1>9. ASSUME ~missed, NEW x \in WithTask
      PROVE  InTurn(x)' /\ (Makes(x) => Delivers(x))'
  <2>1. x \in Sensors /\ HasTask(x) /\ InTurn(x) /\ (Makes(x) => Delivers(x))
    BY <1>9 DEF ValuesInductiveInv, ArrivalInv, WithTask
  <2>2. \A i \in Sensors : Arrived(i)' <=> Arrived(i)
    BY <1>1 DEF Arrived
  <2> DEFINE made == {i \in Inputs[x] : Makes(i)}
  <2>3. \A i \in made : i \in Sensors /\ HasTask(i)
    BY <2>1, SensorAssumption DEF Makes
  <2>4. ASSUME NEW i \in made, TaskOf(x) \in wq'.delayed \cup {wq'.running}
        PROVE  Arrived(i)'
    <3>1. CASE TaskOf(x) \in wq.delayed
      BY <2>1, <2>2, <2>3, <3>1 DEF InTurn
    <3>2. CASE wq.fifo[1] = TaskOf(x)
      <4>1. 1 \in DOMAIN wq.fifo /\ \A p \in DOMAIN wq.fifo : ~(p < 1)
        BY <1>4
      <4> QED
        BY <1>7, <2>1, <2>2, <2>3, <3>2, <4>1 DEF InTurn
    <3> QED
      BY <1>2, <1>4, <2>4, <3>1, <3>2
  <2>5. ASSUME NEW i \in made, NEW q \in DOMAIN wq'.fifo, wq'.fifo[q] = TaskOf(x)
        PROVE  \/ Arrived(i)' \/ Making(i)'
               \/ \E p \in DOMAIN wq'.fifo : p < q /\ wq'.fifo[p] = TaskOf(i)
    <3>1. CASE Arrived(i)
      BY <2>2, <2>3, <3>1
    <3>2. ASSUME NEW p \in DOMAIN wq.fifo, p < q + 1, wq.fifo[p] = TaskOf(i)
          PROVE  \/ Making(i)'
                 \/ \E h \in DOMAIN wq'.fifo : h < q /\ wq'.fifo[h] = TaskOf(i)
      <4>1. CASE p = 1
        BY <1>4, <1>8, <2>3, <3>2, <4>1
      <4>2. CASE p # 1
        <5>1. p - 1 \in DOMAIN wq'.fifo /\ p - 1 < q /\ (p - 1) + 1 = p
          BY <1>4, <3>2, <4>2
        <5> QED
          BY <1>4, <3>2, <5>1
      <4> QED
        BY <4>1, <4>2
    <3>3. q + 1 \in DOMAIN wq.fifo /\ wq.fifo[q + 1] = TaskOf(x)
      BY <1>4, <2>5
    <3>4. \/ Arrived(i) \/ Making(i)
          \/ \E p \in DOMAIN wq.fifo : p < q + 1 /\ wq.fifo[p] = TaskOf(i)
      BY <2>1, <3>3 DEF InTurn
    <3> QED
      BY <1>7, <2>3, <3>1, <3>2, <3>4
  <2>6. InTurn(x)'
    BY <2>4, <2>5 DEF InTurn
  <2>7. (Makes(x) => Delivers(x))'
    BY <1>1, <1>2, <1>7, <1>8, <1>9, <2>1, <2>2 DEF Delivers
  <2> QED
    BY <2>6, <2>7
<1>10. ArrivalInv'
  BY <1>1, <1>2, <1>9 DEF ValuesInductiveInv, ArrivalInv, InputsArrive, InputsFirst
<1>11. ClearedInv'
  BY <1>1, ClearedStays DEF ValuesInductiveInv
<1> QED
  BY <1>1, <1>6, <1>10, <1>11, FrameStays DEF ValuesInductiveInv

\* An item that joins the queue joins it behind the others.
LEMMA JoinsBehind ==
  ASSUME InductiveInv, NEW s \in Sensors, InTurn(s), NEW w \in Tasks \cup Jobs,
         wq'.fifo \in {wq.fifo, Append(wq.fifo, w)}, wq'.running = wq.running,
         wq'.delayed \subseteq wq.delayed, UNCHANGED <<frame, chain>>,
         w = TaskOf(s) => \A i \in {x \in Inputs[s] : Makes(x)} :
           Arrived(i) \/ Making(i) \/ TaskOf(i) \in ItemsOf(wq.fifo)
  PROVE  InTurn(s)'
<1>1. \A i \in Sensors : (Arrived(i)' <=> Arrived(i)) /\ (Making(i)' <=> Making(i))
  BY DEF Arrived, Making
<1> DEFINE made == {i \in Inputs[s] : Makes(i)}
<1>2. \A i \in made : i \in Sensors
  BY SensorAssumption
<1>3. wq.fifo \in Seq(Tasks \cup Jobs)
  BY DEF InductiveInv, ReadersInv, TypeOK, QueueOf
<1>4. CASE wq'.fifo = wq.fifo
  BY <1>1, <1>2, <1>4 DEF InTurn
<1>5. CASE wq'.fifo = Append(wq.fifo, w)
  <2>1. /\ Len(wq.fifo) \in Nat /\ DOMAIN wq.fifo = 1..Len(wq.fifo)
        /\ DOMAIN wq'.fifo = 1..(Len(wq.fifo) + 1)
        /\ \A q \in DOMAIN wq.fifo : wq'.fifo[q] = wq.fifo[q]
        /\ wq'.fifo[Len(wq.fifo) + 1] = w
    BY <1>3, <1>5, Appended
  <2>2. ASSUME NEW i \in made, NEW q \in DOMAIN wq'.fifo, wq'.fifo[q] = TaskOf(s)
        PROVE  \/ Arrived(i)' \/ Making(i)'
               \/ \E p \in DOMAIN wq'.fifo : p < q /\ wq'.fifo[p] = TaskOf(i)
    <3>1. CASE q \in DOMAIN wq.fifo
      <4>1. wq.fifo[q] = TaskOf(s)
        BY <2>1, <2>2, <3>1
      <4>2. \/ Arrived(i) \/ Making(i)
            \/ \E p \in DOMAIN wq.fifo : p < q /\ wq.fifo[p] = TaskOf(i)
        BY <3>1, <4>1 DEF InTurn
      <4>3. DOMAIN wq.fifo \subseteq DOMAIN wq'.fifo
        BY <2>1
      <4> QED
        BY <1>1, <1>2, <2>1, <4>2, <4>3
    <3>2. CASE q = Len(wq.fifo) + 1
      <4>1. w = TaskOf(s)
        BY <2>1, <2>2, <3>2
      <4>2. \/ Arrived(i) \/ Making(i)
            \/ \E p \in DOMAIN wq.fifo : wq.fifo[p] = TaskOf(i)
        BY <4>1 DEF ItemsOf
      <4>3. \A p \in DOMAIN wq.fifo : p \in DOMAIN wq'.fifo /\ p < q
        BY <2>1, <3>2
      <4> QED
        BY <1>1, <1>2, <2>1, <4>2, <4>3
    <3> QED
      BY <2>1, <3>1, <3>2
  <2>3. \A i \in made : TaskOf(s) \in wq'.delayed \cup {wq'.running} => Arrived(i)'
    BY <1>1, <1>2 DEF InTurn
  <2> QED
    BY <2>2, <2>3 DEF InTurn
<1> QED
  BY <1>4, <1>5

LEMMA TimerExpiresNow ==
  ASSUME InductiveInv, ValuesInductiveInv, NEW w \in Tasks, TimerExpires(w)
  PROVE  ValuesInductiveInv'
<1>1. /\ w \in wq.delayed /\ wq' = Expire(wq, w)
      /\ UNCHANGED <<frame, chain, plan, phase, bound, faults, missed>>
  BY DEF TimerExpires
<1>2. /\ wq'.running = wq.running /\ wq'.delayed \subseteq wq.delayed
      /\ wq'.cancelling = wq.cancelling /\ ItemsOf(wq.fifo) \subseteq ItemsOf(wq'.fifo)
  <2>1. QueueOk(wq, Tasks \cup Jobs, Jobs) /\ w \in Tasks \cup Jobs
    BY QueuesAreOk
  <2>2. /\ Expire(wq, w).running = wq.running
        /\ Expire(wq, w).delayed = wq.delayed \ {w}
        /\ Expire(wq, w).cancelling = wq.cancelling
        /\ w \in wq.cancelling => ItemsOf(Expire(wq, w).fifo) = ItemsOf(wq.fifo)
        /\ w \notin wq.cancelling =>
             ItemsOf(Expire(wq, w).fifo) = ItemsOf(wq.fifo) \cup {w}
    BY <2>1, ExpireIs
  <2> QED
    BY <1>1, <2>2
<1>3. wq'.fifo \in {wq.fifo, Append(wq.fifo, w)}
  <2>1. wq \in QueueOf(Tasks \cup Jobs, Jobs)
    BY DEF InductiveInv, ReadersInv, TypeOK
  <2> QED
    BY <1>1, <2>1 DEF Expire, Submit, Unscheduled, QueueOf
<1>4. ChainInv'
  BY <1>1, <1>2, ChainStays DEF ValuesInductiveInv
<1>5. ASSUME ~missed, NEW x \in WithTask
      PROVE  InTurn(x)' /\ (Makes(x) => Delivers(x))'
  <2>1. x \in Sensors /\ HasTask(x) /\ InTurn(x) /\ (Makes(x) => Delivers(x))
    BY <1>5 DEF ValuesInductiveInv, ArrivalInv, WithTask
  <2>2. w = TaskOf(x) => \A i \in {y \in Inputs[x] : Makes(y)} : Arrived(i)
    BY <1>1, <2>1 DEF InTurn
  <2>3. InTurn(x)'
    BY <1>1, <1>2, <1>3, <2>1, <2>2, JoinsBehind
  <2>4. (Makes(x) => Delivers(x))'
    BY <1>1, <1>2, <2>1 DEF Delivers, Arrived, Making
  <2> QED
    BY <2>3, <2>4
<1>6. ArrivalInv'
  BY <1>1, <1>2, <1>5 DEF ValuesInductiveInv, ArrivalInv, InputsArrive, InputsFirst
<1>7. ClearedInv'
  BY <1>1, ClearedStays DEF ValuesInductiveInv
<1> QED
  BY <1>1, <1>4, <1>6, <1>7, FrameStays DEF ValuesInductiveInv

LEMMA FrameReceivedNow ==
  ASSUME InductiveInv, ValuesInductiveInv, NEW s \in Sensors, FrameReceived(s)
  PROVE  ValuesInductiveInv'
<1>1. PICK a \in Addresses : wq' = Run(wq, JobOf(s, reader[s], a))
  BY DEF FrameReceived
<1>2. UNCHANGED <<frame, chain, plan, phase, bound, faults, missed>> /\ reader[s] # 0
  BY DEF FrameReceived
<1> DEFINE j == JobOf(s, reader[s], a)
<1>3. j \in Jobs
  <2>1. HasIsrReader(s)
    BY <1>2 DEF InductiveInv, ReaderInv
  <2>2. reader[s] \in 1..MaxStarts
    BY <1>2, SensorAssumption DEF InductiveInv, ReadersInv, TypeOK
  <2> QED
    BY <2>1, <2>2 DEF Jobs
<1>4. j \notin Tasks /\ wq.cancelling \subseteq Tasks
  BY <1>3, Kinds DEF InductiveInv, QueueInv
<1> HIDE DEF j
<1>5. /\ wq'.running = wq.running /\ wq'.delayed = wq.delayed
      /\ wq'.cancelling = wq.cancelling /\ ItemsOf(wq'.fifo) = ItemsOf(wq.fifo) \cup {j}
  <2>1. j \notin wq.cancelling /\ wq' = Run(wq, j) /\ Jobs \in SUBSET (Tasks \cup Jobs)
    BY <1>1, <1>4 DEF j
  <2>2. /\ QueueOk(wq', Tasks \cup Jobs, Jobs)
        /\ ItemsOf(wq'.fifo) = ItemsOf(wq.fifo) \cup {j}
        /\ wq'.running = wq.running /\ wq'.delayed = wq.delayed
        /\ wq'.cancelling = wq.cancelling /\ wq'.tasks = wq.tasks \cup {j}
        /\ wq'.completed = wq.completed
    BY <1>3, <2>1, QueuesAreOk, RunIs
  <2> QED
    BY <2>2
<1>6. wq'.fifo \in {wq.fifo, Append(wq.fifo, j)}
  <2>1. wq \in QueueOf(Tasks \cup Jobs, Jobs)
    BY DEF InductiveInv, ReadersInv, TypeOK
  <2> QED
    BY <1>1, <2>1 DEF Run, Submit, QueueOf, j
<1>7. ChainInv'
  BY <1>2, <1>5, ChainStays DEF ValuesInductiveInv
<1>8. ASSUME ~missed, NEW x \in WithTask
      PROVE  InTurn(x)' /\ (Makes(x) => Delivers(x))'
  <2>1. x \in Sensors /\ HasTask(x) /\ InTurn(x) /\ (Makes(x) => Delivers(x))
    BY <1>8 DEF ValuesInductiveInv, ArrivalInv, WithTask
  <2>2. TaskOf(x) \in Tasks
    BY <1>8 DEF Tasks, WithTask
  <2>3. j # TaskOf(x)
    BY <1>4, <2>2
  <2>4. InTurn(x)'
    BY <1>2, <1>3, <1>5, <1>6, <2>1, <2>3, JoinsBehind
  <2>5. (Makes(x) => Delivers(x))'
    BY <1>2, <1>5, <2>1 DEF Delivers, Arrived, Making
  <2> QED
    BY <2>4, <2>5
<1>9. ArrivalInv'
  BY <1>2, <1>5, <1>8 DEF ValuesInductiveInv, ArrivalInv, InputsArrive, InputsFirst
<1>10. ClearedInv'
  BY <1>2, ClearedStays DEF ValuesInductiveInv
<1> QED
  BY <1>2, <1>7, <1>9, <1>10, FrameStays DEF ValuesInductiveInv

(***************************************************************************)
(* The calls.                                                              *)
(***************************************************************************)
\* The tasks are scheduled in the order of the sensors.
LEMMA TaskStepsInOrder == InputsFirst(StepsFor("schedule", WithTask))
<1> DEFINE P == Positions(WithTask)
           steps == StepsFor("schedule", WithTask)
<1>1. PICK n \in Nat : P \in [1..n -> {i \in DOMAIN Order : Order[i] \in WithTask}]
  BY PositionsAre
<1>2. \A i, j \in DOMAIN P : i < j => P[i] < P[j]
  BY PositionsAre
<1>3. steps = [i \in 1..n |-> <<"schedule", Order[P[i]]>>]
  BY <1>1 DEF StepsFor
<1> HIDE DEF steps, P
<1>4. \A i \in 1..n : steps[i] = <<"schedule", Order[P[i]]>> /\ P[i] \in DOMAIN Order
  BY <1>1, <1>3
<1>5. DOMAIN Order \subseteq Nat /\ DOMAIN steps = 1..n /\ DOMAIN P = 1..n
  BY <1>1, <1>3, SensorAssumption
<1>6. ASSUME NEW s \in Sensors, NEW i \in Inputs[s], NEW p \in 1..n, NEW q \in 1..n,
             steps[p] = <<"schedule", i>>, steps[q] = <<"schedule", s>>
      PROVE  p < q
  <2>1. Order[P[p]] = i /\ Order[P[q]] = s
    BY <1>4, <1>6
  <2>2. P[p] < P[q]
    BY <1>4, <1>6, <2>1, OrderAssumption
  <2>3. P[p] \in Nat /\ P[q] \in Nat
    BY <1>4, <1>5
  <2>4. p # q /\ ~(q < p)
    BY <1>2, <1>5, <2>2, <2>3
  <2> QED
    BY <2>4
<1> QED
  BY <1>5, <1>6 DEF InputsFirst, steps

\* Steps of other kinds may come before them, or be all there is.
LEMMA NothingScheduled ==
  ASSUME NEW steps, NEW K, InOrder(steps, K), "schedule" \notin K
  PROVE  InputsFirst(steps)
<1>1. \A p \in DOMAIN steps : \A s : steps[p] # <<"schedule", s>>
  BY Parts DEF InOrder
<1> QED
  BY <1>1, SensorAssumption DEF InputsFirst

LEMMA ScheduledBehind ==
  ASSUME NEW a \in Seq(Steps), NEW b \in Seq(Steps), NEW K, InOrder(a, K),
         "schedule" \notin K, InputsFirst(b)
  PROVE  InputsFirst(a \o b) /\ ItemsOf(b) \subseteq ItemsOf(a \o b)
<1> DEFINE r == a \o b
<1>1. /\ \A i \in DOMAIN r :
           \/ i \in DOMAIN a /\ r[i] = a[i]
           \/ i > Len(a) /\ i - Len(a) \in DOMAIN b /\ r[i] = b[i - Len(a)]
      /\ \A i \in DOMAIN b : i + Len(a) \in DOMAIN r /\ r[i + Len(a)] = b[i]
      /\ DOMAIN r \subseteq Nat /\ Len(a) \in Nat
  BY Behind
<1>2. \A p \in DOMAIN a : \A s : a[p] # <<"schedule", s>>
  BY Parts DEF InOrder
<1> HIDE DEF r
<1>3. ASSUME NEW s \in Sensors, NEW i \in Inputs[s], NEW p \in DOMAIN r, NEW q \in DOMAIN r,
             r[p] = <<"schedule", i>>, r[q] = <<"schedule", s>>
      PROVE  p < q
  <2>1. /\ p - Len(a) \in DOMAIN b /\ b[p - Len(a)] = <<"schedule", i>>
        /\ q - Len(a) \in DOMAIN b /\ b[q - Len(a)] = <<"schedule", s>>
    BY <1>1, <1>2, <1>3
  <2>2. p - Len(a) < q - Len(a)
    BY <2>1 DEF InputsFirst
  <2> QED
    BY <1>1, <2>2
<1>4. ItemsOf(b) \subseteq ItemsOf(r)
  BY <1>1 DEF ItemsOf
<1> QED
  BY <1>3, <1>4 DEF InputsFirst, r

LEMMA ResumeStepsSchedule ==
  /\ InputsFirst(ResumeSteps)
  /\ \A s \in Sensors : HasTask(s) => <<"schedule", s>> \in ItemsOf(ResumeSteps)
<1> DEFINE p == <<<<"make readers">>>>
           q == StepsFor("make reader", WithReader)
           r == StepsFor("schedule", WithTask)
           K == {"make readers"}
           L == {"make reader"}
<1>1. p \in Seq(Steps) /\ InOrder(p, K)
  BY OneStep DEF PlainSteps
<1>2. q \in Seq(Steps) /\ InOrder(q, L)
  <2>1. WithReader \in SUBSET Sensors /\ \A s \in WithReader : <<"make reader", s>> \in Steps
    BY DEF WithReader, Steps
  <2>2. "make reader" \in StepsForSensors
    BY DEF StepsForSensors
  <2> QED
    BY <2>1, <2>2, StepsForAre
<1>3. /\ r \in Seq(Steps) /\ InputsFirst(r)
      /\ \A s \in Sensors : HasTask(s) => <<"schedule", s>> \in ItemsOf(r)
  <2>1. WithTask \in SUBSET Sensors /\ \A s \in WithTask : <<"schedule", s>> \in Steps
    BY DEF WithTask, Steps
  <2>2. "schedule" \in StepsForSensors
    BY DEF StepsForSensors
  <2>3. r \in Seq(Steps) /\ \A s \in WithTask : <<"schedule", s>> \in ItemsOf(r)
    BY <2>1, <2>2, StepsForAre
  <2> QED
    BY <2>3, TaskStepsInOrder DEF WithTask
<1>4. \A k \in K, l \in L : PlaceOf(k) < PlaceOf(l)
  <2>1. PlaceOf("make readers") < PlaceOf("make reader")
    BY DEF PlaceOf
  <2> QED
    BY <2>1, Zenon
<1>5. "schedule" \notin K \cup L
  OBVIOUS
<1>6. ResumeSteps = (p \o q) \o r
  BY DEF ResumeSteps
<1> HIDE DEF p, q, r, K, L
<1>7. p \o q \in Seq(Steps) /\ InOrder(p \o q, K \cup L)
  BY <1>1, <1>2, <1>4, Chained
<1>8. InputsFirst((p \o q) \o r) /\ ItemsOf(r) \subseteq ItemsOf((p \o q) \o r)
  BY <1>3, <1>5, <1>7, ScheduledBehind
<1> QED
  BY <1>3, <1>6, <1>8

LEMMA EndCalibrationStepsSchedule ==
  /\ InputsFirst(EndCalibrationSteps)
  /\ \A s \in Sensors : HasTask(s) => <<"schedule", s>> \in ItemsOf(EndCalibrationSteps)
<1> DEFINE a == <<<<"end calibration">>, <<"reset samples">>>>
           b == ResumeSteps
<1>1. a \in Seq(Steps) /\ InOrder(a, {"end calibration", "reset samples"})
  <2>1. PlaceOf("end calibration") < PlaceOf("reset samples")
    BY DEF PlaceOf
  <2> QED
    BY <2>1, TwoSteps DEF PlainSteps
<1>2. /\ b \in Seq(Steps) /\ InputsFirst(b)
      /\ \A s \in Sensors : HasTask(s) => <<"schedule", s>> \in ItemsOf(b)
  BY ResumeStepsAre, ResumeStepsSchedule
<1>3. EndCalibrationSteps = a \o b
  BY DEF EndCalibrationSteps
<1> HIDE DEF a, b
<1>4. InputsFirst(a \o b) /\ ItemsOf(b) \subseteq ItemsOf(a \o b)
  BY <1>1, <1>2, ScheduledBehind
<1> QED
  BY <1>2, <1>3, <1>4

LEMMA StopStepsEnd == StopSteps # <<>> /\ StopSteps[Len(StopSteps)] = <<"clear">>
<1> DEFINE a == PauseSteps
           e == <<"clear">>
<1>1. a \in Seq(Steps) /\ e \in Steps
  <2>1. \A step \in PlainSteps : <<step>> \in Steps
    BY DEF Steps
  <2> QED
    BY <2>1, PauseStepsAre DEF PlainSteps
<1>2. StopSteps = a \o <<e>>
  BY DEF StopSteps
<1> HIDE DEF a, e
<1>3. a \o <<e>> = Append(a, e)
  BY <1>1
<1>4. Len(a) \in Nat /\ Len(Append(a, e)) = Len(a) + 1 /\ Append(a, e)[Len(a) + 1] = e
  BY <1>1
<1>5. Len(StopSteps) # 0 /\ StopSteps[Len(StopSteps)] = e
  BY <1>2, <1>3, <1>4
<1> QED
  BY <1>5 DEF e

\* A call begins when the call before it is through.  The tasks are idle when one
\* begins that schedules them, all of them, inputs first.
LEMMA CallsNow ==
  ASSUME InductiveInv, ValuesInductiveInv,
         \/ Start \/ Stop \/ Pause \/ Resume \/ StartCalibration \/ StopCalibration
  PROVE  ValuesInductiveInv'
<1>1. /\ plan = <<>> /\ UNCHANGED <<frame, wq, chain, bound, faults, missed>>
  BY DEF Start, Stop, Pause, Resume, StartCalibration, StopCalibration, Call
<1>2. /\ phase' = "running" =>
           /\ InputsFirst(plan') /\ phase # "running"
           /\ \A s \in Sensors : HasTask(s) => <<"schedule", s>> \in ItemsOf(plan')
      /\ phase' # "running" => InputsFirst(plan')
      /\ phase' = "stopped" => plan' = StopSteps
  <2>1. CASE Start \/ Resume
    BY <2>1, ResumeStepsSchedule DEF Start, Resume, Call
  <2>2. CASE StopCalibration
    BY <2>2, EndCalibrationStepsSchedule DEF StopCalibration, Call
  <2>3. CASE Stop
    BY <2>3, StopStepsAre, NothingScheduled DEF Stop, Call
  <2>4. CASE Pause
    BY <2>4, PauseStepsAre, NothingScheduled DEF Pause, Call
  <2>5. CASE StartCalibration
    BY <2>5, CalibrateStepsAre, NothingScheduled DEF StartCalibration, Call
  <2> QED
    BY <2>1, <2>2, <2>3, <2>4, <2>5
<1>3. phase # "running" => wq.cancelling = {}
  <2>1. ASSUME phase # "running", NEW w \in wq.cancelling PROVE FALSE
    <3>1. w \in Tasks
      BY <2>1 DEF InductiveInv, QueueInv
    <3>2. w[2] \in Sensors /\ HasTask(w[2]) /\ w = TaskOf(w[2])
      BY <3>1, TaskIsNamed
    <3>3. <<"cancel", w[2]>> \notin ItemsOf(plan)
      BY <1>1 DEF ItemsOf
    <3>4. ~Busy(wq, w)
      BY <2>1, <3>2, <3>3 DEF InductiveInv, PausedIsQuiet
    <3> QED
      BY <2>1, <3>4 DEF Busy
  <2> QED
    BY <2>1
<1>4. ChainInv'
  BY <1>1, ChainStays DEF ValuesInductiveInv
<1>5. ASSUME ~missed, NEW x \in WithTask
      PROVE  InTurn(x)' /\ (Makes(x) => Delivers(x))'
  <2>1. x \in Sensors /\ HasTask(x) /\ InTurn(x) /\ (Makes(x) => Delivers(x))
    BY <1>5 DEF ValuesInductiveInv, ArrivalInv, WithTask
  <2>2. \A i \in Sensors : (Arrived(i)' <=> Arrived(i)) /\ (Making(i)' <=> Making(i))
    BY <1>1 DEF Arrived, Making
  <2>3. \A i \in Inputs[x] : i \in Sensors
    BY <2>1, SensorAssumption
  <2>4. InTurn(x)'
    BY <1>1, <2>1, <2>2, <2>3 DEF InTurn
  <2>5. (Makes(x) => Delivers(x))'
    BY <1>1, <1>2, <1>5, <2>1, <2>2 DEF Delivers
  <2> QED
    BY <2>4, <2>5
<1>6. ArrivalInv'
  BY <1>1, <1>2, <1>3, <1>5 DEF ValuesInductiveInv, ArrivalInv, InputsArrive
<1>7. ClearedInv'
  <2>1. phase' = "stopped" => plan' # <<>> /\ plan'[Len(plan')] = <<"clear">>
    BY <1>2, StopStepsEnd
  <2> QED
    BY <2>1 DEF ClearedInv, StoppedStaysClear
<1> QED
  BY <1>1, <1>4, <1>6, <1>7, FrameStays DEF ValuesInductiveInv

\* What is left of a call.
LEMMA StepGoes ==
  ASSUME InductiveInv, ValuesInductiveInv, plan # <<>>, plan' = Tail(plan), phase' = phase
  PROVE  /\ InputsFirst(plan') /\ ItemsOf(plan) = ItemsOf(plan') \cup {Head(plan)}
         /\ phase = "stopped" /\ plan' = <<>> => Head(plan) = <<"clear">>
         /\ phase = "stopped" /\ plan' # <<>> => plan'[Len(plan')] = <<"clear">>
<1>1. /\ Len(plan) \in Nat \ {0} /\ DOMAIN plan = 1..Len(plan)
      /\ plan[1] = Head(plan) /\ Len(plan') = Len(plan) - 1
      /\ DOMAIN plan' = 1..(Len(plan) - 1)
      /\ \A i \in DOMAIN plan' : i + 1 \in DOMAIN plan /\ plan'[i] = plan[i + 1]
  <2>1. plan \in Seq(Steps)
    BY DEF InductiveInv, ReadersInv, TypeOK
  <2> QED
    BY <2>1
<1>2. ASSUME NEW s \in Sensors, NEW i \in Inputs[s], NEW p \in DOMAIN plan', NEW q \in DOMAIN plan',
             plan'[p] = <<"schedule", i>>, plan'[q] = <<"schedule", s>>
      PROVE  p < q
  <2>1. /\ p + 1 \in DOMAIN plan /\ plan[p + 1] = <<"schedule", i>>
        /\ q + 1 \in DOMAIN plan /\ plan[q + 1] = <<"schedule", s>>
    BY <1>1, <1>2
  <2>2. p + 1 < q + 1
    BY <2>1 DEF ValuesInductiveInv, ArrivalInv, InputsFirst
  <2> QED
    BY <1>1, <2>2
<1>3. ItemsOf(plan) = ItemsOf(plan') \cup {Head(plan)}
  BY StepTaken
<1>4. phase = "stopped" => plan[Len(plan)] = <<"clear">>
  BY DEF ValuesInductiveInv, ClearedInv
<1>5. plan' = <<>> => Len(plan) = 1
  BY <1>1
<1>6. ASSUME plan' # <<>> PROVE plan'[Len(plan')] = plan[Len(plan)]
  <2>1. plan' \in Seq(Steps)
    BY StepTaken
  <2>2. Len(plan') \in DOMAIN plan' /\ Len(plan') + 1 = Len(plan)
    BY <1>1, <1>6, <2>1
  <2> QED
    BY <1>1, <2>2
<1> QED
  BY <1>1, <1>2, <1>3, <1>4, <1>5, <1>6 DEF InputsFirst

LEMMA ClearedNext ==
  ASSUME InductiveInv, ValuesInductiveInv, plan # <<>>, plan' = Tail(plan), phase' = phase,
         Head(plan)[1] # "clear", frame' = frame
  PROVE  ClearedInv'
<1>1. Head(plan) # <<"clear">>
  BY Parts
<1>2. phase = "stopped" => plan'[Len(plan')] = <<"clear">> /\ plan' # <<>>
  BY <1>1, StepGoes
<1> QED
  BY <1>2 DEF ClearedInv, StoppedStaysClear

\* A step of a call that leaves the frame and the work queue alone.
LEMMA CallStepStays ==
  ASSUME InductiveInv, ValuesInductiveInv,
         UNCHANGED <<frame, wq, chain, phase, bound, missed>>,
         \/ plan' = plan
         \/ /\ plan # <<>> /\ plan' = Tail(plan)
            /\ Head(plan)[1] \notin {"clear", "schedule"}
  PROVE  ValuesInductiveInv'
<1>1. InputsFirst(plan')
  BY StepGoes DEF ValuesInductiveInv, ArrivalInv
<1>2. \A s : <<"schedule", s>> \in ItemsOf(plan') <=> <<"schedule", s>> \in ItemsOf(plan)
  <2>1. CASE plan' = plan
    BY <2>1
  <2>2. CASE plan # <<>> /\ plan' = Tail(plan) /\ Head(plan)[1] \notin {"clear", "schedule"}
    <3>1. ItemsOf(plan) = ItemsOf(plan') \cup {Head(plan)}
      BY <2>2, StepGoes
    <3>2. \A s : Head(plan) # <<"schedule", s>>
      BY <2>2, Parts
    <3> QED
      BY <3>1, <3>2
  <2> QED
    BY <2>1, <2>2
<1>3. ChainInv'
  BY ChainStays DEF ValuesInductiveInv
<1>4. ASSUME ~missed, NEW x \in WithTask
      PROVE  InTurn(x)' /\ (Makes(x) => Delivers(x))'
  <2>1. x \in Sensors /\ HasTask(x) /\ InTurn(x) /\ (Makes(x) => Delivers(x))
    BY <1>4 DEF ValuesInductiveInv, ArrivalInv, WithTask
  <2>2. \A i \in Sensors : (Arrived(i)' <=> Arrived(i)) /\ (Making(i)' <=> Making(i))
    BY DEF Arrived, Making
  <2>3. \A i \in Inputs[x] : i \in Sensors
    BY <2>1, SensorAssumption
  <2>4. InTurn(x)'
    BY <2>1, <2>2, <2>3 DEF InTurn
  <2>5. (Makes(x) => Delivers(x))'
    BY <1>2, <2>1, <2>2 DEF Delivers
  <2> QED
    BY <2>4, <2>5
<1>5. ArrivalInv'
  BY <1>1, <1>4 DEF ValuesInductiveInv, ArrivalInv, InputsArrive
<1>6. ClearedInv'
  BY ClearedStays, ClearedNext DEF ValuesInductiveInv
<1> QED
  BY <1>3, <1>5, <1>6, FrameStays DEF ValuesInductiveInv

\* A task is cancelled only while the service is not to run; one that waited to run
\* then misses a cycle.
LEMMA CancelTaskNow ==
  ASSUME InductiveInv, ValuesInductiveInv, CancelTask
  PROVE  ValuesInductiveInv'
<1> DEFINE w == TaskOf(Head(plan)[2])
<1>1. /\ plan # <<>> /\ Head(plan)[1] = "cancel"
      /\ wq' = Cancel(wq, w) /\ missed' = (missed \/ w \in ItemsOf(wq.fifo))
      /\ UNCHANGED <<frame, chain, phase, bound, faults>>
      /\ plan' = plan \/ plan' = Tail(plan)
  BY DEF CancelTask, Step, Goes
<1>2. w \in Tasks
  BY <1>1, TaskStepIs
<1> HIDE DEF w
<1>3. /\ QueueOk(wq', Tasks \cup Jobs, Jobs)
      /\ ItemsOf(wq'.fifo) = ItemsOf(wq.fifo) \ {w}
      /\ wq'.running = wq.running /\ wq'.delayed = wq.delayed \ {w}
      /\ wq.running = w => wq'.cancelling = wq.cancelling \cup {w}
      /\ wq.running # w => wq'.cancelling = wq.cancelling
      /\ wq'.tasks = wq.tasks /\ wq'.completed = wq.completed
  BY <1>1, <1>2, QueuesAreOk, CancelIs
<1>4. w \notin ItemsOf(wq.fifo) => wq'.fifo = wq.fifo
  <2>1. wq \in QueueOf(Tasks \cup Jobs, Jobs)
    BY DEF InductiveInv, ReadersInv, TypeOK
  <2> QED
    BY <1>1, <2>1 DEF Cancel, Unlinked, QueueOf
<1>5. phase # "running"
  <2>1. plan \in Seq(Steps) /\ InOrder(plan, StepsTo(phase))
    BY DEF InductiveInv, ReadersInv, TypeOK, PlanInv
  <2>2. 1 \in DOMAIN plan /\ plan[1] = Head(plan)
    BY <1>1, <2>1
  <2>3. "cancel" \in StepsTo(phase)
    BY <1>1, <2>1, <2>2 DEF InOrder
  <2> QED
    BY <2>3 DEF StepsTo
<1>6. InputsFirst(plan')
  BY <1>1, StepGoes DEF ValuesInductiveInv, ArrivalInv
<1>7. ChainInv'
  BY <1>1, <1>3, ChainStays DEF ValuesInductiveInv
<1>8. ASSUME ~missed', NEW x \in WithTask
      PROVE  InTurn(x)' /\ (Makes(x) => Delivers(x))'
  <2>1. ~missed /\ wq'.fifo = wq.fifo /\ wq'.delayed \subseteq wq.delayed
    BY <1>1, <1>3, <1>4, <1>8
  <2>2. x \in Sensors /\ HasTask(x) /\ InTurn(x) /\ (Makes(x) => Delivers(x))
    BY <1>8, <2>1 DEF ValuesInductiveInv, ArrivalInv, WithTask
  <2>3. \A i \in Sensors : (Arrived(i)' <=> Arrived(i)) /\ (Making(i)' <=> Making(i))
    BY <1>1, <1>3 DEF Arrived, Making
  <2>4. \A i \in Inputs[x] : i \in Sensors
    BY <2>2, SensorAssumption
  <2>5. InTurn(x)'
    BY <1>3, <2>1, <2>2, <2>3, <2>4 DEF InTurn
  <2>6. (Makes(x) => Delivers(x))'
    BY <1>1, <1>3, <1>5, <2>1, <2>2, <2>3 DEF Delivers
  <2> QED
    BY <2>5, <2>6
<1>9. ArrivalInv'
  BY <1>1, <1>5, <1>6, <1>8 DEF ValuesInductiveInv, ArrivalInv, InputsArrive
<1>10. ClearedInv'
  BY <1>1, ClearedStays, ClearedNext DEF ValuesInductiveInv
<1> QED
  BY <1>1, <1>7, <1>9, <1>10, FrameStays DEF ValuesInductiveInv

\* A task is scheduled behind those whose values its sensor reads.
LEMMA ScheduleTaskNow ==
  ASSUME InductiveInv, ValuesInductiveInv, ScheduleTask
  PROVE  ValuesInductiveInv'
<1> DEFINE s == Head(plan)[2]
           w == TaskOf(s)
<1>1. /\ plan # <<>> /\ plan' = Tail(plan) /\ Head(plan)[1] = "schedule"
      /\ wq' = Schedule(wq, w, FALSE)
      /\ UNCHANGED <<frame, chain, phase, bound, faults, missed>>
  BY DEF ScheduleTask, Step, Goes
<1>2. w \in Tasks /\ s \in Sensors
  BY <1>1, TaskStepIs
<1>3. plan \in Seq(Steps) /\ 1 \in DOMAIN plan /\ plan[1] = Head(plan) /\ DOMAIN plan \subseteq Nat
  BY <1>1 DEF InductiveInv, ReadersInv, TypeOK
<1>4. Head(plan) = <<"schedule", s>>
  <2>1. Head(plan) \in Steps
    BY <1>3
  <2>2. Head(plan) \notin {<<step>> : step \in PlainSteps}
    BY <1>1, Parts DEF PlainSteps
  <2>3. Head(plan) \in {"cancel", "schedule"} \X WithTask \cup {"make reader"} \X WithReader
    BY <2>1, <2>2 DEF Steps
  <2>4. Head(plan) = <<Head(plan)[1], Head(plan)[2]>>
    BY <2>3, Pairs
  <2> QED
    BY <1>1, <2>4
<1>5. phase = "running" /\ wq.cancelling = {}
  <2>1. InOrder(plan, StepsTo(phase))
    BY DEF InductiveInv, PlanInv
  <2>2. "schedule" \in StepsTo(phase)
    BY <1>1, <1>3, <2>1 DEF InOrder
  <2>3. phase = "running"
    BY <2>2 DEF StepsTo, InductiveInv, ReadersInv, TypeOK
  <2> QED
    BY <2>3 DEF ValuesInductiveInv, ArrivalInv
<1>6. /\ InputsFirst(plan') /\ ClearedInv'
      /\ ItemsOf(plan) = ItemsOf(plan') \cup {<<"schedule", s>>}
  <2>1. InputsFirst(plan') /\ ItemsOf(plan) = ItemsOf(plan') \cup {Head(plan)}
    BY <1>1, StepGoes
  <2>2. ClearedInv'
    BY <1>1, ClearedNext
  <2> QED
    BY <1>4, <2>1, <2>2
<1>7. ASSUME NEW i \in Inputs[s] PROVE <<"schedule", i>> \notin ItemsOf(plan)
  <2>1. ASSUME NEW p \in DOMAIN plan, plan[p] = <<"schedule", i>> PROVE FALSE
    <3>1. p < 1
      BY <1>2, <1>3, <1>4, <1>7, <2>1 DEF ValuesInductiveInv, ArrivalInv, InputsFirst
    <3>2. p \in DOMAIN plan /\ DOMAIN plan = 1..Len(plan)
      BY <1>3
    <3> QED
      BY <3>1, <3>2
  <2> QED
    BY <2>1 DEF ItemsOf
<1> HIDE DEF w, s
<1>8. /\ wq'.running = wq.running /\ wq'.delayed = wq.delayed
      /\ wq'.cancelling = wq.cancelling
      /\ \/ wq'.fifo = wq.fifo /\ w \in ItemsOf(wq.fifo) \cup wq.delayed
         \/ wq'.fifo = Append(wq.fifo, w)
  <2>1. wq \in QueueOf(Tasks \cup Jobs, Jobs)
    BY DEF InductiveInv, ReadersInv, TypeOK
  <2> QED
    BY <1>1, <1>5, <2>1 DEF Schedule, After, Submit, QueueOf
<1>9. wq'.fifo = Append(wq.fifo, w) => ItemsOf(wq'.fifo) = ItemsOf(wq.fifo) \cup {w}
  <2>1. wq.fifo \in Seq(Tasks \cup Jobs)
    BY DEF InductiveInv, ReadersInv, TypeOK, QueueOf
  <2> DEFINE a == Append(wq.fifo, w)
  <2>2. /\ DOMAIN a = DOMAIN wq.fifo \cup {Len(wq.fifo) + 1}
        /\ a[Len(wq.fifo) + 1] = w /\ \A q \in DOMAIN wq.fifo : a[q] = wq.fifo[q]
    BY <1>2, <2>1
  <2> HIDE DEF a
  <2>3. ItemsOf(a) = ItemsOf(wq.fifo) \cup {w}
    BY <2>2 DEF ItemsOf
  <2> QED
    BY <2>3 DEF a
<1>10. ChainInv'
  BY <1>1, <1>8, ChainStays DEF ValuesInductiveInv
<1>11. ASSUME ~missed, NEW x \in WithTask
      PROVE  InTurn(x)' /\ (Makes(x) => Delivers(x))'
  <2>1. x \in Sensors /\ HasTask(x) /\ InTurn(x) /\ (Makes(x) => Delivers(x))
    BY <1>11 DEF ValuesInductiveInv, ArrivalInv, WithTask
  <2>2. \A i \in Sensors : (Arrived(i)' <=> Arrived(i)) /\ (Making(i)' <=> Making(i))
    BY <1>1, <1>8 DEF Arrived, Making
  <2>3. ASSUME w = TaskOf(x), NEW i \in {y \in Inputs[x] : Makes(y)}
        PROVE  Arrived(i) \/ Making(i) \/ TaskOf(i) \in ItemsOf(wq.fifo)
    <3>1. x = s
      BY <2>3, TasksDiffer DEF w
    <3>2. i \in Sensors /\ Makes(i) /\ i \in WithTask
      BY <2>1, <2>3, SensorAssumption DEF Makes, WithTask
    <3>3. Delivers(i)
      BY <1>11, <3>2 DEF ValuesInductiveInv, ArrivalInv
    <3>4. <<"schedule", i>> \notin ItemsOf(plan)
      BY <1>7, <2>3, <3>1
    <3> QED
      BY <1>5, <3>3, <3>4 DEF Delivers
  <2>4. InTurn(x)'
    <3>1. wq'.fifo \in {wq.fifo, Append(wq.fifo, w)} /\ wq'.delayed \subseteq wq.delayed
      BY <1>8
    <3> QED
      BY <1>1, <1>2, <1>8, <2>1, <2>3, <3>1, JoinsBehind
  <2>5. ItemsOf(wq.fifo) \subseteq ItemsOf(wq'.fifo)
    BY <1>8, <1>9
  <2>6. ASSUME Makes(x), <<"schedule", x>> \notin ItemsOf(plan')
        PROVE  Arrived(x) \/ Making(x) \/ TaskOf(x) \in ItemsOf(wq'.fifo)
    <3>1. CASE x = s
      BY <1>8, <1>9, <2>1, <2>5, <2>6, <3>1 DEF Delivers, w
    <3>2. CASE x # s
      <4>1. <<"schedule", x>> # <<"schedule", s>>
        BY <3>2
      <4> QED
        BY <1>5, <1>6, <2>1, <2>5, <2>6, <4>1 DEF Delivers
    <3> QED
      BY <3>1, <3>2
  <2>7. (Makes(x) => Delivers(x))'
    BY <1>1, <1>8, <2>1, <2>2, <2>6 DEF Delivers
  <2> QED
    BY <2>4, <2>7
<1>12. ArrivalInv'
  BY <1>1, <1>5, <1>6, <1>8, <1>11 DEF ValuesInductiveInv, ArrivalInv, InputsArrive
<1> QED
  BY <1>1, <1>6, <1>10, <1>12, FrameStays DEF ValuesInductiveInv

\* What others see after a stop.
LEMMA ClearReadingsNow ==
  ASSUME InductiveInv, ValuesInductiveInv, ClearReadings
  PROVE  ValuesInductiveInv'
<1>1. /\ plan # <<>> /\ plan' = Tail(plan) /\ Head(plan)[1] = "clear"
      /\ frame' = EmptyFrame
      /\ bound' = [s \in Sensors |->
                     IF bound[s] = "live" /\ Inputs[s] # {} THEN "dangling" ELSE bound[s]]
      /\ UNCHANGED <<wq, chain, phase, faults, missed>>
  BY DEF ClearReadings, Step, Goes
<1>2. /\ phase = "stopped"
      /\ \A i \in DOMAIN plan' : PlaceOf("clear") < PlaceOf(plan'[i][1])
  <2>1. /\ "clear" \in StepsTo(phase)
        /\ \A i \in DOMAIN plan' :
             \/ PlaceOf("clear") < PlaceOf(plan'[i][1])
             \/ "clear" = plan'[i][1] /\ "clear" \in StepsForSensors
    BY <1>1, StepTaken
  <2>2. phase = "stopped"
    BY <2>1 DEF StepsTo, InductiveInv, ReadersInv, TypeOK
  <2> QED
    BY <2>1, <2>2 DEF StepsForSensors
<1>3. \A s \in Sensors : <<"cancel", s>> \notin ItemsOf(plan)
  <2>1. ItemsOf(plan) = ItemsOf(plan') \cup {Head(plan)}
    BY <1>1, StepTaken
  <2>2. ~(PlaceOf("clear") < PlaceOf("cancel"))
    BY DEF PlaceOf
  <2>3. \A s \in Sensors : <<"cancel", s>> \notin ItemsOf(plan')
    BY <1>2, <2>2, Parts DEF ItemsOf
  <2>4. \A s \in Sensors : <<"cancel", s>> # Head(plan)
    BY <1>1, Parts
  <2> QED
    BY <2>1, <2>3, <2>4
<1>4. \A s \in Sensors : HasTask(s) => ~Busy(wq, TaskOf(s))
  BY <1>2, <1>3 DEF InductiveInv, PausedIsQuiet
<1>5. \A s \in Sensors : /\ frame'.isr[s] = NoReading /\ frame'.readings[s] = NoReading
                         /\ frame'.processed[s] = NoReading /\ ~frame'.values[s].has
  BY <1>1 DEF EmptyFrame, NoValue
<1>6. FrameInv'
  <2>1. NoReading.status = "none"
    BY DEF NoReading
  <2> QED
    BY <1>5, <2>1 DEF FrameInv, Consistent
<1>7. ChainInv'
  <2>1. ASSUME wq.running # NoItem PROVE ChainOf(wq.running[2])'
    <3>1. wq.running \in Jobs
      <4>1. wq.running \notin Tasks
        BY <1>4, TaskIsNamed DEF Busy
      <4> QED
        BY <2>1, <4>1, RunningIs DEF InductiveInv, ReadersInv
    <3>2. PICK s \in Sensors : wq.running[2] = s
      BY <3>1, Kinds
    <3>3. ChainOf(s)
      BY <2>1, <3>2 DEF ValuesInductiveInv, ChainInv
    <3>4. ChainOf(s)'
      BY <1>1, <1>5, <3>1, <3>3 DEF ChainOf, Acts, Reached, StatusAt, NewReading,
         UserReading, Consistent, Complete
    <3> QED
      BY <1>1, <3>2, <3>4
  <2> QED
    BY <1>1, <2>1 DEF ChainInv
<1>8. ClearedInv'
  <2>1. phase = "stopped" /\ plan' # <<>> => plan'[Len(plan')] = <<"clear">>
    BY <1>1, StepGoes
  <2> QED
    BY <1>1, <1>5, <2>1 DEF ClearedInv, StoppedStaysClear
<1>9. ASSUME NEW x \in WithTask
      PROVE  InTurn(x)' /\ (Makes(x) => Delivers(x))'
  <2>1. /\ TaskOf(x) \notin wq.delayed \cup {wq.running}
        /\ \A q \in DOMAIN wq.fifo : wq.fifo[q] # TaskOf(x)
    BY <1>4, <1>9 DEF Busy, ItemsOf, WithTask
  <2> QED
    BY <1>1, <1>2, <2>1 DEF InTurn, Delivers
<1>10. \A s \in Sensors : bound'[s] = "null" => bound[s] = "null"
  BY <1>1
<1>11. ArrivalInv'
  <2>1. InputsFirst(plan')
    BY <1>1, StepGoes
  <2>2. InputsArrive'
    BY <1>1, <1>10 DEF ValuesInductiveInv, ArrivalInv, InputsArrive
  <2> QED
    BY <1>1, <1>2, <1>9, <2>1, <2>2 DEF ArrivalInv
<1> QED
  BY <1>6, <1>7, <1>8, <1>11 DEF ValuesInductiveInv

\* A reader that is not made ends its call, and leaves the service neither running
\* nor stopped.
LEMMA ReaderFailsNow ==
  ASSUME ValuesInductiveInv, plan' = <<>>, phase' = "failed",
         UNCHANGED <<frame, wq, chain, bound, missed>>
  PROVE  ValuesInductiveInv'
<1>1. ChainInv'
  BY ChainStays DEF ValuesInductiveInv
<1>2. ASSUME ~missed, NEW x \in WithTask
      PROVE  InTurn(x)' /\ (Makes(x) => Delivers(x))'
  <2>1. x \in Sensors /\ InTurn(x) /\ (Makes(x) => Delivers(x))
    BY <1>2 DEF ValuesInductiveInv, ArrivalInv, WithTask
  <2>2. \A i \in Sensors : (Arrived(i)' <=> Arrived(i)) /\ (Making(i)' <=> Making(i))
    BY DEF Arrived, Making
  <2>3. \A i \in Inputs[x] : i \in Sensors
    BY <2>1, SensorAssumption
  <2>4. InTurn(x)'
    BY <2>1, <2>2, <2>3 DEF InTurn
  <2>5. (Makes(x) => Delivers(x))'
    BY <2>1, <2>2 DEF Delivers
  <2> QED
    BY <2>4, <2>5
<1>3. InputsFirst(plan')
  BY NoSteps DEF InputsFirst
<1>4. ArrivalInv'
  BY <1>2, <1>3 DEF ValuesInductiveInv, ArrivalInv, InputsArrive
<1>5. ClearedInv'
  BY DEF ClearedInv, StoppedStaysClear
<1> QED
  BY <1>1, <1>4, <1>5, FrameStays DEF ValuesInductiveInv

LEMMA OtherCallStepsNow ==
  ASSUME InductiveInv, ValuesInductiveInv,
         \/ DropReaders \/ MakeReaders \/ MakeReader \/ UpdateSamples
         \/ ScheduleCalibration \/ CancelCalibration \/ Calibrates \/ UNCHANGED vars
  PROVE  ValuesInductiveInv'
<1>1. UNCHANGED <<frame, wq, chain, bound, missed>>
  BY DEF DropReaders, MakeReaders, MakeReader, UpdateSamples, ScheduleCalibration,
     CancelCalibration, Calibrates, vars
<1>2. \/ phase' = phase /\ plan' = plan
      \/ /\ phase' = phase /\ plan # <<>> /\ plan' = Tail(plan)
         /\ Head(plan)[1] \notin {"clear", "schedule"}
      \/ plan' = <<>> /\ phase' = "failed"
  BY DEF DropReaders, MakeReaders, MakeReader, UpdateSamples, ScheduleCalibration,
     CancelCalibration, Calibrates, vars, Step, Goes
<1>3. CASE phase' = phase
  <2>1. CASE plan' = plan
    BY <1>1, <1>3, <2>1, CallStepStays
  <2>2. CASE plan # <<>> /\ plan' = Tail(plan) /\ Head(plan)[1] \notin {"clear", "schedule"}
    BY <1>1, <1>3, <2>2, CallStepStays
  <2>3. CASE plan' = <<>> /\ phase' = "failed"
    BY <1>1, <2>3, ReaderFailsNow
  <2> QED
    BY <1>2, <2>1, <2>2, <2>3
<1>4. CASE plan' = <<>> /\ phase' = "failed"
  BY <1>1, <1>4, ReaderFailsNow
<1> QED
  BY <1>2, <1>3, <1>4

LEMMA InitValues ==
  ASSUME Init
  PROVE  ValuesInductiveInv
<1>1. wq.fifo = <<>> /\ wq.running = NoItem /\ wq.delayed = {} /\ wq.cancelling = {}
  BY DEF Init, EmptyQueue
<1>2. \A s \in Sensors : /\ frame.isr[s] = NoReading /\ frame.readings[s] = NoReading
                         /\ frame.processed[s] = NoReading /\ ~frame.values[s].has
  BY DEF Init, EmptyFrame, NoValue
<1>3. FrameInv
  <2>1. NoReading.status = "none"
    BY DEF NoReading
  <2> QED
    BY <1>2, <2>1 DEF FrameInv, Consistent
<1>4. ChainInv
  BY <1>1 DEF ChainInv
<1>5. ClearedInv
  BY <1>2 DEF Init, ClearedInv, StoppedStaysClear
<1>6. \A x \in Sensors : InTurn(x) /\ Delivers(x)
  <2>1. \A x : TaskOf(x) # NoItem
    BY DEF TaskOf, NoItem
  <2> QED
    BY <1>1, <2>1 DEF Init, InTurn, Delivers
<1>7. ArrivalInv
  <2>1. InputsArrive
    BY DEF Init, InputsArrive
  <2>2. InputsFirst(plan)
    BY DEF Init, InputsFirst
  <2> QED
    BY <1>6, <2>1, <2>2 DEF Init, ArrivalInv, WithTask
<1> QED
  BY <1>3, <1>4, <1>5, <1>7 DEF ValuesInductiveInv

LEMMA StepKeepsValues ==
  ASSUME InductiveInv, ValuesInductiveInv, [Next]_vars
  PROVE  ValuesInductiveInv'
<1>1. CASE StartItem \/ TaskEnds \/ JobEnds \/ ItemRetires \/ ScriptPuts
  BY <1>1, StartItemNow, TaskEndsNow, JobEndsNow, ItemRetiresNow, ScriptPutsNow
<1>2. ASSUME NEW s \in Sensors,
             \/ Read(s) \/ IsrFrame(s) \/ Collect(s) \/ Fetch(s) \/ ScriptReturns(s)
             \/ \E t \in Sensors : ScriptGets(s, t)
             \/ Interpolate(s) \/ Evaluate(s) \/ MarkProcessed(s) \/ Give(s)
      PROVE  ValuesInductiveInv'
  BY <1>2, ReadNow, IsrFrameNow, CollectNow, FetchNow, ScriptReturnsNow, ScriptGetsNow,
     InterpolateNow, EvaluateNow, MarkProcessedNow, GiveNow
<1>3. CASE CallStep
  BY <1>3, ScheduleTaskNow, CancelTaskNow, ClearReadingsNow, OtherCallStepsNow DEF CallStep
<1>4. CASE Calibrates \/ UNCHANGED vars
  BY <1>4, OtherCallStepsNow
<1>5. ASSUME NEW w \in Tasks, TimerExpires(w) PROVE ValuesInductiveInv'
  BY <1>5, TimerExpiresNow
<1>6. ASSUME NEW s \in Sensors, FrameReceived(s) PROVE ValuesInductiveInv'
  BY <1>6, FrameReceivedNow
<1>7. CASE Start \/ Stop \/ Pause \/ Resume \/ StartCalibration \/ StopCalibration
  BY <1>7, CallsNow
<1> QED
  BY <1>1, <1>2, <1>3, <1>4, <1>5, <1>6, <1>7 DEF Next, WorkStep

\* For any sensors, scripts and inputs that the validator accepts: a published value
\* has been through every step of its sensor, a stop leaves nothing of what the tasks
\* made, and an expression meets a value that is not there only after a task has missed
\* a cycle or where an input has no task that makes one, however the cycles, the jobs of
\* frames, the scripts, the timers and the calls interleave.
THEOREM ValuesInvHolds == Spec => []ValuesInv
<1>1. Init => ValuesInductiveInv
  BY InitValues
<1>2. InductiveInv /\ ValuesInductiveInv /\ [Next]_vars => ValuesInductiveInv'
  BY StepKeepsValues
<1>3. ValuesInductiveInv => ValuesInv
  BY DEF ValuesInductiveInv, FrameInv, ClearedInv, ArrivalInv, ValuesInv, PublishedComplete,
     Complete
<1> QED
  BY <1>1, <1>2, <1>3, Inductive, PTL DEF Spec
=============================================================================
