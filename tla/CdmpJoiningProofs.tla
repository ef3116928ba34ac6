-------------------------- MODULE CdmpJoiningProofs --------------------------
(***************************************************************************)
(* CdmpNetwork when devices are switched on one by one (OneByOneSpec) and  *)
(* the sleeps outlast the traffic (Timely): the IDs of the online devices  *)
(* differ as long as fewer sends are lost than discovery sends requests,   *)
(* and of two the later one knows the earlier if nothing is lost.  Power   *)
(* may be lost at any time.  The second half of the module is about what   *)
(* the devices know of each other while nothing is lost (KnowledgeInv).    *)
(***************************************************************************)
EXTENDS CdmpNetworkProofs

Active == {"INIT", "CLAIMING", "ONLINE"}

\* A device that has not finished to join, and one with nothing to say.
Joining(r) ==
  r.thread = "starting" \/ r.sleeping \in JoinTask \/ Queued(r, JoinTask) # {}
Quiet(r) ==
  r.sleeping = Idle /\ \A job \in Jobs(r) : job.type = "PeriodicValidation"

\* A device was asked for its ID and has not answered yet.
Asked(r) ==
  \/ r.sleeping = "SendDiscoveryResponse"
  \/ \E job \in Jobs(r) : job.type \in {"DISCOVERY_REQUEST", "SendDiscoveryResponse"}

\* What a device is by itself: what has no power remembers nothing, what starts has
\* heard nothing, and what takes part in the protocol listens.
AloneInv(r) ==
  /\ r.thread = "off" => r = PoweredOff
  /\ r.thread = "starting" => r.status = "OFFLINE" /\ r.listening
  /\ r.status \in Active => r.listening
  /\ r.status \in {"INIT", "CLAIMING"} => Joining(r)
  /\ Queued(r, {"StartInitialization"}) # {} => r.status # "CLAIMING"

\* The ID of e, in state s, as the device in state r knows it or is about to read it.
Has(r, e, s) == r.table[s.id] = Uid[e]
Answer(e, s) == DiscoveryResponse(e, s.id)

\* It will have been read when an ID is chosen.
HasInTime(r, e, s) ==
  \A m \in Queued(r, {"SendIdClaim"}) :
    Has(r, e, s) \/ \E k \in 1 .. m - 1 : r.queue[k] = Answer(e, s)

\* What d, joining or online in state r, knows of e, online in state s.  An answer of
\* e was given, or is asked for, or each request so far has cost a loss; it is read
\* before d chooses an ID; the ID chosen is another one; and what d was told is not
\* out of date.
Meets(d, r, e, s, lost) ==
  /\ r.status \in {"INIT", "CLAIMING"} =>
       /\ r.sleeping = "StartInitialization" =>
            \/ Has(r, e, s) \/ Answer(e, s) \in Jobs(r)
            \/ Asked(s) /\ lost >= r.index
            \/ lost > r.index
       /\ HasInTime(r, e, s)
       /\ r.sleeping = "SendIdClaim" => Has(r, e, s) /\ r.claiming # s.id
  /\ Joining(r) => \A p \in Pairs(r) : p[1] = s.id => p[2] = Uid[e]
  /\ r.status = "ONLINE" => /\ r.id # s.id
                            /\ lost = 0 => Has(r, e, s) \/ Has(s, d, r)

MeetInv ==
  /\ \A d \in Device : AloneInv(dev[d])
  /\ \A d, e \in Device : Joining(dev[d]) /\ Joining(dev[e]) => d = e
  /\ \A d \in Device : dev[d].thread = "starting" => \A e \in Device : Quiet(dev[e])
  /\ \A d, e \in Device : d # e /\ Online(e) => Meets(d, dev[d], e, dev[e], losses)

JoiningInv == losses < Backoffs => MeetInv

(***************************************************************************)
(* A step of the network: x moves on to s and may send a frame, which all  *)
(* who listen append to their queues, unless it is lost.                   *)
(***************************************************************************)
Result(x, s, sent) ==
  /\ dev'[x] = s
  /\ losses' \in Nat /\ losses' >= losses
  /\ \A y \in Device \ {x} :
       /\ dev'[y] = dev[y] \/ \E f \in sent : dev[y].listening
                                                /\ dev'[y] = Enqueue(dev[y], f)
       /\ dev[y].listening =>
            \A f \in sent : dev'[y] = Enqueue(dev[y], f) \/ losses' > losses

\* What x says is true of itself: claims are said while joining, and IDs once online.
Sincere(x, s, f) ==
  /\ f \in Frame
  /\ f.type \in Naming => f.uid = Uid[x]
  /\ f.type = "DISCOVERY_RESPONSE" =>
       f.id = s.id /\ dev[x].status = "ONLINE" /\ s.status = "ONLINE" /\ s.id = dev[x].id
  /\ f.type = "ID_CLAIM" => Joining(dev[x])

\* What x, alone, must do so that the devices keep on meeting as they should.
Behaves(x, s, sent) ==
  LET r == dev[x]
  IN  /\ AloneInv(s)
      /\ s.thread # "starting" /\ (Joining(s) => Joining(r))
      /\ Quiet(r) /\ r.thread # "starting" => Quiet(s) /\ sent = {}
      /\ s.status = "ONLINE" =>
           \/ r.status = "ONLINE" /\ s.id = r.id
           \/ /\ r.status = "CLAIMING" /\ r.sleeping = "SendIdClaim"
              /\ s.id = r.claiming /\ s.table = r.table
      /\ Pairs(s) \subseteq Pairs(r)
      /\ s.status = "ONLINE" /\ Asked(r) => Asked(s) \/ Answer(x, s) \in sent
      /\ \A f \in sent : Sincere(x, s, f)

\* And what x must do with regard to a device e that is online.
Regards(x, s, sent, e) ==
  LET r == dev[x]
  IN  /\ r.status = "ONLINE" /\ s.status = "ONLINE" /\ losses' = 0 /\ Has(r, e, dev[e])
           => Has(s, e, dev[e])
      /\ s.status \in {"INIT", "CLAIMING"} =>
           /\ s.sleeping = "StartInitialization" =>
                /\ \E f \in sent : f.type = "DISCOVERY_REQUEST"
                /\ Has(s, e, dev[e]) \/ Answer(e, dev[e]) \in Jobs(s) \/ losses >= s.index
           /\ HasInTime(s, e, dev[e])
           /\ s.sleeping = "SendIdClaim" => Has(s, e, dev[e]) /\ s.claiming # dev[e].id

Moves(x, s, sent) ==
  /\ Behaves(x, s, sent)
  /\ \A e \in Device \ {x} : Online(e) => Regards(x, s, sent, e)

\* The step of the network is such a move of x.
Steps(x) == \E sent : Moves(x, dev'[x], sent) /\ Result(x, dev'[x], sent)

\* A frame heard changes nothing but the end of the queue.
Hears(r, s, f) ==
  /\ s.thread = r.thread /\ s.status = r.status /\ s.id = r.id
  /\ s.claiming = r.claiming /\ s.sleeping = r.sleeping /\ s.listening = r.listening
  /\ s.table = r.table /\ s.index = r.index /\ s.lowest = r.lowest
  /\ s.validating = r.validating /\ s.armed = r.armed
  /\ Jobs(s) = Jobs(r) \cup {f}
  /\ Queued(s, JoinTask) = Queued(r, JoinTask)
  /\ Queued(s, {"SendIdClaim"}) = Queued(r, {"SendIdClaim"})
  /\ Queued(s, {"StartInitialization"}) = Queued(r, {"StartInitialization"})
  /\ \A k \in DOMAIN r.queue : s.queue[k] = r.queue[k]

LEMMA HearLemma ==
  ASSUME NEW r \in DeviceState, NEW f \in Job, f.type \notin JoinTask
  PROVE  Hears(r, Enqueue(r, f), f)
<1> DEFINE s == Enqueue(r, f)
<1>1. r.queue \in Seq(Job)
  BY DEF DeviceState
<1>2. /\ s.queue = Append(r.queue, f)
      /\ s.thread = r.thread /\ s.status = r.status /\ s.id = r.id
      /\ s.claiming = r.claiming /\ s.sleeping = r.sleeping
      /\ s.listening = r.listening /\ s.table = r.table /\ s.index = r.index
      /\ s.lowest = r.lowest /\ s.validating = r.validating /\ s.armed = r.armed
  BY DEF Enqueue, DeviceState
<1>3. Jobs(s) = Jobs(r) \cup {f}
  BY EnqueueKeeps
<1>4. /\ Queued(s, JoinTask) = Queued(r, JoinTask)
      /\ Queued(s, {"SendIdClaim"}) = Queued(r, {"SendIdClaim"})
      /\ Queued(s, {"StartInitialization"}) = Queued(r, {"StartInitialization"})
  <2>1. f.type \notin {"SendIdClaim"} /\ f.type \notin {"StartInitialization"}
    BY DEF JoinTask
  <2>2. QED
    BY <2>1, EnqueueLemma
<1>5. \A k \in DOMAIN r.queue : s.queue[k] = r.queue[k]
  BY <1>1, <1>2
<1> HIDE DEF s
<1>6. QED
  BY <1>2, <1>3, <1>4, <1>5 DEF Hears, s

\* An ID known in time stays known in time.
LEMMA HeardInTime ==
  ASSUME NEW r \in DeviceState, NEW t, NEW f, Hears(r, t, f),
         NEW e, NEW s, HasInTime(r, e, s)
  PROVE  HasInTime(t, e, s)
<1> SUFFICES ASSUME NEW m \in Queued(t, {"SendIdClaim"}), ~Has(t, e, s)
             PROVE  \E k \in 1 .. m - 1 : t.queue[k] = Answer(e, s)
  BY DEF HasInTime
<1>1. m \in Queued(r, {"SendIdClaim"}) /\ ~Has(r, e, s)
  BY DEF Hears, Has
<1>2. PICK k \in 1 .. m - 1 : r.queue[k] = Answer(e, s)
  BY <1>1 DEF HasInTime
<1>3. m \in DOMAIN r.queue /\ r.queue \in Seq(Job)
  BY <1>1 DEF Queued, DeviceState
<1>4. k \in DOMAIN r.queue
  <2>1. DOMAIN r.queue = 1 .. Len(r.queue) /\ Len(r.queue) \in Nat
    BY <1>3
  <2>2. QED
    BY <1>3, <2>1
<1>5. QED
  BY <1>2, <1>4 DEF Hears

\* The other devices: what they hear, if anything, is a frame of x.
LEMMA OthersHear ==
  ASSUME InductiveInv, NEW x \in Device, NEW s, NEW sent,
         \A f \in sent : f \in Frame,
         Result(x, s, sent), NEW y \in Device \ {x}
  PROVE  dev'[y] = dev[y] \/ \E f \in sent : /\ f \in Frame /\ dev[y].listening
                                             /\ Hears(dev[y], dev'[y], f)
<1>1. dev[y] \in DeviceState
  BY DeviceByDevice
<1>2. \A f \in Frame : f \in Job /\ f.type \notin JoinTask
  BY DEF Job, Frame, JoinTask
<1>3. QED
  BY <1>1, <1>2, HearLemma DEF Result

Follows(r, t, sent) ==
  t = r \/ \E f \in sent : f \in Frame /\ r.listening /\ Hears(r, t, f)

LEMMA FollowsLemma ==
  ASSUME NEW r \in DeviceState, NEW t, NEW sent, Follows(r, t, sent)
  PROVE  /\ t.thread = r.thread /\ t.status = r.status /\ t.id = r.id
         /\ t.claiming = r.claiming /\ t.sleeping = r.sleeping
         /\ t.listening = r.listening /\ t.table = r.table /\ t.index = r.index
         /\ Jobs(r) \subseteq Jobs(t)
         /\ Joining(t) <=> Joining(r)
         /\ Asked(r) => Asked(t)
         /\ \A e, s : HasInTime(r, e, s) => HasInTime(t, e, s)
         /\ \A p \in Pairs(t) : p \in Pairs(r) \/ \E f \in sent :
              f \in Frame /\ f.type \in Naming /\ p = <<f.id, f.uid>>
         /\ AloneInv(r) => AloneInv(t)
<1>1. CASE t = r
  BY <1>1
<1>2. CASE \E f \in sent : f \in Frame /\ r.listening /\ Hears(r, t, f)
  <2>1. PICK f \in sent : f \in Frame /\ r.listening /\ Hears(r, t, f)
    BY <1>2
  <2>2. Joining(t) <=> Joining(r)
    BY <2>1 DEF Hears, Joining
  <2>3. Asked(r) => Asked(t)
    BY <2>1 DEF Hears, Asked
  <2>4. \A e, s : HasInTime(r, e, s) => HasInTime(t, e, s)
    BY <2>1, HeardInTime
  <2>5. ASSUME NEW p \in Pairs(t), p \notin Pairs(r)
        PROVE  f.type \in Naming /\ p = <<f.id, f.uid>>
    BY <2>1, <2>5 DEF Hears, Pairs, Known
  <2>6. AloneInv(r) => AloneInv(t)
    <3>1. ~PoweredOff.listening
      BY DEF PoweredOff
    <3>2. QED
      BY <2>1, <2>2, <3>1 DEF Hears, AloneInv
  <2>7. QED
    BY <2>1, <2>2, <2>3, <2>4, <2>5, <2>6 DEF Hears
<1>3. QED
  BY <1>1, <1>2 DEF Follows

\* Both d and e only listen.
LEMMA ListenersMeet ==
  ASSUME InductiveInv, InductiveInv', MeetInv,
         NEW x \in Device, NEW s, NEW sent, Moves(x, s, sent), Result(x, s, sent),
         NEW d \in Device \ {x}, NEW e \in Device \ {x}, d # e, dev[e].status = "ONLINE",
         NEW t, Follows(dev[d], t, sent), NEW u, Follows(dev[e], u, sent)
  PROVE  Meets(d, t, e, u, losses')
<1> DEFINE r == dev[d]
           q == dev[e]
<1>1. /\ Meets(d, r, e, q, losses) /\ r \in DeviceState /\ q \in DeviceState
      /\ losses \in Nat /\ losses' \in Nat /\ losses' >= losses /\ r.index \in Nat
  BY DeviceByDevice DEF MeetInv, Online, Result, DeviceState
<1>2. /\ t.status = r.status /\ t.id = r.id /\ t.claiming = r.claiming
      /\ t.sleeping = r.sleeping /\ t.table = r.table /\ t.index = r.index
      /\ Jobs(r) \subseteq Jobs(t) /\ (Joining(t) <=> Joining(r))
      /\ HasInTime(r, e, q) => HasInTime(t, e, q)
      /\ \A p \in Pairs(t) : p \in Pairs(r) \/ \E f \in sent :
           f \in Frame /\ f.type \in Naming /\ p = <<f.id, f.uid>>
  BY <1>1, FollowsLemma
<1>3. u.id = q.id /\ u.table = q.table /\ (Asked(q) => Asked(u))
  BY <1>1, FollowsLemma
<1> HIDE DEF r, q
<1>4. /\ Has(t, e, u) <=> Has(r, e, q)
      /\ Has(u, d, t) <=> Has(q, d, r)
      /\ Answer(e, u) = Answer(e, q)
      /\ HasInTime(t, e, q) => HasInTime(t, e, u)
  BY <1>2, <1>3 DEF Has, Answer, HasInTime
<1>5. ASSUME t.status \in {"INIT", "CLAIMING"}
      PROVE  /\ t.sleeping = "StartInitialization" =>
                  \/ Has(t, e, u) \/ Answer(e, u) \in Jobs(t)
                  \/ Asked(u) /\ losses' >= t.index
                  \/ losses' > t.index
             /\ HasInTime(t, e, u)
             /\ t.sleeping = "SendIdClaim" => Has(t, e, u) /\ t.claiming # u.id
  BY <1>1, <1>2, <1>3, <1>4, <1>5 DEF Meets
<1>6. ASSUME Joining(t), NEW p \in Pairs(t), p[1] = u.id
      PROVE  p[2] = Uid[e]
  <2>1. CASE p \in Pairs(r)
    BY <1>1, <1>2, <1>3, <1>6, <2>1 DEF Meets
  <2>2. CASE p \notin Pairs(r)
    <3>1. PICK f \in sent : f \in Frame /\ f.type \in Naming /\ p = <<f.id, f.uid>>
      BY <1>2, <2>2
    <3>2. Sincere(x, s, f)
      BY DEF Moves, Behaves
    <3>3. CASE f.type = "DISCOVERY_RESPONSE"
      <4>1. f.id = dev[x].id /\ dev[x].status = "ONLINE"
        BY <3>2, <3>3 DEF Sincere
      <4>2. Meets(x, dev[x], e, q, losses)
        BY DEF MeetInv, Online, q
      <4>3. QED
        BY <1>3, <1>6, <3>1, <4>1, <4>2 DEF Meets
    <3>4. CASE f.type = "ID_CLAIM"
      BY <1>2, <1>6, <3>2, <3>4 DEF Sincere, MeetInv, r
    <3>5. QED
      BY <3>1, <3>3, <3>4 DEF Naming
  <2>3. QED
    BY <2>1, <2>2
<1>7. ASSUME t.status = "ONLINE"
      PROVE  t.id # u.id /\ (losses' = 0 => Has(t, e, u) \/ Has(u, d, t))
  BY <1>1, <1>2, <1>3, <1>4, <1>7 DEF Meets
<1>8. QED
  BY <1>5, <1>6, <1>7 DEF Meets

\* x moves and is met by d.
LEMMA MoverIsMet ==
  ASSUME InductiveInv, MeetInv,
         NEW x \in Device, NEW s, NEW sent, Moves(x, s, sent), Result(x, s, sent),
         NEW d \in Device \ {x}, s.status = "ONLINE",
         NEW t, dev'[d] = t, Follows(dev[d], t, sent)
  PROVE  Meets(d, t, x, s, losses')
<1> DEFINE r == dev[d]
           q == dev[x]
<1>1. /\ r \in DeviceState /\ AloneInv(r)
      /\ losses \in Nat /\ losses' \in Nat /\ losses' >= losses /\ r.index \in Nat
  BY DeviceByDevice DEF MeetInv, Result, DeviceState
<1>2. /\ t.status = r.status /\ t.id = r.id /\ t.claiming = r.claiming
      /\ t.sleeping = r.sleeping /\ t.table = r.table /\ t.index = r.index
      /\ Jobs(r) \subseteq Jobs(t) /\ (Joining(t) <=> Joining(r))
      /\ HasInTime(r, x, q) => HasInTime(t, x, q)
      /\ \A p \in Pairs(t) : p \in Pairs(r) \/ \E f \in sent :
           f \in Frame /\ f.type \in Naming /\ p = <<f.id, f.uid>>
  BY <1>1, FollowsLemma
<1>3. Behaves(x, s, sent)
  BY DEF Moves
<1>4. CASE q.status = "ONLINE" /\ s.id = q.id
  <2>1. Meets(d, r, x, q, losses)
    BY <1>4 DEF MeetInv, Online
  <2>2. /\ Has(t, x, s) <=> Has(r, x, q)
        /\ Answer(x, s) = Answer(x, q)
        /\ HasInTime(t, x, q) => HasInTime(t, x, s)
        /\ Has(s, d, t) <=> Has(s, d, r)
    BY <1>2, <1>4 DEF Has, Answer, HasInTime
  <2>3. ASSUME t.status \in {"INIT", "CLAIMING"}, Answer(x, s) \in sent
        PROVE  Answer(x, s) \in Jobs(t) \/ losses' > losses
    <3>1. r.listening
      BY <1>1, <1>2, <2>3 DEF AloneInv, Active
    <3>2. Answer(x, s) \in Frame
      BY <1>3, <2>3 DEF Behaves, Sincere
    <3>3. t = Enqueue(r, Answer(x, s)) \/ losses' > losses
      BY <2>3, <3>1 DEF Result
    <3>4. Answer(x, s) \in Jobs(Enqueue(r, Answer(x, s)))
      BY <1>1, <3>2, EnqueueKeeps DEF Job
    <3>5. QED
      BY <3>3, <3>4
  <2>4. Asked(q) => Asked(s) \/ Answer(x, s) \in sent
    BY <1>3 DEF Behaves
  <2> HIDE DEF r, q
  <2>5. ASSUME t.status \in {"INIT", "CLAIMING"}, t.sleeping = "StartInitialization"
        PROVE  \/ Has(t, x, s) \/ Answer(x, s) \in Jobs(t)
               \/ Asked(s) /\ losses' >= t.index
               \/ losses' > t.index
    <3>1. \/ Has(r, x, q) \/ Answer(x, q) \in Jobs(r)
          \/ Asked(q) /\ losses >= r.index
          \/ losses > r.index
      BY <1>2, <2>1, <2>5 DEF Meets
    <3>2. QED
      BY <1>1, <1>2, <2>2, <2>3, <2>4, <2>5, <3>1
  <2>6. ASSUME t.status \in {"INIT", "CLAIMING"}
        PROVE  /\ HasInTime(t, x, s)
               /\ t.sleeping = "SendIdClaim" => Has(t, x, s) /\ t.claiming # s.id
    BY <1>2, <1>4, <2>1, <2>2, <2>6 DEF Meets
  <2>7. ASSUME Joining(t), NEW p \in Pairs(t), p[1] = s.id
        PROVE  p[2] = Uid[x]
    <3>1. \A f \in sent : f.type \in Naming => f.uid = Uid[x]
      BY <1>3 DEF Behaves, Sincere
    <3>2. QED
      BY <1>2, <1>4, <2>1, <2>7, <3>1 DEF Meets
  <2>8. ASSUME t.status = "ONLINE"
        PROVE  t.id # s.id /\ (losses' = 0 => Has(t, x, s) \/ Has(s, d, t))
    <3>1. r.id # q.id /\ (losses = 0 => Has(r, x, q) \/ Has(q, d, r))
      BY <1>2, <2>1, <2>8 DEF Meets
    <3>2. losses' = 0 /\ Has(q, d, r) => Has(s, d, r)
      BY <1>2, <1>4, <2>8 DEF Moves, Regards, Online, r, q
    <3>3. QED
      BY <1>1, <1>2, <1>4, <2>2, <3>1, <3>2
  <2>9. QED
    BY <2>5, <2>6, <2>7, <2>8 DEF Meets
<1>5. CASE /\ q.status = "CLAIMING" /\ q.sleeping = "SendIdClaim"
           /\ s.id = q.claiming /\ s.table = q.table
  <2>1. Joining(q)
    BY <1>5 DEF Joining, JoinTask
  <2>2. ~Joining(r) /\ r.status \notin {"INIT", "CLAIMING"}
    BY <1>1, <2>1 DEF MeetInv, AloneInv
  <2>3. ASSUME t.status = "ONLINE"
        PROVE  t.id # s.id /\ (losses' = 0 => Has(t, x, s) \/ Has(s, d, t))
    <3>1. Meets(x, q, d, r, losses)
      BY <1>2, <2>3 DEF MeetInv, Online
    <3>2. Has(q, d, r) /\ q.claiming # r.id
      BY <1>5, <3>1 DEF Meets
    <3>3. QED
      BY <1>2, <1>5, <3>2 DEF Has
  <2>4. QED
    BY <1>2, <2>2, <2>3 DEF Meets
<1>6. QED
  BY <1>3, <1>4, <1>5 DEF Behaves

\* x moves and meets e, which is online.
LEMMA MoverMeets ==
  ASSUME InductiveInv, InductiveInv', MeetInv,
         NEW x \in Device, NEW s, NEW sent, Moves(x, s, sent), Result(x, s, sent),
         NEW e \in Device \ {x}, dev[e].status = "ONLINE",
         NEW u, dev'[e] = u, Follows(dev[e], u, sent)
  PROVE  Meets(x, s, e, u, losses')
<1> DEFINE r == dev[x]
           q == dev[e]
<1>1. /\ q \in DeviceState /\ AloneInv(q) /\ Meets(x, r, e, q, losses)
      /\ losses \in Nat /\ losses' \in Nat /\ losses' >= losses
      /\ s \in DeviceState /\ s.index \in Nat
  <2>1. s \in DeviceState
    <3>1. dev'[x] \in DeviceState
      BY DEF InductiveInv, TypeOK
    <3>2. QED
      BY <3>1 DEF Result
  <2>2. QED
    BY <2>1, DeviceByDevice DEF MeetInv, Online, Result, DeviceState
<1>2. u.id = q.id /\ u.table = q.table
  BY <1>1, FollowsLemma
<1>3. Behaves(x, s, sent) /\ Regards(x, s, sent, e)
  BY DEF Moves, Online
<1>4. /\ Has(s, e, u) <=> Has(s, e, q)
      /\ Answer(e, u) = Answer(e, q)
      /\ HasInTime(s, e, q) => HasInTime(s, e, u)
      /\ s.id = r.id => (Has(u, x, s) <=> Has(q, x, r))
  BY <1>2 DEF Has, Answer, HasInTime
<1>5. ASSUME NEW f \in sent, f.type = "DISCOVERY_REQUEST"
      PROVE  Asked(u) \/ losses' > losses
  <2>1. q.listening
    BY <1>1 DEF AloneInv, Active
  <2>2. f \in Frame
    BY <1>3 DEF Behaves, Sincere
  <2>3. u = Enqueue(q, f) \/ losses' > losses
    BY <2>1 DEF Result
  <2>4. f \in Jobs(Enqueue(q, f))
    BY <1>1, <2>2, EnqueueKeeps DEF Job
  <2>5. QED
    BY <1>5, <2>3, <2>4 DEF Asked
<1> HIDE DEF r, q
<1>6. ASSUME s.status \in {"INIT", "CLAIMING"}
      PROVE  /\ s.sleeping = "StartInitialization" =>
                  \/ Has(s, e, u) \/ Answer(e, u) \in Jobs(s)
                  \/ Asked(u) /\ losses' >= s.index
                  \/ losses' > s.index
             /\ HasInTime(s, e, u)
             /\ s.sleeping = "SendIdClaim" => Has(s, e, u) /\ s.claiming # u.id
  <2>1. /\ s.sleeping = "StartInitialization" =>
             /\ \E f \in sent : f.type = "DISCOVERY_REQUEST"
             /\ Has(s, e, q) \/ Answer(e, q) \in Jobs(s) \/ losses >= s.index
        /\ HasInTime(s, e, q)
        /\ s.sleeping = "SendIdClaim" => Has(s, e, q) /\ s.claiming # q.id
    BY <1>3, <1>6 DEF Regards, q
  <2>2. QED
    BY <1>1, <1>2, <1>4, <1>5, <2>1
<1>7. ASSUME Joining(s), NEW p \in Pairs(s), p[1] = u.id
      PROVE  p[2] = Uid[e]
  BY <1>1, <1>2, <1>3, <1>7 DEF Meets, Behaves, r
<1>8. ASSUME s.status = "ONLINE"
      PROVE  s.id # u.id /\ (losses' = 0 => Has(s, e, u) \/ Has(u, x, s))
  <2>1. CASE r.status = "ONLINE" /\ s.id = r.id
    <3>1. r.id # q.id /\ (losses = 0 => Has(r, e, q) \/ Has(q, x, r))
      BY <1>1, <2>1 DEF Meets
    <3>2. losses' = 0 /\ Has(r, e, q) => Has(s, e, q)
      BY <1>3, <1>8, <2>1 DEF Regards, r, q
    <3>3. QED
      BY <1>1, <1>2, <1>4, <2>1, <3>1, <3>2
  <2>2. CASE /\ r.status = "CLAIMING" /\ r.sleeping = "SendIdClaim"
             /\ s.id = r.claiming /\ s.table = r.table
    <3>1. Has(r, e, q) /\ r.claiming # q.id
      BY <1>1, <2>2 DEF Meets
    <3>2. QED
      BY <1>2, <2>2, <3>1 DEF Has
  <2>3. QED
    BY <1>3, <1>8, <2>1, <2>2 DEF Behaves, r
<1>9. QED
  BY <1>6, <1>7, <1>8 DEF Meets

\* Whatever moves as it should keeps the network meeting as it should.
LEMMA StepsMeet ==
  ASSUME InductiveInv, InductiveInv', MeetInv, NEW x \in Device, Steps(x)
  PROVE  MeetInv'
<1> DEFINE s == dev'[x]
<1>0. PICK sent : Moves(x, s, sent) /\ Result(x, s, sent)
  BY DEF Steps
<1> HIDE DEF s
<1>1. Behaves(x, s, sent) /\ dev'[x] = s
  BY <1>0 DEF Moves, Result
<1>2. \A y \in Device \ {x} : dev[y] \in DeviceState /\ Follows(dev[y], dev'[y], sent)
  BY <1>0, <1>1, OthersHear, DeviceByDevice DEF Follows, Behaves, Sincere
<1>3. \A y \in Device \ {x} :
        /\ dev'[y].thread = dev[y].thread /\ dev'[y].status = dev[y].status
        /\ Joining(dev'[y]) <=> Joining(dev[y])
        /\ AloneInv(dev[y]) => AloneInv(dev'[y])
  BY <1>2, FollowsLemma
<1>4. \A d \in Device : AloneInv(dev'[d])
  BY <1>1, <1>3 DEF MeetInv, Behaves
<1>5. \A d, e \in Device : Joining(dev'[d]) /\ Joining(dev'[e]) => d = e
  <2>1. \A d \in Device : Joining(dev'[d]) => Joining(dev[d])
    BY <1>1, <1>3 DEF Behaves
  <2>2. QED
    BY <2>1 DEF MeetInv
<1>6. ASSUME NEW d \in Device, dev'[d].thread = "starting", NEW e \in Device
      PROVE  Quiet(dev'[e])
  <2>1. d # x /\ dev[d].thread = "starting"
    BY <1>1, <1>3, <1>6 DEF Behaves
  <2>2. Quiet(dev[e]) /\ Quiet(dev[x])
    BY <2>1 DEF MeetInv
  <2>3. dev[x].thread # "starting"
    BY <2>1 DEF MeetInv, Joining
  <2>4. Quiet(s) /\ sent = {}
    BY <1>1, <2>2, <2>3 DEF Behaves
  <2>5. CASE e = x
    BY <1>1, <2>4, <2>5
  <2>6. CASE e # x
    BY <1>2, <2>2, <2>4, <2>6 DEF Follows
  <2>7. QED
    BY <2>5, <2>6
<1>7. ASSUME NEW d \in Device, NEW e \in Device, d # e, dev'[e].status = "ONLINE"
      PROVE  Meets(d, dev'[d], e, dev'[e], losses')
  <2>1. CASE d # x /\ e # x
    BY <1>2, <1>3, <1>7, <2>1, <1>0, ListenersMeet
  <2>2. CASE e = x
    BY <1>1, <1>2, <1>7, <2>2, <1>0, MoverIsMet
  <2>3. CASE d = x
    BY <1>1, <1>2, <1>3, <1>7, <2>3, <1>0, MoverMeets
  <2>4. QED
    BY <2>1, <2>2, <2>3
<1>8. QED
  BY <1>4, <1>5, <1>6, <1>7 DEF MeetInv, Online

\* A step that sends nothing, and one that sends a frame.
LEMMA BecomeMeets ==
  ASSUME InductiveInv, InductiveInv', MeetInv,
         NEW x \in Device, NEW s, Moves(x, s, {}), dev' = [dev EXCEPT ![x] = s],
         losses' \in Nat, losses' >= losses
  PROVE  Steps(x)
<1>1. Result(x, s, {}) /\ dev'[x] = s
  BY DeviceByDevice DEF Result
<1>2. QED
  BY <1>1 DEF Steps

LEMMA BecomeOnlyMeets ==
  ASSUME InductiveInv, InductiveInv', MeetInv,
         NEW x \in Device, NEW s, Moves(x, s, {}), Become(x, s)
  PROVE  Steps(x)
<1>1. losses' = losses /\ losses \in Nat /\ dev' = [dev EXCEPT ![x] = s]
  BY DeviceByDevice DEF Become
<1>2. losses' \in Nat /\ losses' >= losses
  BY <1>1
<1>3. QED
  BY <1>1, <1>2, BecomeMeets

LEMMA SendMeets ==
  ASSUME InductiveInv, InductiveInv', MeetInv,
         NEW x \in Device, NEW s, NEW f, Moves(x, s, {f}), Send(x, s, f)
  PROVE  Steps(x)
<1>1. PICK missed \in SUBSET Listeners(x) :
        /\ losses' = IF missed = {} THEN losses ELSE losses + 1
        /\ dev' = [e \in Device |->
                     IF e = x THEN s
                     ELSE IF e \in Listeners(x) \ missed THEN Enqueue(dev[e], f)
                     ELSE dev[e]]
  BY DEF Send
<1>2. losses \in Nat
  BY DeviceByDevice
<1>3. dev'[x] = s /\ losses' \in Nat /\ losses' >= losses
  BY <1>1, <1>2
<1>4. ASSUME NEW y \in Device \ {x}
      PROVE  /\ \/ dev'[y] = dev[y]
                \/ dev[y].listening /\ dev'[y] = Enqueue(dev[y], f)
             /\ dev[y].listening => dev'[y] = Enqueue(dev[y], f) \/ losses' > losses
  BY <1>1, <1>2 DEF Listeners
<1>5. Result(x, s, {f})
  BY <1>3, <1>4 DEF Result
<1>6. QED
  BY <1>3, <1>5 DEF Steps

\* A device is switched on in a network at rest.
LEMMA PowerOnMeets ==
  ASSUME InductiveInv, MeetInv, NEW x \in Device, Settled, PowerOn(x)
  PROVE  MeetInv'
<1> DEFINE s == [PoweredOff EXCEPT !.thread = "starting", !.listening = TRUE]
<1>1. /\ dev[x] = PoweredOff /\ dev' = [dev EXCEPT ![x] = s] /\ losses' = losses
      /\ dev \in [Device -> DeviceState] /\ PoweredOff \in DeviceState
  BY DeviceByDevice, PoweredOffInv DEF PowerOn, Become, MeetInv, AloneInv, DeviceInv
<1>2. /\ dev'[x] = s /\ \A y \in Device \ {x} : dev'[y] = dev[y]
  BY <1>1
<1>3. /\ s.thread = "starting" /\ s.listening /\ s.status = "OFFLINE" /\ s.queue = <<>>
      /\ s.sleeping = Idle /\ s.table = [i \in Id |-> NoUid]
  BY DEF PoweredOff
<1> HIDE DEF s
<1>4. Jobs(s) = {} /\ \A T : Queued(s, T) = {}
  BY <1>3 DEF Jobs, Queued
<1>5. AloneInv(s) /\ Quiet(s) /\ Pairs(s) = {}
  BY <1>3, <1>4 DEF AloneInv, Quiet, Pairs, Known, Active
<1>6. \A y \in Device : Quiet(dev[y]) /\ ~Joining(dev[y])
  <2>1. \A y \in Device : /\ dev[y].thread # "starting" /\ dev[y].sleeping = Idle
                          /\ dev[y].queue = <<>>
    BY DEF Settled
  <2>2. QED
    BY <2>1 DEF Quiet, Joining, Jobs, Queued, Idle, JoinTask
<1>7. \A d \in Device : AloneInv(dev'[d]) /\ Quiet(dev'[d])
  BY <1>2, <1>5, <1>6 DEF MeetInv
<1>8. \A d \in Device : Joining(dev'[d]) => d = x
  BY <1>2, <1>6
<1>9. ASSUME NEW d \in Device, NEW e \in Device, d # e, dev'[e].status = "ONLINE"
      PROVE  Meets(d, dev'[d], e, dev'[e], losses')
  <2>1. e # x /\ dev[e].status = "ONLINE"
    BY <1>2, <1>3, <1>9
  <2>2. CASE d = x
    BY <1>2, <1>3, <1>5, <2>2 DEF Meets
  <2>3. CASE d # x
    BY <1>1, <1>2, <1>9, <2>1, <2>3 DEF MeetInv, Online
  <2>4. QED
    BY <2>2, <2>3
<1>10. QED
  BY <1>7, <1>8, <1>9 DEF MeetInv, Online

-----------------------------------------------------------------------------
(***************************************************************************)
(* The kinds of moves.                                                     *)
(***************************************************************************)
\* What has no part in the protocol any more is of no concern to the others.
LEMMA InactiveMoves ==
  ASSUME NEW x \in Device, NEW s, s.status \notin Active, s.thread # "starting",
         AloneInv(s), Joining(s) => Joining(dev[x]), Pairs(s) \subseteq Pairs(dev[x]),
         Quiet(dev[x]) /\ dev[x].thread # "starting" => Quiet(s)
  PROVE  Moves(x, s, {})
BY DEF Moves, Behaves, Regards, Active

\* x neither joins nor leaves: it takes a job, answers, files, validates.
Ordinary(x, s, sent) ==
  LET r == dev[x]
  IN  /\ r.thread = "running" /\ s.thread = "running"
      /\ s.status = r.status /\ s.id = r.id /\ s.listening = r.listening
      /\ r.sleeping \notin JoinTask /\ s.sleeping \notin JoinTask
      /\ \A T \in {JoinTask, {"StartInitialization"}} :
           Queued(s, T) = {} <=> Queued(r, T) = {}
      /\ Pairs(s) \subseteq Pairs(r)
      /\ Quiet(r) => Quiet(s) /\ sent = {}
      /\ s.status = "ONLINE" /\ Asked(r) => Asked(s) \/ Answer(x, s) \in sent
      /\ \A f \in sent : Sincere(x, s, f)
      /\ \A e \in Device \ {x} : Online(e) =>
           /\ r.status = "ONLINE" /\ losses' = 0 /\ Has(r, e, dev[e])
                => Has(s, e, dev[e])
           /\ r.status \in {"INIT", "CLAIMING"} => HasInTime(s, e, dev[e])

LEMMA OrdinaryMoves ==
  ASSUME MeetInv, NEW x \in Device, NEW s, NEW sent, Ordinary(x, s, sent)
  PROVE  Moves(x, s, sent)
<1> DEFINE r == dev[x]
<1>1. AloneInv(r)
  BY DEF MeetInv
<1>2. Joining(s) <=> Joining(r)
  BY DEF Ordinary, Joining
<1>3. AloneInv(s)
  <2>1. Queued(s, {"StartInitialization"}) = {} <=> Queued(r, {"StartInitialization"}) = {}
    BY DEF Ordinary
  <2>2. /\ r.thread = "running" /\ s.thread = "running" /\ s.status = r.status
        /\ s.listening = r.listening
    BY DEF Ordinary
  <2> HIDE DEF r
  <2>3. QED
    BY <1>1, <1>2, <2>1, <2>2 DEF AloneInv
<1>4. Behaves(x, s, sent)
  BY <1>2, <1>3 DEF Ordinary, Behaves
<1>5. ASSUME NEW e \in Device \ {x}, Online(e)
      PROVE  Regards(x, s, sent, e)
  BY <1>5 DEF Ordinary, Regards, JoinTask
<1>6. QED
  BY <1>4, <1>5 DEF Moves

\* A job is taken: what is not the answer of e leaves HasInTime alone.
LEMMA TakenInTime ==
  ASSUME NEW r \in DeviceState, r.queue # <<>>, NEW e, NEW s, HasInTime(r, e, s),
         Head(r.queue) # Answer(e, s) \/ Has(r, e, s)
  PROVE  HasInTime(Dequeue(r), e, s)
<1> DEFINE t == Dequeue(r)
<1>1. r.queue \in Seq(Job)
  BY DEF DeviceState
<1>2. t.queue = Tail(r.queue) /\ t.table = r.table
  BY DEF Dequeue, DeviceState
<1>3. /\ Len(r.queue) \in Nat \ {0} /\ DOMAIN r.queue = 1 .. Len(r.queue)
      /\ DOMAIN Tail(r.queue) = 1 .. Len(r.queue) - 1
      /\ \A k \in 1 .. Len(r.queue) - 1 : Tail(r.queue)[k] = r.queue[k + 1]
      /\ Head(r.queue) = r.queue[1]
  BY <1>1
<1> HIDE DEF t
<1>4. SUFFICES ASSUME NEW m \in Queued(t, {"SendIdClaim"}), ~Has(t, e, s)
               PROVE  \E k \in 1 .. m - 1 : t.queue[k] = Answer(e, s)
  BY DEF HasInTime, t
<1>5. m \in 1 .. Len(r.queue) - 1 /\ m + 1 \in Queued(r, {"SendIdClaim"})
  BY <1>2, <1>3, <1>4 DEF Queued
<1>6. PICK k \in 1 .. (m + 1) - 1 : r.queue[k] = Answer(e, s)
  BY <1>2, <1>4, <1>5 DEF HasInTime, Has
<1>7. k # 1
  BY <1>2, <1>3, <1>4, <1>6 DEF Has
<1>8. k - 1 \in 1 .. m - 1 /\ k - 1 \in 1 .. Len(r.queue) - 1 /\ (k - 1) + 1 = k
  BY <1>3, <1>5, <1>6, <1>7
<1>9. t.queue[k - 1] = r.queue[k]
  BY <1>2, <1>3, <1>8
<1>10. QED
  BY <1>6, <1>8, <1>9

LEMMA TakenLemma ==
  ASSUME NEW r \in DeviceState, r.queue # <<>>
  PROVE  LET s == Dequeue(r)
         IN  /\ s \in DeviceState
             /\ s.thread = r.thread /\ s.status = r.status /\ s.id = r.id
             /\ s.claiming = r.claiming /\ s.sleeping = r.sleeping
             /\ s.listening = r.listening /\ s.table = r.table
             /\ s.validating = r.validating
             /\ Pairs(s) \subseteq Pairs(r)
             /\ Jobs(s) \subseteq Jobs(r) /\ Head(r.queue) \in Jobs(r)
             /\ \A job \in Jobs(r) : job \in Jobs(s) \/ job = Head(r.queue)
             /\ \A T : Head(r.queue).type \notin T =>
                  (Queued(s, T) = {} <=> Queued(r, T) = {})
<1> DEFINE s == Dequeue(r)
<1>1. r.queue \in Seq(Job)
  BY DEF DeviceState
<1>2. /\ s.queue = Tail(r.queue)
      /\ s.thread = r.thread /\ s.status = r.status /\ s.id = r.id
      /\ s.claiming = r.claiming /\ s.sleeping = r.sleeping
      /\ s.listening = r.listening /\ s.table = r.table
      /\ s.validating = r.validating
  BY DEF Dequeue, DeviceState
<1>3. s \in DeviceState /\ Pairs(s) \subseteq Pairs(r) /\ Head(r.queue) \in Jobs(r)
  BY DequeueLemma, DequeueKeeps DEF Keeps
<1>4. /\ Len(r.queue) \in Nat \ {0} /\ DOMAIN r.queue = 1 .. Len(r.queue)
      /\ DOMAIN Tail(r.queue) = 1 .. Len(r.queue) - 1
      /\ \A k \in 1 .. Len(r.queue) - 1 : Tail(r.queue)[k] = r.queue[k + 1]
      /\ Head(r.queue) = r.queue[1]
  BY <1>1
<1> HIDE DEF s
<1>5. ASSUME NEW k \in DOMAIN r.queue, k # 1
      PROVE  k - 1 \in DOMAIN s.queue /\ s.queue[k - 1] = r.queue[k]
  <2>1. k - 1 \in 1 .. Len(r.queue) - 1 /\ (k - 1) + 1 = k
    BY <1>4, <1>5
  <2>2. QED
    BY <1>2, <1>4, <2>1
<1>6. \A k \in DOMAIN s.queue : k + 1 \in DOMAIN r.queue /\ s.queue[k] = r.queue[k + 1]
  BY <1>2, <1>4
<1>7. /\ Jobs(s) \subseteq Jobs(r)
      /\ \A job \in Jobs(r) : job \in Jobs(s) \/ job = Head(r.queue)
  BY <1>4, <1>5, <1>6 DEF Jobs
<1>8. ASSUME NEW T, Head(r.queue).type \notin T
      PROVE  Queued(s, T) = {} <=> Queued(r, T) = {}
  BY <1>4, <1>5, <1>6, <1>8 DEF Queued
<1>9. QED
  BY <1>2, <1>3, <1>7, <1>8 DEF s

\* A device that runs a job of its queue: its thread is through with starting.
LEMMA RunsLemma ==
  ASSUME InductiveInv, MeetInv, NEW x \in Device, NEW type, Ready(x, type)
  PROVE  /\ dev[x] \in DeviceState /\ dev[x].queue # <<>> /\ dev[x].thread = "running"
         /\ Head(dev[x].queue) \in Job /\ Head(dev[x].queue).type = type
         /\ dev[x].sleeping = Idle /\ dev[x].sleeping \notin JoinTask
         /\ dev[x].claiming = Unassigned
         /\ type # "PeriodicValidation" => ~Quiet(dev[x])
<1> DEFINE r == dev[x]
<1>1. /\ r \in DeviceState /\ r.queue # <<>> /\ r.sleeping = Idle
      /\ Head(r.queue).type = type /\ Head(r.queue) \in Job /\ DeviceInv(r)
      /\ r.claiming = Unassigned
  BY DeviceByDevice, DequeueLemma DEF Ready, DeviceInv, SleepInv, Idle
<1>2. Head(r.queue) \in Jobs(r)
  BY <1>1, TakenLemma
<1>3. type # "PeriodicValidation" => ~Quiet(r)
  BY <1>1, <1>2 DEF Quiet
<1>4. r.thread # "off"
  BY <1>1 DEF DeviceInv, JoinInv
<1>5. r.thread # "starting"
  <2>1. SUFFICES ASSUME r.thread = "starting" PROVE FALSE
    OBVIOUS
  <2>2. Quiet(r) /\ r.status = "OFFLINE"
    BY <2>1 DEF MeetInv, AloneInv
  <2>3. Queued(r, {"PeriodicValidation"}) = {}
    BY <1>1, <2>2 DEF DeviceInv, ValidationInv
  <2>4. 1 \in DOMAIN r.queue /\ r.queue[1] = Head(r.queue)
    BY <1>1 DEF DeviceState
  <2>5. QED
    BY <1>1, <1>3, <2>2, <2>3, <2>4 DEF Queued
<1>6. QED
  BY <1>1, <1>3, <1>4, <1>5 DEF DeviceState, Idle, JoinTask

\* A job that is neither one of joining nor the validation is taken, and run to t.
LEMMA OrdinaryTake ==
  ASSUME InductiveInv, MeetInv, NEW x \in Device, NEW type, Ready(x, type),
         type \notin JoinTask, type # "PeriodicValidation",
         NEW t, NEW sent,
         t.thread = dev[x].thread, t.status = dev[x].status, t.id = dev[x].id,
         t.listening = dev[x].listening, t.sleeping \notin JoinTask,
         \A T \in {JoinTask, {"StartInitialization"}} :
           Queued(t, T) = {} <=> Queued(Dequeue(dev[x]), T) = {},
         Pairs(t) \subseteq Pairs(dev[x]),
         t.status = "ONLINE" /\ Asked(dev[x]) => Asked(t),
         \A f \in sent : Sincere(x, t, f),
         \A e \in Device \ {x} : Online(e) =>
           /\ dev[x].status = "ONLINE" /\ Has(dev[x], e, dev[e]) => Has(t, e, dev[e])
           /\ dev[x].status \in {"INIT", "CLAIMING"} => HasInTime(t, e, dev[e])
  PROVE  Moves(x, t, sent)
<1> DEFINE r == dev[x]
<1>1. /\ r \in DeviceState /\ r.queue # <<>> /\ r.thread = "running"
      /\ Head(r.queue).type = type /\ r.sleeping \notin JoinTask /\ ~Quiet(r)
  BY RunsLemma
<1>2. type \notin {"StartInitialization"}
  BY DEF JoinTask
<1>3. \A T \in {JoinTask, {"StartInitialization"}} :
        Queued(t, T) = {} <=> Queued(r, T) = {}
  BY <1>1, <1>2, TakenLemma
<1>4. Ordinary(x, t, sent)
  BY <1>1, <1>3 DEF Ordinary
<1>5. QED
  BY <1>4, OrdinaryMoves

\* While x has that ID in time, it has it in time when a job is taken that is not
\* the answer itself.
LEMMA TakenInTimeOfAll ==
  ASSUME InductiveInv, MeetInv, NEW x \in Device, NEW type, Ready(x, type),
         type # "DISCOVERY_RESPONSE", dev[x].status \in {"INIT", "CLAIMING"},
         NEW e \in Device \ {x}, Online(e)
  PROVE  HasInTime(Dequeue(dev[x]), e, dev[e])
<1>1. /\ dev[x] \in DeviceState /\ dev[x].queue # <<>>
      /\ Head(dev[x].queue).type = type
  BY RunsLemma
<1>2. HasInTime(dev[x], e, dev[e])
  BY DEF MeetInv, Meets
<1>3. Head(dev[x].queue) # Answer(e, dev[e])
  BY <1>1 DEF Answer, DiscoveryResponse
<1>4. QED
  BY <1>1, <1>2, <1>3, TakenInTime

LEMMA SameInTime ==
  ASSUME NEW r, NEW t, t.queue = r.queue, t.table = r.table
  PROVE  /\ \A e, s : HasInTime(r, e, s) => HasInTime(t, e, s)
         /\ \A T : Queued(t, T) = Queued(r, T)
         /\ Jobs(t) = Jobs(r) /\ Pairs(t) = Pairs(r)
BY DEF HasInTime, Has, Queued, Jobs, Pairs, Known
-----------------------------------------------------------------------------
(***************************************************************************)
(* The actions.                                                            *)
(***************************************************************************)
LEMMA PowerOffMoves ==
  ASSUME NEW x \in Device, PowerOff(x)
  PROVE  Moves(x, PoweredOff, {})
<1>1. Jobs(PoweredOff) = {} /\ \A T : Queued(PoweredOff, T) = {}
  BY DEF PoweredOff, Jobs, Queued
<1>2. AloneInv(PoweredOff) /\ Quiet(PoweredOff) /\ ~Joining(PoweredOff)
      /\ Pairs(PoweredOff) = {}
  BY <1>1 DEF AloneInv, Quiet, Joining, Pairs, Known, PoweredOff, Active, Idle, JoinTask
<1>3. QED
  BY <1>2, InactiveMoves DEF PoweredOff, Active

LEMMA ProcessDiscoveryRequestFrameMeets ==
  ASSUME InductiveInv, InductiveInv', MeetInv, NEW x \in Device,
         ProcessDiscoveryRequestFrame(x)
  PROVE  Steps(x)
<1> DEFINE q == Dequeue(dev[x])
           uid == Head(dev[x].queue).uid
           r == [q EXCEPT !.requesting = Append(@, uid)]
           job == [type |-> "SendDiscoveryResponse"]
           t == Enqueue(r, job)
<1>0. Ready(x, "DISCOVERY_REQUEST") /\ Become(x, t)
  BY DEF ProcessDiscoveryRequestFrame
<1>1. /\ dev[x] \in DeviceState /\ dev[x].queue # <<>>
      /\ Head(dev[x].queue) \in Job /\ Head(dev[x].queue).type = "DISCOVERY_REQUEST"
      /\ dev[x].sleeping \notin JoinTask
  BY <1>0, RunsLemma
<1>2. /\ q \in DeviceState
      /\ q.thread = dev[x].thread /\ q.status = dev[x].status /\ q.id = dev[x].id
      /\ q.sleeping = dev[x].sleeping /\ q.listening = dev[x].listening
      /\ q.table = dev[x].table /\ Pairs(q) \subseteq Pairs(dev[x])
  BY <1>1, TakenLemma
<1>3. uid \in UidValue
  BY <1>1, JobLemma
<1>4. job \in Job /\ job.type \notin Naming /\ job.type \notin JoinTask
  BY DEF Job, Task, Naming, JoinTask
<1>5. \A e \in Device \ {x} : Online(e) /\ dev[x].status \in {"INIT", "CLAIMING"} =>
        HasInTime(q, e, dev[e])
  BY <1>0, TakenInTimeOfAll
<1> HIDE DEF q, uid
<1>6. /\ r \in DeviceState
      /\ r.thread = q.thread /\ r.status = q.status /\ r.id = q.id
      /\ r.sleeping = q.sleeping /\ r.listening = q.listening
      /\ r.table = q.table /\ r.queue = q.queue
  <2>1. Append(q.requesting, uid) \in Seq(UidValue)
    BY <1>2, <1>3 DEF DeviceState
  <2>2. QED
    BY <1>2, <2>1 DEF DeviceState
<1> HIDE DEF r
<1>7. Hears(r, t, job) /\ Pairs(t) \subseteq Pairs(r)
  BY <1>4, <1>6, HearLemma, EnqueueKeeps DEF Keeps
<1>8. Asked(t)
  BY <1>7 DEF Hears, Asked, job
<1> HIDE DEF t, job
<1>9. ASSUME NEW e \in Device \ {x}, Online(e)
      PROVE  /\ Has(dev[x], e, dev[e]) => Has(t, e, dev[e])
             /\ dev[x].status \in {"INIT", "CLAIMING"} => HasInTime(t, e, dev[e])
  <2>1. t.table = dev[x].table
    BY <1>2, <1>6, <1>7 DEF Hears
  <2>2. HasInTime(q, e, dev[e]) => HasInTime(t, e, dev[e])
    BY <1>6, <1>7, SameInTime, HeardInTime
  <2>3. QED
    BY <1>5, <1>9, <2>1, <2>2 DEF Has
<1>10. /\ t.thread = dev[x].thread /\ t.status = dev[x].status /\ t.id = dev[x].id
       /\ t.listening = dev[x].listening /\ t.sleeping = dev[x].sleeping
       /\ Queued(t, JoinTask) = Queued(q, JoinTask)
       /\ Queued(t, {"StartInitialization"}) = Queued(q, {"StartInitialization"})
       /\ Pairs(t) \subseteq Pairs(dev[x])
  BY <1>2, <1>6, <1>7, SameInTime DEF Hears
<1>11. "DISCOVERY_REQUEST" \notin JoinTask
  BY DEF JoinTask
<1>12. Moves(x, t, {})
  BY <1>0, <1>1, <1>8, <1>9, <1>10, <1>11, OrdinaryTake DEF q
<1>13. QED
  BY <1>0, <1>12, BecomeOnlyMeets

LEMMA SendDiscoveryResponseMeets ==
  ASSUME InductiveInv, InductiveInv', MeetInv, NEW x \in Device,
         SendDiscoveryResponse(x)
  PROVE  Steps(x)
<1> DEFINE q == Dequeue(dev[x])
           r == [q EXCEPT !.sleeping = "SendDiscoveryResponse"]
           t == IF q.status = "ONLINE" THEN r ELSE q
<1>0. Ready(x, "SendDiscoveryResponse") /\ Become(x, t)
  BY DEF SendDiscoveryResponse
<1>1. /\ dev[x] \in DeviceState /\ dev[x].queue # <<>>
      /\ dev[x].sleeping \notin JoinTask
  BY <1>0, RunsLemma
<1>2. /\ q \in DeviceState
      /\ q.thread = dev[x].thread /\ q.status = dev[x].status /\ q.id = dev[x].id
      /\ q.sleeping = dev[x].sleeping /\ q.listening = dev[x].listening
      /\ q.table = dev[x].table /\ Pairs(q) \subseteq Pairs(dev[x])
  BY <1>1, TakenLemma
<1>3. \A e \in Device \ {x} : Online(e) /\ dev[x].status \in {"INIT", "CLAIMING"} =>
        HasInTime(q, e, dev[e])
  BY <1>0, TakenInTimeOfAll
<1> HIDE DEF q
<1>4. /\ t.thread = q.thread /\ t.status = q.status /\ t.id = q.id
      /\ t.listening = q.listening /\ t.table = q.table /\ t.queue = q.queue
      /\ t.sleeping \in {q.sleeping, "SendDiscoveryResponse"}
      /\ t.status = "ONLINE" => t.sleeping = "SendDiscoveryResponse"
  BY <1>2 DEF DeviceState
<1> HIDE DEF t
<1>5. /\ \A e, s : HasInTime(q, e, s) => HasInTime(t, e, s)
      /\ \A T : Queued(t, T) = Queued(q, T)
      /\ Pairs(t) = Pairs(q)
  BY <1>4, SameInTime
<1>6. t.sleeping \notin JoinTask /\ "SendDiscoveryResponse" \notin JoinTask
  BY <1>1, <1>2, <1>4 DEF JoinTask
<1>7. Moves(x, t, {})
  BY <1>0, <1>2, <1>3, <1>4, <1>5, <1>6, OrdinaryTake DEF q, Asked, Has
<1>8. QED
  BY <1>0, <1>7, BecomeOnlyMeets

\* While the device claims nothing, an answer to a claim is for somebody else.
LEMMA ProcessIdClaimResponseFrameMeets ==
  ASSUME InductiveInv, InductiveInv', MeetInv, NEW x \in Device,
         ProcessIdClaimResponseFrame(x)
  PROVE  Steps(x)
<1> DEFINE q == Dequeue(dev[x])
           frame == Head(dev[x].queue)
<1>0. Ready(x, "ID_CLAIM_RESPONSE")
  BY DEF ProcessIdClaimResponseFrame
<1>1. /\ dev[x] \in DeviceState /\ dev[x].queue # <<>>
      /\ dev[x].sleeping \notin JoinTask /\ dev[x].claiming = Unassigned
      /\ frame \in Job /\ frame.type = "ID_CLAIM_RESPONSE"
  BY <1>0, RunsLemma
<1>2. /\ q \in DeviceState
      /\ q.thread = dev[x].thread /\ q.status = dev[x].status /\ q.id = dev[x].id
      /\ q.sleeping = dev[x].sleeping /\ q.listening = dev[x].listening
      /\ q.table = dev[x].table /\ Pairs(q) \subseteq Pairs(dev[x])
      /\ q.claiming = dev[x].claiming
      /\ \A job \in Jobs(dev[x]) : job \in Jobs(q) \/ job = frame
  BY <1>1, TakenLemma
<1>3. frame.id # Unassigned
  BY <1>1, JobLemma, SizeAssumption DEF Id, Unassigned
<1>4. Become(x, q)
  BY <1>1, <1>2, <1>3 DEF ProcessIdClaimResponseFrame
<1>5. \A e \in Device \ {x} : Online(e) /\ dev[x].status \in {"INIT", "CLAIMING"} =>
        HasInTime(q, e, dev[e])
  BY <1>0, TakenInTimeOfAll
<1>6. Asked(dev[x]) => Asked(q)
  BY <1>1, <1>2 DEF Asked
<1>7. "ID_CLAIM_RESPONSE" \notin JoinTask
  BY DEF JoinTask
<1>8. Moves(x, q, {})
  <2> HIDE DEF frame
  <2>1. QED
    BY <1>0, <1>1, <1>2, <1>5, <1>6, <1>7, OrdinaryTake DEF Has
<1>9. QED
  BY <1>4, <1>8, BecomeOnlyMeets

LEMMA ValidationDueMeets ==
  ASSUME InductiveInv, InductiveInv', MeetInv, NEW x \in Device, ValidationDue(x)
  PROVE  Steps(x)
<1> DEFINE r == [dev[x] EXCEPT !.armed = FALSE]
           job == [type |-> "PeriodicValidation"]
           t == Enqueue(r, job)
<1>1. /\ dev[x] \in DeviceState /\ dev[x].status = "ONLINE" /\ dev[x].thread = "running"
      /\ dev[x].sleeping \notin JoinTask
      /\ Become(x, t)
  BY DeviceByDevice DEF ValidationDue, DeviceInv, ValidationInv, JoinInv, SleepInv, JoinTask
<1>2. /\ r \in DeviceState
      /\ r.thread = dev[x].thread /\ r.status = dev[x].status /\ r.id = dev[x].id
      /\ r.sleeping = dev[x].sleeping /\ r.listening = dev[x].listening
      /\ r.table = dev[x].table /\ r.queue = dev[x].queue
  BY <1>1 DEF DeviceState
<1>3. job \in Job /\ job.type \notin Naming /\ job.type \notin JoinTask
  BY DEF Job, Task, Naming, JoinTask
<1> HIDE DEF r
<1>4. Hears(r, t, job) /\ Pairs(t) \subseteq Pairs(r)
  BY <1>2, <1>3, HearLemma, EnqueueKeeps DEF Keeps
<1> HIDE DEF t
<1>5. /\ \A T : Queued(r, T) = Queued(dev[x], T)
      /\ Jobs(r) = Jobs(dev[x]) /\ Pairs(r) = Pairs(dev[x])
  BY <1>2, SameInTime
<1>6. /\ Queued(t, JoinTask) = Queued(dev[x], JoinTask)
      /\ Queued(t, {"StartInitialization"}) = Queued(dev[x], {"StartInitialization"})
      /\ Jobs(t) = Jobs(dev[x]) \cup {job}
      /\ Pairs(t) \subseteq Pairs(dev[x])
      /\ t.thread = dev[x].thread /\ t.status = dev[x].status /\ t.id = dev[x].id
      /\ t.sleeping = dev[x].sleeping /\ t.listening = dev[x].listening
      /\ t.table = dev[x].table
  BY <1>2, <1>4, <1>5 DEF Hears
<1>7. Ordinary(x, t, {})
  BY <1>1, <1>6 DEF Ordinary, Quiet, Asked, Has
<1>8. QED
  BY <1>1, <1>7, OrdinaryMoves, BecomeOnlyMeets

\* What is forgotten belongs to nobody, or it costs a loss.
LEMMA ProcessPeriodicValidationMeets ==
  ASSUME InductiveInv, InductiveInv', MeetInv, NEW x \in Device,
         ProcessPeriodicValidation(x)
  PROVE  Steps(x)
<1> DEFINE q == Dequeue(dev[x])
<1>0. Ready(x, "PeriodicValidation")
  BY DEF ProcessPeriodicValidation
<1>1. /\ dev[x] \in DeviceState /\ dev[x].queue # <<>> /\ dev[x].thread = "running"
      /\ Head(dev[x].queue).type = "PeriodicValidation"
      /\ dev[x].sleeping \notin JoinTask
      /\ dev[x].validating <=> dev[x].status = "ONLINE"
  BY <1>0, RunsLemma, DeviceByDevice, Zenon DEF DeviceInv, ValidationInv
<1>2. /\ q \in DeviceState
      /\ q.thread = dev[x].thread /\ q.status = dev[x].status /\ q.id = dev[x].id
      /\ q.sleeping = dev[x].sleeping /\ q.listening = dev[x].listening
      /\ q.table = dev[x].table /\ q.validating = dev[x].validating
      /\ Pairs(q) \subseteq Pairs(dev[x]) /\ Jobs(q) \subseteq Jobs(dev[x])
      /\ \A job \in Jobs(dev[x]) : job \in Jobs(q) \/ job = Head(dev[x].queue)
      /\ \A T \in {JoinTask, {"StartInitialization"}} :
           Queued(q, T) = {} <=> Queued(dev[x], T) = {}
  <2>1. \A T \in {JoinTask, {"StartInitialization"}} : "PeriodicValidation" \notin T
    BY DEF JoinTask
  <2>2. QED
    BY <1>1, <2>1, TakenLemma
<1>3. /\ Quiet(dev[x]) => Quiet(q)
      /\ Asked(dev[x]) => Asked(q)
  BY <1>1, <1>2 DEF Quiet, Asked
<1>4. CASE ~q.validating
  <2>1. Become(x, q)
    BY <1>4 DEF ProcessPeriodicValidation
  <2>2. \A e \in Device \ {x} : Online(e) /\ dev[x].status \in {"INIT", "CLAIMING"} =>
          HasInTime(q, e, dev[e])
    BY <1>0, TakenInTimeOfAll
  <2>3. Ordinary(x, q, {})
    BY <1>1, <1>2, <1>3, <2>2 DEF Ordinary, Has
  <2>4. QED
    BY <2>1, <2>3, OrdinaryMoves, BecomeOnlyMeets
<1>5. CASE q.validating
  <2>1. PICK stale \in SUBSET Id :
          /\ Forget(stale)
          /\ dev' = [dev EXCEPT ![x] = [UpdateNetworkDevices(RemoveDevices(q, stale))
                                          EXCEPT !.armed = TRUE]]
    BY <1>5 DEF ProcessPeriodicValidation, Known
  <2> DEFINE s == RemoveDevices(q, stale)
             t == [UpdateNetworkDevices(s) EXCEPT !.armed = TRUE]
  <2>2. dev' = [dev EXCEPT ![x] = t]
    BY <2>1
  <2> HIDE DEF q
  <2>3. /\ s.table = [i \in Id |-> IF i \in stale THEN NoUid ELSE q.table[i]]
        /\ s = [q EXCEPT !.table = s.table]
    BY <1>2 DEF RemoveDevices, DeviceState
  <2> HIDE DEF s
  <2>4. /\ t.table = s.table /\ t.queue = q.queue
        /\ t.thread = q.thread /\ t.status = q.status /\ t.id = q.id
        /\ t.sleeping = q.sleeping /\ t.listening = q.listening
    BY <1>2, <2>3 DEF UpdateNetworkDevices, DeviceState
  <2> HIDE DEF t
  <2>5. /\ Jobs(t) = Jobs(q) /\ \A T : Queued(t, T) = Queued(q, T)
    BY <2>4 DEF Jobs, Queued
  <2>6. Pairs(t) \subseteq Pairs(q)
    <3>1. \A i \in Known(t) : i \in Known(q) /\ t.table[i] = q.table[i]
      BY <2>3, <2>4 DEF Known
    <3>2. QED
      BY <2>5, <3>1 DEF Pairs
  <2>7. losses \in Nat /\ losses' \in Nat /\ losses' >= losses
        /\ (losses' = 0 => \A i \in stale : ~Alive(i))
    <3>1. losses \in Nat
      BY DeviceByDevice
    <3>2. losses' = IF \E i \in stale : Alive(i) THEN losses + 1 ELSE losses
      BY <2>1 DEF Forget
    <3>3. QED
      BY <3>1, <3>2
  <2>8. ASSUME NEW e \in Device \ {x}, Online(e), losses' = 0, Has(dev[x], e, dev[e])
        PROVE  Has(t, e, dev[e])
    <3>1. Alive(dev[e].id) /\ dev[e].id \in Id
      BY <2>8, DeviceByDevice DEF Alive, Owns, Online, DeviceInv, SleepInv, DeviceState
    <3>2. dev[e].id \notin stale
      BY <2>7, <2>8, <3>1
    <3>3. QED
      BY <1>2, <2>3, <2>4, <2>8, <3>1, <3>2 DEF Has
  <2>9. Quiet(q) => Quiet(t)
    BY <2>4, <2>5 DEF Quiet
  <2>10. Asked(q) => Asked(t)
    BY <2>4, <2>5 DEF Asked
  <2>11. dev[x].status = "ONLINE"
    BY <1>1, <1>2, <1>5
  <2>12. Ordinary(x, t, {})
    BY <1>1, <1>2, <1>3, <2>4, <2>5, <2>6, <2>8, <2>9, <2>10, <2>11 DEF Ordinary
  <2>13. QED
    BY <2>2, <2>7, <2>12, OrdinaryMoves, BecomeMeets
<1>6. QED
  BY <1>4, <1>5

\* The answer that was asked for is sent.
LEMMA WakeDiscoveryResponseMeets ==
  ASSUME InductiveInv, InductiveInv', MeetInv, NEW x \in Device,
         WakeDiscoveryResponse(x)
  PROVE  Steps(x)
<1> DEFINE t == [dev[x] EXCEPT !.sleeping = Idle]
           frame == DiscoveryResponse(x, dev[x].id)
<1>1. /\ dev[x] \in DeviceState /\ dev[x].id \in Id /\ dev[x].status = "ONLINE"
      /\ dev[x].sleeping = "SendDiscoveryResponse" /\ dev[x].thread = "running"
      /\ Send(x, t, frame)
  BY DeviceByDevice DEF WakeDiscoveryResponse, DeviceInv, SleepInv, JoinInv, DeviceState
<1>2. /\ t.thread = dev[x].thread /\ t.status = dev[x].status /\ t.id = dev[x].id
      /\ t.table = dev[x].table /\ t.queue = dev[x].queue
      /\ t.listening = dev[x].listening /\ t.sleeping = Idle
  BY <1>1 DEF DeviceState
<1>3. /\ frame \in Frame /\ frame.type = "DISCOVERY_RESPONSE"
      /\ frame.id = dev[x].id /\ frame.uid = Uid[x] /\ frame = Answer(x, t)
  BY <1>1, <1>2, FrameLemma DEF ClaimResult, DiscoveryResponse, Answer
<1> HIDE DEF t, frame
<1>4. Sincere(x, t, frame)
  BY <1>1, <1>2, <1>3 DEF Sincere
<1>5. /\ \A T : Queued(t, T) = Queued(dev[x], T)
      /\ Pairs(t) = Pairs(dev[x])
  BY <1>2, SameInTime
<1>6. ~Quiet(dev[x]) /\ dev[x].sleeping \notin JoinTask /\ t.sleeping \notin JoinTask
  BY <1>1, <1>2 DEF Quiet, Idle, JoinTask
<1>7. Ordinary(x, t, {frame})
  BY <1>1, <1>2, <1>3, <1>4, <1>5, <1>6 DEF Ordinary, Has
<1>8. QED
  BY <1>1, <1>7, OrdinaryMoves, SendMeets

\* What filing a device leaves as it was.
LEMMA FileLemma ==
  ASSUME NEW r \in DeviceState, NEW id \in Id, NEW uid \in UidValue
  PROVE  LET t == AddOrUpdateDevice(r, id, uid)
         IN  /\ t.thread = r.thread /\ t.status = r.status /\ t.id = r.id
             /\ t.sleeping = r.sleeping /\ t.listening = r.listening /\ t.queue = r.queue
             /\ \A i \in Known(r) : t.table[i] = r.table[i]
             /\ id \in Known(r) \/ t.table[id] = uid
<1> DEFINE t == AddOrUpdateDevice(r, id, uid)
<1>1. CASE id \in Known(r)
  BY <1>1 DEF AddOrUpdateDevice
<1>2. CASE id \notin Known(r)
  <2>1. /\ t.thread = r.thread /\ t.status = r.status /\ t.id = r.id
        /\ t.sleeping = r.sleeping /\ t.listening = r.listening /\ t.queue = r.queue
        /\ t.table = [r.table EXCEPT ![id] = uid]
    BY <1>2 DEF AddOrUpdateDevice, UpdateNetworkDevices, DeviceState
  <2>2. r.table \in [Id -> UidValue \cup {NoUid}]
    BY DEF DeviceState
  <2> HIDE DEF t
  <2>3. /\ \A i \in Known(r) : t.table[i] = r.table[i]
        /\ t.table[id] = uid
    BY <1>2, <2>1, <2>2 DEF Known
  <2>4. QED
    BY <2>1, <2>3 DEF t
<1>3. QED
  BY <1>1, <1>2

\* What is known of a device that has an ID is kept.
LEMMA FiledKeeps ==
  ASSUME NEW r \in DeviceState, NEW id \in Id, NEW uid \in UidValue,
         NEW e \in Device, NEW s, s.id \in Id, Has(r, e, s)
  PROVE  Has(AddOrUpdateDevice(r, id, uid), e, s)
<1>1. Uid[e] # NoUid
  BY UidAssumption
<1>2. s.id \in Known(r)
  BY <1>1 DEF Has, Known
<1>3. QED
  BY <1>2, FileLemma DEF Has

\* A device that runs a job and goes into ERROR leaves the protocol.
LEMMA ErrorMoves ==
  ASSUME InductiveInv, MeetInv, NEW x \in Device, NEW type, Ready(x, type),
         type # "PeriodicValidation",
         NEW r \in DeviceState, r.thread = dev[x].thread, r.status = dev[x].status,
         r.sleeping = dev[x].sleeping, r.table = dev[x].table,
         r.queue = Dequeue(dev[x]).queue
  PROVE  Moves(x, SetStatus(r, "ERROR"), {})
<1> DEFINE q == Dequeue(dev[x])
           s == [r EXCEPT !.status = "ERROR"]
           e == SetStatus(r, "ERROR")
<1>1. /\ dev[x] \in DeviceState /\ dev[x].queue # <<>> /\ dev[x].thread = "running"
      /\ dev[x].sleeping = Idle /\ ~Quiet(dev[x])
  BY RunsLemma
<1>2. /\ q \in DeviceState /\ DeviceInv(q) /\ q.table = dev[x].table
      /\ Pairs(q) \subseteq Pairs(dev[x])
      /\ Queued(dev[x], JoinTask) = {} => Queued(q, JoinTask) = {}
  BY <1>1, TakenLemma, ReadyLemma, DequeueLemma
<1>3. \A j, k \in Queued(q, {"PeriodicValidation"}) : j = k
  BY <1>2 DEF DeviceInv, ValidationInv
<1> HIDE DEF q
<1>4. (\A T : Queued(r, T) = Queued(q, T)) /\ Pairs(r) = Pairs(q)
  BY <1>2, SameInTime DEF q
<1>5. \A j, k \in Queued(r, {"PeriodicValidation"}) : j = k
  BY <1>3, <1>4
<1>6. Pairs(e) \subseteq Pairs(dev[x])
  BY <1>2, <1>4, <1>5, ErrorKeeps DEF Keeps
<1>7. /\ e.thread = "running" /\ e.sleeping = Idle /\ e.status \notin Active
      /\ Queued(r, JoinTask) = {} => Queued(e, JoinTask) = {}
  <2>1. CASE <<r.status, "ERROR">> \notin IsValidTransition
    <3>1. e = r
      BY <2>1 DEF SetStatus
    <3>2. QED
      BY <1>1, <2>1, <3>1 DEF IsValidTransition, Active
  <2>2. CASE <<r.status, "ERROR">> \in IsValidTransition
    <3>1. /\ s \in DeviceState /\ s.status = "ERROR" /\ s.queue = r.queue
          /\ s.thread = r.thread /\ s.sleeping = r.sleeping
      BY DEF DeviceState, Status
    <3>2. e = Stop(s)
      BY <2>2, <3>1 DEF SetStatus, OnDeviceStatusChanged
    <3> HIDE DEF s
    <3>3. \A T : Queued(s, T) = Queued(r, T)
      BY <3>1 DEF Queued
    <3>4. Queued(r, JoinTask) = {} => Queued(Stop(s), JoinTask) = {}
      BY <1>5, <3>1, <3>3, StopLemma
    <3>5. /\ Stop(s).thread = s.thread /\ Stop(s).sleeping = s.sleeping
          /\ Stop(s).status = s.status
      BY <3>1 DEF Stop, DeviceState
    <3>6. QED
      BY <1>1, <3>1, <3>2, <3>4, <3>5 DEF Active
  <2>3. QED
    BY <2>1, <2>2
<1> HIDE DEF e
<1>8. Joining(e) => Joining(dev[x])
  BY <1>2, <1>4, <1>7 DEF Joining, Idle, JoinTask
<1>9. AloneInv(e)
  BY <1>7 DEF AloneInv, Active
<1>10. QED
  BY <1>1, <1>6, <1>7, <1>8, <1>9, InactiveMoves DEF e

\* The responder is filed, unless its ID is known, and then it is known as its own.
LEMMA ProcessDiscoveryResponseFrameMeets ==
  ASSUME InductiveInv, InductiveInv', MeetInv, NEW x \in Device,
         ProcessDiscoveryResponseFrame(x)
  PROVE  Steps(x)
<1> DEFINE frame == Head(dev[x].queue)
           q == Dequeue(dev[x])
           r == [q EXCEPT !.answered = TRUE]
           t == AddOrUpdateDevice(r, frame.id, frame.uid)
<1>0. /\ Ready(x, "DISCOVERY_RESPONSE")
      /\ Become(x, IF frame.uid = Uid[x] THEN SetStatus(r, "ERROR") ELSE t)
  BY DEF ProcessDiscoveryResponseFrame
<1>1. /\ dev[x] \in DeviceState /\ dev[x].queue # <<>>
      /\ frame \in Job /\ frame.type = "DISCOVERY_RESPONSE"
      /\ dev[x].sleeping \notin JoinTask
  BY <1>0, RunsLemma
<1>2. /\ q \in DeviceState
      /\ q.thread = dev[x].thread /\ q.status = dev[x].status /\ q.id = dev[x].id
      /\ q.sleeping = dev[x].sleeping /\ q.listening = dev[x].listening
      /\ q.table = dev[x].table /\ Pairs(q) \subseteq Pairs(dev[x])
      /\ \A job \in Jobs(dev[x]) : job \in Jobs(q) \/ job = frame
      /\ Keeps(dev[x], q) /\ frame \in Jobs(dev[x])
  BY <1>1, TakenLemma, DequeueKeeps
<1>3. frame.id \in Id /\ frame.uid \in UidValue
  BY <1>1, JobLemma
<1>4. <<frame.id, frame.uid>> \in Pairs(dev[x])
  BY <1>1, <1>2 DEF Pairs, Naming
<1>5. \A e \in Device \ {x} : Online(e) /\ dev[x].status \in {"INIT", "CLAIMING"} =>
        HasInTime(dev[x], e, dev[e])
  BY DEF MeetInv, Meets
<1> HIDE DEF q
<1>6. /\ r \in DeviceState
      /\ r.thread = q.thread /\ r.status = q.status /\ r.id = q.id
      /\ r.sleeping = q.sleeping /\ r.listening = q.listening
      /\ r.table = q.table /\ r.queue = q.queue /\ r.claiming = q.claiming
  BY <1>2 DEF DeviceState
<1> HIDE DEF r
<1>7. CASE frame.uid = Uid[x]
  <2>1. Become(x, SetStatus(r, "ERROR"))
    BY <1>0, <1>7
  <2>2. Moves(x, SetStatus(r, "ERROR"), {})
    BY <1>0, <1>2, <1>6, ErrorMoves DEF q
  <2>3. QED
    BY <2>1, <2>2, BecomeOnlyMeets
<1>8. CASE frame.uid # Uid[x]
  <2>1. Become(x, t)
    BY <1>0, <1>8
  <2>2. Keeps(dev[x], r)
    BY <1>2, <1>6, SameKeeps, KeepsTransitive
  <2>3. Pairs(t) \subseteq Pairs(dev[x])
    BY <1>3, <1>4, <1>6, <2>2, AddOrUpdateKeeps DEF Keeps
  <2>4. /\ t.thread = r.thread /\ t.status = r.status /\ t.id = r.id
        /\ t.sleeping = r.sleeping /\ t.listening = r.listening /\ t.queue = r.queue
        /\ \A i \in Known(r) : t.table[i] = r.table[i]
        /\ frame.id \in Known(r) \/ t.table[frame.id] = frame.uid
    BY <1>3, <1>6, FileLemma
  <2>5. ASSUME NEW e \in Device, Has(dev[x], e, dev[e]), dev[e].id \in Id
        PROVE  Has(t, e, dev[e])
    <3>1. Has(r, e, dev[e])
      BY <1>2, <1>6, <2>5 DEF Has
    <3>2. QED
      BY <1>3, <1>6, <2>5, <3>1, FiledKeeps
  <2> HIDE DEF t
  <2>6. \A e \in Device \ {x} : Online(e) => dev[e].id \in Id
    BY DeviceByDevice DEF Online, DeviceInv, SleepInv, DeviceState
  <2>7. ASSUME NEW e \in Device \ {x}, Online(e), dev[x].status \in {"INIT", "CLAIMING"}
        PROVE  HasInTime(t, e, dev[e])
    <3>1. HasInTime(dev[x], e, dev[e]) /\ Joining(dev[x]) /\ Uid[e] # NoUid
      BY <1>5, <2>7, UidAssumption DEF MeetInv, AloneInv
    <3>2. CASE Has(t, e, dev[e])
      BY <3>2 DEF HasInTime
    <3>3. CASE ~Has(t, e, dev[e])
      <4>1. ~Has(dev[x], e, dev[e])
        BY <2>5, <2>6, <2>7, <3>3
      <4>2. frame # Answer(e, dev[e])
        <5>1. SUFFICES ASSUME frame = Answer(e, dev[e]) PROVE FALSE
          OBVIOUS
        <5>2. frame.id = dev[e].id /\ frame.uid = Uid[e]
          BY <5>1 DEF Answer, DiscoveryResponse
        <5>3. dev[e].id \in Known(r)
          BY <2>4, <3>3, <5>2 DEF Has
        <5>4. <<dev[e].id, dev[x].table[dev[e].id]>> \in Pairs(dev[x])
          BY <1>2, <1>6, <5>3 DEF Pairs, Known
        <5>5. dev[x].table[dev[e].id] = Uid[e]
          BY <2>7, <3>1, <5>4 DEF MeetInv, Meets
        <5>6. QED
          BY <4>1, <5>5 DEF Has
      <4>3. HasInTime(q, e, dev[e])
        BY <1>1, <3>1, <4>2, TakenInTime DEF q
      <4>4. \A k \in Queued(t, {"SendIdClaim"}) : k \in Queued(q, {"SendIdClaim"})
        BY <1>6, <2>4 DEF Queued
      <4>5. ~Has(q, e, dev[e])
        BY <1>2, <4>1 DEF Has
      <4>6. QED
        BY <1>6, <2>4, <4>3, <4>4, <4>5 DEF HasInTime
    <3>4. QED
      BY <3>2, <3>3
  <2>8. Asked(dev[x]) => Asked(t)
    <3>1. Jobs(t) = Jobs(q) /\ t.sleeping = dev[x].sleeping
      BY <1>2, <1>6, <2>4 DEF Jobs
    <3>2. QED
      BY <1>1, <1>2, <3>1 DEF Asked
  <2>9. \A T : Queued(t, T) = Queued(q, T)
    BY <1>6, <2>4 DEF Queued
  <2>10. "DISCOVERY_RESPONSE" \notin JoinTask
    BY DEF JoinTask
  <2>11. Moves(x, t, {})
    <3> HIDE DEF frame
    <3>1. /\ t.thread = dev[x].thread /\ t.status = dev[x].status /\ t.id = dev[x].id
          /\ t.listening = dev[x].listening /\ t.sleeping \notin JoinTask
      BY <1>1, <1>2, <1>6, <2>4, Zenon
    <3>2. \A T \in {JoinTask, {"StartInitialization"}} :
            Queued(t, T) = {} <=> Queued(Dequeue(dev[x]), T) = {}
      BY <2>9, Zenon DEF q
    <3>3. \A e \in Device \ {x} : Online(e) =>
            /\ dev[x].status = "ONLINE" /\ Has(dev[x], e, dev[e]) => Has(t, e, dev[e])
            /\ dev[x].status \in {"INIT", "CLAIMING"} => HasInTime(t, e, dev[e])
      BY <2>5, <2>6, <2>7, Zenon
    <3>4. "DISCOVERY_RESPONSE" # "PeriodicValidation"
      OBVIOUS
    <3>5. \A f \in {} : Sincere(x, t, f)
      OBVIOUS
    <3>6. QED
      BY <1>0, <2>3, <2>8, <2>10, <3>1, <3>2, <3>3, <3>4, <3>5, OrdinaryTake, Zenon
  <2>12. QED
    BY <2>1, <2>11, BecomeOnlyMeets
<1>9. QED
  BY <1>7, <1>8

\* A claim answered, with the claimer filed or not.
LEMMA ProcessIdClaimRequestFrameMeets ==
  ASSUME InductiveInv, InductiveInv', MeetInv, NEW x \in Device,
         ProcessIdClaimRequestFrame(x)
  PROVE  Steps(x)
<1> DEFINE frame == Head(dev[x].queue)
           q == Dequeue(dev[x])
           verdict == Verdict(x, frame)
           reply == IdClaimResponse(frame.id, verdict)
           t == IF verdict = "ACCEPT"
                THEN AddOrUpdateDevice(q, frame.id, frame.uid) ELSE q
<1>0. /\ Ready(x, "ID_CLAIM")
      /\ IF dev[x].status # "ONLINE" \/ verdict = NoResult THEN Become(x, q)
         ELSE Send(x, t, reply)
  BY DEF ProcessIdClaimRequestFrame
<1>1. /\ dev[x] \in DeviceState /\ dev[x].queue # <<>>
      /\ frame \in Job /\ frame.type = "ID_CLAIM"
      /\ dev[x].sleeping \notin JoinTask
  BY <1>0, RunsLemma
<1>2. /\ q \in DeviceState
      /\ q.thread = dev[x].thread /\ q.status = dev[x].status /\ q.id = dev[x].id
      /\ q.sleeping = dev[x].sleeping /\ q.listening = dev[x].listening
      /\ q.table = dev[x].table /\ Pairs(q) \subseteq Pairs(dev[x])
      /\ \A job \in Jobs(dev[x]) : job \in Jobs(q) \/ job = frame
      /\ Keeps(dev[x], q) /\ frame \in Jobs(dev[x])
  BY <1>1, TakenLemma, DequeueKeeps
<1>3. frame.id \in Id /\ frame.uid \in UidValue
  BY <1>1, JobLemma
<1>4. <<frame.id, frame.uid>> \in Pairs(dev[x])
  BY <1>1, <1>2 DEF Pairs, Naming
<1>5. verdict \in ClaimResult \cup {NoResult}
  BY DEF Verdict, ClaimResult
<1>6. \A e \in Device \ {x} : Online(e) /\ dev[x].status \in {"INIT", "CLAIMING"} =>
        HasInTime(q, e, dev[e])
  BY <1>0, TakenInTimeOfAll
<1>7. Asked(dev[x]) => Asked(q)
  BY <1>1, <1>2 DEF Asked
<1>8. "ID_CLAIM" \notin JoinTask
  BY DEF JoinTask
<1>9. CASE dev[x].status # "ONLINE" \/ verdict = NoResult
  <2>1. Become(x, q)
    BY <1>0, <1>9
  <2>2. Moves(x, q, {})
    <3> HIDE DEF frame, verdict
    <3>1. QED
      BY <1>0, <1>1, <1>2, <1>6, <1>7, <1>8, OrdinaryTake DEF Has
  <2>3. QED
    BY <2>1, <2>2, BecomeOnlyMeets
<1>10. CASE dev[x].status = "ONLINE" /\ verdict # NoResult
  <2>1. Send(x, t, reply)
    BY <1>0, <1>10
  <2>2. reply \in Frame /\ reply.type = "ID_CLAIM_RESPONSE"
    BY <1>3, <1>5, <1>10, FrameLemma DEF IdClaimResponse
  <2> HIDE DEF q, reply, verdict
  <2>3. /\ t.thread = q.thread /\ t.status = q.status /\ t.id = q.id
        /\ t.sleeping = q.sleeping /\ t.listening = q.listening /\ t.queue = q.queue
    BY <1>2, <1>3, FileLemma
  <2>4. Pairs(t) \subseteq Pairs(dev[x])
    BY <1>2, <1>3, <1>4, AddOrUpdateKeeps DEF Keeps
  <2>5. \A e \in Device \ {x} : Online(e) => dev[e].id \in Id
    BY DeviceByDevice DEF Online, DeviceInv, SleepInv, DeviceState
  <2>6. ASSUME NEW e \in Device, Has(dev[x], e, dev[e]), dev[e].id \in Id
        PROVE  Has(t, e, dev[e])
    <3>1. Has(q, e, dev[e])
      BY <1>2, <2>6 DEF Has
    <3>2. QED
      BY <1>2, <1>3, <2>6, <3>1, FiledKeeps
  <2> HIDE DEF t
  <2>7. /\ \A T : Queued(t, T) = Queued(q, T)
        /\ Asked(q) => Asked(t)
    BY <2>3 DEF Queued, Asked, Jobs
  <2>8. Sincere(x, t, reply)
    BY <2>2 DEF Sincere, Naming
  <2>9. Moves(x, t, {reply})
    <3> HIDE DEF frame
    <3>1. QED
      BY <1>0, <1>1, <1>2, <1>7, <1>8, <1>10, <2>3, <2>4, <2>5, <2>6, <2>7, <2>8,
         OrdinaryTake DEF q
  <2>10. QED
    BY <2>1, <2>9, SendMeets
<1>11. QED
  BY <1>9, <1>10

\* The service thread starts the discovery: nobody else has anything to say.
LEMMA StartDiscoveryMeets ==
  ASSUME InductiveInv, InductiveInv', MeetInv, NEW x \in Device, StartDiscovery(x)
  PROVE  Steps(x)
<1> DEFINE r == [dev[x] EXCEPT !.thread = "running"]
           s == [r EXCEPT !.status = "INIT"]
           job == [type |-> "StartInitialization"]
           t == Enqueue(s, job)
<1>1. /\ DeviceInv(dev[x]) /\ dev[x] \in DeviceState /\ dev[x].thread = "starting"
      /\ dev[x].sleeping = Idle /\ dev[x].status = "OFFLINE" /\ dev[x].listening
      /\ Queued(dev[x], JoinTask) = {} /\ Joining(dev[x])
  BY DeviceByDevice DEF StartDiscovery, DeviceInv, JoinInv, MeetInv, AloneInv, Joining
<1>2. /\ s \in DeviceState /\ s.thread = "running" /\ s.status = "INIT"
      /\ s.table = dev[x].table /\ s.queue = dev[x].queue /\ s.sleeping = Idle
      /\ s.listening /\ r.status = dev[x].status
  BY <1>1 DEF DeviceState, Status
<1>3. Become(x, t)
  BY <1>1, <1>2 DEF StartDiscovery, SetStatus, IsValidTransition, OnDeviceStatusChanged
<1>4. job \in Job /\ job.type \notin Naming /\ job.type = "StartInitialization"
  BY DEF Job, Task, Naming
<1> HIDE DEF s, job
<1>5. /\ t.thread = "running" /\ t.status = "INIT" /\ t.sleeping = Idle /\ t.listening
      /\ t.table = dev[x].table
  BY <1>2 DEF Enqueue, DeviceState
<1>6. /\ Queued(t, {"SendIdClaim"}) = Queued(s, {"SendIdClaim"})
      /\ Jobs(t) = Jobs(s) \cup {job}
  BY <1>2, <1>4, EnqueueLemma, EnqueueKeeps
<1> HIDE DEF t
<1>7. Queued(t, {"SendIdClaim"}) = {}
  BY <1>1, <1>2, <1>6 DEF Queued, JoinTask
<1>8. Pairs(t) \subseteq Pairs(dev[x])
  BY <1>2, <1>4, <1>5, <1>6 DEF Pairs, Known, Jobs
<1>9. Joining(t)
  <2>1. job \in Jobs(t)
    BY <1>6
  <2>2. QED
    BY <1>4, <2>1 DEF Joining, Jobs, Queued, JoinTask
<1>10. AloneInv(t)
  BY <1>5, <1>9 DEF AloneInv
<1>11. Behaves(x, t, {})
  BY <1>1, <1>5, <1>8, <1>10 DEF Behaves
<1>12. ASSUME NEW e \in Device \ {x}
       PROVE  Regards(x, t, {}, e)
  BY <1>5, <1>7 DEF Regards, HasInTime, Idle
<1>13. QED
  BY <1>3, <1>11, <1>12, BecomeOnlyMeets DEF Moves

\* A device asks for the IDs: whoever it does not know yet will have been asked, or a
\* loss was counted for each request before this one.
LEMMA DiscoverMeets ==
  ASSUME InductiveInv, InductiveInv', MeetInv, NEW x \in Device,
         Joining(dev[x]), ~Quiet(dev[x]),
         NEW r \in DeviceState, r.thread = "running", r.status = "INIT", r.listening,
         Pairs(r) \subseteq Pairs(dev[x]), Queued(r, JoinTask) = {},
         NEW index, NEW resets, Discover(x, r, index, resets),
         \A e \in Device \ {x} : Online(e) =>
           Has(r, e, dev[e]) \/ Answer(e, dev[e]) \in Jobs(r) \/ losses >= index
  PROVE  Steps(x)
<1> DEFINE s == [r EXCEPT !.requesting = <<>>, !.sleeping = "StartInitialization",
                          !.index = index, !.resets = resets]
           frame == DiscoveryRequest(x)
<1>1. Send(x, s, frame)
  BY DEF Discover
<1>2. frame \in Frame /\ frame.type = "DISCOVERY_REQUEST"
  BY DEF Frame, DiscoveryRequest, UidValue
<1>3. /\ s.thread = "running" /\ s.status = "INIT" /\ s.listening
      /\ s.sleeping = "StartInitialization" /\ s.index = index
      /\ s.table = r.table /\ s.queue = r.queue
  BY DEF DeviceState
<1> HIDE DEF s, frame
<1>4. /\ Jobs(s) = Jobs(r) /\ Pairs(s) = Pairs(r)
      /\ \A T : Queued(s, T) = Queued(r, T)
  BY <1>3, SameInTime
<1>5. Queued(s, {"SendIdClaim"}) = {}
  BY <1>4 DEF Queued, JoinTask
<1>6. AloneInv(s)
  BY <1>3 DEF AloneInv, Joining, JoinTask
<1>7. Sincere(x, s, frame)
  BY <1>2 DEF Sincere, Naming
<1>8. Behaves(x, s, {frame})
  BY <1>3, <1>4, <1>6, <1>7 DEF Behaves
<1>9. ASSUME NEW e \in Device \ {x}, Online(e)
      PROVE  Regards(x, s, {frame}, e)
  <2>1. Has(s, e, dev[e]) \/ Answer(e, dev[e]) \in Jobs(s) \/ losses >= s.index
    BY <1>3, <1>4, <1>9 DEF Has
  <2>2. QED
    BY <1>2, <1>3, <1>5, <2>1 DEF Regards, HasInTime
<1>10. QED
  BY <1>1, <1>8, <1>9, SendMeets DEF Moves

\* A joining job that is about to run.
LEMMA JoinsLemma ==
  ASSUME InductiveInv, MeetInv, NEW x \in Device, NEW type, Ready(x, type),
         type \in JoinTask
  PROVE  LET q == Dequeue(dev[x])
         IN  /\ Joining(dev[x]) /\ Queued(q, JoinTask) = {}
             /\ dev[x].status \notin {"OFFLINE", "ONLINE"}
             /\ type = "StartInitialization" => dev[x].status # "CLAIMING"
             /\ type = "SendIdClaim" => dev[x].status \in {"CLAIMING", "ERROR"}
<1>1. /\ dev[x] \in DeviceState /\ dev[x].queue # <<>> /\ DeviceInv(dev[x])
      /\ Head(dev[x].queue).type = type
  BY RunsLemma, DeviceByDevice
<1>2. 1 \in DOMAIN dev[x].queue /\ dev[x].queue[1] = Head(dev[x].queue)
  BY <1>1 DEF DeviceState
<1>3. /\ 1 \in Queued(dev[x], JoinTask)
      /\ type = "StartInitialization" => 1 \in Queued(dev[x], {"StartInitialization"})
      /\ type = "SendIdClaim" => 1 \in Queued(dev[x], {"SendIdClaim"})
  BY <1>1, <1>2 DEF Queued
<1>4. Queued(Dequeue(dev[x]), JoinTask) = {}
  BY ReadyLemma
<1>5. QED
  BY <1>1, <1>3, <1>4 DEF Joining, DeviceInv, JoinInv, MeetInv, AloneInv

LEMMA StartInitializationMeets ==
  ASSUME InductiveInv, InductiveInv', MeetInv, NEW x \in Device, StartInitialization(x)
  PROVE  Steps(x)
<1> DEFINE q == Dequeue(dev[x])
           r == [q EXCEPT !.answered = FALSE]
<1>0. /\ Ready(x, "StartInitialization")
      /\ IF r.status = "INIT" THEN Discover(x, r, 0, 0) ELSE Become(x, r)
  BY DEF StartInitialization
<1>1. /\ dev[x] \in DeviceState /\ dev[x].queue # <<>> /\ dev[x].thread = "running"
      /\ ~Quiet(dev[x]) /\ dev[x].sleeping \notin JoinTask
  BY <1>0, RunsLemma
<1>2. /\ Joining(dev[x]) /\ Queued(q, JoinTask) = {}
      /\ dev[x].status \notin {"OFFLINE", "ONLINE", "CLAIMING"}
  BY <1>0, JoinsLemma DEF JoinTask
<1>3. /\ q \in DeviceState /\ q.thread = dev[x].thread /\ q.status = dev[x].status
      /\ q.sleeping = dev[x].sleeping /\ q.listening = dev[x].listening
      /\ q.table = dev[x].table /\ Pairs(q) \subseteq Pairs(dev[x])
  BY <1>1, TakenLemma
<1> HIDE DEF q
<1>4. /\ r \in DeviceState /\ r.thread = q.thread /\ r.status = q.status
      /\ r.sleeping = q.sleeping /\ r.listening = q.listening
      /\ r.table = q.table /\ r.queue = q.queue
  BY <1>3 DEF DeviceState
<1> HIDE DEF r
<1>5. Pairs(r) = Pairs(q) /\ \A T : Queued(r, T) = Queued(q, T)
  BY <1>4, SameInTime
<1>6. CASE r.status = "INIT"
  <2>1. r.listening
    <3>1. AloneInv(dev[x]) /\ dev[x].status = "INIT"
      BY <1>3, <1>4, <1>6 DEF MeetInv
    <3>2. QED
      BY <1>3, <1>4, <3>1 DEF AloneInv, Active
  <2>2. losses >= 0
    BY DeviceByDevice
  <2>3. QED
    BY <1>0, <1>1, <1>2, <1>3, <1>4, <1>5, <1>6, <2>1, <2>2, DiscoverMeets
<1>7. CASE r.status # "INIT"
  <2>1. r.status \notin Active
    BY <1>2, <1>3, <1>4, <1>7 DEF Active
  <2>2. AloneInv(r)
    BY <1>1, <1>3, <1>4, <2>1 DEF AloneInv, Active
  <2>3. Moves(x, r, {})
    BY <1>1, <1>2, <1>3, <1>4, <1>5, <2>1, <2>2, InactiveMoves
  <2>4. QED
    BY <1>0, <1>7, <2>3, BecomeOnlyMeets
<1>8. QED
  BY <1>6, <1>7

\* When a sleep of a joining device is over, nobody online was left to answer.
LEMMA NobodyAsked ==
  ASSUME Timely, MeetInv, NEW x \in Device, Joining(dev[x]), SleepOver(x),
         NEW e \in Device \ {x}
  PROVE  ~Asked(dev[e])
<1>1. ~Joining(dev[e])
  BY DEF MeetInv
<1>2. dev[e].sleeping = Idle /\ dev[e].queue = <<>>
  BY <1>1 DEF SleepOver, Joining, JoinTask
<1>3. QED
  BY <1>2 DEF Asked, Jobs, Idle

\* The next request, or after the last one the ID is to be chosen.
LEMMA WakeInitializationMeets ==
  ASSUME InductiveInv, InductiveInv', MeetInv, NEW x \in Device,
         Timely, losses < Backoffs, WakeInitialization(x)
  PROVE  Steps(x)
<1> DEFINE r == [dev[x] EXCEPT !.sleeping = Idle]
           s == [r EXCEPT !.status = "CLAIMING"]
           job == [type |-> "SendIdClaim"]
           t == Enqueue(s, job)
<1>1. /\ DeviceInv(dev[x]) /\ dev[x] \in DeviceState
      /\ dev[x].sleeping = "StartInitialization" /\ SleepOver(x)
      /\ dev[x].status = "INIT" /\ ~dev[x].answered /\ dev[x].requesting = <<>>
      /\ dev[x].thread = "running" /\ Queued(dev[x], JoinTask) = {}
      /\ dev[x].index < Backoffs /\ dev[x].index \in Nat
  BY DeviceByDevice DEF WakeInitialization, DeviceInv, SleepInv, JoinInv, JoinTask, Idle,
                        DeviceState
<1>2. Yielding(x) = 0
  <2>1. {k \in DOMAIN dev[x].requesting : Uid[x] > dev[x].requesting[k]} = {}
    BY <1>1
  <2>2. QED
    BY <2>1, FS_EmptySet DEF Yielding
<1>3. Joining(dev[x]) /\ ~Quiet(dev[x]) /\ dev[x].listening
  BY <1>1 DEF Joining, JoinTask, Quiet, Idle, MeetInv, AloneInv, Active
<1>4. ASSUME NEW e \in Device \ {x}, Online(e)
      PROVE  \/ Has(dev[x], e, dev[e]) \/ Answer(e, dev[e]) \in Jobs(dev[x])
             \/ losses > dev[x].index
  <2>1. ~Asked(dev[e])
    BY <1>1, <1>3, NobodyAsked
  <2>2. Meets(x, dev[x], e, dev[e], losses)
    BY <1>4 DEF MeetInv
  <2>3. QED
    BY <1>1, <2>1, <2>2 DEF Meets
<1>5. /\ r \in DeviceState /\ r.status = "INIT" /\ ~r.answered /\ r.thread = "running"
      /\ r.index = dev[x].index /\ r.resets = dev[x].resets /\ r.resets \in Nat
      /\ r.table = dev[x].table /\ r.queue = dev[x].queue /\ r.listening
      /\ r.sleeping = Idle
  BY <1>1, <1>3 DEF DeviceState
<1>6. CASE r.index + 1 >= Backoffs
  <2>1. Become(x, SetStatus(r, "CLAIMING"))
    BY <1>2, <1>5, <1>6 DEF WakeInitialization
  <2>2. /\ s \in DeviceState /\ s.thread = "running" /\ s.status = "CLAIMING"
        /\ s.table = dev[x].table /\ s.queue = dev[x].queue /\ s.listening
        /\ s.sleeping = Idle
    BY <1>5 DEF DeviceState, Status
  <2>3. SetStatus(r, "CLAIMING") = t
    BY <1>5, <2>2 DEF SetStatus, IsValidTransition, OnDeviceStatusChanged
  <2>4. job \in Job /\ job.type \notin Naming /\ job.type = "SendIdClaim"
    BY DEF Job, Task, Naming
  <2> HIDE DEF r, s, job
  <2>5. /\ t.thread = "running" /\ t.status = "CLAIMING" /\ t.sleeping = Idle
        /\ t.listening /\ t.table = dev[x].table /\ t.queue = Append(dev[x].queue, job)
    BY <2>2 DEF Enqueue, DeviceState
  <2>6. /\ Queued(t, {"StartInitialization"}) = Queued(s, {"StartInitialization"})
        /\ Jobs(t) = Jobs(s) \cup {job}
    BY <2>2, <2>4, EnqueueLemma, EnqueueKeeps
  <2> HIDE DEF t
  <2>7. Jobs(s) = Jobs(dev[x]) /\ \A T : Queued(s, T) = Queued(dev[x], T)
    BY <2>2, SameInTime
  <2>8. Joining(t)
    <3>1. job \in Jobs(t)
      BY <2>6
    <3>2. QED
      BY <2>4, <3>1 DEF Joining, Jobs, Queued, JoinTask
  <2>9. AloneInv(t)
    <3>1. Queued(t, {"StartInitialization"}) = {}
      BY <1>1, <2>6, <2>7 DEF Queued, JoinTask
    <3>2. QED
      BY <2>5, <2>8, <3>1 DEF AloneInv
  <2>10. Pairs(t) \subseteq Pairs(dev[x])
    BY <2>4, <2>5, <2>6, <2>7 DEF Pairs, Known
  <2>11. Behaves(x, t, {})
    BY <1>1, <1>3, <2>5, <2>9, <2>10 DEF Behaves
  <2>12. ASSUME NEW e \in Device \ {x}, Online(e)
         PROVE  HasInTime(t, e, dev[e])
    <3>1. ASSUME NEW m \in Queued(t, {"SendIdClaim"}), ~Has(t, e, dev[e])
          PROVE  \E k \in 1 .. m - 1 : t.queue[k] = Answer(e, dev[e])
      <4>1. losses \in Nat /\ Backoffs \in Nat
        BY DeviceByDevice, SizeAssumption
      <4>2. Answer(e, dev[e]) \in Jobs(dev[x])
        BY <1>1, <1>4, <1>5, <1>6, <2>5, <2>12, <3>1, <4>1 DEF Has
      <4>3. /\ dev[x].queue \in Seq(Job) /\ Len(dev[x].queue) \in Nat
            /\ DOMAIN dev[x].queue = 1 .. Len(dev[x].queue)
            /\ DOMAIN t.queue = 1 .. Len(dev[x].queue) + 1
            /\ \A k \in 1 .. Len(dev[x].queue) : t.queue[k] = dev[x].queue[k]
        BY <1>1, <2>4, <2>5 DEF DeviceState
      <4>4. m = Len(dev[x].queue) + 1
        <5>1. m \notin DOMAIN dev[x].queue
          BY <1>1, <3>1, <4>3 DEF Queued, JoinTask
        <5>2. m \in DOMAIN t.queue
          BY <3>1 DEF Queued
        <5>3. QED
          BY <4>3, <5>1, <5>2
      <4>5. PICK k \in DOMAIN dev[x].queue : dev[x].queue[k] = Answer(e, dev[e])
        BY <4>2 DEF Jobs
      <4>6. k \in 1 .. m - 1 /\ t.queue[k] = Answer(e, dev[e])
        BY <4>3, <4>4, <4>5
      <4>7. QED
        BY <4>6
    <3>2. QED
      BY <3>1 DEF HasInTime
  <2>13. \A e \in Device \ {x} : Online(e) => Regards(x, t, {}, e)
    BY <2>5, <2>12 DEF Regards, Idle
  <2>14. QED
    BY <2>1, <2>3, <2>11, <2>13, BecomeOnlyMeets DEF Moves
<1>7. CASE ~(r.index + 1 >= Backoffs)
  <2> DEFINE resets == IF r.resets + Yielding(x) < MaxBackoffResets
                       THEN r.resets + Yielding(x) ELSE MaxBackoffResets
  <2>1. Discover(x, r, r.index + 1, resets)
    BY <1>2, <1>5, <1>7 DEF WakeInitialization
  <2> HIDE DEF r, resets
  <2>2. /\ Pairs(r) = Pairs(dev[x]) /\ Jobs(r) = Jobs(dev[x])
        /\ \A T : Queued(r, T) = Queued(dev[x], T)
    BY <1>5, SameInTime
  <2>3. \A e \in Device \ {x} : Online(e) =>
          Has(r, e, dev[e]) \/ Answer(e, dev[e]) \in Jobs(r) \/ losses >= r.index + 1
    <3>1. losses \in Nat /\ r.index \in Nat
      BY <1>1, <1>5, DeviceByDevice
    <3>2. QED
      BY <1>4, <1>5, <2>2, <3>1 DEF Has
  <2>4. QED
    BY <1>1, <1>3, <1>5, <2>1, <2>2, <2>3, DiscoverMeets
<1>8. QED
  BY <1>6, <1>7

\* A claim is sent: for an ID that none of those online has, all of whom are known.
LEMMA ClaimMeets ==
  ASSUME InductiveInv, InductiveInv', MeetInv, NEW x \in Device,
         Joining(dev[x]), ~Quiet(dev[x]),
         NEW r \in DeviceState, r.thread = "running", r.status \in {"CLAIMING", "ERROR"},
         r.status = "CLAIMING" => r.listening, r.claiming \in Id,
         Pairs(r) \subseteq Pairs(dev[x]), Queued(r, JoinTask) = {},
         NEW attempt, Claim(x, r, attempt),
         \A e \in Device \ {x} : Online(e) /\ r.status = "CLAIMING" =>
           Has(r, e, dev[e]) /\ r.claiming # dev[e].id
  PROVE  Steps(x)
<1> DEFINE s == [r EXCEPT !.sleeping = "SendIdClaim", !.index = attempt]
           frame == IdClaim(x, r.claiming)
<1>1. Send(x, s, frame)
  BY DEF Claim
<1>2. frame \in Frame /\ frame.type = "ID_CLAIM" /\ frame.uid = Uid[x]
  BY FrameLemma DEF ClaimResult, IdClaim
<1>3. /\ s.thread = "running" /\ s.status = r.status /\ s.listening = r.listening
      /\ s.sleeping = "SendIdClaim" /\ s.claiming = r.claiming
      /\ s.table = r.table /\ s.queue = r.queue
  BY DEF DeviceState
<1> HIDE DEF s, frame
<1>4. Pairs(s) = Pairs(r) /\ \A T : Queued(s, T) = Queued(r, T)
  BY <1>3, SameInTime
<1>5. Queued(s, {"SendIdClaim"}) = {} /\ Queued(s, {"StartInitialization"}) = {}
  BY <1>4 DEF Queued, JoinTask
<1>6. AloneInv(s)
  BY <1>3, <1>5 DEF AloneInv, Active, Joining, JoinTask
<1>7. Sincere(x, s, frame)
  BY <1>2 DEF Sincere
<1>8. Behaves(x, s, {frame})
  BY <1>3, <1>4, <1>6, <1>7 DEF Behaves
<1>9. ASSUME NEW e \in Device \ {x}, Online(e)
      PROVE  Regards(x, s, {frame}, e)
  BY <1>3, <1>5, <1>9 DEF Regards, HasInTime, Has
<1>10. QED
  BY <1>1, <1>8, <1>9, SendMeets DEF Moves

\* The first claim: the IDs of those online are in the table by now.
LEMMA SendIdClaimMeets ==
  ASSUME InductiveInv, InductiveInv', MeetInv, NEW x \in Device, SendIdClaim(x)
  PROVE  Steps(x)
<1> DEFINE q == Dequeue(dev[x])
<1>0. Ready(x, "SendIdClaim")
  BY DEF SendIdClaim
<1>1. /\ dev[x] \in DeviceState /\ dev[x].queue # <<>> /\ dev[x].thread = "running"
      /\ Head(dev[x].queue).type = "SendIdClaim" /\ ~Quiet(dev[x])
  BY <1>0, RunsLemma
<1>2. /\ Joining(dev[x]) /\ Queued(q, JoinTask) = {}
      /\ dev[x].status \in {"CLAIMING", "ERROR"}
  BY <1>0, JoinsLemma DEF JoinTask
<1>3. /\ q \in DeviceState /\ q.thread = dev[x].thread /\ q.status = dev[x].status
      /\ q.sleeping = dev[x].sleeping /\ q.listening = dev[x].listening
      /\ q.table = dev[x].table /\ Pairs(q) \subseteq Pairs(dev[x])
  BY <1>1, TakenLemma
<1>4. DeviceInv(q) /\ q.sleeping = Idle /\ q.thread # "off"
  BY <1>0, ReadyLemma
<1>5. CASE AvailableId(q) = {}
  <2> DEFINE e == SetStatus(q, "ERROR")
  <2>1. Become(x, [e EXCEPT !.claiming = Unassigned])
    BY <1>5 DEF SendIdClaim
  <2>2. DeviceInv(e) /\ e.claiming = Unassigned
    BY <1>4, ErrorInv
  <2>3. [e EXCEPT !.claiming = Unassigned] = e
    BY <2>2 DEF DeviceInv, DeviceState
  <2>4. Moves(x, e, {})
    BY <1>0, <1>3, ErrorMoves
  <2>5. QED
    BY <2>1, <2>3, <2>4, BecomeOnlyMeets
<1>6. CASE AvailableId(q) # {}
  <2>1. PICK id \in AvailableId(q) : Claim(x, [q EXCEPT !.claiming = id], 0)
    BY <1>6 DEF SendIdClaim
  <2> DEFINE r == [q EXCEPT !.claiming = id]
  <2>2. id \in Id /\ id \notin Known(q)
    BY <2>1 DEF AvailableId
  <2> HIDE DEF q
  <2>3. /\ r \in DeviceState /\ r.thread = q.thread /\ r.status = q.status
        /\ r.listening = q.listening /\ r.table = q.table /\ r.queue = q.queue
        /\ r.claiming = id
    BY <1>3, <2>2 DEF DeviceState
  <2> HIDE DEF r
  <2>4. Pairs(r) = Pairs(q) /\ \A T : Queued(r, T) = Queued(q, T)
    BY <2>3, SameInTime
  <2>5. ASSUME NEW e \in Device \ {x}, Online(e), r.status = "CLAIMING"
        PROVE  Has(r, e, dev[e]) /\ r.claiming # dev[e].id
    <3>1. HasInTime(dev[x], e, dev[e])
      BY <1>3, <2>3, <2>5 DEF MeetInv, Meets
    <3>2. 1 \in Queued(dev[x], {"SendIdClaim"})
      BY <1>1 DEF Queued, DeviceState
    <3>3. Has(dev[x], e, dev[e])
      BY <3>1, <3>2 DEF HasInTime
    <3>4. Uid[e] # NoUid /\ dev[e].id \in Id
      BY <2>5, UidAssumption, DeviceByDevice DEF Online, DeviceInv, SleepInv, DeviceState
    <3>5. dev[e].id \in Known(q)
      BY <1>3, <3>3, <3>4 DEF Has, Known
    <3>6. QED
      BY <1>3, <2>2, <2>3, <3>3, <3>5 DEF Has
  <2>6. r.status = "CLAIMING" => r.listening
    BY <1>3, <2>3 DEF MeetInv, AloneInv, Active
  <2>7. QED
    BY <1>1, <1>2, <1>3, <2>1, <2>2, <2>3, <2>4, <2>5, <2>6, ClaimMeets DEF r
<1>7. QED
  BY <1>5, <1>6

\* The device claims again, or goes online under the ID it claimed.
LEMMA WakeIdClaimMeets ==
  ASSUME InductiveInv, InductiveInv', MeetInv, NEW x \in Device, WakeIdClaim(x)
  PROVE  Steps(x)
<1> DEFINE r == [dev[x] EXCEPT !.sleeping = Idle]
<1>1. /\ DeviceInv(dev[x]) /\ dev[x] \in DeviceState
      /\ dev[x].sleeping = "SendIdClaim"
      /\ dev[x].result = NoResult /\ dev[x].claiming \in Id
      /\ dev[x].status \in {"CLAIMING", "ERROR"} /\ dev[x].thread = "running"
      /\ Queued(dev[x], JoinTask) = {}
  BY DeviceByDevice DEF WakeIdClaim, DeviceInv, SleepInv, JoinInv, JoinTask, Idle,
                        DeviceState
<1>2. /\ Joining(dev[x]) /\ ~Quiet(dev[x])
      /\ dev[x].status = "CLAIMING" => dev[x].listening
  BY <1>1 DEF Joining, JoinTask, Quiet, Idle, MeetInv, AloneInv, Active
<1>3. /\ r \in DeviceState /\ r.claiming = dev[x].claiming
      /\ r.table = dev[x].table /\ r.queue = dev[x].queue /\ r.thread = "running"
      /\ r.sleeping = Idle /\ r.result = NoResult /\ r.status = dev[x].status
      /\ r.listening = dev[x].listening
  BY <1>1 DEF DeviceState
<1>4. r.result \notin ClaimResult
  BY <1>3 DEF NoResult, ClaimResult
<1>5. \/ Claim(x, r, r.index + 1)
      \/ Become(x, [GoOnline(r) EXCEPT !.claiming = Unassigned])
  BY <1>4 DEF WakeIdClaim, ClaimDecided, ClaimResult
<1>6. CASE Claim(x, r, r.index + 1)
  <2> HIDE DEF r
  <2>1. Pairs(r) = Pairs(dev[x]) /\ \A T : Queued(r, T) = Queued(dev[x], T)
    BY <1>3, SameInTime
  <2>2. ASSUME NEW e \in Device \ {x}, Online(e), r.status = "CLAIMING"
        PROVE  Has(r, e, dev[e]) /\ r.claiming # dev[e].id
    <3>1. Meets(x, dev[x], e, dev[e], losses)
      BY <2>2 DEF MeetInv
    <3>2. Has(dev[x], e, dev[e]) /\ dev[x].claiming # dev[e].id
      BY <1>1, <1>3, <2>2, <3>1 DEF Meets
    <3>3. QED
      BY <1>3, <3>2 DEF Has
  <2>3. QED
    BY <1>1, <1>2, <1>3, <1>6, <2>1, <2>2, ClaimMeets
<1>7. CASE Become(x, [GoOnline(r) EXCEPT !.claiming = Unassigned])
  <2> DEFINE s == [r EXCEPT !.id = r.claiming]
             t == GoOnline(r)
             e == [t EXCEPT !.claiming = Unassigned]
  <2>1. /\ s \in DeviceState /\ s.id = dev[x].claiming
        /\ s.table = dev[x].table /\ s.queue = dev[x].queue /\ s.thread = "running"
        /\ s.sleeping = Idle /\ s.status = dev[x].status
        /\ s.listening = dev[x].listening
    BY <1>1, <1>3 DEF DeviceState
  <2> HIDE DEF r
  <2>2. CASE dev[x].status = "ERROR"
    <3>1. t = s
      BY <2>1, <2>2 DEF GoOnline, SetStatus, IsValidTransition
    <3>2. /\ e.thread = "running" /\ e.status = "ERROR"
          /\ e.table = dev[x].table /\ e.queue = dev[x].queue
      BY <2>1, <2>2, <3>1 DEF DeviceState
    <3> HIDE DEF e
    <3>3. AloneInv(e) /\ Pairs(e) = Pairs(dev[x])
      BY <3>2, SameInTime DEF AloneInv, Active
    <3>4. Moves(x, e, {})
      BY <1>2, <3>2, <3>3, InactiveMoves DEF Active
    <3>5. QED
      BY <1>7, <3>4, BecomeOnlyMeets DEF e
  <2>3. CASE dev[x].status = "CLAIMING"
    <3> DEFINE u == [s EXCEPT !.status = "ONLINE"]
               v == [u EXCEPT !.validating = TRUE]
               job == [type |-> "PeriodicValidation"]
    <3>1. /\ u \in DeviceState /\ u.id = s.id /\ u.table = s.table
          /\ u.queue = s.queue /\ u.thread = s.thread /\ u.sleeping = s.sleeping
          /\ u.status = "ONLINE" /\ u.listening = s.listening
      BY <2>1 DEF DeviceState, Status
    <3>2. t = StartValidationTask(u)
      BY <2>1, <2>3, <3>1 DEF GoOnline, SetStatus, IsValidTransition, OnDeviceStatusChanged
    <3> HIDE DEF u
    <3>3. /\ v \in DeviceState /\ v.id = u.id /\ v.table = u.table
          /\ v.queue = u.queue /\ v.thread = u.thread /\ v.sleeping = u.sleeping
          /\ v.status = u.status /\ v.listening = u.listening
      BY <3>1 DEF DeviceState
    <3> HIDE DEF v
    <3>4. t = u \/ t = Enqueue(v, job)
      BY <3>2 DEF StartValidationTask, v
    <3>5. job \in Job /\ job.type \notin Naming
      BY DEF Job, Task, Naming
    <3>6. /\ t \in DeviceState /\ t.id = dev[x].claiming /\ t.table = dev[x].table
          /\ t.thread = "running" /\ t.status = "ONLINE" /\ t.sleeping = Idle
          /\ t.listening = dev[x].listening
          /\ Jobs(dev[x]) \subseteq Jobs(t) /\ Jobs(t) \subseteq Jobs(dev[x]) \cup {job}
      <4>1. Jobs(u) = Jobs(dev[x]) /\ Jobs(v) = Jobs(dev[x])
        BY <2>1, <3>1, <3>3 DEF Jobs
      <4>2. CASE t = u
        BY <2>1, <3>1, <4>1, <4>2
      <4>3. CASE t = Enqueue(v, job)
        <5> HIDE DEF job
        <5>1. /\ Enqueue(v, job) \in DeviceState
              /\ Jobs(Enqueue(v, job)) = Jobs(v) \cup {job}
          BY <3>3, <3>5, EnqueueLemma, EnqueueKeeps
        <5>2. LET w == Enqueue(v, job)
              IN  /\ w.thread = v.thread /\ w.sleeping = v.sleeping /\ w.status = v.status
                  /\ w.listening = v.listening /\ w.id = v.id /\ w.table = v.table
          BY <3>3 DEF Enqueue, DeviceState
        <5>3. QED
          BY <2>1, <3>1, <3>3, <4>1, <4>3, <5>1, <5>2
      <4>4. QED
        BY <3>4, <4>2, <4>3
    <3> HIDE DEF t, job
    <3>7. /\ e.id = t.id /\ e.table = t.table /\ e.queue = t.queue
          /\ e.thread = t.thread /\ e.sleeping = t.sleeping /\ e.status = t.status
          /\ e.listening = t.listening
      BY <3>6 DEF DeviceState
    <3> HIDE DEF e
    <3>8. Jobs(e) = Jobs(t)
      BY <3>7 DEF Jobs
    <3>9. Pairs(e) \subseteq Pairs(dev[x])
      BY <3>5, <3>6, <3>7, <3>8 DEF Pairs, Known
    <3>10. Asked(dev[x]) => Asked(e)
      BY <1>1, <3>6, <3>8 DEF Asked
    <3>11. AloneInv(e)
      BY <1>2, <2>3, <3>6, <3>7 DEF AloneInv, Active
    <3>12. Behaves(x, e, {})
      BY <1>1, <1>2, <2>3, <3>6, <3>7, <3>9, <3>10, <3>11 DEF Behaves
    <3>13. \A d \in Device \ {x} : Online(d) => Regards(x, e, {}, d)
      BY <2>3, <3>6, <3>7 DEF Regards
    <3>14. QED
      BY <1>7, <3>12, <3>13, BecomeOnlyMeets DEF Moves, e, t
  <2>4. QED
    BY <1>1, <2>2, <2>3
<1>8. QED
  BY <1>5, <1>6, <1>7

LEMMA PowerOffMeets ==
  ASSUME InductiveInv, InductiveInv', MeetInv, NEW x \in Device, PowerOff(x)
  PROVE  Steps(x)
<1>1. losses' = losses /\ losses \in Nat /\ dev' = [dev EXCEPT ![x] = PoweredOff]
  BY DeviceByDevice DEF PowerOff
<1>2. losses' \in Nat /\ losses' >= losses
  BY <1>1
<1>3. QED
  BY <1>1, <1>2, PowerOffMoves, BecomeMeets
-----------------------------------------------------------------------------
(***************************************************************************)
(* The invariant, and what it shows.                                       *)
(***************************************************************************)
LEMMA InitJoining == Init => JoiningInv
<1> SUFFICES ASSUME Init PROVE MeetInv
  BY DEF JoiningInv
<1>1. \A d \in Device : dev[d] = PoweredOff
  BY DEF Init
<1>2. Jobs(PoweredOff) = {} /\ \A T : Queued(PoweredOff, T) = {}
  BY DEF PoweredOff, Jobs, Queued
<1>3. /\ AloneInv(PoweredOff) /\ ~Joining(PoweredOff)
      /\ PoweredOff.thread # "starting" /\ PoweredOff.status # "ONLINE"
  BY <1>2 DEF AloneInv, Joining, PoweredOff, Active, Idle, JoinTask
<1>4. QED
  BY <1>1, <1>3 DEF MeetInv, Online

\* Losses are only counted up.
LEMMA LossesGrow ==
  ASSUME InductiveInv, [Next]_vars
  PROVE  losses \in Nat /\ losses' \in Nat /\ losses' >= losses
<1>1. losses \in Nat
  BY DeviceByDevice
<1>2. losses' = losses \/ losses' = losses + 1
  <2>1. CASE UNCHANGED vars
    BY <2>1 DEF vars
  <2>2. ASSUME NEW d \in Device, PowerOn(d) \/ Background(d)
        PROVE  losses' = losses \/ losses' = losses + 1
    BY <2>2, Zenon
       DEF Background, WorkQueueStep, PowerOn, PowerOff, StartDiscovery, ValidationDue,
           StartInitialization, WakeInitialization, ProcessDiscoveryRequestFrame,
           ProcessDiscoveryResponseFrame, SendDiscoveryResponse,
           WakeDiscoveryResponse, SendIdClaim, WakeIdClaim,
           ProcessIdClaimRequestFrame, ProcessIdClaimResponseFrame,
           ProcessPeriodicValidation, Discover, Claim, Become, Send, Forget
  <2>3. QED
    BY <2>1, <2>2 DEF Next
<1>3. QED
  BY <1>1, <1>2

\* The steps of a device that has power.
LEMMA BackgroundSteps ==
  ASSUME Timely, InductiveInv, InductiveInv', MeetInv, losses < Backoffs,
         NEW d \in Device, Background(d)
  PROVE  Steps(d)
BY PowerOffMeets, StartDiscoveryMeets, ValidationDueMeets,
     StartInitializationMeets, WakeInitializationMeets,
     ProcessDiscoveryRequestFrameMeets, ProcessDiscoveryResponseFrameMeets,
     SendDiscoveryResponseMeets, WakeDiscoveryResponseMeets, SendIdClaimMeets,
     WakeIdClaimMeets, ProcessIdClaimRequestFrameMeets,
     ProcessIdClaimResponseFrameMeets, ProcessPeriodicValidationMeets
     DEF Background, WorkQueueStep

\* One step of the bring-up.
LEMMA StepJoining ==
  ASSUME Timely, InductiveInv, InductiveInv', JoiningInv,
         [\E d \in Device : (Settled /\ PowerOn(d)) \/ Background(d)]_vars
  PROVE  JoiningInv'
<1>1. [Next]_vars
  BY DEF Next
<1>2. SUFFICES ASSUME losses' < Backoffs PROVE MeetInv'
  BY DEF JoiningInv
<1>3. losses < Backoffs /\ MeetInv
  <2>1. losses < Backoffs
    BY <1>1, <1>2, LossesGrow, SizeAssumption
  <2>2. QED
    BY <2>1 DEF JoiningInv
<1>4. CASE UNCHANGED vars
  <2>1. dev' = dev /\ losses' = losses
    BY <1>4 DEF vars
  <2>2. QED
    BY <1>3, <2>1 DEF MeetInv, Online
<1>5. ASSUME NEW d \in Device, Background(d)
      PROVE  MeetInv'
  BY <1>3, <1>5, BackgroundSteps, StepsMeet
<1>6. ASSUME NEW d \in Device, Settled, PowerOn(d)
      PROVE  MeetInv'
  BY <1>3, <1>6, PowerOnMeets
<1>7. QED
  BY <1>4, <1>5, <1>6

\* A bring-up one by one is a behaviour of the network.
LEMMA OneByOneInvariance == OneByOneSpec => []InductiveInv
<1>1. [\E d \in Device : (Settled /\ PowerOn(d)) \/ Background(d)]_vars => [Next]_vars
  BY DEF Next
<1>2. QED
  BY <1>1, InitInv, StepInv, PTL DEF OneByOneSpec

LEMMA JoiningInvariance == Timely => (OneByOneSpec => []JoiningInv)
<1> SUFFICES ASSUME Timely PROVE OneByOneSpec => []JoiningInv
  OBVIOUS
<1>1. InductiveInv /\ InductiveInv' /\ JoiningInv
        /\ [\E d \in Device : (Settled /\ PowerOn(d)) \/ Background(d)]_vars
        => JoiningInv'
  BY StepJoining
<1>2. QED
  BY <1>1, InitJoining, OneByOneInvariance, PTL DEF OneByOneSpec

\* However many devices with whatever identifiers and versions are switched on one
\* after the other, and whichever of them lose power: as long as fewer sends (and
\* runs of heartbeats) were lost than a discovery has requests, SendIdClaim never
\* took an ID that an online device has.  The device that claims is not stopped by
\* a REJECT, which comes too late: what keeps the IDs apart is the table alone.
THEOREM UniqueIdsHold ==
  Timely => (OneByOneSpec => [](losses < Backoffs => UniqueIds))
<1> SUFFICES ASSUME Timely
             PROVE  OneByOneSpec => [](losses < Backoffs => UniqueIds)
  OBVIOUS
<1>1. JoiningInv => (losses < Backoffs => UniqueIds)
  BY DEF JoiningInv, MeetInv, Meets, UniqueIds, Online
<1>2. QED
  BY <1>1, JoiningInvariance, PTL

\* With no send and no heartbeat lost, of two devices that are online when the network
\* is at rest at least one has the other in its network_devices_.
THEOREM LaterKnowsEarlierHolds == Timely => (OneByOneSpec => []LaterKnowsEarlier)
<1> SUFFICES ASSUME Timely PROVE OneByOneSpec => []LaterKnowsEarlier
  OBVIOUS
<1>1. JoiningInv => LaterKnowsEarlier
  <2> SUFFICES ASSUME JoiningInv, losses = 0, NEW d \in Device, NEW e \in Device,
                      d # e, Online(d), Online(e)
               PROVE  Knows(d, e) \/ Knows(e, d)
    BY DEF LaterKnowsEarlier
  <2>1. MeetInv
    BY SizeAssumption DEF JoiningInv
  <2>2. Has(dev[d], e, dev[e]) \/ Has(dev[e], d, dev[d])
    BY <2>1 DEF MeetInv, Meets, Online
  <2>3. QED
    BY <2>2 DEF Has, Knows
<1>2. QED
  BY <1>1, JoiningInvariance, PTL
-----------------------------------------------------------------------------
(***************************************************************************)
(* What the devices know of each other while nothing is lost: the table of *)
(* an online device names, of the IDs below its own, all (no loss of       *)
(* power) or one (one loss) that an online device has, and a device with   *)
(* no lower ID in its table files those who claim one.                     *)
(***************************************************************************)
Holds(r, type) == \E job \in Jobs(r) : job.type = type
Claiming(r) == r.sleeping = "SendIdClaim"

\* is_lowest_id_on_network_ is up to date.
Exact(r) == r.lowest <=> \A i \in Known(r) : r.id <= i

\* An online device has this ID.
Owned(i) == \E g \in Device : Online(g) /\ dev[g].id = i

\* Of the IDs below that of r, none but k is left to be known.
Heeds(r, k) == \A i \in Id : i < r.id => i = k

\* A device with an ID is online; it claims the first ID that its table leaves free;
\* the validation, once started, is queued or delayed.
SoundInv(r) ==
  /\ r.id # Unassigned => r.status = "ONLINE"
  /\ Claiming(r) \/ Holds(r, "SendIdClaim") => r.status = "CLAIMING"
  /\ Claiming(r) => \A j \in Id : j < r.claiming => j \in Known(r)
  /\ r.validating /\ ~r.armed => Holds(r, "PeriodicValidation")

\* A device hears of the others only, and of no claim while it joins.
HearsayInv(d, r) ==
  /\ \A p \in Pairs(r) : p[2] # Uid[d]
  /\ Joining(r) => ~Holds(r, "ID_CLAIM")

\* The flag of an online device is up to date, except from the moment it goes online
\* to its first validation, when nobody joins and it has no claim to decide.
FlagInv(d) ==
  \/ Exact(dev[d])
  \/ /\ Holds(dev[d], "PeriodicValidation") /\ ~Holds(dev[d], "ID_CLAIM")
     /\ \A e \in Device : ~Joining(dev[e])

\* An online device e that has no other ID below its own to know knows that of y, and
\* knows the one that y claims, or is about to read the claim.
HeedInv(e, y) ==
  /\ Online(y) /\ Heeds(dev[e], dev[y].id) => dev[y].id \in Known(dev[e])
  /\ Claiming(dev[y]) /\ Heeds(dev[e], dev[y].claiming) =>
       \/ dev[y].claiming \in Known(dev[e])
       \/ IdClaim(y, dev[y].claiming) \in Jobs(dev[e])

\* The lower IDs: without a loss of power they are all taken and known; with one loss
\* at least one is, of two or more.
LowerInv(e) ==
  /\ cycles = 0 => \A j \in Id : j < dev[e].id => j \in Known(dev[e]) /\ Owned(j)
  /\ cycles <= 1 /\ dev[e].id > 2 =>
       \E j \in Known(dev[e]) : j < dev[e].id /\ Owned(j)

\* Of the IDs a joining device was told, at most one has lost its owner.
ToldInv(y) ==
  cycles <= 1 => \A p, q \in Pairs(dev[y]) : p[1] = q[1] \/ Owned(p[1]) \/ Owned(q[1])

KnowInv ==
  /\ \A d \in Device : SoundInv(dev[d]) /\ HearsayInv(d, dev[d])
  /\ \A d \in Device : Online(d) => FlagInv(d) /\ LowerInv(d)
  /\ \A e, y \in Device : e # y /\ Online(e) => HeedInv(e, y)
  /\ \A y \in Device : Joining(dev[y]) => ToldInv(y)

KnowingInv == losses = 0 => KnowInv

\* What the run of the network's devices assumes of them.
Alike == /\ \A d, e \in Device : Uid[d] = Uid[e] => d = e
         /\ \A d, e \in Device : Version[d] = Version[e]

\* What x must do in a step for the devices to keep knowing each other.
Learns(x) ==
  LET r == dev[x]
      s == dev'[x]
  IN  /\ SoundInv(s)
      /\ Holds(s, "ID_CLAIM") => Holds(r, "ID_CLAIM")
      /\ r.status = "ONLINE" =>
           /\ s.status = "ONLINE" /\ s.id = r.id
           /\ \A i \in Known(r) : i \in Known(s) \/ ~Alive(i)
           /\ \/ Exact(s)
              \/ /\ ~Exact(r)
                 /\ Holds(r, "PeriodicValidation") => Holds(s, "PeriodicValidation")
           /\ \A f \in Jobs(r) :
                f.type = "ID_CLAIM" /\ f.version = Version[x] /\ Exact(r)
                  /\ Heeds(r, f.id) /\ f.id # r.id =>
                  f \in Jobs(s) \/ f.id \in Known(s)
      /\ r.status # "ONLINE" /\ s.status = "ONLINE" =>
           /\ Holds(s, "PeriodicValidation")
           /\ \A e \in Device \ {x} : dev[e].queue = <<>>
      /\ Claiming(s) =>
           \/ Claiming(r) /\ s.claiming = r.claiming
           \/ \A e \in Device \ {x} :
                dev[e].listening => IdClaim(x, s.claiming) \in Jobs(dev'[e])
-----------------------------------------------------------------------------
\* A device that listens changes in nothing but its queue.
LEMMA OverhearLemma ==
  ASSUME NEW r \in DeviceState, NEW t, NEW sent, Follows(r, t, sent)
  PROVE  /\ t.status = r.status /\ t.id = r.id /\ t.table = r.table
         /\ t.claiming = r.claiming /\ t.sleeping = r.sleeping
         /\ t.lowest = r.lowest /\ t.validating = r.validating /\ t.armed = r.armed
         /\ Jobs(r) \subseteq Jobs(t)
         /\ \A job \in Jobs(t) : job \in Jobs(r) \/ (job \in sent /\ job \in Frame)
BY DEF Follows, Hears

\* The devices other than x, which is all that x does not tell of the step.
LEMMA OthersFollow ==
  ASSUME InductiveInv, NEW x \in Device, NEW s, NEW sent, Moves(x, s, sent),
         Result(x, s, sent), NEW y \in Device \ {x}
  PROVE  /\ dev[y] \in DeviceState /\ Follows(dev[y], dev'[y], sent)
         /\ Joining(dev'[y]) <=> Joining(dev[y])
         /\ Known(dev'[y]) = Known(dev[y])
         /\ Exact(dev'[y]) <=> Exact(dev[y])
         /\ Claiming(dev'[y]) <=> Claiming(dev[y])
<1>1. \A f \in sent : f \in Frame
  BY DEF Moves, Behaves, Sincere
<1>2. dev[y] \in DeviceState /\ Follows(dev[y], dev'[y], sent)
  BY <1>1, OthersHear, DeviceByDevice DEF Follows
<1>3. Joining(dev'[y]) <=> Joining(dev[y])
  BY <1>2, FollowsLemma
<1>4. /\ dev'[y].table = dev[y].table /\ dev'[y].lowest = dev[y].lowest
      /\ dev'[y].id = dev[y].id /\ dev'[y].sleeping = dev[y].sleeping
  BY <1>2, OverhearLemma
<1>5. Known(dev'[y]) = Known(dev[y])
  BY <1>4 DEF Known
<1>6. QED
  BY <1>2, <1>3, <1>4, <1>5 DEF Exact, Claiming

LEMMA FrameTypes ==
  ASSUME NEW f \in Frame
  PROVE  /\ f.type \notin {"SendIdClaim", "PeriodicValidation", "StartInitialization"}
         /\ f.type \in Naming => f.id \in Id
BY DEF Frame, Naming

\* x learns: what each device is by itself.
LEMMA LearnsSound ==
  ASSUME Alike, InductiveInv, MeetInv, KnowInv,
         NEW x \in Device, NEW sent, Moves(x, dev'[x], sent), Result(x, dev'[x], sent),
         Learns(x), NEW d \in Device
  PROVE  SoundInv(dev'[d]) /\ HearsayInv(d, dev'[d])
<1>1. CASE d = x
  <2>1. Pairs(dev'[x]) \subseteq Pairs(dev[x]) /\ (Joining(dev'[x]) => Joining(dev[x]))
    BY DEF Moves, Behaves
  <2>2. QED
    BY <1>1, <2>1 DEF KnowInv, HearsayInv, Learns
<1>2. CASE d # x
  <2> DEFINE r == dev[d]
             t == dev'[d]
  <2>1. /\ r \in DeviceState /\ Follows(r, t, sent) /\ (Joining(t) <=> Joining(r))
        /\ Known(t) = Known(r)
    BY <1>2, OthersFollow
  <2>2. SoundInv(r) /\ HearsayInv(d, r)
    BY DEF KnowInv
  <2>3. \A f \in sent : Sincere(x, dev'[x], f)
    BY DEF Moves, Behaves
  <2> HIDE DEF r, t
  <2>4. /\ t.status = r.status /\ t.id = r.id /\ t.claiming = r.claiming
        /\ t.sleeping = r.sleeping /\ t.validating = r.validating /\ t.armed = r.armed
        /\ Jobs(r) \subseteq Jobs(t)
        /\ \A job \in Jobs(t) : job \in Jobs(r) \/ (job \in sent /\ job \in Frame)
    BY <2>1, OverhearLemma
  <2>5. SoundInv(t)
    <3>1. Holds(t, "SendIdClaim") => Holds(r, "SendIdClaim")
      BY <2>4, FrameTypes DEF Holds
    <3>2. Holds(r, "PeriodicValidation") => Holds(t, "PeriodicValidation")
      BY <2>4 DEF Holds
    <3>3. QED
      BY <2>1, <2>2, <2>4, <3>1, <3>2 DEF SoundInv, Claiming
  <2>6. ASSUME NEW p \in Pairs(t)
        PROVE  p[2] # Uid[d]
    <3>1. p \in Pairs(r) \/ \E f \in sent : f.type \in Naming /\ p = <<f.id, f.uid>>
      BY <2>1, FollowsLemma
    <3>2. \A f \in sent : f.type \in Naming => f.uid = Uid[x]
      BY <2>3 DEF Sincere
    <3>3. QED
      BY <1>2, <2>2, <3>1, <3>2 DEF HearsayInv, Alike
  <2>7. Joining(t) => ~Holds(t, "ID_CLAIM")
    <3>1. ASSUME Joining(r), NEW job \in Jobs(t), job.type = "ID_CLAIM"
          PROVE  job \in Jobs(r)
      <4>1. job \in sent => Joining(dev[x])
        BY <2>3, <3>1 DEF Sincere
      <4>2. QED
        BY <1>2, <2>4, <3>1, <4>1 DEF MeetInv, r
    <3>2. QED
      BY <2>1, <2>2, <3>1 DEF HearsayInv, Holds
  <2>8. QED
    BY <2>5, <2>6, <2>7 DEF HearsayInv, t
<1>3. QED
  BY <1>1, <1>2

\* An ID that an online device has stays taken.
LEMMA OwnedStays ==
  ASSUME InductiveInv, NEW x \in Device, NEW sent, Moves(x, dev'[x], sent),
         Result(x, dev'[x], sent), Learns(x)
  PROVE  /\ \A g \in Device : Online(g) => Online(g)' /\ dev'[g].id = dev[g].id
         /\ \A i : Owned(i) => Owned(i)'
<1>1. ASSUME NEW g \in Device, Online(g)
      PROVE  Online(g)' /\ dev'[g].id = dev[g].id
  <2>1. CASE g = x
    BY <1>1, <2>1 DEF Learns, Online
  <2>2. CASE g # x
    BY <1>1, <2>2, OthersFollow, OverhearLemma DEF Online
  <2>3. QED
    BY <2>1, <2>2
<1>2. QED
  BY <1>1 DEF Owned

\* x learns: the flags.
LEMMA LearnsFlags ==
  ASSUME InductiveInv, InductiveInv', MeetInv, KnowInv,
         NEW x \in Device, NEW sent, Moves(x, dev'[x], sent), Result(x, dev'[x], sent),
         Learns(x), NEW d \in Device, Online(d)'
  PROVE  FlagInv(d)'
<1>1. \A e \in Device : Joining(dev'[e]) => Joining(dev[e])
  BY OthersFollow DEF Moves, Behaves
<1>2. ASSUME NEW e \in Device, Online(e)', Joining(dev[e])
      PROVE  e = x /\ ~Joining(dev'[e])
  <2>1. ~Joining(dev'[e])
    <3>1. DeviceInv(dev'[e]) /\ dev'[e].status = "ONLINE"
      BY <1>2 DEF InductiveInv, TypeOK, DeviceInv, Online
    <3>2. dev'[e].thread # "starting"
      BY <3>1 DEF DeviceInv, JoinInv
    <3>3. dev'[e].sleeping \notin JoinTask /\ Queued(dev'[e], JoinTask) = {}
      BY <3>1 DEF DeviceInv, JoinInv, SleepInv, JoinTask
    <3>4. QED
      BY <3>2, <3>3 DEF Joining
  <2>2. QED
    BY <1>2, <2>1, OthersFollow
<1>3. CASE d = x
  <2> DEFINE r == dev[x]
             s == dev'[x]
  <2>1. CASE r.status = "ONLINE"
    <3>1. FlagInv(x)
      BY <2>1 DEF KnowInv, Online
    <3>2. /\ \/ Exact(s)
             \/ /\ ~Exact(r)
                /\ Holds(r, "PeriodicValidation") => Holds(s, "PeriodicValidation")
          /\ Holds(s, "ID_CLAIM") => Holds(r, "ID_CLAIM")
      BY <2>1 DEF Learns
    <3>3. QED
      BY <1>1, <1>3, <3>1, <3>2 DEF FlagInv
  <2>2. CASE r.status # "ONLINE"
    <3>1. s.status = "ONLINE"
      BY <1>3 DEF Online
    <3>2. r.status = "CLAIMING" /\ r.sleeping = "SendIdClaim"
      BY <2>2, <3>1 DEF Moves, Behaves
    <3>3. Joining(r)
      BY <3>2 DEF Joining, JoinTask
    <3>4. ~Holds(r, "ID_CLAIM")
      BY <3>3 DEF KnowInv, HearsayInv
    <3>5. Holds(s, "PeriodicValidation") /\ ~Holds(s, "ID_CLAIM")
      BY <2>2, <3>1, <3>4 DEF Learns
    <3>6. \A e \in Device : ~Joining(dev'[e])
      BY <1>1, <1>2, <1>3, <3>3 DEF MeetInv
    <3>7. QED
      BY <1>3, <3>5, <3>6 DEF FlagInv
  <2>3. QED
    BY <2>1, <2>2
<1>4. CASE d # x
  <2> DEFINE r == dev[d]
             t == dev'[d]
  <2>1. /\ r \in DeviceState /\ Follows(r, t, sent) /\ (Exact(t) <=> Exact(r))
    BY <1>4, OthersFollow
  <2>2. FlagInv(d)
    BY <1>4, OthersFollow, OverhearLemma DEF KnowInv, Online
  <2>3. \A f \in sent : f.type = "ID_CLAIM" => Joining(dev[x])
    BY DEF Moves, Behaves, Sincere
  <2>4. /\ Jobs(r) \subseteq Jobs(t)
        /\ \A job \in Jobs(t) : job \in Jobs(r) \/ job \in sent
    BY <2>1, OverhearLemma
  <2> HIDE DEF r, t
  <2>5. CASE Exact(r)
    BY <2>1, <2>5 DEF FlagInv, t
  <2>6. CASE ~Exact(r)
    <3>1. /\ Holds(r, "PeriodicValidation") /\ ~Holds(r, "ID_CLAIM")
          /\ \A e \in Device : ~Joining(dev[e])
      BY <2>2, <2>6 DEF FlagInv, r
    <3>2. Holds(t, "PeriodicValidation") /\ ~Holds(t, "ID_CLAIM")
      BY <2>3, <2>4, <3>1 DEF Holds
    <3>3. QED
      BY <1>1, <3>1, <3>2 DEF FlagInv, t
  <2>7. QED
    BY <2>5, <2>6
<1>5. QED
  BY <1>3, <1>4

\* x goes online.
LEMMA GoesOnline ==
  ASSUME MeetInv, NEW x \in Device, NEW sent, Moves(x, dev'[x], sent), Learns(x),
         dev[x].status # "ONLINE", dev'[x].status = "ONLINE"
  PROVE  /\ Claiming(dev[x]) /\ Joining(dev[x]) /\ dev[x].status = "CLAIMING"
         /\ dev'[x].id = dev[x].claiming /\ Known(dev'[x]) = Known(dev[x])
         /\ \A e \in Device \ {x} : Jobs(dev[e]) = {} /\ ~Joining(dev[e])
<1>1. /\ dev[x].status = "CLAIMING" /\ dev[x].sleeping = "SendIdClaim"
      /\ dev'[x].id = dev[x].claiming /\ dev'[x].table = dev[x].table
  BY DEF Moves, Behaves
<1>2. \A e \in Device \ {x} : dev[e].queue = <<>>
  BY DEF Learns
<1>3. Claiming(dev[x]) /\ Joining(dev[x]) /\ Known(dev'[x]) = Known(dev[x])
  BY <1>1 DEF Claiming, Joining, JoinTask, Known
<1>4. QED
  BY <1>1, <1>2, <1>3 DEF Jobs, MeetInv

\* x learns: the IDs taken below one's own.
LEMMA LearnsTaken ==
  ASSUME InductiveInv, MeetInv, KnowInv,
         NEW x \in Device, NEW sent, Moves(x, dev'[x], sent), Result(x, dev'[x], sent),
         Learns(x), NEW e \in Device, NEW y \in Device, e # y,
         Online(e)', Online(y)', Heeds(dev'[e], dev'[y].id)
  PROVE  dev'[y].id \in Known(dev'[e])
<1>1. CASE e # x /\ y # x
  <2>1. /\ dev'[e].id = dev[e].id /\ dev'[e].status = dev[e].status
        /\ dev'[y].id = dev[y].id /\ dev'[y].status = dev[y].status
        /\ Known(dev'[e]) = Known(dev[e])
    BY <1>1, OthersFollow, OverhearLemma
  <2>2. QED
    BY <2>1 DEF KnowInv, HeedInv, Heeds, Online
<1>2. CASE y = x
  <2>1. /\ dev'[e].id = dev[e].id /\ dev'[e].status = dev[e].status
        /\ Known(dev'[e]) = Known(dev[e])
    BY <1>2, OthersFollow, OverhearLemma
  <2>2. HeedInv(e, x)
    BY <1>2, <2>1 DEF KnowInv, Online
  <2>3. CASE Online(x)
    BY <1>2, <2>1, <2>2, <2>3, OwnedStays DEF HeedInv, Heeds
  <2>4. CASE ~Online(x)
    <3>1. /\ Claiming(dev[x]) /\ dev'[x].id = dev[x].claiming /\ Jobs(dev[e]) = {}
      BY <1>2, <2>4, GoesOnline DEF Online
    <3>2. QED
      BY <1>2, <2>1, <2>2, <3>1 DEF HeedInv, Heeds
  <2>5. QED
    BY <2>3, <2>4
<1>3. CASE e = x
  <2>1. /\ dev'[y].id = dev[y].id /\ dev'[y].status = dev[y].status /\ Online(y)
    BY <1>3, OthersFollow, OverhearLemma DEF Online
  <2>2. CASE Online(x)
    <3>1. dev'[x].id = dev[x].id
      BY <2>2, OwnedStays
    <3>2. dev[y].id \in Known(dev[x])
      BY <1>3, <2>1, <2>2, <3>1 DEF KnowInv, HeedInv, Heeds
    <3>3. Alive(dev[y].id)
      BY <2>1 DEF Alive, Owns, Online
    <3>4. QED
      BY <1>3, <2>1, <2>2, <3>2, <3>3 DEF Learns, Online
  <2>3. CASE ~Online(x)
    <3>1. /\ Claiming(dev[x]) /\ dev[x].status = "CLAIMING"
          /\ Known(dev'[x]) = Known(dev[x])
      BY <1>3, <2>3, GoesOnline DEF Online
    <3>2. Has(dev[x], y, dev[y])
      BY <1>3, <2>1, <3>1 DEF MeetInv, Meets, Claiming
    <3>3. Uid[y] # NoUid /\ dev[y].id \in Id
      BY <2>1, UidAssumption, DeviceByDevice DEF Online, DeviceInv, SleepInv, DeviceState
    <3>4. QED
      BY <1>3, <2>1, <3>1, <3>2, <3>3 DEF Has, Known
  <2>4. QED
    BY <2>2, <2>3
<1>4. QED
  BY <1>1, <1>2, <1>3

\* x learns: the IDs that are claimed.
LEMMA LearnsClaimed ==
  ASSUME Alike, InductiveInv, MeetInv, KnowInv,
         NEW x \in Device, NEW sent, Moves(x, dev'[x], sent), Result(x, dev'[x], sent),
         Learns(x), NEW e \in Device, NEW y \in Device, e # y,
         Online(e)', Claiming(dev'[y]), Heeds(dev'[e], dev'[y].claiming)
  PROVE  \/ dev'[y].claiming \in Known(dev'[e])
         \/ IdClaim(y, dev'[y].claiming) \in Jobs(dev'[e])
<1>1. CASE e # x
  <2>1. /\ dev'[e].id = dev[e].id /\ dev'[e].status = dev[e].status
        /\ Known(dev'[e]) = Known(dev[e]) /\ Jobs(dev[e]) \subseteq Jobs(dev'[e])
    BY <1>1, OthersFollow, OverhearLemma
  <2>2. CASE Claiming(dev[y]) /\ dev'[y].claiming = dev[y].claiming
    BY <2>1, <2>2 DEF KnowInv, HeedInv, Heeds, Online
  <2>3. CASE ~(Claiming(dev[y]) /\ dev'[y].claiming = dev[y].claiming)
    <3>1. y = x
      BY <2>3, OthersFollow, OverhearLemma
    <3>2. AloneInv(dev[e])
      BY DEF MeetInv
    <3>3. dev[e].listening
      BY <2>1, <3>2 DEF AloneInv, Active, Online
    <3>4. QED
      BY <1>1, <2>3, <3>1, <3>3 DEF Learns
  <2>4. QED
    BY <2>2, <2>3
<1>2. CASE e = x
  <2>1. Claiming(dev[y]) /\ dev'[y].claiming = dev[y].claiming
    BY <1>2, OthersFollow, OverhearLemma
  <2>2. Joining(dev[y])
    BY <2>1 DEF Claiming, Joining, JoinTask
  <2>3. Online(x)
    BY <1>2, <2>2, GoesOnline DEF Online
  <2>4. dev'[x].id = dev[x].id
    BY <2>3, OwnedStays
  <2>5. \/ dev[y].claiming \in Known(dev[x])
        \/ IdClaim(y, dev[y].claiming) \in Jobs(dev[x])
    BY <1>2, <2>1, <2>3, <2>4 DEF KnowInv, HeedInv, Heeds
  <2>6. CASE dev[y].claiming \in Known(dev[x])
    <3>1. Alive(dev[y].claiming)
      BY DEF Alive, Owns
    <3>2. QED
      BY <1>2, <2>1, <2>3, <2>6, <3>1 DEF Learns, Online
  <2>7. CASE IdClaim(y, dev[y].claiming) \in Jobs(dev[x])
    <3> DEFINE f == IdClaim(y, dev[y].claiming)
    <3>1. f.type = "ID_CLAIM" /\ f.id = dev[y].claiming /\ f.version = Version[x]
      BY DEF IdClaim, Alike
    <3>2. Exact(dev[x])
      BY <2>2, <2>3 DEF KnowInv, FlagInv
    <3>3. f.id # dev[x].id
      <4>1. dev[y].status = "CLAIMING"
        BY <2>1 DEF KnowInv, SoundInv
      <4>2. Meets(y, dev[y], x, dev[x], losses)
        BY <1>2, <2>3 DEF MeetInv
      <4>3. QED
        BY <2>1, <3>1, <4>1, <4>2 DEF Meets, Claiming
    <3>4. Heeds(dev[x], f.id)
      BY <1>2, <2>1, <2>4, <3>1 DEF Heeds
    <3> HIDE DEF f
    <3>5. f \in Jobs(dev'[x]) \/ f.id \in Known(dev'[x])
      BY <2>3, <2>7, <3>1, <3>2, <3>3, <3>4 DEF Learns, Online, f
    <3>6. QED
      BY <1>2, <2>1, <3>1, <3>5 DEF f
  <2>8. QED
    BY <2>5, <2>6, <2>7
<1>3. QED
  BY <1>1, <1>2

\* Without a loss of power, what a joining device is told of is online.
LEMMA ToldTrue ==
  ASSUME InductiveInv, MeetInv, KnowInv, TruthInv, cycles = 0,
         NEW y \in Device, Joining(dev[y]), NEW p \in Pairs(dev[y]), p[1] \in Id
  PROVE  Owned(p[1])
<1>1. PICK e \in Device : Takes(e, p)
  BY DEF TruthInv, Truthful
<1>2. e # y
  BY <1>1 DEF Takes, KnowInv, HearsayInv
<1>3. p[1] # Unassigned
  BY SizeAssumption DEF Id, Unassigned
<1>4. CASE p[1] = dev[e].id
  BY <1>3, <1>4 DEF KnowInv, SoundInv, Owned, Online
<1>5. CASE p[1] = dev[e].claiming
  <2>1. dev[e].sleeping = "SendIdClaim"
    BY <1>3, <1>5, DeviceByDevice DEF DeviceInv, SleepInv
  <2>2. Joining(dev[e])
    BY <2>1 DEF Joining, JoinTask
  <2>3. QED
    BY <1>2, <2>2 DEF MeetInv
<1>6. QED
  BY <1>1, <1>4, <1>5 DEF Takes

\* x learns: the lower IDs.
LEMMA LearnsLower ==
  ASSUME InductiveInv, MeetInv, KnowInv, TruthInv,
         NEW x \in Device, NEW sent, Moves(x, dev'[x], sent), Result(x, dev'[x], sent),
         Learns(x), cycles' = cycles, NEW d \in Device, Online(d)'
  PROVE  LowerInv(d)'
<1>0. \A i : Owned(i) => Owned(i)'
  BY OwnedStays
<1>1. CASE d # x
  <2>1. /\ dev'[d].id = dev[d].id /\ dev'[d].status = dev[d].status
        /\ Known(dev'[d]) = Known(dev[d])
    BY <1>1, OthersFollow, OverhearLemma
  <2>2. LowerInv(d)
    BY <2>1 DEF KnowInv, Online
  <2>3. QED
    BY <1>0, <2>1, <2>2 DEF LowerInv
<1>2. CASE d = x /\ Online(x)
  <2>1. LowerInv(x) /\ dev'[x].id = dev[x].id
    BY <1>2, OwnedStays DEF KnowInv
  <2>2. \A i \in Known(dev[x]) : Owned(i) => i \in Known(dev'[x])
    BY <1>2 DEF Learns, Owned, Alive, Owns, Online
  <2>3. QED
    BY <1>0, <1>2, <2>1, <2>2 DEF LowerInv
<1>3. CASE d = x /\ ~Online(x)
  <2> DEFINE r == dev[x]
             s == dev'[x]
  <2>1. /\ Claiming(r) /\ Joining(r) /\ s.id = r.claiming /\ Known(s) = Known(r)
    BY <1>3, GoesOnline DEF Online
  <2>2. \A j \in Id : j < s.id => j \in Known(r)
    BY <2>1 DEF KnowInv, SoundInv
  <2>3. \A j \in Known(r) : j \in Id /\ <<j, r.table[j]>> \in Pairs(r)
    BY DEF Known, Pairs
  <2>4. ASSUME cycles = 0, NEW j \in Id, j < s.id
        PROVE  j \in Known(s) /\ Owned(j)
    <3>1. <<j, r.table[j]>> \in Pairs(r) /\ j \in Known(s)
      BY <2>1, <2>2, <2>3, <2>4
    <3>2. Owned(<<j, r.table[j]>>[1])
      BY <2>1, <2>4, <3>1, ToldTrue
    <3>3. QED
      BY <3>1, <3>2
  <2>5. ASSUME cycles <= 1, s.id > 2
        PROVE  \E j \in Known(s) : j < s.id /\ Owned(j)
    <3>1. s.id \in Id
      BY <2>1, DeviceByDevice DEF DeviceInv, SleepInv, DeviceState, Claiming
    <3>2. 1 \in Id /\ 2 \in Id /\ 1 < s.id /\ 2 < s.id
      BY <2>5, <3>1, SizeAssumption DEF Id
    <3>3. <<1, r.table[1]>> \in Pairs(r) /\ <<2, r.table[2]>> \in Pairs(r)
      BY <2>2, <2>3, <3>2
    <3>4. ToldInv(x)
      BY <2>1 DEF KnowInv
    <3>5. Owned(1) \/ Owned(2)
      BY <2>5, <3>3, <3>4 DEF ToldInv
    <3>6. QED
      BY <2>1, <2>2, <3>2, <3>5
  <2>6. QED
    BY <1>0, <1>3, <2>4, <2>5 DEF LowerInv
<1>4. QED
  BY <1>1, <1>2, <1>3

\* x learns: what the joining device is told.
LEMMA LearnsTold ==
  ASSUME InductiveInv, MeetInv, KnowInv,
         NEW x \in Device, NEW sent, Moves(x, dev'[x], sent), Result(x, dev'[x], sent),
         Learns(x), cycles' = cycles, NEW y \in Device, Joining(dev'[y])
  PROVE  ToldInv(y)'
<1>1. \A i : Owned(i) => Owned(i)'
  BY OwnedStays
<1>2. Joining(dev[y])
  BY OthersFollow DEF Moves, Behaves
<1>3. ASSUME NEW p \in Pairs(dev'[y])
      PROVE  p \in Pairs(dev[y]) \/ Owned(p[1])'
  <2>1. CASE y = x
    BY <2>1 DEF Moves, Behaves
  <2>2. CASE y # x
    <3>1. p \in Pairs(dev[y]) \/ \E f \in sent : f.type \in Naming /\ p = <<f.id, f.uid>>
      BY <2>2, OthersFollow, FollowsLemma
    <3>2. ASSUME NEW f \in sent, f.type \in Naming, p = <<f.id, f.uid>>
          PROVE  Owned(p[1])'
      <4>1. Sincere(x, dev'[x], f)
        BY DEF Moves, Behaves
      <4>2. ~Joining(dev[x])
        BY <1>2, <2>2 DEF MeetInv
      <4>3. f.id = dev'[x].id /\ dev'[x].status = "ONLINE"
        BY <3>2, <4>1, <4>2 DEF Sincere, Naming
      <4>4. QED
        BY <3>2, <4>3 DEF Owned, Online
    <3>3. QED
      BY <3>1, <3>2
  <2>3. QED
    BY <2>1, <2>2
<1>4. ToldInv(y)
  BY <1>2 DEF KnowInv
<1>5. QED
  BY <1>1, <1>3, <1>4 DEF ToldInv

LEMMA LearnsKnow ==
  ASSUME Alike, InductiveInv, InductiveInv', MeetInv, KnowInv, TruthInv,
         NEW x \in Device, Steps(x), Learns(x), cycles' = cycles
  PROVE  KnowInv'
<1>1. PICK sent : Moves(x, dev'[x], sent) /\ Result(x, dev'[x], sent)
  BY DEF Steps
<1>2. \A d \in Device : SoundInv(dev'[d]) /\ HearsayInv(d, dev'[d])
  BY <1>1, LearnsSound
<1>3. \A d \in Device : Online(d)' => FlagInv(d)' /\ LowerInv(d)'
  BY <1>1, LearnsFlags, LearnsLower
<1>4. \A e, y \in Device : e # y /\ Online(e)' => HeedInv(e, y)'
  BY <1>1, LearnsTaken, LearnsClaimed DEF HeedInv
<1>5. \A y \in Device : Joining(dev'[y]) => ToldInv(y)'
  BY <1>1, LearnsTold
<1>6. QED
  BY <1>2, <1>3, <1>4, <1>5 DEF KnowInv

\* Power: what starts knows nothing, and what has none is not missed by more than one.
LEMMA BlankKnows ==
  ASSUME NEW x \in Device, NEW s, s.table = [i \in Id |-> NoUid], s.queue = <<>>,
         s.id = Unassigned, s.sleeping = Idle, ~s.validating
  PROVE  /\ SoundInv(s) /\ HearsayInv(x, s) /\ Pairs(s) = {}
         /\ ~Claiming(s) /\ \A type : ~Holds(s, type)
<1>1. Jobs(s) = {} /\ Known(s) = {}
  BY DEF Jobs, Known
<1>2. Pairs(s) = {} /\ ~Claiming(s) /\ \A type : ~Holds(s, type)
  BY <1>1 DEF Pairs, Holds, Claiming, Idle
<1>3. QED
  BY <1>2 DEF SoundInv, HearsayInv

LEMMA PowerOnKnows ==
  ASSUME InductiveInv, MeetInv, KnowInv, NEW x \in Device, Settled, PowerOn(x)
  PROVE  KnowInv'
<1> DEFINE s == [PoweredOff EXCEPT !.thread = "starting", !.listening = TRUE]
<1>1. /\ dev[x] = PoweredOff /\ dev' = [dev EXCEPT ![x] = s]
      /\ dev \in [Device -> DeviceState] /\ cycles' = cycles
  BY DeviceByDevice, PoweredOffInv DEF PowerOn, Become, MeetInv, AloneInv, DeviceInv
<1>2. dev'[x] = s /\ \A y \in Device \ {x} : dev'[y] = dev[y]
  BY <1>1
<1>3. /\ s.status = "OFFLINE" /\ s.queue = <<>> /\ s.id = Unassigned
      /\ s.sleeping = Idle /\ s.table = [i \in Id |-> NoUid] /\ ~s.validating
  BY DEF PoweredOff
<1> HIDE DEF s
<1>4. SoundInv(s) /\ HearsayInv(x, s) /\ Pairs(s) = {} /\ ~Claiming(s)
  BY <1>3, BlankKnows
<1>5. ~Online(x) /\ ~Online(x)'
  BY <1>1, <1>2, <1>3 DEF Online, PoweredOff
<1>6. \A y \in Device \ {x} : Online(y)' <=> Online(y)
  BY <1>2 DEF Online
<1>7. \A i : Owned(i) => Owned(i)'
  BY <1>2, <1>5, <1>6 DEF Owned
<1>8. \A y \in Device : Jobs(dev[y]) = {} /\ dev[y].sleeping = Idle /\ ~Joining(dev[y])
  BY DEF Settled, Jobs, Joining, Queued, JoinTask, Idle
<1>9. \A d \in Device : SoundInv(dev'[d]) /\ HearsayInv(d, dev'[d])
  BY <1>2, <1>4 DEF KnowInv
<1>10. ASSUME NEW d \in Device, Online(d)'
       PROVE  FlagInv(d)' /\ LowerInv(d)'
  <2>1. d # x /\ Online(d) /\ dev'[d] = dev[d]
    BY <1>2, <1>5, <1>6, <1>10
  <2>2. FlagInv(d) /\ LowerInv(d)
    BY <2>1 DEF KnowInv
  <2>3. Exact(dev[d])
    BY <1>8, <2>2 DEF FlagInv, Holds
  <2>4. QED
    BY <1>1, <1>7, <2>1, <2>2, <2>3 DEF FlagInv, LowerInv
<1>11. ASSUME NEW e \in Device, NEW y \in Device, e # y, Online(e)'
       PROVE  HeedInv(e, y)'
  <2>1. e # x /\ Online(e) /\ dev'[e] = dev[e] /\ HeedInv(e, y)
    BY <1>2, <1>5, <1>6, <1>11 DEF KnowInv
  <2>2. CASE y = x
    BY <1>2, <1>4, <1>5, <2>2 DEF HeedInv
  <2>3. CASE y # x
    BY <1>2, <1>6, <2>1, <2>3 DEF HeedInv
  <2>4. QED
    BY <2>2, <2>3
<1>12. ASSUME NEW y \in Device, Joining(dev'[y])
       PROVE  ToldInv(y)'
  <2>1. y = x
    BY <1>2, <1>8, <1>12
  <2>2. QED
    BY <1>2, <1>4, <2>1 DEF ToldInv
<1>13. QED
  BY <1>9, <1>10, <1>11, <1>12 DEF KnowInv

LEMMA PowerOffKnows ==
  ASSUME InductiveInv, MeetInv, KnowInv, TruthInv, NEW x \in Device, PowerOff(x)
  PROVE  KnowInv'
<1>1. /\ dev' = [dev EXCEPT ![x] = PoweredOff] /\ dev \in [Device -> DeviceState]
      /\ cycles \in Nat /\ cycles' = cycles + 1
  BY DeviceByDevice DEF PowerOff
<1>2. dev'[x] = PoweredOff /\ \A y \in Device \ {x} : dev'[y] = dev[y]
  BY <1>1
<1>3. /\ PoweredOff.status = "OFFLINE" /\ PoweredOff.queue = <<>>
      /\ PoweredOff.id = Unassigned /\ PoweredOff.sleeping = Idle
      /\ PoweredOff.table = [i \in Id |-> NoUid] /\ ~PoweredOff.validating
      /\ PoweredOff.thread = "off"
  BY DEF PoweredOff
<1>4. /\ SoundInv(PoweredOff) /\ HearsayInv(x, PoweredOff) /\ ~Claiming(PoweredOff)
  BY <1>3, BlankKnows
<1>5. ~Online(x)' /\ ~Joining(dev'[x])
  BY <1>2, <1>3 DEF Online, Joining, Queued, Idle, JoinTask
<1>6. \A y \in Device \ {x} : Online(y)' <=> Online(y)
  BY <1>2 DEF Online
<1>7. \A y \in Device : Joining(dev'[y]) => y # x /\ Joining(dev[y]) /\ dev'[y] = dev[y]
  BY <1>2, <1>5
<1>8. ASSUME NEW i, NEW j, i # j, Owned(i), Owned(j)
      PROVE  Owned(i)' \/ Owned(j)'
  <2>1. PICK g \in Device : Online(g) /\ dev[g].id = i
    BY <1>8 DEF Owned
  <2>2. PICK h \in Device : Online(h) /\ dev[h].id = j
    BY <1>8 DEF Owned
  <2>3. g # x \/ h # x
    BY <1>8, <2>1, <2>2
  <2>4. QED
    BY <1>2, <1>6, <2>1, <2>2, <2>3 DEF Owned
<1>9. \A d \in Device : SoundInv(dev'[d]) /\ HearsayInv(d, dev'[d])
  BY <1>2, <1>4 DEF KnowInv
<1>10. ASSUME NEW d \in Device, Online(d)'
       PROVE  FlagInv(d)' /\ LowerInv(d)'
  <2>1. d # x /\ Online(d) /\ dev'[d] = dev[d]
    BY <1>2, <1>5, <1>6, <1>10
  <2>2. FlagInv(d) /\ LowerInv(d)
    BY <2>1 DEF KnowInv
  <2>3. FlagInv(d)'
    BY <1>7, <2>1, <2>2 DEF FlagInv
  <2>4. ASSUME cycles' <= 1, dev[d].id > 2
        PROVE  \E j \in Known(dev[d]) : j < dev[d].id /\ Owned(j)'
    <3>1. cycles = 0
      BY <1>1, <2>4
    <3>2. dev[d].id \in Id
      BY <2>1, DeviceByDevice DEF Online, DeviceInv, SleepInv, DeviceState
    <3>3. 1 \in Id /\ 2 \in Id /\ 1 < dev[d].id /\ 2 < dev[d].id
      BY <2>4, <3>2, SizeAssumption DEF Id
    <3>4. 1 \in Known(dev[d]) /\ Owned(1) /\ 2 \in Known(dev[d]) /\ Owned(2)
      BY <2>2, <3>1, <3>3 DEF LowerInv
    <3>5. Owned(1)' \/ Owned(2)'
      BY <1>8, <3>4
    <3>6. QED
      BY <3>3, <3>4, <3>5
  <2>5. cycles' # 0
    BY <1>1
  <2>6. QED
    BY <2>1, <2>3, <2>4, <2>5 DEF LowerInv
<1>11. ASSUME NEW e \in Device, NEW y \in Device, e # y, Online(e)'
       PROVE  HeedInv(e, y)'
  <2>1. e # x /\ Online(e) /\ dev'[e] = dev[e] /\ HeedInv(e, y)
    BY <1>2, <1>5, <1>6, <1>11 DEF KnowInv
  <2>2. CASE y = x
    BY <1>2, <1>4, <1>5, <2>2 DEF HeedInv
  <2>3. CASE y # x
    BY <1>2, <1>6, <2>1, <2>3 DEF HeedInv
  <2>4. QED
    BY <2>2, <2>3
<1>12. ASSUME NEW y \in Device, Joining(dev'[y])
       PROVE  ToldInv(y)'
  <2>1. Joining(dev[y]) /\ dev'[y] = dev[y]
    BY <1>7, <1>12
  <2>2. ASSUME cycles' <= 1, NEW p \in Pairs(dev[y]), NEW q \in Pairs(dev[y]), p[1] # q[1]
        PROVE  Owned(p[1])' \/ Owned(q[1])'
    <3>1. cycles = 0
      BY <1>1, <2>2
    <3>2. p[1] \in Id /\ q[1] \in Id
      BY <2>2, DeviceByDevice, PairsLemma
    <3>3. Owned(p[1]) /\ Owned(q[1])
      BY <2>1, <3>1, <3>2, ToldTrue
    <3>4. QED
      BY <1>8, <2>2, <3>3
  <2>3. QED
    BY <2>1, <2>2 DEF ToldInv
<1>13. QED
  BY <1>9, <1>10, <1>11, <1>12 DEF KnowInv
-----------------------------------------------------------------------------
(***************************************************************************)
(* The actions: what x learns in each of its steps.                        *)
(***************************************************************************)
\* A step that neither claims nor goes online.
LEMMA PlainLearns ==
  ASSUME KnowInv, NEW x \in Device, NEW s, dev'[x] = s,
         s.status = dev[x].status, s.id = dev[x].id, ~Claiming(s),
         Holds(s, "SendIdClaim") => Holds(dev[x], "SendIdClaim"),
         s.validating /\ ~s.armed => Holds(s, "PeriodicValidation"),
         Holds(s, "ID_CLAIM") => Holds(dev[x], "ID_CLAIM"),
         dev[x].status = "ONLINE" =>
           /\ \A i \in Known(dev[x]) : i \in Known(s) \/ ~Alive(i)
           /\ \/ Exact(s)
              \/ /\ s.table = dev[x].table /\ s.lowest = dev[x].lowest
                 /\ Holds(dev[x], "PeriodicValidation") => Holds(s, "PeriodicValidation")
           /\ \A f \in Jobs(dev[x]) :
                f.type = "ID_CLAIM" /\ f.version = Version[x] /\ Exact(dev[x])
                  /\ Heeds(dev[x], f.id) /\ f.id # dev[x].id =>
                  f \in Jobs(s) \/ f.id \in Known(s)
  PROVE  Learns(x)
<1>1. SoundInv(dev[x])
  BY DEF KnowInv
<1>2. SoundInv(s)
  BY <1>1 DEF SoundInv
<1>3. s.table = dev[x].table /\ s.lowest = dev[x].lowest => (Exact(s) <=> Exact(dev[x]))
  BY DEF Exact, Known
<1>4. QED
  BY <1>2, <1>3 DEF Learns

\* A job is taken that is not the validation.
LEMMA TakeLearns ==
  ASSUME InductiveInv, MeetInv, KnowInv, NEW x \in Device,
         NEW type, Ready(x, type), type # "PeriodicValidation",
         NEW s, dev'[x] = s,
         s.status = dev[x].status, s.id = dev[x].id, ~Claiming(s),
         s.validating = dev[x].validating, s.armed = dev[x].armed,
         \A job \in Jobs(s) : job \in Jobs(dev[x]) \/ job.type = "SendDiscoveryResponse",
         \A job \in Jobs(dev[x]) : job \in Jobs(s) \/ job = Head(dev[x].queue),
         Known(dev[x]) \subseteq Known(s),
         Exact(s) \/ (s.table = dev[x].table /\ s.lowest = dev[x].lowest),
         LET frame == Head(dev[x].queue)
         IN  type = "ID_CLAIM" /\ frame.version = Version[x]
               /\ dev[x].status = "ONLINE" /\ Exact(dev[x])
               /\ Heeds(dev[x], frame.id) /\ frame.id # dev[x].id => frame.id \in Known(s)
  PROVE  Learns(x)
<1>1. Head(dev[x].queue).type = type
  BY RunsLemma
<1>2. /\ Holds(s, "SendIdClaim") => Holds(dev[x], "SendIdClaim")
      /\ Holds(s, "ID_CLAIM") => Holds(dev[x], "ID_CLAIM")
      /\ Holds(dev[x], "PeriodicValidation") => Holds(s, "PeriodicValidation")
  BY <1>1 DEF Holds
<1>3. s.validating /\ ~s.armed => Holds(s, "PeriodicValidation")
  BY <1>2 DEF KnowInv, SoundInv
<1>4. \A f \in Jobs(dev[x]) :
        dev[x].status = "ONLINE" /\ f.type = "ID_CLAIM" /\ f.version = Version[x]
          /\ Exact(dev[x]) /\ Heeds(dev[x], f.id) /\ f.id # dev[x].id =>
            f \in Jobs(s) \/ f.id \in Known(s)
  BY <1>1
<1>5. QED
  BY <1>2, <1>3, <1>4, PlainLearns

\* The rest of what taking a job leaves as it was.
LEMMA TakenRest ==
  ASSUME InductiveInv, MeetInv, NEW x \in Device, NEW type, Ready(x, type)
  PROVE  LET q == Dequeue(dev[x])
         IN  /\ q \in DeviceState /\ q.status = dev[x].status /\ q.id = dev[x].id
             /\ q.table = dev[x].table /\ q.validating = dev[x].validating
             /\ q.armed = dev[x].armed /\ q.lowest = dev[x].lowest
             /\ q.sleeping = Idle /\ q.claiming = dev[x].claiming
             /\ Jobs(q) \subseteq Jobs(dev[x])
             /\ \A job \in Jobs(dev[x]) : job \in Jobs(q) \/ job = Head(dev[x].queue)
<1>1. dev[x] \in DeviceState /\ dev[x].queue # <<>> /\ dev[x].sleeping = Idle
  BY RunsLemma
<1>2. Dequeue(dev[x]).armed = dev[x].armed /\ Dequeue(dev[x]).lowest = dev[x].lowest
  BY <1>1 DEF Dequeue, DeviceState
<1>3. QED
  BY <1>1, <1>2, TakenLemma

\* What is filed is known, and the flag is refreshed.
LEMMA FileExact ==
  ASSUME NEW r \in DeviceState, NEW id \in Id, NEW uid \in UidValue
  PROVE  LET t == AddOrUpdateDevice(r, id, uid)
         IN  /\ t.status = r.status /\ t.id = r.id /\ t.queue = r.queue
             /\ t.sleeping = r.sleeping
             /\ t.validating = r.validating /\ t.armed = r.armed
             /\ Known(t) = Known(r) \cup {id}
             /\ Exact(t) \/ (t.table = r.table /\ t.lowest = r.lowest)
<1> DEFINE t == AddOrUpdateDevice(r, id, uid)
<1>1. CASE id \in Known(r)
  BY <1>1 DEF AddOrUpdateDevice
<1>2. CASE id \notin Known(r)
  <2> DEFINE f == [r EXCEPT !.table[id] = uid]
  <2>0. uid # NoUid
    BY UidAssumption DEF UidValue
  <2>1. /\ f.table = [r.table EXCEPT ![id] = uid] /\ f.id = r.id /\ f.status = r.status
        /\ f.queue = r.queue /\ f.sleeping = r.sleeping
        /\ f.validating = r.validating /\ f.armed = r.armed
        /\ t = [f EXCEPT !.lowest = \A i \in Known(f) : f.id <= i]
        /\ f = [f EXCEPT !.table = f.table]
        /\ DOMAIN f = DOMAIN r
    BY <1>2 DEF AddOrUpdateDevice, UpdateNetworkDevices, DeviceState
  <2>2. "lowest" \in DOMAIN f
    BY <2>1 DEF DeviceState
  <2>3. r.table \in [Id -> UidValue \cup {NoUid}]
    BY DEF DeviceState
  <2> HIDE DEF f
  <2>4. /\ t.table = f.table /\ t.id = f.id /\ t.status = f.status /\ t.queue = f.queue
        /\ t.sleeping = f.sleeping
        /\ t.validating = f.validating /\ t.armed = f.armed
        /\ t.lowest = \A i \in Known(f) : f.id <= i
    BY <2>1, <2>2
  <2> HIDE DEF t
  <2>5. Known(t) = Known(f) /\ Known(f) = Known(r) \cup {id}
    BY <2>0, <2>1, <2>3, <2>4 DEF Known
  <2>6. Exact(t)
    BY <2>4, <2>5 DEF Exact
  <2>7. QED
    BY <2>1, <2>4, <2>5, <2>6 DEF t
<1>3. QED
  BY <1>1, <1>2

LEMMA ProcessDiscoveryRequestFrameLearns ==
  ASSUME InductiveInv, MeetInv, KnowInv, NEW x \in Device,
         ProcessDiscoveryRequestFrame(x)
  PROVE  Learns(x)
<1> DEFINE q == Dequeue(dev[x])
           uid == Head(dev[x].queue).uid
           r == [q EXCEPT !.requesting = Append(@, uid)]
           job == [type |-> "SendDiscoveryResponse"]
           t == Enqueue(r, job)
<1>0. Ready(x, "DISCOVERY_REQUEST") /\ dev' = [dev EXCEPT ![x] = t]
  BY DEF ProcessDiscoveryRequestFrame, Become
<1>1. /\ q \in DeviceState /\ q.status = dev[x].status /\ q.id = dev[x].id
      /\ q.table = dev[x].table /\ q.validating = dev[x].validating
      /\ q.armed = dev[x].armed /\ q.lowest = dev[x].lowest /\ q.sleeping = Idle
      /\ Jobs(q) \subseteq Jobs(dev[x])
      /\ \A j \in Jobs(dev[x]) : j \in Jobs(q) \/ j = Head(dev[x].queue)
  BY <1>0, TakenRest
<1>2. dev'[x] = t
  BY <1>0, DeviceByDevice
<1>3. uid \in UidValue
  BY <1>0, RunsLemma, JobLemma
<1>4. job \in Job /\ job.type \notin JoinTask
  BY DEF Job, Task, JoinTask
<1> HIDE DEF q, uid
<1>5. /\ r \in DeviceState /\ r.status = q.status /\ r.id = q.id /\ r.table = q.table
      /\ r.validating = q.validating /\ r.armed = q.armed /\ r.lowest = q.lowest
      /\ r.sleeping = q.sleeping /\ r.queue = q.queue
  <2>1. Append(q.requesting, uid) \in Seq(UidValue)
    BY <1>1, <1>3 DEF DeviceState
  <2>2. QED
    BY <1>1, <2>1 DEF DeviceState
<1> HIDE DEF r
<1>6. Jobs(r) = Jobs(q)
  BY <1>5, SameInTime
<1>7. Hears(r, t, job)
  BY <1>4, <1>5, HearLemma
<1>8. job.type = "SendDiscoveryResponse"
  OBVIOUS
<1> HIDE DEF t, job
<1>9. /\ t.status = dev[x].status /\ t.id = dev[x].id /\ t.table = dev[x].table
      /\ t.validating = dev[x].validating /\ t.armed = dev[x].armed
      /\ t.lowest = dev[x].lowest /\ t.sleeping = Idle /\ Jobs(t) = Jobs(q) \cup {job}
  BY <1>1, <1>5, <1>6, <1>7 DEF Hears
<1>10. ~Claiming(t) /\ Known(dev[x]) \subseteq Known(t)
  BY <1>9 DEF Claiming, Idle, Known
<1>11. QED
  BY <1>0, <1>1, <1>2, <1>8, <1>9, <1>10, TakeLearns

LEMMA SendDiscoveryResponseLearns ==
  ASSUME InductiveInv, MeetInv, KnowInv, NEW x \in Device, SendDiscoveryResponse(x)
  PROVE  Learns(x)
<1> DEFINE q == Dequeue(dev[x])
           r == [q EXCEPT !.sleeping = "SendDiscoveryResponse"]
           t == IF q.status = "ONLINE" THEN r ELSE q
<1>0. Ready(x, "SendDiscoveryResponse") /\ dev' = [dev EXCEPT ![x] = t]
  BY DEF SendDiscoveryResponse, Become
<1>1. /\ q \in DeviceState /\ q.status = dev[x].status /\ q.id = dev[x].id
      /\ q.table = dev[x].table /\ q.validating = dev[x].validating
      /\ q.armed = dev[x].armed /\ q.lowest = dev[x].lowest /\ q.sleeping = Idle
      /\ Jobs(q) \subseteq Jobs(dev[x])
      /\ \A j \in Jobs(dev[x]) : j \in Jobs(q) \/ j = Head(dev[x].queue)
  BY <1>0, TakenRest
<1>2. dev'[x] = t
  BY <1>0, DeviceByDevice
<1> HIDE DEF q
<1>3. /\ t.status = q.status /\ t.id = q.id /\ t.table = q.table /\ t.queue = q.queue
      /\ t.validating = q.validating /\ t.armed = q.armed /\ t.lowest = q.lowest
      /\ t.sleeping \in {Idle, "SendDiscoveryResponse"}
  BY <1>1 DEF DeviceState
<1> HIDE DEF t
<1>4. Jobs(t) = Jobs(q)
  BY <1>3, SameInTime
<1>5. ~Claiming(t) /\ Known(dev[x]) \subseteq Known(t)
  BY <1>1, <1>3 DEF Claiming, Idle, Known
<1>6. QED
  BY <1>0, <1>1, <1>2, <1>3, <1>4, <1>5, TakeLearns

LEMMA ProcessIdClaimResponseFrameLearns ==
  ASSUME InductiveInv, MeetInv, KnowInv, NEW x \in Device,
         ProcessIdClaimResponseFrame(x)
  PROVE  Learns(x)
<1> DEFINE q == Dequeue(dev[x])
           frame == Head(dev[x].queue)
<1>0. Ready(x, "ID_CLAIM_RESPONSE")
  BY DEF ProcessIdClaimResponseFrame
<1>1. /\ q \in DeviceState /\ q.status = dev[x].status /\ q.id = dev[x].id
      /\ q.table = dev[x].table /\ q.validating = dev[x].validating
      /\ q.armed = dev[x].armed /\ q.lowest = dev[x].lowest /\ q.sleeping = Idle
      /\ q.claiming = dev[x].claiming /\ Jobs(q) \subseteq Jobs(dev[x])
      /\ \A j \in Jobs(dev[x]) : j \in Jobs(q) \/ j = frame
  BY <1>0, TakenRest
<1>2. dev[x].claiming = Unassigned /\ frame.id # Unassigned
  BY <1>0, RunsLemma, JobLemma, SizeAssumption DEF Id, Unassigned
<1>3. dev'[x] = q
  BY <1>1, <1>2, DeviceByDevice DEF ProcessIdClaimResponseFrame, Become
<1> HIDE DEF q
<1>4. ~Claiming(q) /\ Known(dev[x]) \subseteq Known(q)
  BY <1>1 DEF Claiming, Idle, Known
<1>5. QED
  BY <1>0, <1>1, <1>3, <1>4, TakeLearns

\* An answer is never its own: the device does not go into ERROR.
LEMMA ProcessDiscoveryResponseFrameLearns ==
  ASSUME InductiveInv, MeetInv, KnowInv, NEW x \in Device,
         ProcessDiscoveryResponseFrame(x)
  PROVE  Learns(x)
<1> DEFINE frame == Head(dev[x].queue)
           q == Dequeue(dev[x])
           r == [q EXCEPT !.answered = TRUE]
           t == AddOrUpdateDevice(r, frame.id, frame.uid)
<1>0. /\ Ready(x, "DISCOVERY_RESPONSE")
      /\ Become(x, IF frame.uid = Uid[x] THEN SetStatus(r, "ERROR") ELSE t)
  BY DEF ProcessDiscoveryResponseFrame
<1>1. /\ q \in DeviceState /\ q.status = dev[x].status /\ q.id = dev[x].id
      /\ q.table = dev[x].table /\ q.validating = dev[x].validating
      /\ q.armed = dev[x].armed /\ q.lowest = dev[x].lowest /\ q.sleeping = Idle
      /\ Jobs(q) \subseteq Jobs(dev[x])
      /\ \A j \in Jobs(dev[x]) : j \in Jobs(q) \/ j = frame
  BY <1>0, TakenRest
<1>2. frame.id \in Id /\ frame.uid \in UidValue /\ frame.type = "DISCOVERY_RESPONSE"
  BY <1>0, RunsLemma, JobLemma
<1>3. frame.uid # Uid[x]
  <2>1. frame \in Jobs(dev[x])
    BY <1>0, RunsLemma, TakenLemma
  <2>2. <<frame.id, frame.uid>> \in Pairs(dev[x])
    BY <1>2, <2>1 DEF Pairs, Naming
  <2>3. <<frame.id, frame.uid>>[2] # Uid[x]
    BY <2>2 DEF KnowInv, HearsayInv
  <2>4. QED
    BY <2>3
<1>4. dev'[x] = t
  BY <1>0, <1>3, DeviceByDevice DEF Become
<1> HIDE DEF q
<1>5. /\ r \in DeviceState /\ r.status = q.status /\ r.id = q.id /\ r.table = q.table
      /\ r.validating = q.validating /\ r.armed = q.armed /\ r.lowest = q.lowest
      /\ r.sleeping = q.sleeping /\ r.queue = q.queue
  BY <1>1 DEF DeviceState
<1> HIDE DEF r
<1>6. /\ t.status = r.status /\ t.id = r.id /\ t.queue = r.queue
      /\ t.sleeping = r.sleeping
      /\ t.validating = r.validating /\ t.armed = r.armed
      /\ Known(t) = Known(r) \cup {frame.id}
      /\ Exact(t) \/ (t.table = r.table /\ t.lowest = r.lowest)
  BY <1>2, <1>5, FileExact
<1> HIDE DEF t
<1>7. Jobs(t) = Jobs(q)
  BY <1>5, <1>6 DEF Jobs
<1>8. ~Claiming(t) /\ Known(dev[x]) \subseteq Known(t)
  BY <1>1, <1>5, <1>6 DEF Claiming, Idle, Known
<1>9. QED
  <2> HIDE DEF frame
  <2>1. QED
    BY <1>0, <1>1, <1>4, <1>5, <1>6, <1>7, <1>8, TakeLearns DEF frame

\* A device with no lower ID in its table takes itself for the lowest: it accepts.
LEMMA ProcessIdClaimRequestFrameLearns ==
  ASSUME InductiveInv, MeetInv, KnowInv, NEW x \in Device,
         ProcessIdClaimRequestFrame(x)
  PROVE  Learns(x)
<1> DEFINE frame == Head(dev[x].queue)
           q == Dequeue(dev[x])
           verdict == Verdict(x, frame)
           f == AddOrUpdateDevice(q, frame.id, frame.uid)
           silent == dev[x].status # "ONLINE" \/ verdict = NoResult
           t == IF ~silent /\ verdict = "ACCEPT" THEN f ELSE q
<1>0. Ready(x, "ID_CLAIM")
  BY DEF ProcessIdClaimRequestFrame
<1>1. /\ q \in DeviceState /\ q.status = dev[x].status /\ q.id = dev[x].id
      /\ q.table = dev[x].table /\ q.validating = dev[x].validating
      /\ q.armed = dev[x].armed /\ q.lowest = dev[x].lowest /\ q.sleeping = Idle
      /\ Jobs(q) \subseteq Jobs(dev[x])
      /\ \A j \in Jobs(dev[x]) : j \in Jobs(q) \/ j = frame
  BY <1>0, TakenRest
<1>2. frame.id \in Id /\ frame.uid \in UidValue
  BY <1>0, RunsLemma, JobLemma
<1>3. dev'[x] = t
  <2>1. CASE silent
    <3>1. dev' = [dev EXCEPT ![x] = q]
      BY <2>1 DEF ProcessIdClaimRequestFrame, Become
    <3>2. QED
      BY <2>1, <3>1, DeviceByDevice
  <2>2. CASE ~silent
    BY <2>2 DEF ProcessIdClaimRequestFrame, Send
  <2>3. QED
    BY <2>1, <2>2
<1>4. /\ f.status = q.status /\ f.id = q.id /\ f.queue = q.queue
      /\ f.sleeping = q.sleeping
      /\ f.validating = q.validating /\ f.armed = q.armed
      /\ Known(f) = Known(q) \cup {frame.id}
      /\ Exact(f) \/ (f.table = q.table /\ f.lowest = q.lowest)
  BY <1>1, <1>2, FileExact
<1>5. ASSUME frame.version = Version[x], dev[x].status = "ONLINE", Exact(dev[x]),
             Heeds(dev[x], frame.id), frame.id # dev[x].id
      PROVE  frame.id \in Known(t)
  <2>1. CASE frame.id \in Known(dev[x])
    BY <1>1, <1>4, <2>1 DEF Known
  <2>2. CASE frame.id \notin Known(dev[x])
    <3>1. dev[x].id \in Id /\ \A i \in Known(dev[x]) : i \in Id
      BY <1>5, DeviceByDevice DEF DeviceInv, SleepInv, DeviceState, Known
    <3>2. \A i \in Known(dev[x]) : dev[x].id <= i
      BY <1>5, <2>2, <3>1, SizeAssumption DEF Heeds, Id
    <3>3. dev[x].lowest = TRUE
      <4>1. dev[x].lowest \in BOOLEAN
        BY DeviceByDevice DEF DeviceState
      <4>2. dev[x].lowest
        BY <1>5, <3>2 DEF Exact
      <4>3. QED
        BY <4>1, <4>2
    <3>4. verdict = "ACCEPT" /\ verdict # NoResult
      BY <1>5, <3>3 DEF Verdict, IsProtocolCompatible, NoResult
    <3>5. QED
      BY <1>4, <1>5, <3>4
  <2>3. QED
    BY <2>1, <2>2
<1> HIDE DEF q, f
<1>6. /\ t.status = q.status /\ t.id = q.id /\ t.queue = q.queue
      /\ t.sleeping = q.sleeping
      /\ t.validating = q.validating /\ t.armed = q.armed
      /\ Known(q) \subseteq Known(t)
      /\ Exact(t) \/ (t.table = q.table /\ t.lowest = q.lowest)
  BY <1>4
<1> HIDE DEF t
<1>7. Jobs(t) = Jobs(q)
  BY <1>6 DEF Jobs
<1>8. ~Claiming(t) /\ Known(dev[x]) \subseteq Known(t)
  BY <1>1, <1>6 DEF Claiming, Idle, Known
<1>9. QED
  <2> HIDE DEF frame, verdict, silent
  <2>1. QED
    BY <1>0, <1>1, <1>3, <1>5, <1>6, <1>7, <1>8, TakeLearns DEF frame

LEMMA ValidationDueLearns ==
  ASSUME InductiveInv, MeetInv, KnowInv, NEW x \in Device, ValidationDue(x)
  PROVE  Learns(x)
<1> DEFINE r == [dev[x] EXCEPT !.armed = FALSE]
           job == [type |-> "PeriodicValidation"]
           t == Enqueue(r, job)
<1>1. /\ dev[x] \in DeviceState /\ dev[x].status = "ONLINE" /\ ~Claiming(dev[x])
      /\ dev' = [dev EXCEPT ![x] = t]
  BY DeviceByDevice DEF ValidationDue, Become, DeviceInv, ValidationInv, SleepInv, Claiming
<1>2. dev'[x] = t
  BY <1>1, DeviceByDevice
<1>3. /\ r \in DeviceState
      /\ r.status = dev[x].status /\ r.id = dev[x].id /\ r.lowest = dev[x].lowest
      /\ r.sleeping = dev[x].sleeping /\ r.table = dev[x].table
      /\ r.queue = dev[x].queue
  BY <1>1 DEF DeviceState
<1>4. job \in Job /\ job.type \notin JoinTask
  BY DEF Job, Task, JoinTask
<1>5. job.type = "PeriodicValidation"
  OBVIOUS
<1> HIDE DEF r
<1>6. Jobs(r) = Jobs(dev[x])
  BY <1>3 DEF Jobs
<1>7. Hears(r, t, job)
  BY <1>3, <1>4, HearLemma
<1> HIDE DEF t, job
<1>8. /\ t.status = dev[x].status /\ t.id = dev[x].id /\ t.lowest = dev[x].lowest
      /\ t.sleeping = dev[x].sleeping /\ t.table = dev[x].table
      /\ Jobs(t) = Jobs(dev[x]) \cup {job}
  BY <1>3, <1>6, <1>7 DEF Hears
<1>9. ~Claiming(t) /\ Known(dev[x]) \subseteq Known(t)
  BY <1>1, <1>8 DEF Claiming, Known
<1>10. /\ Holds(t, "PeriodicValidation")
       /\ Holds(t, "SendIdClaim") => Holds(dev[x], "SendIdClaim")
       /\ Holds(t, "ID_CLAIM") => Holds(dev[x], "ID_CLAIM")
  BY <1>5, <1>8 DEF Holds
<1>11. QED
  BY <1>2, <1>8, <1>9, <1>10, PlainLearns

LEMMA WakeDiscoveryResponseLearns ==
  ASSUME InductiveInv, MeetInv, KnowInv, NEW x \in Device, WakeDiscoveryResponse(x)
  PROVE  Learns(x)
<1> DEFINE t == [dev[x] EXCEPT !.sleeping = Idle]
<1>1. dev[x] \in DeviceState /\ dev'[x] = t
  BY DeviceByDevice DEF WakeDiscoveryResponse, Send
<1>2. /\ t.status = dev[x].status /\ t.id = dev[x].id /\ t.lowest = dev[x].lowest
      /\ t.table = dev[x].table /\ t.queue = dev[x].queue /\ t.sleeping = Idle
      /\ t.validating = dev[x].validating /\ t.armed = dev[x].armed
  BY <1>1 DEF DeviceState
<1> HIDE DEF t
<1>3. Jobs(t) = Jobs(dev[x]) /\ ~Claiming(t) /\ Known(t) = Known(dev[x])
  BY <1>2 DEF Jobs, Claiming, Idle, Known
<1>4. t.validating /\ ~t.armed => Holds(t, "PeriodicValidation")
  BY <1>2, <1>3 DEF KnowInv, SoundInv, Holds
<1>5. QED
  BY <1>1, <1>2, <1>3, <1>4, PlainLearns DEF Holds

\* Nothing lost, what is forgotten belongs to nobody.
LEMMA ProcessPeriodicValidationLearns ==
  ASSUME InductiveInv, MeetInv, KnowInv, losses' = 0, NEW x \in Device,
         ProcessPeriodicValidation(x)
  PROVE  Learns(x)
<1> DEFINE q == Dequeue(dev[x])
<1>0. Ready(x, "PeriodicValidation")
  BY DEF ProcessPeriodicValidation
<1>1. /\ q \in DeviceState /\ q.status = dev[x].status /\ q.id = dev[x].id
      /\ q.table = dev[x].table /\ q.sleeping = Idle
      /\ Jobs(q) \subseteq Jobs(dev[x])
      /\ \A j \in Jobs(dev[x]) : j \in Jobs(q) \/ j = Head(dev[x].queue)
      /\ q.validating = dev[x].validating /\ q.armed = dev[x].armed
  BY <1>0, TakenRest
<1>2. /\ dev \in [Device -> DeviceState] /\ losses \in Nat
      /\ dev[x].validating <=> dev[x].status = "ONLINE"
      /\ Head(dev[x].queue).type = "PeriodicValidation"
  BY <1>0, RunsLemma, DeviceByDevice, Zenon DEF DeviceInv, ValidationInv
<1>3. CASE ~q.validating
  <2>1. dev'[x] = q
    BY <1>2, <1>3 DEF ProcessPeriodicValidation, Become
  <2> HIDE DEF q
  <2>2. ~Claiming(q) /\ dev[x].status # "ONLINE"
    BY <1>1, <1>2, <1>3 DEF Claiming, Idle
  <2>3. /\ Holds(q, "SendIdClaim") => Holds(dev[x], "SendIdClaim")
        /\ Holds(q, "ID_CLAIM") => Holds(dev[x], "ID_CLAIM")
    BY <1>1 DEF Holds
  <2>4. QED
    BY <1>1, <1>3, <2>1, <2>2, <2>3, PlainLearns
<1>4. CASE q.validating
  <2>1. PICK stale \in SUBSET Known(q) :
          /\ Forget(stale)
          /\ dev' = [dev EXCEPT ![x] = [UpdateNetworkDevices(RemoveDevices(q, stale))
                                          EXCEPT !.armed = TRUE]]
    BY <1>4 DEF ProcessPeriodicValidation
  <2> DEFINE s == RemoveDevices(q, stale)
             u == UpdateNetworkDevices(s)
             t == [u EXCEPT !.armed = TRUE]
  <2>2. dev'[x] = t
    BY <1>2, <2>1
  <2> HIDE DEF q
  <2>3. /\ s.table = [i \in Id |-> IF i \in stale THEN NoUid ELSE q.table[i]]
        /\ s = [q EXCEPT !.table = s.table]
    BY <1>1 DEF RemoveDevices, DeviceState
  <2> HIDE DEF s
  <2>4. /\ u.table = s.table /\ u.queue = q.queue /\ u.status = q.status
        /\ u.id = q.id /\ u.sleeping = q.sleeping
        /\ u.lowest = \A i \in Known(s) : s.id <= i
        /\ s.id = q.id /\ DOMAIN u = DOMAIN q
    BY <1>1, <2>3 DEF UpdateNetworkDevices, DeviceState
  <2> HIDE DEF u
  <2>5. {"armed", "table", "queue", "status", "id", "sleeping", "lowest"} \subseteq DOMAIN u
    BY <1>1, <2>4 DEF DeviceState
  <2>6. /\ t.table = s.table /\ t.queue = q.queue /\ t.status = q.status
        /\ t.id = q.id /\ t.sleeping = q.sleeping /\ t.armed = TRUE
        /\ t.lowest = \A i \in Known(s) : s.id <= i
    BY <2>4, <2>5
  <2> HIDE DEF t
  <2>7. Known(t) = Known(q) \ stale /\ Known(t) = Known(s)
    BY <1>1, <2>3, <2>6 DEF Known
  <2>8. Exact(t)
    BY <2>4, <2>6, <2>7 DEF Exact
  <2>9. \A i \in stale : ~Alive(i)
    BY <1>2, <2>1 DEF Forget
  <2>10. Jobs(t) = Jobs(q) /\ ~Claiming(t)
    BY <1>1, <2>6 DEF Jobs, Claiming, Idle
  <2>11. \A i \in Known(dev[x]) : i \in Known(t) \/ ~Alive(i)
    BY <1>1, <2>7, <2>9 DEF Known
  <2>12. /\ Holds(t, "SendIdClaim") => Holds(dev[x], "SendIdClaim")
         /\ Holds(t, "ID_CLAIM") => Holds(dev[x], "ID_CLAIM")
    BY <1>1, <2>10 DEF Holds
  <2>13. \A f \in Jobs(dev[x]) : f.type = "ID_CLAIM" => f \in Jobs(t)
    BY <1>1, <1>2, <2>10
  <2>14. QED
    BY <1>1, <2>2, <2>6, <2>8, <2>10, <2>11, <2>12, <2>13, PlainLearns
<1>5. QED
  BY <1>3, <1>4

LEMMA HoldsLemma ==
  ASSUME NEW r, NEW types, Queued(r, types) = {}, NEW type \in types
  PROVE  ~Holds(r, type)
BY DEF Holds, Jobs, Queued

\* A step of a device that has no ID and makes no claim.
LEMMA JoinLearns ==
  ASSUME KnowInv, NEW x \in Device, NEW s, dev'[x] = s,
         dev[x].status # "ONLINE", s.status # "ONLINE", s.id = dev[x].id,
         ~s.validating, ~Claiming(s),
         Holds(s, "SendIdClaim") => s.status = "CLAIMING",
         Holds(s, "ID_CLAIM") => Holds(dev[x], "ID_CLAIM")
  PROVE  Learns(x)
<1>1. SoundInv(s)
  BY DEF KnowInv, SoundInv
<1>2. QED
  BY <1>1 DEF Learns

LEMMA StartDiscoveryLearns ==
  ASSUME InductiveInv, MeetInv, KnowInv, NEW x \in Device, StartDiscovery(x)
  PROVE  Learns(x)
<1> DEFINE r == [dev[x] EXCEPT !.thread = "running"]
           s == [r EXCEPT !.status = "INIT"]
           job == [type |-> "StartInitialization"]
           t == Enqueue(s, job)
<1>1. /\ DeviceInv(dev[x]) /\ dev[x] \in DeviceState /\ dev[x].status = "OFFLINE"
      /\ dev[x].sleeping = Idle /\ Queued(dev[x], JoinTask) = {} /\ ~dev[x].validating
  BY DeviceByDevice DEF StartDiscovery, DeviceInv, JoinInv, ValidationInv, MeetInv, AloneInv
<1>2. /\ s \in DeviceState /\ s.status = "INIT" /\ s.id = dev[x].id
      /\ s.validating = dev[x].validating
      /\ s.queue = dev[x].queue /\ s.sleeping = Idle /\ r.status = dev[x].status
  BY <1>1 DEF DeviceState, Status
<1>3. dev'[x] = t
  <2>1. Become(x, t)
    BY <1>1, <1>2 DEF StartDiscovery, SetStatus, IsValidTransition, OnDeviceStatusChanged
  <2>2. QED
    BY <2>1, DeviceByDevice DEF Become
<1>4. job \in Job /\ job.type = "StartInitialization"
  BY DEF Job, Task
<1> HIDE DEF s, job
<1>5. /\ t.status = "INIT" /\ t.sleeping = Idle /\ t.id = dev[x].id
      /\ t.validating = dev[x].validating
  BY <1>2 DEF Enqueue, DeviceState
<1>6. Jobs(t) = Jobs(dev[x]) \cup {job}
  BY <1>2, <1>4, EnqueueKeeps DEF Jobs
<1> HIDE DEF t
<1>7. ~Holds(dev[x], "SendIdClaim")
  BY <1>1, HoldsLemma DEF JoinTask
<1>8. /\ ~Holds(t, "SendIdClaim") /\ (Holds(t, "ID_CLAIM") => Holds(dev[x], "ID_CLAIM"))
      /\ ~Claiming(t)
  BY <1>4, <1>5, <1>6, <1>7 DEF Holds, Claiming, Idle
<1>9. QED
  BY <1>1, <1>3, <1>5, <1>8, JoinLearns

LEMMA StartInitializationLearns ==
  ASSUME InductiveInv, MeetInv, KnowInv, NEW x \in Device, StartInitialization(x)
  PROVE  Learns(x)
<1> DEFINE q == Dequeue(dev[x])
           r == [q EXCEPT !.answered = FALSE]
           s == [r EXCEPT !.requesting = <<>>, !.sleeping = "StartInitialization",
                          !.index = 0, !.resets = 0]
           t == IF r.status = "INIT" THEN s ELSE r
<1>0. Ready(x, "StartInitialization")
  BY DEF StartInitialization
<1>1. /\ Queued(q, JoinTask) = {} /\ dev[x].status # "ONLINE"
  BY <1>0, JoinsLemma DEF JoinTask
<1>2. /\ q \in DeviceState /\ q.status = dev[x].status /\ q.id = dev[x].id
      /\ q.validating = dev[x].validating /\ q.sleeping = Idle
      /\ Jobs(q) \subseteq Jobs(dev[x])
  BY <1>0, TakenRest
<1>3. dev \in [Device -> DeviceState] /\ ~dev[x].validating
  BY <1>1, DeviceByDevice DEF DeviceInv, ValidationInv
<1>4. dev'[x] = t
  <2>1. CASE r.status = "INIT"
    BY <2>1 DEF StartInitialization, Discover, Send
  <2>2. CASE r.status # "INIT"
    <3>1. dev' = [dev EXCEPT ![x] = r]
      BY <2>2 DEF StartInitialization, Become
    <3>2. QED
      BY <1>3, <2>2, <3>1
  <2>3. QED
    BY <2>1, <2>2
<1> HIDE DEF q
<1>5. /\ t.status = q.status /\ t.id = q.id /\ t.validating = q.validating
      /\ t.sleeping \in {Idle, "StartInitialization"} /\ t.queue = q.queue
  BY <1>2 DEF DeviceState
<1> HIDE DEF t
<1>6. Jobs(t) = Jobs(q) /\ Queued(t, JoinTask) = Queued(q, JoinTask) /\ ~Claiming(t)
  BY <1>5 DEF Jobs, Queued, Claiming, Idle
<1>7. ~Holds(t, "SendIdClaim") /\ (Holds(t, "ID_CLAIM") => Holds(dev[x], "ID_CLAIM"))
  <2>1. ~Holds(t, "SendIdClaim")
    BY <1>1, <1>6, HoldsLemma DEF JoinTask
  <2>2. QED
    BY <1>2, <1>6, <2>1 DEF Holds
<1>8. QED
  BY <1>1, <1>2, <1>3, <1>4, <1>5, <1>6, <1>7, JoinLearns

LEMMA WakeInitializationLearns ==
  ASSUME InductiveInv, MeetInv, KnowInv, NEW x \in Device, WakeInitialization(x)
  PROVE  Learns(x)
<1> DEFINE r == [dev[x] EXCEPT !.sleeping = Idle]
           s == [r EXCEPT !.status = "CLAIMING"]
           job == [type |-> "SendIdClaim"]
           t == Enqueue(s, job)
<1>1. /\ dev \in [Device -> DeviceState] /\ dev[x] \in DeviceState
      /\ dev[x].status = "INIT" /\ Queued(dev[x], JoinTask) = {}
      /\ ~dev[x].validating
  BY DeviceByDevice DEF WakeInitialization, DeviceInv, SleepInv, JoinInv, JoinTask,
                        ValidationInv
<1>2. ~Holds(dev[x], "SendIdClaim")
  BY <1>1, HoldsLemma DEF JoinTask
<1>3. /\ r \in DeviceState /\ r.status = "INIT" /\ r.id = dev[x].id
      /\ r.validating = dev[x].validating /\ r.sleeping = Idle
      /\ r.queue = dev[x].queue
  BY <1>1 DEF DeviceState
<1>4. \/ Become(x, SetStatus(r, "CLAIMING"))
      \/ \E index, resets : Discover(x, r, index, resets)
      \/ Become(x, r)
  BY DEF WakeInitialization
<1> HIDE DEF r
<1>5. CASE Become(x, SetStatus(r, "CLAIMING"))
  <2>1. /\ s \in DeviceState /\ s.status = "CLAIMING" /\ s.id = r.id
        /\ s.validating = r.validating /\ s.sleeping = r.sleeping /\ s.queue = r.queue
    BY <1>3 DEF DeviceState, Status
  <2>2. SetStatus(r, "CLAIMING") = t
    BY <1>3, <2>1 DEF SetStatus, IsValidTransition, OnDeviceStatusChanged
  <2>3. dev'[x] = t
    BY <1>1, <1>5, <2>2 DEF Become
  <2>4. job \in Job /\ job.type = "SendIdClaim"
    BY DEF Job, Task
  <2> HIDE DEF s, job
  <2>5. /\ t.status = "CLAIMING" /\ t.sleeping = Idle /\ t.id = dev[x].id
        /\ t.validating = dev[x].validating
    BY <1>3, <2>1 DEF Enqueue, DeviceState
  <2>6. Jobs(t) = Jobs(s) \cup {job} /\ Jobs(s) = Jobs(dev[x])
    BY <1>3, <2>1, <2>4, EnqueueKeeps DEF Jobs
  <2> HIDE DEF t
  <2>7. (Holds(t, "ID_CLAIM") => Holds(dev[x], "ID_CLAIM")) /\ ~Claiming(t)
    BY <2>4, <2>5, <2>6 DEF Holds, Claiming, Idle
  <2>8. QED
    BY <1>1, <2>3, <2>5, <2>7, JoinLearns
<1>6. ASSUME NEW index, NEW resets, Discover(x, r, index, resets)
      PROVE  Learns(x)
  <2> DEFINE u == [r EXCEPT !.requesting = <<>>, !.sleeping = "StartInitialization",
                            !.index = index, !.resets = resets]
  <2>1. dev'[x] = u
    BY <1>6 DEF Discover, Send
  <2>2. /\ u.status = r.status /\ u.id = r.id /\ u.validating = r.validating
        /\ u.sleeping = "StartInitialization" /\ u.queue = r.queue
    BY <1>3 DEF DeviceState
  <2> HIDE DEF u
  <2>3. Jobs(u) = Jobs(dev[x]) /\ ~Claiming(u)
    BY <1>3, <2>2 DEF Jobs, Claiming
  <2>4. ~Holds(u, "SendIdClaim") /\ (Holds(u, "ID_CLAIM") => Holds(dev[x], "ID_CLAIM"))
    BY <1>2, <2>3 DEF Holds
  <2>5. QED
    BY <1>1, <1>3, <2>1, <2>2, <2>3, <2>4, JoinLearns
<1>7. CASE Become(x, r)
  <2>1. dev'[x] = r
    BY <1>1, <1>7 DEF Become
  <2>2. Jobs(r) = Jobs(dev[x]) /\ ~Claiming(r)
    BY <1>3 DEF Jobs, Claiming, Idle
  <2>3. ~Holds(r, "SendIdClaim") /\ (Holds(r, "ID_CLAIM") => Holds(dev[x], "ID_CLAIM"))
    BY <1>2, <2>2 DEF Holds
  <2>4. QED
    BY <1>1, <1>3, <2>1, <2>2, <2>3, JoinLearns
<1>8. QED
  BY <1>4, <1>5, <1>6, <1>7

\* A claim that everybody hears, for an ID below which all are known.
LEMMA ClaimLearns ==
  ASSUME InductiveInv, KnowInv, losses' = 0, NEW x \in Device,
         dev[x].status = "CLAIMING",
         NEW r \in DeviceState, r.status = "CLAIMING", r.id = dev[x].id,
         r.claiming \in Id, ~r.validating,
         Jobs(r) \subseteq Jobs(dev[x]), Queued(r, JoinTask) = {},
         \A j \in Id : j < r.claiming => j \in Known(r),
         NEW attempt, Claim(x, r, attempt)
  PROVE  Learns(x)
<1> DEFINE s == [r EXCEPT !.sleeping = "SendIdClaim", !.index = attempt]
           frame == IdClaim(x, r.claiming)
<1>1. dev \in [Device -> DeviceState] /\ losses \in Nat
  BY DeviceByDevice
<1>2. Send(x, s, frame)
  BY DEF Claim
<1>3. frame \in Job
  BY FrameLemma DEF ClaimResult, IdClaim, Job
<1>4. /\ s.status = "CLAIMING" /\ s.id = r.id /\ s.claiming = r.claiming
      /\ s.validating = r.validating /\ s.table = r.table /\ s.queue = r.queue
  BY DEF DeviceState
<1>5. ~Holds(r, "SendIdClaim")
  BY HoldsLemma DEF JoinTask
<1> HIDE DEF s
<1>6. dev'[x] = s
  BY <1>2 DEF Send
<1>7. Jobs(s) = Jobs(r) /\ Known(s) = Known(r)
  BY <1>4 DEF Jobs, Known
<1>8. SoundInv(s)
  <2>1. s.id = Unassigned
    BY <1>4 DEF KnowInv, SoundInv
  <2>2. QED
    BY <1>4, <1>7, <2>1 DEF SoundInv
<1>9. ASSUME NEW e \in Device \ {x}, dev[e].listening
      PROVE  IdClaim(x, s.claiming) \in Jobs(dev'[e])
  <2>1. PICK missed \in SUBSET Listeners(x) :
          /\ losses' = IF missed = {} THEN losses ELSE losses + 1
          /\ dev' = [g \in Device |->
                       IF g = x THEN s
                       ELSE IF g \in Listeners(x) \ missed THEN Enqueue(dev[g], frame)
                       ELSE dev[g]]
    BY <1>2 DEF Send
  <2>2. missed = {}
    BY <1>1, <2>1
  <2>3. e \in Listeners(x)
    BY <1>9 DEF Listeners
  <2>4. dev'[e] = Enqueue(dev[e], frame)
    BY <2>1, <2>2, <2>3
  <2>5. frame \in Jobs(dev'[e])
    BY <1>1, <1>3, <2>4, EnqueueKeeps
  <2>6. QED
    BY <1>4, <2>5
<1>10. Holds(s, "ID_CLAIM") => Holds(dev[x], "ID_CLAIM")
  BY <1>7 DEF Holds
<1>11. dev[x].status # "ONLINE" /\ s.status # "ONLINE"
  BY <1>4
<1>12. QED
  BY <1>6, <1>8, <1>9, <1>10, <1>11 DEF Learns

\* The first free ID is claimed, or there is none and the device goes into ERROR.
LEMMA SendIdClaimLearns ==
  ASSUME InductiveInv, MeetInv, KnowInv, losses' = 0, NEW x \in Device, SendIdClaim(x)
  PROVE  Learns(x)
<1> DEFINE q == Dequeue(dev[x])
<1>0. Ready(x, "SendIdClaim")
  BY DEF SendIdClaim
<1>1. /\ dev[x].queue # <<>> /\ Head(dev[x].queue).type = "SendIdClaim"
      /\ dev[x].claiming = Unassigned
  BY <1>0, RunsLemma
<1>2. /\ Joining(dev[x]) /\ Queued(q, JoinTask) = {}
  BY <1>0, JoinsLemma DEF JoinTask
<1>3. /\ q \in DeviceState /\ q.status = dev[x].status /\ q.id = dev[x].id
      /\ q.table = dev[x].table /\ q.validating = dev[x].validating
      /\ q.sleeping = Idle /\ q.claiming = dev[x].claiming
      /\ Jobs(q) \subseteq Jobs(dev[x])
  BY <1>0, TakenRest
<1>4. DeviceInv(q)
  BY <1>0, ReadyLemma
<1>5. dev[x].status = "CLAIMING" /\ ~dev[x].validating /\ dev \in [Device -> DeviceState]
  <2>1. Head(dev[x].queue) \in Jobs(dev[x])
    BY <1>0, RunsLemma, TakenLemma
  <2>2. Holds(dev[x], "SendIdClaim")
    BY <1>1, <2>1 DEF Holds
  <2>3. dev[x].status = "CLAIMING"
    BY <2>2 DEF KnowInv, SoundInv
  <2>4. QED
    BY <2>3, DeviceByDevice DEF DeviceInv, ValidationInv
<1>6. CASE AvailableId(q) = {}
  <2> DEFINE s == [q EXCEPT !.status = "ERROR"]
             u == Stop(s)
             t == [u EXCEPT !.claiming = Unassigned]
  <2>1. /\ s \in DeviceState /\ s.status = "ERROR" /\ s.queue = q.queue
        /\ s.sleeping = q.sleeping /\ s.id = q.id
    BY <1>3 DEF DeviceState, Status
  <2>2. SetStatus(q, "ERROR") = u
    BY <1>3, <1>5, <2>1 DEF SetStatus, IsValidTransition, OnDeviceStatusChanged
  <2>3. dev'[x] = t
    BY <1>5, <1>6, <2>2 DEF SendIdClaim, Become
  <2>4. \A j, k \in Queued(q, {"PeriodicValidation"}) : j = k
    BY <1>4 DEF DeviceInv, ValidationInv
  <2> HIDE DEF s, q
  <2>5. \A T : Queued(s, T) = Queued(q, T)
    BY <2>1 DEF Queued
  <2>6. u \in DeviceState /\ \A T : Queued(s, T) = {} => Queued(u, T) = {}
    BY <2>1, <2>4, <2>5, StopLemma
  <2>7. /\ u.status = s.status /\ u.id = s.id /\ u.sleeping = s.sleeping
        /\ ~u.validating
    BY <2>1 DEF Stop, DeviceState
  <2> HIDE DEF u
  <2>8. /\ t.status = u.status /\ t.id = u.id /\ t.sleeping = u.sleeping
        /\ t.validating = u.validating /\ t.queue = u.queue
    BY <2>6 DEF DeviceState
  <2> HIDE DEF t
  <2>9. \A T : Queued(t, T) = Queued(u, T)
    BY <2>8 DEF Queued
  <2>10. ~Holds(t, "SendIdClaim")
    BY <1>2, <2>5, <2>6, <2>9, HoldsLemma DEF JoinTask
  <2>11. ~Holds(t, "ID_CLAIM")
    <3>1. ~Holds(q, "ID_CLAIM")
      BY <1>2, <1>3 DEF KnowInv, HearsayInv, Holds
    <3>2. Queued(q, {"ID_CLAIM"}) = {}
      BY <3>1 DEF Holds, Jobs, Queued
    <3>3. QED
      BY <2>5, <2>6, <2>9, <3>2, HoldsLemma
  <2>12. ~Claiming(t)
    BY <1>3, <2>1, <2>7, <2>8 DEF Claiming, Idle
  <2>13. t.status = "ERROR" /\ t.id = dev[x].id /\ ~t.validating
    BY <1>3, <2>1, <2>7, <2>8
  <2>14. QED
    BY <1>5, <2>3, <2>10, <2>11, <2>12, <2>13, JoinLearns
<1>7. CASE AvailableId(q) # {}
  <2>1. PICK id \in AvailableId(q) : /\ \A i \in AvailableId(q) : id <= i
                                     /\ Claim(x, [q EXCEPT !.claiming = id], 0)
    BY <1>7 DEF SendIdClaim
  <2> DEFINE r == [q EXCEPT !.claiming = id]
  <2>2. id \in Id
    BY <2>1 DEF AvailableId
  <2>3. ASSUME NEW j \in Id, j < id
        PROVE  j \in Known(q)
    <3>1. j > q.claiming
      BY <1>1, <1>3, SizeAssumption DEF Id, Unassigned
    <3>2. j \notin AvailableId(q)
      BY <2>1, <2>2, <2>3, SizeAssumption DEF Id
    <3>3. QED
      BY <3>1, <3>2 DEF AvailableId
  <2> HIDE DEF q
  <2>4. /\ r \in DeviceState /\ r.status = q.status /\ r.id = q.id
        /\ r.validating = q.validating /\ r.table = q.table /\ r.queue = q.queue
        /\ r.claiming = id
    BY <1>3, <2>2 DEF DeviceState
  <2>5. Claim(x, r, 0)
    BY <2>1
  <2> HIDE DEF r
  <2>6. /\ Jobs(r) = Jobs(q) /\ Queued(r, JoinTask) = Queued(q, JoinTask)
        /\ Known(r) = Known(q)
    BY <2>4 DEF Jobs, Queued, Known
  <2>7. QED
    BY <1>2, <1>3, <1>5, <2>2, <2>3, <2>4, <2>5, <2>6, ClaimLearns
<1>8. QED
  BY <1>6, <1>7

\* The claim is repeated, or it is over and nobody else has anything to do.
LEMMA WakeIdClaimLearns ==
  ASSUME Timely, InductiveInv, MeetInv, KnowInv, losses' = 0,
         NEW x \in Device, WakeIdClaim(x)
  PROVE  Learns(x)
<1> DEFINE r == [dev[x] EXCEPT !.sleeping = Idle]
<1>1. /\ DeviceInv(dev[x]) /\ dev[x] \in DeviceState /\ dev \in [Device -> DeviceState]
      /\ dev[x].sleeping = "SendIdClaim" /\ SleepOver(x)
      /\ dev[x].result = NoResult /\ dev[x].claiming \in Id
      /\ Queued(dev[x], JoinTask) = {}
  BY DeviceByDevice DEF WakeIdClaim, DeviceInv, SleepInv, JoinInv, JoinTask, Idle,
                        DeviceState
<1>2. /\ Claiming(dev[x]) /\ Joining(dev[x]) /\ dev[x].status = "CLAIMING"
      /\ ~dev[x].validating
      /\ \A j \in Id : j < dev[x].claiming => j \in Known(dev[x])
  <2>1. Claiming(dev[x]) /\ Joining(dev[x])
    BY <1>1 DEF Claiming, Joining, JoinTask
  <2>2. /\ dev[x].status = "CLAIMING"
        /\ \A j \in Id : j < dev[x].claiming => j \in Known(dev[x])
    BY <2>1 DEF KnowInv, SoundInv
  <2>3. QED
    BY <1>1, <2>1, <2>2 DEF DeviceInv, ValidationInv
<1>3. /\ r \in DeviceState /\ r.claiming = dev[x].claiming /\ r.id = dev[x].id
      /\ r.table = dev[x].table /\ r.queue = dev[x].queue /\ r.sleeping = Idle
      /\ r.result = NoResult /\ r.status = dev[x].status
      /\ r.validating = dev[x].validating
  BY <1>1 DEF DeviceState
<1>4. r.result \notin ClaimResult
  BY <1>3 DEF NoResult, ClaimResult
<1>5. \/ Claim(x, r, r.index + 1)
      \/ Become(x, [GoOnline(r) EXCEPT !.claiming = Unassigned])
  BY <1>4 DEF WakeIdClaim, ClaimDecided, ClaimResult
<1>6. ~Holds(dev[x], "SendIdClaim")
  BY <1>1, HoldsLemma DEF JoinTask
<1>7. CASE Claim(x, r, r.index + 1)
  <2> HIDE DEF r
  <2>1. /\ Jobs(r) = Jobs(dev[x]) /\ Queued(r, JoinTask) = Queued(dev[x], JoinTask)
        /\ Known(r) = Known(dev[x])
    BY <1>3 DEF Jobs, Queued, Known
  <2>2. QED
    BY <1>1, <1>2, <1>3, <1>7, <2>1, ClaimLearns
<1>8. CASE Become(x, [GoOnline(r) EXCEPT !.claiming = Unassigned])
  <2> DEFINE s == [r EXCEPT !.id = r.claiming]
             u == [s EXCEPT !.status = "ONLINE"]
             v == [u EXCEPT !.validating = TRUE]
             job == [type |-> "PeriodicValidation"]
             w == Enqueue(v, job)
             t == [w EXCEPT !.claiming = Unassigned]
  <2>1. /\ s \in DeviceState /\ s.queue = r.queue /\ s.sleeping = r.sleeping
        /\ s.status = r.status /\ s.validating = r.validating
    BY <1>1, <1>3 DEF DeviceState
  <2>2. /\ u \in DeviceState /\ u.queue = s.queue /\ u.sleeping = s.sleeping
        /\ u.status = "ONLINE" /\ u.validating = s.validating
    BY <2>1 DEF DeviceState, Status
  <2>3. /\ v \in DeviceState /\ v.queue = u.queue /\ v.sleeping = u.sleeping
        /\ v.status = u.status
    BY <2>2 DEF DeviceState
  <2>4. GoOnline(r) = w
    <3>1. SetStatus(s, "ONLINE") = StartValidationTask(u)
      BY <1>2, <1>3, <2>1, <2>2 DEF SetStatus, IsValidTransition, OnDeviceStatusChanged
    <3>2. StartValidationTask(u) = w
      BY <1>2, <1>3, <2>1, <2>2 DEF StartValidationTask
    <3>3. QED
      BY <3>1, <3>2 DEF GoOnline
  <2>5. dev'[x] = t
    BY <1>1, <1>8, <2>4 DEF Become
  <2>6. job \in Job /\ job.type = "PeriodicValidation"
    BY DEF Job, Task
  <2> HIDE DEF r, s, u, v, job
  <2>7. /\ w \in DeviceState /\ w.sleeping = v.sleeping /\ w.status = v.status
    BY <2>3, <2>6, EnqueueLemma DEF Enqueue, DeviceState
  <2>8. Jobs(w) = Jobs(v) \cup {job} /\ Jobs(v) = Jobs(dev[x])
    <3>1. Jobs(w) = Jobs(v) \cup {job}
      BY <2>3, <2>6, EnqueueKeeps
    <3>2. Jobs(v) = Jobs(dev[x])
      BY <1>3, <2>1, <2>2, <2>3 DEF Jobs
    <3>3. QED
      BY <3>1, <3>2
  <2> HIDE DEF w
  <2>9. t.queue = w.queue /\ t.sleeping = w.sleeping /\ t.status = w.status
    BY <2>7 DEF DeviceState
  <2> HIDE DEF t
  <2>10. Jobs(t) = Jobs(dev[x]) \cup {job}
    BY <2>8, <2>9 DEF Jobs
  <2>11. t.status = "ONLINE" /\ ~Claiming(t)
    BY <1>3, <2>1, <2>2, <2>3, <2>7, <2>9 DEF Claiming, Idle
  <2>12. /\ Holds(t, "PeriodicValidation") /\ ~Holds(t, "SendIdClaim")
         /\ Holds(t, "ID_CLAIM") => Holds(dev[x], "ID_CLAIM")
    BY <1>6, <2>6, <2>10 DEF Holds
  <2>13. ASSUME NEW e \in Device \ {x}
         PROVE  dev[e].queue = <<>>
    <3>1. ~Joining(dev[e])
      BY <1>2 DEF MeetInv
    <3>2. QED
      BY <1>1, <3>1 DEF SleepOver, Joining, JoinTask
  <2>14. SoundInv(t)
    BY <2>11, <2>12 DEF SoundInv
  <2>15. dev[x].status # "ONLINE"
    BY <1>2
  <2>16. QED
    BY <2>5, <2>11, <2>12, <2>13, <2>14, <2>15 DEF Learns
<1>9. QED
  BY <1>5, <1>7, <1>8
-----------------------------------------------------------------------------
(***************************************************************************)
(* The invariant, and what it shows of a network at rest.                  *)
(***************************************************************************)
LEMMA InitKnowing == Init => KnowingInv
<1> SUFFICES ASSUME Init PROVE KnowInv
  BY DEF KnowingInv
<1>1. \A d \in Device : dev[d] = PoweredOff
  BY DEF Init
<1>2. /\ PoweredOff.status # "ONLINE" /\ PoweredOff.queue = <<>>
      /\ PoweredOff.id = Unassigned /\ PoweredOff.sleeping = Idle
      /\ PoweredOff.table = [i \in Id |-> NoUid] /\ ~PoweredOff.validating
  BY DEF PoweredOff
<1>3. ASSUME NEW d \in Device
      PROVE  SoundInv(dev[d]) /\ HearsayInv(d, dev[d]) /\ Pairs(dev[d]) = {} /\ ~Online(d)
  BY <1>1, <1>2, BlankKnows DEF Online
<1>4. QED
  BY <1>3 DEF KnowInv, ToldInv

\* The steps of a device that keeps its power.
LEMMA BackgroundLearns ==
  ASSUME Timely, InductiveInv, MeetInv, KnowInv, losses' = 0,
         NEW d \in Device, Background(d), ~PowerOff(d)
  PROVE  Learns(d) /\ cycles' = cycles
<1>1. Learns(d)
  BY StartDiscoveryLearns, ValidationDueLearns,
     StartInitializationLearns, WakeInitializationLearns,
     ProcessDiscoveryRequestFrameLearns, ProcessDiscoveryResponseFrameLearns,
     SendDiscoveryResponseLearns, WakeDiscoveryResponseLearns, SendIdClaimLearns,
     WakeIdClaimLearns, ProcessIdClaimRequestFrameLearns,
     ProcessIdClaimResponseFrameLearns, ProcessPeriodicValidationLearns
     DEF Background, WorkQueueStep
<1>2. cycles' = cycles
  BY Zenon
     DEF Background, WorkQueueStep, StartDiscovery, ValidationDue,
         StartInitialization, WakeInitialization, ProcessDiscoveryRequestFrame,
         ProcessDiscoveryResponseFrame, SendDiscoveryResponse,
         WakeDiscoveryResponse, SendIdClaim, WakeIdClaim,
         ProcessIdClaimRequestFrame, ProcessIdClaimResponseFrame,
         ProcessPeriodicValidation, Discover, Claim, Become, Send
<1>3. QED
  BY <1>1, <1>2

LEMMA StepKnowing ==
  ASSUME Timely, Alike, InductiveInv, InductiveInv', JoiningInv, TruthInv, KnowingInv,
         [\E d \in Device : (Settled /\ PowerOn(d)) \/ Background(d)]_vars
  PROVE  KnowingInv'
<1> SUFFICES ASSUME losses' = 0 PROVE KnowInv'
  BY DEF KnowingInv
<1>1. [Next]_vars
  BY DEF Next
<1>2. losses = 0 /\ losses < Backoffs
  BY <1>1, LossesGrow, SizeAssumption
<1>3. MeetInv /\ KnowInv
  BY <1>2 DEF JoiningInv, KnowingInv
<1>4. CASE UNCHANGED vars
  <2>1. dev' = dev /\ cycles' = cycles
    BY <1>4 DEF vars
  <2>2. QED
    BY <1>3, <2>1 DEF KnowInv, FlagInv, HeedInv, LowerInv, ToldInv, Owned, Online
<1>5. ASSUME NEW d \in Device, Background(d)
      PROVE  KnowInv'
  <2>1. CASE PowerOff(d)
    BY <1>3, <2>1, PowerOffKnows
  <2>2. CASE ~PowerOff(d)
    <3>1. Learns(d) /\ cycles' = cycles
      BY <1>3, <1>5, <2>2, BackgroundLearns
    <3>2. Steps(d)
      BY <1>2, <1>3, <1>5, BackgroundSteps
    <3>3. QED
      BY <1>3, <3>1, <3>2, LearnsKnow
  <2>3. QED
    BY <2>1, <2>2
<1>6. ASSUME NEW d \in Device, Settled, PowerOn(d)
      PROVE  KnowInv'
  BY <1>3, <1>6, PowerOnKnows
<1>7. QED
  BY <1>4, <1>5, <1>6

LEMMA TruthInvariance == OneByOneSpec => []TruthInv
<1>1. [\E d \in Device : (Settled /\ PowerOn(d)) \/ Background(d)]_vars => [Next]_vars
  BY DEF Next
<1>2. QED
  BY <1>1, InitTruth, StepTruth, OneByOneInvariance, PTL DEF OneByOneSpec

LEMMA KnowingInvariance == Timely /\ Alike => (OneByOneSpec => []KnowingInv)
<1> SUFFICES ASSUME Timely, Alike PROVE OneByOneSpec => []KnowingInv
  OBVIOUS
<1>1. InductiveInv /\ InductiveInv' /\ JoiningInv /\ TruthInv /\ KnowingInv
        /\ [\E d \in Device : (Settled /\ PowerOn(d)) \/ Background(d)]_vars
        => KnowingInv'
  BY StepKnowing
<1>2. OneByOneSpec => []JoiningInv
  BY JoiningInvariance
<1>3. QED
  BY <1>1, <1>2, InitKnowing, TruthInvariance, OneByOneInvariance, PTL DEF OneByOneSpec

\* What holds of the online devices when the network is at rest.
LEMMA AtRest ==
  ASSUME InductiveInv, MeetInv, KnowInv, Settled, NEW d \in Device, Online(d)
  PROVE  /\ Exact(dev[d]) /\ dev[d].id \in Id /\ LowerInv(d)
         /\ \A e \in Device \ {d} : Online(e) =>
              /\ dev[e].id \in Id /\ dev[e].id # dev[d].id
              /\ Heeds(dev[d], dev[e].id) => dev[e].id \in Known(dev[d])
<1>1. \A type : ~Holds(dev[d], type)
  BY DEF Settled, Holds, Jobs
<1>2. Exact(dev[d]) /\ LowerInv(d)
  BY <1>1 DEF KnowInv, FlagInv
<1>3. \A e \in Device : Online(e) => dev[e].id \in Id
  BY DeviceByDevice DEF Online, DeviceInv, SleepInv, DeviceState
<1>4. QED
  BY <1>2, <1>3 DEF KnowInv, HeedInv, MeetInv, Meets, Online

LEMMA LowestKnows ==
  ASSUME Alike, InductiveInv, MeetInv, KnowInv, TruthInv, Settled, cycles = 0,
         NEW d \in Device, NEW e \in Device, d # e, Online(d), Online(e), dev[d].lowest
  PROVE  Knows(d, e)
<1>1. /\ dev[d].id \in Id /\ dev[e].id \in Id
      /\ \A i \in Known(dev[d]) : dev[d].id <= i
  BY AtRest DEF Exact
<1>2. ASSUME NEW j \in Id, j < dev[d].id
      PROVE  FALSE
  <2>1. j \in Known(dev[d])
    BY <1>2, AtRest DEF LowerInv
  <2>2. QED
    BY <1>1, <1>2, <2>1, SizeAssumption DEF Id
<1>3. dev[e].id \in Known(dev[d])
  BY <1>2, AtRest DEF Heeds
<1> DEFINE p == <<dev[e].id, dev[d].table[dev[e].id]>>
<1>4. p \in Pairs(dev[d])
  BY <1>3 DEF Pairs
<1>5. PICK g \in Device : Takes(g, p)
  BY <1>4 DEF TruthInv, Truthful
<1>6. dev[g].claiming = Unassigned
  BY DeviceByDevice DEF Settled, DeviceInv, SleepInv, Idle
<1>7. p[1] = dev[g].id /\ Uid[g] = p[2]
  BY <1>1, <1>5, <1>6, SizeAssumption DEF Takes, Id, Unassigned
<1>8. g = e
  <2>1. Online(g)
    BY <1>1, <1>7, SizeAssumption DEF KnowInv, SoundInv, Online, Id, Unassigned
  <2>2. QED
    BY <1>7, <2>1, AtRest
<1>9. QED
  BY <1>7, <1>8 DEF Knows

LEMMA LowestIsOne ==
  ASSUME InductiveInv, MeetInv, KnowInv, Settled, cycles <= 1,
         NEW d \in Device, NEW e \in Device, Online(d), Online(e), dev[e].lowest,
         dev[d].id < dev[e].id
  PROVE  FALSE
<1>1. /\ d # e /\ dev[d].id \in Id /\ dev[e].id \in Id
      /\ \A i \in Known(dev[e]) : dev[e].id <= i
  BY AtRest, SizeAssumption DEF Exact, Id
<1>2. \A i \in Known(dev[e]) : i \in Nat
  BY SizeAssumption DEF Known, Id
<1>3. dev[d].id \in Nat /\ dev[e].id \in Nat /\ dev[d].id >= 1
  BY <1>1, SizeAssumption DEF Id
<1>4. CASE dev[e].id > 2
  <2>1. PICK j \in Known(dev[e]) : j < dev[e].id
    BY <1>4, AtRest DEF LowerInv
  <2>2. QED
    BY <1>1, <1>2, <1>3, <2>1
<1>5. CASE dev[e].id <= 2
  <2>1. dev[d].id = 1 /\ dev[e].id = 2
    BY <1>3, <1>5
  <2>2. Heeds(dev[e], dev[d].id)
    BY <2>1, SizeAssumption DEF Heeds, Id
  <2>3. dev[d].id \in Known(dev[e])
    BY <1>1, <2>2, AtRest
  <2>4. QED
    BY <1>1, <2>1, <2>3
<1>6. QED
  BY <1>3, <1>4, <1>5

\* What the devices know of each other is as KnowledgeInv says, however many are
\* switched on one after the other: with no send and no heartbeat lost, of two online
\* devices one knows the other; the one whose is_lowest_id_on_network_ is set knows
\* all, if none lost power; and it is the only one, if at most one did.  The devices
\* have different UIDs and speak one version of the protocol.
THEOREM KnowledgeHolds ==
  ASSUME Timely,
         \A d, e \in Device : Uid[d] = Uid[e] => d = e,
         \A d, e \in Device : Version[d] = Version[e]
  PROVE  OneByOneSpec => []KnowledgeInv
<1>1. Alike
  BY DEF Alike
<1>2. ASSUME InductiveInv, JoiningInv, TruthInv, KnowingInv
      PROVE  LowestKnowsAll /\ OneLowest
  <2> SUFFICES ASSUME losses = 0, Settled PROVE LowestKnowsAll /\ OneLowest
    BY DEF LowestKnowsAll, OneLowest
  <2>1. MeetInv /\ KnowInv
    BY <1>2, SizeAssumption DEF JoiningInv, KnowingInv
  <2>2. LowestKnowsAll
    BY <1>1, <1>2, <2>1, LowestKnows DEF LowestKnowsAll
  <2>3. OneLowest
    <3> SUFFICES ASSUME cycles <= 1, NEW d \in Device, NEW e \in Device, d # e,
                        Online(d), Online(e), dev[d].lowest, dev[e].lowest
                 PROVE  FALSE
      BY DEF OneLowest
    <3>1. dev[d].id \in Id /\ dev[e].id \in Id /\ dev[d].id # dev[e].id
      BY <1>2, <2>1, AtRest
    <3>2. dev[d].id < dev[e].id \/ dev[e].id < dev[d].id
      BY <3>1, SizeAssumption DEF Id
    <3>3. QED
      BY <1>2, <2>1, <3>2, LowestIsOne
  <2>4. QED
    BY <2>2, <2>3
<1>3. OneByOneSpec => []LaterKnowsEarlier
  BY LaterKnowsEarlierHolds
<1>4. OneByOneSpec => []JoiningInv
  BY JoiningInvariance
<1>5. OneByOneSpec => []KnowingInv
  BY <1>1, KnowingInvariance
<1>6. InductiveInv /\ JoiningInv /\ TruthInv /\ KnowingInv /\ LaterKnowsEarlier
        => KnowledgeInv
  BY <1>2 DEF KnowledgeInv
<1>7. QED
  BY <1>3, <1>4, <1>5, <1>6, OneByOneInvariance, TruthInvariance, PTL
=============================================================================
