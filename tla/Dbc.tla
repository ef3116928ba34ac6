--------------------------------- MODULE Dbc ---------------------------------
(***************************************************************************)
(* The DBC database of a CAN channel: Dbc loads the channel's file,        *)
(* CanbusService adds the messages and signals of the user's               *)
(* configuration, and sensor readers look signals up and take their values *)
(* out of frames.  Dbc and DbcMessage are indexes of pointers into the     *)
(* network's vectors, whose elements move when a vector grows: a pointer   *)
(* is the position it points to and the capacity the vector had, and it    *)
(* dangles as soon as the vector has another.                              *)
(***************************************************************************)
EXTENDS DbcWriter

CONSTANTS
  Setups,   \* [file, messages]: a DBC file, or None, and the user's messages
  Sensors,  \* [id, name]: the signals that sensors read
  Frames    \* [bits, size, beyond]: a frame, its bytes, the bits in memory behind it

VARIABLES
  phase,    \* "off", "configuring", "running"; or "refused", "down"
  setup,
  content,     \* what was read of the file: None, or a file
  net,      \* the network, or None
  room,     \* the capacity of the vector of messages and of each one's signals
  index,    \* messages_: of a frame ID, the message and its signals by name
  allIndexed,
  next,     \* the user's message and signal that ConfigureUserSignals is at
  readers,  \* the sensors that have a reader
  got       \* the last value read: its sensor, the frame and the bits
vars == <<phase, setup, content, net, room, index, allIndexed, next, readers, got>>

NoNetwork == [version |-> "", symbols |-> <<>>, timing |-> <<0, 0, 0>>, nodes |-> <<>>, tables |-> <<>>,
              messages |-> <<>>, variables |-> <<>>, definitions |-> <<>>, defaults |-> <<>>,
              attributes |-> <<>>, comment |-> ""]
Init ==
  /\ phase = "off" /\ setup \in Setups /\ content = None /\ net = None
  /\ room = [messages |-> 0, signals |-> <<>>] /\ index = <<>> /\ allIndexed = FALSE
  /\ next = <<1, 0>> /\ readers = {} /\ got = None
-----------------------------------------------------------------------------
\* Mutant: a vector moves only after it has overflowed.
GrownLate(capacity, n) == IF n <= capacity THEN capacity ELSE IF capacity = 0 THEN 1 ELSE 2 * capacity

\* The capacity of a vector of n elements that gets one more.
Grown(capacity, n) == IF n < capacity THEN capacity ELSE IF capacity = 0 THEN 1 ELSE 2 * capacity
Filled(reserved, n) == FoldLeft(LAMBDA c, i : Grown(c, i - 1), reserved, [i \in 1 .. n |-> i])

Messages == IF net = None THEN <<>> ELSE net[1].messages
MessageAt(at) == [room |-> room.messages, at |-> at]
SignalAt(of, at) == [of |-> of, room |-> room.signals[of], at |-> at]
PointsIn(p) == p.room = room.messages
SignalPointsIn(p) == p.room = room.signals[p.of]

\* GetDbcMessage: the first message of an ID, or 0.
FirstMessage(messages, id) ==
  LET those == {i \in DOMAIN messages : messages[i].id = id}
  IN IF those = {} THEN 0 ELSE CHOOSE i \in those : \A j \in those : i <= j
HasMessage(id) == id \in DOMAIN index \/ FirstMessage(Messages, id) # 0
SignalNames(message) == {message.signals[i].name : i \in DOMAIN message.signals}

\* DbcMessage's constructor: it throws if two signals have one name.
Unregistrable(message) == Cardinality(SignalNames(message)) < Len(message.signals)
\* UpdateSignalReferences, after the signals may have moved.
SignalReferences(names, messages, capacity, of) ==
  [name \in names |->
     LET at == CHOOSE i \in DOMAIN messages[of].signals :
                 /\ messages[of].signals[i].name = name
                 /\ \A j \in DOMAIN messages[of].signals : messages[of].signals[j].name = name => j <= i
     IN [of |-> of, room |-> capacity, at |-> at]]
\* UpdateMessageReferences, after the messages may have moved.
MessageReferences(entries, messages, capacity) ==
  [id \in DOMAIN entries |->
     [entries[id] EXCEPT !.message = [room |-> capacity, at |-> FirstMessage(messages, id)]]]
\* Mutant: the first message of an ID, also when it was indexed.
IndexedAlone(entries, messages, rooms, id) ==
  LET at == FirstMessage(messages, id)
  IN (id :> [message |-> [room |-> rooms.messages, at |-> at],
             signals |-> SignalReferences(SignalNames(messages[at]), messages, rooms.signals[at], at)])
       @@ entries

\* GetMessage of an ID that the index does not have.
Indexed(entries, messages, rooms, id) ==
  LET at == FirstMessage(messages, id)
      entry == [message |-> [room |-> rooms.messages, at |-> at],
                signals |-> SignalReferences(SignalNames(messages[at]), messages, rooms.signals[at], at)]
  IN MessageReferences((id :> entry) @@ entries, messages, rooms.messages)
-----------------------------------------------------------------------------
(***************************************************************************)
(* LoadDbcFile.  The stream ends where the file ends or where reading      *)
(* fails.  A file that does not parse refuses the whole configuration.     *)
(***************************************************************************)
LoadDbcFile(file) ==
  LET loaded == LoadDBC(file) IN
  /\ content' = Some(file) /\ net' = loaded /\ index' = <<>>
  /\ IF loaded = None THEN phase' = "refused" /\ UNCHANGED room
     ELSE /\ phase' = "configuring"
          /\ LET messages == loaded[1].messages
                 said == {e \in Range(file.elements) : e.k \in {"attribute", "values", "comment"}}
                 cached == {e.of[2] : e \in {x \in said : x.of[1] \in {"message", "signal"}}}
             IN room' = [messages |-> Filled(Cardinality(cached), Len(messages)),
                         signals |-> [i \in DOMAIN messages |-> Len(messages[i].signals)]]
Load ==
  /\ phase = "off"
  /\ IF setup.file = None THEN phase' = "configuring" /\ UNCHANGED <<content, net, room, index>>
     ELSE LET file == setup.file[1] IN
          \/ LoadDbcFile(file)
          \/ \E n \in 0 .. Len(file.elements) - 1, inside \in BOOLEAN :
               LoadDbcFile([file EXCEPT !.elements = SubSeq(@, 1, n), !.cut = inside])
  /\ UNCHANGED <<setup, allIndexed, next, readers, got>>

\* An exception nobody catches: the device is down.
Throws == phase' = "down" /\ UNCHANGED <<net, room, index>>

UserMessage == setup.messages[next[1]]
\* ConfigureUserSignals: the message is the file's, or a new one.
ConfigureMessage ==
  /\ phase = "configuring" /\ next[1] <= Len(setup.messages) /\ next[2] = 0
  /\ LET id == UserMessage.id
         network == IF net = None THEN NoNetwork ELSE net[1]
         messages == Messages
         added == Append(messages,
                         [id |-> id, name |-> UserMessage.name, size |-> UserMessage.size % 256,
                          transmitter |-> "", transmitters |-> <<>>, signals |-> <<>>,
                          attributes |-> <<>>, comment |-> "", groups |-> <<>>,
                          switch |-> 0, muxError |-> FALSE])
         grown == [messages |-> Grown(room.messages, Len(messages)),
                   signals |-> Append(room.signals, 0)]
     IN IF id \in DOMAIN index THEN UNCHANGED <<net, room, index, phase>>
        ELSE IF HasMessage(id)
          THEN IF Unregistrable(messages[FirstMessage(messages, id)]) THEN Throws
               ELSE index' = Indexed(index, messages, room, id) /\ UNCHANGED <<net, room, phase>>
          ELSE /\ net' = Some([network EXCEPT !.messages = added])
               /\ room' = grown
               /\ index' = Indexed(index, added, grown, id)
               /\ UNCHANGED phase
  /\ next' = [next EXCEPT ![2] = 1]
  /\ UNCHANGED <<setup, content, allIndexed, readers, got>>

UserSignal(message, s) ==
  LET layout == Layout(Last16(s.start), Last16(s.size), "little", TRUE, "integer")
  IN [name |-> s.name, multiplexer |-> [kind |-> "NoMux", value |-> 0], layout |-> layout,
      factor |-> s.factor, offset |-> s.offset, minimum |-> 0, maximum |-> 0, unit |-> s.unit,
      receivers |-> <<>>, attributes |-> <<>>, values |-> <<>>, comment |-> "", muxValues |-> <<>>,
      errors |-> Errors(layout, message.size)]
\* AddSignal: the signal joins the message before its name is looked at.
ConfigureSignal ==
  /\ phase = "configuring" /\ next[1] <= Len(setup.messages)
  /\ next[2] \in DOMAIN UserMessage.signals
  /\ LET entry == index[UserMessage.id]
         at == entry.message.at
         signal == UserSignal(Messages[at], UserMessage.signals[next[2]])
         signals == Append(Messages[at].signals, signal)
         message == [Messages[at] EXCEPT !.signals = signals, !.switch = Switch(signals),
                                         !.muxError = @ \/ MuxError(signals)]
         capacity == Grown(room.signals[at], Len(Messages[at].signals))
     IN /\ net' = Some([net[1] EXCEPT !.messages[at] = message])
        /\ room' = [room EXCEPT !.signals[at] = capacity]
        /\ IF signal.name \in DOMAIN entry.signals THEN phase' = "down" /\ UNCHANGED index
           ELSE /\ index' = [index EXCEPT ![UserMessage.id].signals =
                   SignalReferences(DOMAIN entry.signals \cup {signal.name}, net'[1].messages, capacity, at)]
                /\ UNCHANGED phase
  /\ next' = [next EXCEPT ![2] = @ + 1]
  /\ UNCHANGED <<setup, content, allIndexed, readers, got>>
MessageConfigured ==
  /\ phase = "configuring" /\ next[1] <= Len(setup.messages)
  /\ next[2] = Len(UserMessage.signals) + 1
  /\ next' = <<next[1] + 1, 0>>
  /\ UNCHANGED <<phase, setup, content, net, room, index, allIndexed, readers, got>>
Configured ==
  /\ phase = "configuring" /\ next[1] > Len(setup.messages)
  /\ phase' = "running"
  /\ UNCHANGED <<setup, content, net, room, index, allIndexed, next, readers, got>>
-----------------------------------------------------------------------------
\* Mutant: any name is a signal of a message that exists.
HasSignalAny(entry, name) == entry.message.at > 0

HasSignal(entry, name) == name \in DOMAIN entry.signals

\* IsrSensorReaderFactory::Create, for a sensor that reads a signal; whoever
\* looks for a message of a channel without a file makes an empty network.
MakeReader ==
  /\ phase = "running"
  /\ net' = IF net = None THEN Some(NoNetwork) ELSE net
  /\ \E sensor \in Sensors \ readers :
       IF ~HasMessage(sensor.id) THEN UNCHANGED <<phase, index, readers>>
       ELSE IF sensor.id \notin DOMAIN index
               /\ Unregistrable(Messages[FirstMessage(Messages, sensor.id)])
       THEN phase' = "down" /\ UNCHANGED <<index, readers>>
       ELSE /\ index' = IF sensor.id \in DOMAIN index THEN index
                        ELSE Indexed(index, Messages, room, sensor.id)
            /\ readers' = IF HasSignal(index'[sensor.id], sensor.name) THEN readers \cup {sensor} ELSE readers
            /\ UNCHANGED phase
  /\ UNCHANGED <<setup, content, room, allIndexed, next, got>>

\* CanbusSensorReader: the signal's value, out of the frame and whatever is
\* behind it in memory.
ReadFrame ==
  /\ phase = "running"
  /\ \E sensor \in readers, frame \in Frames :
       LET p == index[sensor.id].signals[sensor.name]
           signal == Messages[p.of].signals[p.at]
       IN got' = Some([sensor |-> sensor, frame |-> frame,
                       value |-> Decode(signal.layout, frame.bits \cup frame.beyond)])
  /\ UNCHANGED <<phase, setup, content, net, room, index, allIndexed, next, readers>>

\* GetAllMessages indexes every message, the first time.
GetAllMessages ==
  /\ phase = "running" /\ ~allIndexed
  /\ net' = IF net = None THEN Some(NoNetwork) ELSE net
  /\ LET ids == {Messages[i].id : i \in DOMAIN Messages}
     IN IF \E id \in ids \ DOMAIN index : Unregistrable(Messages[FirstMessage(Messages, id)])
        THEN phase' = "down" /\ UNCHANGED <<index, allIndexed>>
        ELSE /\ index' = FoldLeft(LAMBDA entries, id : Indexed(entries, Messages, room, id),
                                  index, SetToSeq(ids \ DOMAIN index))
             /\ allIndexed' = TRUE /\ UNCHANGED phase
  /\ UNCHANGED <<setup, content, room, next, readers, got>>

Next ==
  \/ Load \/ ConfigureMessage \/ ConfigureSignal \/ MessageConfigured \/ Configured
  \/ MakeReader \/ ReadFrame \/ GetAllMessages
Spec == Init /\ [][Next]_vars
-----------------------------------------------------------------------------
Working == phase \in {"configuring", "running"}

TypeOK ==
  /\ phase \in {"off", "configuring", "running", "refused", "down"}
  /\ readers \subseteq Sensors
  /\ content # None => \A e \in Range(content[1].elements) :
                         DOMAIN e = Statements[e.k] \cup {"k"} /\ Reads(e) \in BOOLEAN
  /\ Len(room.signals) = Len(Messages) /\ Len(Messages) <= room.messages
  /\ \A i \in DOMAIN Messages : Len(Messages[i].signals) <= room.signals[i]
  /\ got # None => got[1].value \subseteq Word

(***************************************************************************)
(* However the vectors grow, no pointer of an index dangles, and each      *)
(* points to what it is indexed by: the first message of the ID, and its   *)
(* signal of that name.                                                    *)
(***************************************************************************)
IndexPointsIn ==
  Working => \A id \in DOMAIN index :
    LET entry == index[id] IN
    /\ PointsIn(entry.message) /\ entry.message.at = FirstMessage(Messages, id)
    /\ \A name \in DOMAIN entry.signals :
         LET p == entry.signals[name] IN
         /\ p.of = entry.message.at /\ SignalPointsIn(p)
         /\ Messages[p.of].signals[p.at].name = name

\* The reader of a frame finds its signal: the work queue that runs it does
\* not end by an exception.
ReadersFind ==
  Working => \A sensor \in readers :
    sensor.id \in DOMAIN index /\ sensor.name \in DOMAIN index[sensor.id].signals

\* A signal of the file or of the user, by the message's ID: the file's first
\* message of that ID is the message, and the user adds signals to it.
FileMessage(id) ==
  IF content = None THEN None
  ELSE FirstOf(content[1].elements, LAMBDA e : e.k = "message" /\ e.id = id)
FileSignal(sensor) ==
  LET message == FileMessage(sensor.id)
  IN IF message = None THEN None
     ELSE FirstOf(message[1].signals, LAMBDA s : s.name = sensor.name)
UserSignalOf(sensor) ==
  LET messages == SelectSeq(setup.messages, LAMBDA m : m.id = sensor.id)
  IN FirstOf(FlattenSeq([i \in DOMAIN messages |-> messages[i].signals]),
             LAMBDA s : s.name = sensor.name)
MeantLayout(sensor) ==
  LET s == FileSignal(sensor) IN
  IF s = None
  THEN LET u == UserSignalOf(sensor)[1] IN Layout(u.start, u.size, "little", TRUE, "integer")
  ELSE LET said == {e \in Range(content[1].elements) :
                      e.k = "extended" /\ e.id = sensor.id /\ e.signal = sensor.name}
       IN Layout(s[1].start, s[1].size, IF s[1].order = "0" THEN "big" ELSE "little", s[1].sign = "-",
                 IF \E e \in said : e.value = 1 THEN "float"
                 ELSE IF \E e \in said : e.value = 2 THEN "double" ELSE "integer")
\* A value of `size` bits, its sign repeated to the left.
Value(l, raw) ==
  IF l.extended = "integer" /\ l.signed /\ l.size - 1 \in raw THEN raw \cup l.size .. 63 ELSE raw
(***************************************************************************)
(* What a sensor reads of a frame is the value in the frame's bits that    *)
(* the file, or the user, gives to the signal of that name of that         *)
(* message, wherever they lie in the frame; what is in memory behind the   *)
(* frame makes no difference.                                              *)
(***************************************************************************)
ReadsItsBits ==
  got # None =>
    LET l == MeantLayout(got[1].sensor)
        places == Places(l)
    IN ~WrongSize(l) /\ (\A i \in DOMAIN places : places[i] < 8 * got[1].frame.size) =>
         got[1].value = Value(l, {i \in DOMAIN places : places[i] \in got[1].frame.bits})
-----------------------------------------------------------------------------
Loaded == phase = "configuring" /\ next = <<1, 0>> /\ content # None
\* What the file says of an object, in order; the last, or "".
Said(kind, key) == SelectSeq(content[1].elements, LAMBDA e : e.k = kind /\ e.of = key)
LastText(key) == LET said == Said("comment", key) IN IF said = <<>> THEN "" ELSE Last(said).text
LastValues(key) == LET said == Said("values", key) IN IF said = <<>> THEN <<>> ELSE Last(said).values
Carries(object, key) ==
  /\ object.comment = LastText(key)
  /\ Len(object.attributes) = Len(Said("attribute", key))
  /\ \A i \in DOMAIN object.attributes :
       /\ object.attributes[i].name = Said("attribute", key)[i].name
       /\ object.attributes[i].value = Said("attribute", key)[i].value
(***************************************************************************)
(* The network of a file has the file's messages, signals and variables in *)
(* their order, each with everything the file says of it, wherever in the  *)
(* file, and nothing it says of another; but the network has no nodes.     *)
(***************************************************************************)
NothingMisplaced ==
  Loaded =>
    LET network == net[1]
        messages == SelectSeq(content[1].elements, LAMBDA e : e.k = "message")
        variables == SelectSeq(content[1].elements, LAMBDA e : e.k = "variable")
    IN /\ network.nodes = <<>> /\ Carries(network, <<"network">>)
       /\ Len(network.messages) = Len(messages) /\ Len(network.variables) = Len(variables)
       /\ \A i \in DOMAIN messages :
            LET m == network.messages[i] IN
            /\ m.id = messages[i].id /\ Carries(m, <<"message", m.id>>)
            /\ Len(m.signals) = Len(messages[i].signals)
            /\ \A j \in DOMAIN m.signals :
                 LET s == m.signals[j]
                     key == <<"signal", m.id, s.name>>
                 IN /\ s.name = messages[i].signals[j].name
                    /\ Carries(s, key) /\ s.values = LastValues(key)
       /\ \A i \in DOMAIN variables :
            LET v == network.variables[i]
                key == <<"variable", v.name>>
            IN v.name = variables[i].name /\ Carries(v, key) /\ v.values = LastValues(key)

Short(n) == -999999 <= n /\ n <= 999999
ShortValue(value) == value.k = "double" => Short(value.v)
\* A network that a file can hold: no ID or name twice, no number of more
\* than six digits, no signal type and no empty table.
Writable(network) ==
  LET messages == Range(network.messages)
      signals == UNION {Range(m.signals) : m \in messages}
      variables == Range(network.variables)
      said == Range(network.defaults) \cup UNION {Range(object.attributes) :
                object \in {network} \cup messages \cup signals \cup variables}
      numbers == UNION {{s.factor, s.offset, s.minimum, s.maximum} : s \in signals}
                   \cup UNION {{v.minimum, v.maximum, v.initial} : v \in variables}
                   \cup UNION {IF d.type.k = "FLOAT" THEN {d.type.minimum, d.type.maximum} ELSE {} :
                               d \in Range(network.definitions)}
  IN /\ Cardinality({m.id : m \in messages}) = Len(network.messages)
     /\ Cardinality({v.name : v \in variables}) = Len(network.variables)
     /\ \A m \in messages : ~Unregistrable(m)
     /\ \A n \in numbers : Short(n)
     /\ \A attribute \in said : ShortValue(attribute.value)
     /\ \A table \in Range(network.tables) : table.type = None /\ table.values # <<>>
(***************************************************************************)
(* A network written as a file and read again is the same network, if the  *)
(* language can say all of it.                                             *)
(***************************************************************************)
WrittenIsRead == Loaded /\ Writable(net[1]) => LoadDBC(Network2DBC(net[1])) = net
-----------------------------------------------------------------------------
\* DbcMessage::EncodeMessage: every signal's value, in any order.
EncodeMessage(message, values) ==
  FoldLeft(LAMBDA frame, i : Encode(message.signals[i].layout, values[i], frame),
           {}, [i \in DOMAIN message.signals |-> i])
(***************************************************************************)
(* A frame encoded of values gives every signal its value back, if the     *)
(* signals do not overlap.                                                 *)
(***************************************************************************)
EncodedIsRead ==
  Loaded => \A i \in DOMAIN Messages :
    LET message == Messages[i]
        Bits(j) == Range(Places(message.signals[j].layout))
        Patterns == {Word, {b \in Word : b % 2 = 0}, {}}
        values == [DOMAIN message.signals -> Patterns]
    IN (\A j, k \in DOMAIN message.signals : j # k => Bits(j) \cap Bits(k) = {}) =>
         \A value \in values :
           LET frame == EncodeMessage(message, value) IN
           \A j \in DOMAIN message.signals :
             LET l == message.signals[j].layout IN
             ~WrongSize(l) => Decode(l, frame) = Value(l, value[j] \cap 0 .. l.size - 1)

\* The index of a file points into the network that is loaded, and its readers
\* find in it what they ask for and nothing else.
IndexInv == TypeOK /\ IndexPointsIn /\ ReadersFind

(***************************************************************************)
(* A file and its frames mean what they say: every statement about its     *)
(* object, every signal in its bits, and both survive being written.       *)
(***************************************************************************)
ReadingInv == NothingMisplaced /\ ReadsItsBits /\ EncodedIsRead /\ WrittenIsRead
=============================================================================
