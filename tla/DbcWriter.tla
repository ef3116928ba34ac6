------------------------------ MODULE DbcWriter ------------------------------
(***************************************************************************)
(* Network2DBC: the DBC file written of a network.                         *)
(***************************************************************************)
EXTENDS DbcNetwork

\* A floating point number as a C++ stream writes it: six digits, the rest
\* rounded.  (Numbers are counted in units small enough to be integers.)
RECURSIVE Digits(_)
Digits(n) == IF n < 10 THEN 1 ELSE 1 + Digits(n \div 10)

Shown(n) ==
  LET size == IF n < 0 THEN -n ELSE n
      lost == IF Digits(size) > 6 THEN 10 ^ (Digits(size) - 6) ELSE 1
      rounded == ((size + lost \div 2) \div lost) * lost
  IN IF n < 0 THEN -rounded ELSE rounded
ShownValue(value) == IF value.k = "double" THEN [value EXCEPT !.v = Shown(@)] ELSE value

Each(Line(_), s) == [i \in DOMAIN s |-> Line(s[i])]
\* The lines for all messages, and for all signals of all messages.
PerMessage(net, Lines(_)) == FlattenSeq(Each(Lines, net.messages))
PerSignal(net, Lines(_, _)) ==
  PerMessage(net, LAMBDA m : FlattenSeq(Each(LAMBDA s : Lines(m, s), m.signals)))
PerVariable(net, Lines(_)) == FlattenSeq(Each(Lines, net.variables))
If(said, line) == IF said THEN <<line>> ELSE <<>>
-----------------------------------------------------------------------------
\* Mutant: the byte orders are swapped.
WrittenOrderSwapped(order) == IF order = "big" THEN "1" ELSE "0"

WrittenOrder(order) == IF order = "big" THEN "0" ELSE "1"
WrittenSign(signed) == IF signed THEN "-" ELSE "+"
WrittenSignal(s) ==
  [name |-> s.name,
   mux |-> CASE s.multiplexer.kind = "NoMux" -> None
             [] s.multiplexer.kind = "MuxSwitch" -> Some([letter |-> "M", value |-> 0])
             [] OTHER -> Some([letter |-> "m", value |-> s.multiplexer.value]),
   start |-> s.layout.start, size |-> s.layout.size,
   order |-> WrittenOrder(s.layout.order), sign |-> WrittenSign(s.layout.signed),
   factor |-> Shown(s.factor), offset |-> Shown(s.offset),
   minimum |-> Shown(s.minimum), maximum |-> Shown(s.maximum),
   unit |-> s.unit, receivers |-> s.receivers]
WrittenMessage(m) ==
  [k |-> "message", id |-> m.id, name |-> m.name, size |-> m.size, transmitter |-> m.transmitter,
   signals |-> Each(WrittenSignal, m.signals)]
WrittenAccess(access) == CHOOSE text \in DOMAIN AccessTypes : AccessTypes[text] = access
WrittenVariable(v) ==
  [k |-> "variable", name |-> v.name,
   type |-> CASE v.type = "Float" -> 1 [] v.type = "String" -> 2 [] OTHER -> 0,
   minimum |-> Shown(v.minimum), maximum |-> Shown(v.maximum), unit |-> v.unit,
   initial |-> Shown(v.initial), id |-> v.id, access |-> WrittenAccess(v.access),
   nodes |-> v.nodes]
\* A value table; the line for a table's signal type writes the table again.
WrittenTable(t) == If(t.values # <<>>, [k |-> "table", name |-> t.name, values |-> t.values])
WrittenDefinition(d) ==
  [k |-> "definition", name |-> d.name,
   object |-> IF d.object = "network" THEN None
              ELSE Some(CHOOSE text \in DOMAIN ObjectTypes : ObjectTypes[text] = d.object),
   type |-> IF d.type.k = "FLOAT"
            THEN [d.type EXCEPT !.minimum = Shown(@), !.maximum = Shown(@)] ELSE d.type]
WrittenAttributes(key, attributes) ==
  Each(LAMBDA a : [k |-> "attribute", of |-> key, name |-> a.name, value |-> ShownValue(a.value)],
       attributes)
WrittenComment(key, text) == If(text # "", [k |-> "comment", of |-> key, text |-> text])
WrittenValues(key, values) == If(values # <<>>, [k |-> "values", of |-> key, values |-> values])
WrittenExtended(m, s) ==
  If(s.layout.extended # "integer",
     [k |-> "extended", id |-> m.id, signal |-> s.name,
      value |-> IF s.layout.extended = "float" THEN 1 ELSE 2])

\* The whole file, in the order in which it is written.
WrittenElements(net) ==
  LET Key(m, s) == <<"signal", m.id, s.name>> IN
  FlattenSeq(<<
    FlattenSeq(Each(WrittenTable, net.tables)),
    Each(WrittenMessage, net.messages),
    PerMessage(net, LAMBDA m :
      If(m.transmitters # <<>>, [k |-> "transmitters", id |-> m.id, names |-> m.transmitters])),
    Each(WrittenVariable, net.variables),
    PerVariable(net, LAMBDA v : If(v.type = "Data", [k |-> "data", name |-> v.name, size |-> v.size])),
    FlattenSeq(Each(LAMBDA t : IF t.type = None THEN <<>> ELSE WrittenTable(t), net.tables)),
    WrittenComment(<<"network">>, net.comment),
    FlattenSeq(Each(LAMBDA n : WrittenComment(<<"node", n.name>>, n.comment), net.nodes)),
    PerMessage(net, LAMBDA m : WrittenComment(<<"message", m.id>>, m.comment)),
    PerSignal(net, LAMBDA m, s : WrittenComment(Key(m, s), s.comment)),
    PerVariable(net, LAMBDA v : WrittenComment(<<"variable", v.name>>, v.comment)),
    Each(WrittenDefinition, net.definitions),
    Each(LAMBDA a : [k |-> "default", name |-> a.name, value |-> ShownValue(a.value)], net.defaults),
    WrittenAttributes(<<"network">>, net.attributes),
    FlattenSeq(Each(LAMBDA n : WrittenAttributes(<<"node", n.name>>, n.attributes), net.nodes)),
    PerMessage(net, LAMBDA m : WrittenAttributes(<<"message", m.id>>, m.attributes)),
    PerSignal(net, LAMBDA m, s : WrittenAttributes(Key(m, s), s.attributes)),
    PerVariable(net, LAMBDA v : WrittenAttributes(<<"variable", v.name>>, v.attributes)),
    PerSignal(net, LAMBDA m, s : WrittenValues(Key(m, s), s.values)),
    PerVariable(net, LAMBDA v : WrittenValues(<<"variable", v.name>>, v.values)),
    PerMessage(net, LAMBDA m :
      Each(LAMBDA g : [k |-> "group", id |-> g.id, name |-> g.name,
                       repetitions |-> g.repetitions, signals |-> g.signals], m.groups)),
    PerSignal(net, WrittenExtended),
    PerSignal(net, LAMBDA m, s :
      Each(LAMBDA v : [k |-> "mux", id |-> m.id, signal |-> s.name, switch |-> v.switch,
                       ranges |-> v.ranges], s.muxValues)) >>)
Network2DBC(net) ==
  [version |-> net.version, symbols |-> net.symbols, cut |-> FALSE,
   timing |-> IF \A i \in 1 .. 3 : net.timing[i] # 0 THEN Some(net.timing) ELSE None,
   nodes |-> Each(LAMBDA n : n.name, net.nodes),
   elements |-> WrittenElements(net)]
=============================================================================
