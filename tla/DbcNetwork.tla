----------------------------- MODULE DbcNetwork -----------------------------
(***************************************************************************)
(* What dbcppp makes of a DBC file.                                        *)
(* A file is its header and a sequence of elements, the statements of the  *)
(* language: messages with their signals, and everything said about an     *)
(* object elsewhere in the file, which names the object by its key:        *)
(* <<"network">>, <<"node", name>>, <<"message", id>>,                     *)
(* <<"signal", id, name>> or <<"variable", name>>.  `cut`: the text ends   *)
(* inside a statement.                                                     *)
(***************************************************************************)
EXTENDS SignalCoding, Sequences, SequencesExt, TLC

None == <<>>
Some(v) == <<v>>
Last16(n) == n % 65536

\* What each statement says.
Statements ==
  [table |-> {"name", "values"},
   message |-> {"id", "name", "size", "transmitter", "signals"},
   transmitters |-> {"id", "names"},
   variable |-> {"name", "type", "minimum", "maximum", "unit", "initial", "id", "access", "nodes"},
   data |-> {"name", "size"},
   type |-> {"name", "size", "order", "sign", "table"},
   comment |-> {"of", "text"},
   definition |-> {"object", "name", "type"},
   default |-> {"name", "value"},
   attribute |-> {"of", "name", "value"},
   values |-> {"of", "values"},
   extended |-> {"id", "signal", "value"},
   mux |-> {"id", "signal", "switch", "ranges"},
   group |-> {"id", "name", "repetitions", "signals"}]
\* The statements the grammar reads: no list that needs a member is empty.
Reads(e) ==
  CASE e.k = "message" -> /\ e.transmitter # ""
                          /\ \A i \in DOMAIN e.signals : e.signals[i].receivers # <<>>
    [] e.k = "transmitters" -> e.names # <<>>
    [] e.k = "variable" -> e.nodes # <<>>
    [] e.k = "definition" -> e.type.k = "ENUM" => e.type.values # <<>>
    [] e.k = "mux" -> e.ranges # <<>>
    [] OTHER -> TRUE

\* ParseFromMemory.  The parser reads the nodes and the bit timing, and the
\* network that is built has neither.
Parsed(file) ==
  IF file.cut \/ \E i \in DOMAIN file.elements : ~Reads(file.elements[i]) THEN None
  ELSE Some([version |-> file.version, symbols |-> file.symbols, timing |-> None, nodes |-> <<>>,
             elements |-> file.elements])
Of(ast, kind) == SelectSeq(ast.elements, LAMBDA e : e.k = kind)
FirstOf(s, P(_)) == LET those == SelectSeq(s, P) IN IF those = <<>> THEN None ELSE Some(those[1])
-----------------------------------------------------------------------------
(***************************************************************************)
(* DBCAST2Network first collects what is said of each object, then builds  *)
(* the objects.  A later description or comment replaces an earlier one.   *)
(***************************************************************************)
EmptyEntry == [attributes |-> <<>>, values |-> <<>>, comment |-> ""]
EntryOf(cache, key) == IF key \in DOMAIN cache THEN cache[key] ELSE EmptyEntry
\* Mutant: an attribute replaces those before it.
CacheLastAttribute(cache, e) ==
  (e.of :> [EntryOf(cache, e.of) EXCEPT !.attributes = <<e>>]) @@ cache

CacheAttribute(cache, e) ==
  (e.of :> [EntryOf(cache, e.of) EXCEPT !.attributes = Append(@, e)]) @@ cache
CacheValues(cache, e) == (e.of :> [EntryOf(cache, e.of) EXCEPT !.values = e.values]) @@ cache
CacheComment(cache, e) == (e.of :> [EntryOf(cache, e.of) EXCEPT !.comment = e.text]) @@ cache
Cache(ast) ==
  LET attributes == FoldLeft(CacheAttribute, <<>>, Of(ast, "attribute"))
      described == FoldLeft(CacheValues, attributes, Of(ast, "values"))
  IN FoldLeft(CacheComment, described, Of(ast, "comment"))

AttributesOf(cache, key) ==
  LET said == EntryOf(cache, key).attributes
  IN [i \in DOMAIN said |-> [name |-> said[i].name, object |-> key[1], value |-> said[i].value]]
-----------------------------------------------------------------------------
ByteOrder(letter) == IF letter = "0" THEN "big" ELSE "little"
Signed(letter) == letter # "+"
GetSignalType(ast, table) ==
  LET type == FirstOf(Of(ast, "type"), LAMBDA t : t.table = table.name)
  IN IF type = None THEN None
     ELSE Some([name |-> type[1].name, size |-> type[1].size, order |-> ByteOrder(type[1].order),
                signed |-> Signed(type[1].sign), table |-> table.name])
GetValueTables(ast) ==
  LET tables == Of(ast, "table")
  IN [i \in DOMAIN tables |-> [name |-> tables[i].name, type |-> GetSignalType(ast, tables[i]),
                               values |-> tables[i].values]]
GetBitTiming(ast) == IF ast.timing # None THEN ast.timing[1] ELSE <<0, 0, 0>>
GetNodes(ast, cache) ==
  [i \in DOMAIN ast.nodes |->
     LET key == <<"node", ast.nodes[i]>>
     IN [name |-> ast.nodes[i], comment |-> EntryOf(cache, key).comment,
         attributes |-> AttributesOf(cache, key)]]

ExtendedValueType(ast, m, s) ==
  LET said == FirstOf(Of(ast, "extended"), LAMBDA e : e.id = m.id /\ e.signal = s.name)
  IN IF said = None THEN "integer"
     ELSE CASE said[1].value = 1 -> "float" [] said[1].value = 2 -> "double" [] OTHER -> "integer"
SignalMultiplexerValues(ast, m, s) ==
  LET said == SelectSeq(Of(ast, "mux"), LAMBDA e : e.signal = s.name /\ e.id = m.id)
  IN [i \in DOMAIN said |-> [switch |-> said[i].switch, ranges |-> said[i].ranges]]
\* M: the switch; m and a number: valid under that value of the switch.
Multiplexer(s) ==
  IF s.mux = None THEN [kind |-> "NoMux", value |-> 0]
  ELSE IF s.mux[1].letter = "M" THEN [kind |-> "MuxSwitch", value |-> 0]
  ELSE [kind |-> "MuxValue", value |-> s.mux[1].value]
GetSignal(ast, cache, m, s) ==
  LET key == <<"signal", m.id, s.name>>
      layout == Layout(Last16(s.start), Last16(s.size), ByteOrder(s.order), Signed(s.sign),
                       ExtendedValueType(ast, m, s))
  IN [name |-> s.name, multiplexer |-> Multiplexer(s), layout |-> layout,
      factor |-> s.factor, offset |-> s.offset, minimum |-> s.minimum, maximum |-> s.maximum,
      unit |-> s.unit, receivers |-> s.receivers,
      attributes |-> AttributesOf(cache, key), values |-> EntryOf(cache, key).values,
      comment |-> EntryOf(cache, key).comment,
      muxValues |-> SignalMultiplexerValues(ast, m, s),
      errors |-> Errors(layout, Last16(m.size))]

\* Message's constructor and AddSignal: the last switch is the message's.
Switch(signals) ==
  LET switches == {i \in DOMAIN signals : signals[i].multiplexer.kind = "MuxSwitch"}
  IN IF switches = {} THEN 0 ELSE CHOOSE i \in switches : \A j \in switches : j <= i
MuxError(signals) ==
  Switch(signals) = 0 /\ \E i \in DOMAIN signals : signals[i].multiplexer.kind = "MuxValue"
GetMessage(ast, cache, m) ==
  LET signals == [i \in DOMAIN m.signals |-> GetSignal(ast, cache, m, m.signals[i])]
      sent == FirstOf(Of(ast, "transmitters"), LAMBDA e : e.id = m.id)
      groups == SelectSeq(Of(ast, "group"), LAMBDA e : e.id = m.id)
      key == <<"message", m.id>>
  IN [id |-> m.id, name |-> m.name, size |-> m.size, transmitter |-> m.transmitter,
      transmitters |-> IF sent = None THEN <<>> ELSE sent[1].names,
      signals |-> signals,
      attributes |-> AttributesOf(cache, key), comment |-> EntryOf(cache, key).comment,
      groups |-> [i \in DOMAIN groups |->
                    [id |-> groups[i].id, name |-> groups[i].name,
                     repetitions |-> groups[i].repetitions, signals |-> groups[i].signals]],
      switch |-> Switch(signals), muxError |-> MuxError(signals)]
GetMessages(ast, cache) ==
  LET messages == Of(ast, "message")
  IN [i \in DOMAIN messages |-> GetMessage(ast, cache, messages[i])]

AccessTypes ==
  [DUMMY_NODE_VECTOR0 |-> "Unrestricted", DUMMY_NODE_VECTOR1 |-> "Read",
   DUMMY_NODE_VECTOR2 |-> "Write", DUMMY_NODE_VECTOR3 |-> "ReadWrite",
   DUMMY_NODE_VECTOR8000 |-> "Unrestricted_", DUMMY_NODE_VECTOR8001 |-> "Read_",
   DUMMY_NODE_VECTOR8002 |-> "Write_", DUMMY_NODE_VECTOR8003 |-> "ReadWrite_"]
GetVariable(ast, cache, v) ==
  LET key == <<"variable", v.name>>
      data == FirstOf(Of(ast, "data"), LAMBDA e : e.name = v.name)
  IN [name |-> v.name,
      type |-> IF data # None THEN "Data" ELSE <<"Integer", "Float", "String">>[v.type + 1],
      minimum |-> v.minimum, maximum |-> v.maximum, unit |-> v.unit, initial |-> v.initial,
      id |-> v.id,
      access |-> IF v.access \in DOMAIN AccessTypes THEN AccessTypes[v.access] ELSE "Unrestricted",
      nodes |-> v.nodes, size |-> IF data # None THEN data[1].size ELSE 0,
      values |-> EntryOf(cache, key).values, attributes |-> AttributesOf(cache, key),
      comment |-> EntryOf(cache, key).comment]
GetVariables(ast, cache) ==
  LET variables == Of(ast, "variable")
  IN [i \in DOMAIN variables |-> GetVariable(ast, cache, variables[i])]

ObjectTypes == [BU_ |-> "node", BO_ |-> "message", SG_ |-> "signal", EV_ |-> "variable"]
GetDefinitions(ast) ==
  LET definitions == Of(ast, "definition")
  IN [i \in DOMAIN definitions |->
        [name |-> definitions[i].name, type |-> definitions[i].type,
         object |-> IF definitions[i].object = None THEN "network"
                    ELSE ObjectTypes[definitions[i].object[1]]]]
GetDefaults(ast) ==
  LET defaults == Of(ast, "default")
  IN [i \in DOMAIN defaults |->
        [name |-> defaults[i].name, object |-> "network", value |-> defaults[i].value]]

DBCAST2Network(ast) ==
  LET cache == Cache(ast)
  IN [version |-> ast.version, symbols |-> ast.symbols, timing |-> GetBitTiming(ast),
      nodes |-> GetNodes(ast, cache), tables |-> GetValueTables(ast),
      messages |-> GetMessages(ast, cache), variables |-> GetVariables(ast, cache),
      definitions |-> GetDefinitions(ast), defaults |-> GetDefaults(ast),
      attributes |-> AttributesOf(cache, <<"network">>),
      comment |-> EntryOf(cache, <<"network">>).comment]
LoadDBC(file) ==
  LET ast == Parsed(file) IN IF ast = None THEN None ELSE Some(DBCAST2Network(ast[1]))
=============================================================================
