------------------------------- MODULE MCDbc -------------------------------
(***************************************************************************)
(* DBC files for TLC: every selection of the statements that say something *)
(* of an object, twice and in any order of two; one signal of every        *)
(* layout where the cases of the decoder change; and messages, user        *)
(* messages and sensors that share IDs and names.                          *)
(***************************************************************************)
EXTENDS Dbc

Sig(name, start, size, order, sign) ==
  [name |-> name, mux |-> None, start |-> start, size |-> size, order |-> order, sign |-> sign,
   factor |-> 1, offset |-> 0, minimum |-> 0, maximum |-> 0, unit |-> "", receivers |-> <<"n">>]
Msg(id, size, signals) ==
  [k |-> "message", id |-> id, name |-> "m", size |-> size, transmitter |-> "n", signals |-> signals]
File(elements) ==
  [version |-> "v", symbols |-> <<"CM_">>, timing |-> Some(<<500, 1, 2>>), nodes |-> <<"n">>,
   elements |-> elements, cut |-> FALSE]
Double(n) == [k |-> "double", v |-> n]
Comment(key, text) == [k |-> "comment", of |-> key, text |-> text]
Attribute(key, value) == [k |-> "attribute", of |-> key, name |-> "A", value |-> value]
Values(key, text) == [k |-> "values", of |-> key, values |-> <<[value |-> 1, text |-> text]>>]

\* Statements about the objects of Base, each of which a file may have.
Base ==
  <<Msg(1, 8, <<[Sig("s", 0, 8, "1", "+") EXCEPT !.mux = Some([letter |-> "M", value |-> 0])],
                [Sig("t", 8, 8, "1", "-") EXCEPT !.mux = Some([letter |-> "m", value |-> 3]),
                                                 !.factor = 25]>>),
    Msg(2, 8, <<Sig("s", 7, 8, "0", "+")>>),
    [k |-> "variable", name |-> "s", type |-> 1, minimum |-> 0, maximum |-> 9, unit |-> "", initial |-> 0,
     id |-> 1, access |-> "DUMMY_NODE_VECTOR8001", nodes |-> <<"n">>]>>
Said1 ==
  <<Comment(<<"signal", 1, "s">>, "x"), Comment(<<"signal", 2, "s">>, "y"), Comment(<<"signal", 1, "s">>, "z"),
    Comment(<<"variable", "s">>, "v"), Comment(<<"node", "n">>, "n"), Comment(<<"message", 1>>, "m")>>
Said2 ==
  <<Attribute(<<"signal", 1, "t">>, Double(5)), Attribute(<<"network">>, [k |-> "text", v |-> "t"]),
    Attribute(<<"message", 2>>, Double(12345678)), Attribute(<<"variable", "s">>, Double(1)),
    Attribute(<<"signal", 1, "t">>, Double(6)), Attribute(<<"node", "n">>, Double(2))>>
Said3 ==
  <<Values(<<"signal", 1, "t">>, "on"), Values(<<"variable", "s">>, "off"), Values(<<"signal", 1, "t">>, "no"),
    [k |-> "extended", id |-> 1, signal |-> "t", value |-> 3],
    [k |-> "mux", id |-> 1, signal |-> "t", switch |-> "s", ranges |-> <<<<3, 3>>, <<5, 7>>>>],
    [k |-> "group", id |-> 1, name |-> "g", repetitions |-> 1, signals |-> <<"s", "t">>],
    [k |-> "transmitters", id |-> 2, names |-> <<"n", "o">>], [k |-> "data", name |-> "s", size |-> 4]>>
Said4 ==
  <<[k |-> "table", name |-> "t", values |-> <<[value |-> 0, text |-> "zero"]>>],
    [k |-> "definition", object |-> Some("SG_"), name |-> "A", type |-> [k |-> "FLOAT", minimum |-> 0, maximum |-> 12345678]],
    [k |-> "definition", object |-> None, name |-> "A", type |-> [k |-> "ENUM", values |-> <<"a", "b">>]],
    [k |-> "default", name |-> "A", value |-> Double(1)],
    [k |-> "type", name |-> "u", size |-> 8, order |-> "1", sign |-> "+", table |-> "t"]>>
Selection(s, kept) == SelectSeq([i \in DOMAIN s |-> <<i, s[i]>>], LAMBDA x : x[1] \in kept)
Selected(s) == {[i \in DOMAIN chosen |-> chosen[i][2]] : chosen \in {Selection(s, kept) : kept \in SUBSET DOMAIN s}}
Rich == {File(said \o Base) : said \in Selected(Said1) \cup Selected(Said2)}
          \cup {File(Base \o said) : said \in Selected(Said3) \cup Selected(Said4)}
          \cup {File(Base \o Said1 \o Base), File(<<[Base[3] EXCEPT !.nodes = <<>>]>>)}

Starts == (0 .. 9) \cup {15, 31, 39, 47, 53} \cup (55 .. 64) \cup {71, 72, 75}
Sizes == {1, 2, 7, 8, 9, 31, 32, 33, 56, 57, 58, 63, 64}
Layouts ==
  {File(<<Msg(1, size, <<Sig("s", start, bits, order, sign)>>)>>) :
     start \in Starts, bits \in Sizes, order \in {"0", "1"}, sign \in {"+", "-"}, size \in {8}}
    \cup {File(<<Msg(1, 16, <<Sig("s", start, bits, "0", "-"), Sig("t", 100, 3, "1", "+")>>),
                 [k |-> "extended", id |-> 1, signal |-> "s", value |-> v]>>) :
            start \in {7, 15, 63, 71}, bits \in {32, 64}, v \in {1, 2}}
Alone(file) == [file |-> Some(file), messages |-> <<>>]

User(id, names) ==
  [id |-> id, name |-> "u", size |-> 8,
   signals |-> [i \in DOMAIN names |-> [name |-> names[i], start |-> 8 * i, size |-> 8, factor |-> 1,
                                        offset |-> 0, unit |-> ""]]]
Shared == {None} \cup
  {Some(File(messages)) : messages \in
     {<<>>, <<Msg(1, 8, <<Sig("s", 0, 8, "1", "+")>>)>>,
      <<Msg(1, 8, <<Sig("s", 0, 8, "1", "+"), Sig("s", 8, 8, "1", "+")>>)>>,
      <<Msg(1, 8, <<Sig("s", 0, 8, "1", "+")>>), Msg(1, 8, <<Sig("t", 8, 8, "1", "+")>>),
        Msg(2, 8, <<Sig("s", 15, 16, "0", "-")>>), Comment(<<"message", 1>>, "m")>>}}
Users ==
  {<<>>, <<User(1, <<"u", "t">>)>>, <<User(1, <<"s">>)>>,
   <<User(3, <<"s", "t", "u">>), User(1, <<"t">>), User(4, <<>>)>>,
   <<User(2, <<"t", "u">>), User(3, <<"u">>), User(4, <<"t", "s">>)>>}
MCSetups ==
  {Alone(file) : file \in Rich \cup Layouts} \cup {[file |-> f, messages |-> m] : f \in Shared, m \in Users}
MCSensors == {[id |-> 1, name |-> "s"], [id |-> 1, name |-> "t"], [id |-> 3, name |-> "u"]}
Every(step, at) == {b \in 0 .. 127 : b % step = at}
MCFrames ==
  {[bits |-> bits, size |-> 16, beyond |-> {}] : bits \in {0 .. 127, Every(2, 0), Every(3, 1), {}}}
    \cup {[bits |-> Every(3, 0) \cap 0 .. 23, size |-> 3, beyond |-> beyond] : beyond \in {{}, 24 .. 127}}
=============================================================================
