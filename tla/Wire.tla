-------------------------------- MODULE Wire --------------------------------
(***************************************************************************)
(* What configurations are written as.  A CBOR file is a tree of items     *)
(* [k, v]; zcbor writes lists and maps with an indefinite length, a start  *)
(* and a break byte around the elements (ZCBOR_CANONICAL is not set).  A   *)
(* text is [t, n, word]: which text, its length, and whether it is made of *)
(* letters, digits and underscores and does not start with a digit.  An    *)
(* optional value is a sequence of at most one element.  What a conversion *)
(* gives is [ok, v]: a value, or an exception.                             *)
(***************************************************************************)
EXTENDS Integers, Sequences, SequencesExt

NoText == [t |-> "", n |-> 0, word |-> FALSE]
None == <<>>
Some(v) == <<v>>

Ok(v) == [ok |-> TRUE, v |-> v]
Thrown == [ok |-> FALSE]
Map(f(_), s) == [i \in DOMAIN s |-> f(s[i])]
\* Every element converted, or an exception as soon as one throws.
MapOk(f(_), s) ==
  LET all == Map(f, s) IN
  IF \A i \in DOMAIN all : all[i].ok THEN Ok([i \in DOMAIN all |-> all[i].v]) ELSE Thrown
SumOver(f(_), s) == FoldLeft(LAMBDA sum, x : sum + f(x), 0, s)
-----------------------------------------------------------------------------
Uint(n) == [k |-> "uint", v |-> n]
Integer(i) == [k |-> IF i >= 0 THEN "uint" ELSE "nint", v |-> i]
Float(x) == [k |-> "float", v |-> x]
Bool(b) == [k |-> "bool", v |-> b]
Tstr(text) == [k |-> "tstr", v |-> text]
List(items) == [k |-> "list", v |-> items]
\* A map of floats, its keys and values in turn.
FloatMap(pairs) ==
  [k |-> "map",
   v |-> [i \in 1 .. 2 * Len(pairs) |->
            Float(pairs[(i + 1) \div 2][IF i % 2 = 1 THEN "voltage" ELSE "value"])]]
OptionalItem(Item(_), value) == Map(Item, value)

\* The bytes of an item.
HeaderBytes(n) ==
  1 + (CASE n < 24 -> 0 [] n \in 24 .. 255 -> 1 [] n \in 256 .. 65535 -> 2 [] OTHER -> 4)
RECURSIVE Bytes(_)
Bytes(item) ==
  CASE item.k = "uint" -> HeaderBytes(item.v)
    [] item.k = "nint" -> HeaderBytes(-1 - item.v)
    [] item.k = "float" -> 5
    [] item.k = "bool" -> 1
    [] item.k = "tstr" -> HeaderBytes(item.v.n) + item.v.n
    [] OTHER -> 2 + SumOver(Bytes, item.v)

\* zcbor_multi_encode_minmax(2, ...): a calibration table has two points.
TableEncodes(table) == Len(table) >= 2
-----------------------------------------------------------------------------
(***************************************************************************)
(* A generated decoder reads the members of a list in order; a member that *)
(* may be absent is read if the next item is of its kind.  All items must  *)
(* have been read at the end of the list.                                  *)
(***************************************************************************)
Must(kinds) == [kinds |-> kinds, optional |-> FALSE]
May(kinds) == [kinds |-> kinds, optional |-> TRUE]
IntegerKinds == {"uint", "nint"}

Member(read, member) ==
  LET fits == read.rest # <<>> /\ Head(read.rest).k \in member.kinds IN
  [ok |-> read.ok /\ (fits \/ member.optional),
   rest |-> IF fits THEN Tail(read.rest) ELSE read.rest,
   got |-> Append(read.got, IF ~member.optional THEN (IF fits THEN Head(read.rest).v ELSE 0)
                            ELSE IF fits THEN Some(Head(read.rest).v) ELSE None)]
Members(item, members) ==
  IF item.k # "list" THEN Thrown
  ELSE LET read == FoldLeft(Member, [ok |-> TRUE, rest |-> item.v, got |-> <<>>], members) IN
       IF read.ok /\ read.rest = <<>> THEN Ok(read.got) ELSE Thrown

\* The pairs of a map of floats.
Pairs(items) ==
  [i \in 1 .. Len(items) \div 2 |-> [voltage |-> items[2 * i - 1].v, value |-> items[2 * i].v]]
-----------------------------------------------------------------------------
(***************************************************************************)
(* CborSizeCalc and CborSizeBuilder: the size a buffer is given before the *)
(* encoder runs.                                                           *)
(***************************************************************************)
SizeOfUint(n) ==
  CASE n <= 23 -> 1 [] n \in 24 .. 255 -> 2 [] n \in 256 .. 65535 -> 3 [] OTHER -> 5
SizeOfInt(i) == IF i >= 0 THEN SizeOfUint(i) ELSE SizeOfUint(-1 - i)
\* Mutant: a text has a header of one byte.
SizeOfTstrShort(text) == 1 + text.n
SizeOfTstr(text) == SizeOfUint(text.n) + text.n
SizeOfFloat == 5
SizeOfBool == 1
IndefiniteArrayStart == 2
SizeOfOptional(Size(_), value) == SumOver(Size, value)
SizeOfTable(table) == IndefiniteArrayStart + 2 * SizeOfFloat * Len(table)
-----------------------------------------------------------------------------
\* Mutant: a table is written as it is.
SortedTableNot(table) == table
(***************************************************************************)
(* What all conversions of calibration tables do.                          *)
(***************************************************************************)
SortedTable(table) == SortSeq(table, LAMBDA a, b : a.voltage < b.voltage)
InterpolationMethod == <<"NONE", "LINEAR", "CUBIC_SPLINE">>  \* in the enum's order, from 0
MethodNumber(method) == CHOOSE i \in 0 .. 2 : InterpolationMethod[i + 1] = method
\* The constructors of both interpolators throw at fewer than two points.
Interpolator(method, table) ==
  IF method \in {"LINEAR", "CUBIC_SPLINE"} /\ Len(table) >= 2
  THEN Ok([method |-> method, table |-> table]) ELSE Thrown

\* value_to of a document throws when a member is missing.
HasMembers(object, names) == names \subseteq DOMAIN object
=============================================================================
