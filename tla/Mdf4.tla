-------------------------------- MODULE Mdf4 --------------------------------
(***************************************************************************)
(* Mdf4File: data groups, channel groups and channels are made in memory,  *)
(* the file is written to a stream, and records follow it there - of the   *)
(* channels of a group, or of a CAN frame, whose bytes become a record of  *)
(* variable length of their own.  Streams may fill up at any byte.         *)
(***************************************************************************)
EXTENDS MdfBlocks

CONSTANTS
  Finalized,      \* the file is made with is_finalized
  IdSizes,        \* the sizes of record IDs a caller asks for
  RecordIds,      \* the IDs a caller asks for, for the first group, the second ...
  Names, Formulas, Times, Values, Frames,
  ChannelTypes,   \* a function: the bits of a channel's type
  Rooms,          \* how many blocks a stream may take
  MaxGroups,      \* of both kinds
  MaxChannels,    \* that are not made with their group, and conversions
  MaxRecords, MaxShort  \* in a file

VARIABLES
  blocks, texts,  \* all blocks; text_blocks_: text -> its block
  taken,          \* data_groups_: data group -> record IDs in use
  can,            \* can_data_frame_blocks_: group -> its VLSD group and offset_
  disk            \* the stream the file was last written to
vars == <<blocks, texts, taken, can, disk>>

Header == 1
FileHistory == 2
FileHistoryText == "<FHcomment><TX>created</TX><tool_id>none</tool_id><tool_vendor>Eerie Leap</tool_vendor><tool_version>0.0.0</tool_version></FHcomment>"
FirstBlocks ==
  <<[Block("HD", <<>>) EXCEPT !.links.fh = FileHistory],
    [Block("FH", <<>>) EXCEPT !.links.md = 3], Block("MD", FileHistoryText)>>

NoFile ==
  [shorts |-> 0, records |-> 0, entries |-> <<>>, end |-> 0, failed |-> "nothing", known |-> 0,
   data |-> <<>>, sure |-> FALSE, log |-> <<>>]
Init ==
  /\ blocks = FirstBlocks /\ texts = <<>> /\ taken = <<>> /\ can = <<>> /\ disk = NoFile

OfKind(kind) == {i \in DOMAIN blocks : blocks[i].kind = kind}
\* Bounds: after a file was written one thing more is made, and then it is
\* written again.
MayMake == disk.failed = "nothing" \/ disk.known = Len(blocks)
MayWrite == disk.failed # "no" \/ disk.known # Len(blocks)
RoomForGroup == MayMake /\ Cardinality(OfKind("DG") \cup OfKind("CG")) < MaxGroups
-----------------------------------------------------------------------------
\* Making blocks.  `made` is the block that was made or changed last.
World == [blocks |-> blocks, texts |-> texts, made |-> 0]
Make(w, block) == [w EXCEPT !.blocks = Append(@, block), !.made = Len(w.blocks) + 1]

\* Mutant: a text gets a block of its own every time.
TextOnce(w, name) ==
  LET new == Make(w, Block("TX", name))
  IN [new EXCEPT !.texts = (name :> Len(w.blocks)) @@ @]

GetOrCreateTextBlock(w, name) ==
  IF name \in DOMAIN w.texts THEN [w EXCEPT !.made = w.texts[name]]
  ELSE LET Known(new) == [new EXCEPT !.texts = (name :> new.made) @@ @]
       IN Known(Make(w, Block("TX", name)))
\* The block made last gets a text, unless it is empty.
SetText(w, slot, name) ==
  LET LinkTo(text) == [text EXCEPT !.blocks[w.made].links[slot] = text.made, !.made = w.made]
  IN IF name = "" THEN w ELSE LinkTo(GetOrCreateTextBlock(w, name))

CreateChannelBlock(w, type, bits, name, unit) ==
  LET new == Make(w, Block("CN", [type |-> type, bits |-> bits, offset |-> 0, bit |-> 0]))
  IN SetText(SetText(new, "name", name), "unit", unit)

\* Mutant: the offset counts the channel itself.
AddChannelAfter(w, group, channel) ==
  LET bytes == w.blocks[group].info.bytes + (w.blocks[channel].info.bits \div 8)
  IN [w EXCEPT !.blocks = AddTo([@ EXCEPT ![channel].info.offset = bytes,
                                          ![group].info.bytes = bytes], group, "cn", channel)]

AddChannel(w, group, channel) ==
  LET bytes == w.blocks[group].info.bytes
  IN [w EXCEPT !.blocks =
        AddTo([@ EXCEPT ![channel].info.offset = bytes,
                        ![group].info.bytes = bytes + (w.blocks[channel].info.bits \div 8)],
              group, "cn", channel)]

NewGroup(w, dataGroup, id, flag) ==
  LET InGroup(new) == [new EXCEPT !.blocks = AddTo(@, dataGroup, "cg", new.made)]
  IN InGroup(Make(w, Block("CG", [id |-> id, size |-> w.blocks[dataGroup].info.size,
                                  flag |-> flag, bytes |-> 0])))
NamedGroup(dataGroup, id, name, flag) ==
  LET AddTime(group, time) == [AddChannel(time, group.made, time.made) EXCEPT !.made = group.made]
      WithTime(group) ==
        AddTime(group, CreateChannelBlock(group, "master", ChannelTypes["Float32"], "Timestamp", "s"))
  IN WithTime(SetText(NewGroup(World, dataGroup, id, flag), "name", name))

\* The parts of a CAN frame: the byte, the bit in it, and the number of bits.
CanParts ==
  <<<<"BusChannel", 4, 0, 2>>, <<"ID", 4, 2, 29>>, <<"IDE", 7, 7, 1>>, <<"Dir", 8, 0, 1>>,
    <<"DataLength", 8, 1, 7>>, <<"EDL", 9, 0, 1>>, <<"BRS", 9, 1, 1>>, <<"DLC", 9, 2, 4>>,
    <<"DataBytes", 10, 0, 32>>>>
AddPart(w, frame, vlsd, part) ==
  LET bytes == part[1] = "DataBytes"
      Place(new) ==
        [new EXCEPT !.blocks =
           AddTo([@ EXCEPT ![new.made].info.offset = part[2],
                           ![new.made].info.bit = part[3],
                           ![new.made].links.sd = IF bytes THEN vlsd ELSE 0],
                 frame, "array", new.made)]
  IN Place(CreateChannelBlock(w, IF bytes THEN "variable" ELSE "fixed", part[4],
                              "CAN_DataFrame." \o part[1], ""))
CanGroup(dataGroup, vlsd, id, name) ==
  LET SetSource(group, source) ==
        [source EXCEPT !.blocks[group.made].links.si = source.made, !.made = group.made]
      WithSource(group) ==
        SetSource(group, SetText(SetText(Make(group, Block("SI", <<>>)), "name", "CAN"), "path", "CAN"))
      AddFrame(group, frame) ==
        [FoldLeft(LAMBDA w, part : AddPart(w, frame.made, vlsd, part),
                  AddChannel(frame, group.made, frame.made), CanParts) EXCEPT !.made = group.made]
      WithFrame(group) == AddFrame(group, CreateChannelBlock(group, "fixed", 80, "CAN_DataFrame", ""))
  IN WithFrame(WithSource(NamedGroup(dataGroup, id, name, "bus")))
-----------------------------------------------------------------------------
Built(w) == blocks' = w.blocks /\ texts' = w.texts

CreateDataGroup(size) ==
  LET new == Make(World, Block("DG", [size |-> size]))
      data == Make(new, Block("DT", <<>>))
  IN /\ RoomForGroup
     /\ blocks' = AddTo([data.blocks EXCEPT ![new.made].links.dt = data.made], Header, "dg", new.made)
     /\ taken' = taken @@ (new.made :> {})
     /\ UNCHANGED <<texts, can, disk>>

\* Mutant: IDs in use are not remembered.
TakeNone(dataGroup, id) == taken

\* An ID is taken before the group is made, which refuses odd sizes of IDs.
TakeId(dataGroup, id) == [taken EXCEPT ![dataGroup] = @ \cup {id}]
SizeIsValid(dataGroup) == blocks[dataGroup].info.size \in {0, 1, 2, 4, 8}
MayCreate(dataGroup, id) == id \notin taken[dataGroup] /\ RoomForGroup

CreateChannelGroup(dataGroup, id, name) ==
  /\ MayCreate(dataGroup, id)
  /\ taken' = TakeId(dataGroup, id)
  /\ IF SizeIsValid(dataGroup) THEN Built(NamedGroup(dataGroup, id, name, "none"))
     ELSE UNCHANGED <<blocks, texts>>
  /\ UNCHANGED <<can, disk>>
CreateVLSDChannelGroup(dataGroup, id) ==
  /\ MayCreate(dataGroup, id)
  /\ taken' = TakeId(dataGroup, id)
  /\ IF SizeIsValid(dataGroup) THEN Built(NewGroup(World, dataGroup, id, "vlsd"))
     ELSE UNCHANGED <<blocks, texts>>
  /\ UNCHANGED <<can, disk>>
CreateCanDataFrameChannelGroup(dataGroup, vlsd, id, name) ==
  LET Keep(new) == Built(new) /\ can' = can @@ (new.made :> [vlsd |-> vlsd, offset |-> 0]) IN
  /\ MayCreate(dataGroup, id)
  /\ blocks[vlsd].info.flag = "vlsd"
  /\ taken' = TakeId(dataGroup, id)
  /\ IF SizeIsValid(dataGroup)
     THEN Keep(CanGroup(dataGroup, vlsd, id, name))
     ELSE UNCHANGED <<blocks, texts, can>>
  /\ UNCHANGED <<disk>>

RoomForChannel ==
  MayMake /\ Cardinality(OfKind("CC") \cup {i \in OfKind("CN") : blocks[i].info.type = "data"}) < MaxChannels
CreateDataChannel(group, type, name, unit) ==
  LET new == CreateChannelBlock(World, "data", ChannelTypes[type], name, unit) IN
  /\ RoomForChannel
  /\ Built(AddChannel(new, group, new.made))
  /\ UNCHANGED <<taken, can, disk>>

\* CreateAlgebraicConversion, with a text of its own, given to a channel.
SetConversion(channel, formula) ==
  LET text == Make(World, Block("TX", formula))
      conversion == Make(text, [Block("CC", <<>>) EXCEPT !.links.ref = text.made])
  IN /\ RoomForChannel
     /\ blocks' = [conversion.blocks EXCEPT ![channel].links.cc = conversion.made]
     /\ UNCHANGED <<texts, taken, can, disk>>
-----------------------------------------------------------------------------
StandardFlags == IF Finalized THEN {} ELSE {"InvalidCGCount", "InvalidLastDTBlock", "InvalidDataVLSDBlock"}
IdBlock == [of |-> 0, kind |-> "ID", info |-> StandardFlags, to |-> <<>>, links |-> <<>>]
IdBlockSize == 64

WriteFileToStream(room) ==
  LET resolved == ResolveAddress([blocks |-> Reset(blocks, Header), next |-> IdBlockSize], Header)
      written ==
        IF room = 0
        THEN [blocks |-> resolved.blocks, entries |-> <<>>, next |-> 0, failed |-> "stream"]
        ELSE WriteToStream([blocks |-> resolved.blocks, entries |-> 0 :> IdBlock,
                            next |-> IdBlockSize, room |-> room, failed |-> "no"], Header)
  IN /\ MayWrite
     /\ blocks' = written.blocks
     /\ can' = [group \in DOMAIN can |-> [can[group] EXCEPT !.offset = 0]]
     /\ disk' = [NoFile EXCEPT !.entries = written.entries,
                               !.end = written.next, !.failed = written.failed,
                               !.known = Len(blocks), !.sure = (written.failed = "no")]
     /\ UNCHANGED <<texts, taken>>
-----------------------------------------------------------------------------
\* Numbers in bytes, the lowest first.
Bytes(n, size) == [k \in 1 .. size |-> IF k > 4 THEN 0 ELSE (n \div 256 ^ (k - 1)) % 256]
Put(bytes, at, new) ==
  [k \in DOMAIN bytes |-> IF k - at \in DOMAIN new THEN new[k - at] ELSE bytes[k]]

RecordIdData(group) == Bytes(blocks[group].info.id, blocks[group].info.size)
Channels(group) == ListFrom(blocks, blocks[group].links.cn)
DataOf(group, values) ==
  LET channels == Channels(group) IN
  FoldLeft(LAMBDA bytes, k :
             Put(bytes, blocks[channels[k]].info.offset, Bytes(values[k], blocks[channels[k]].info.bits \div 8)),
           Bytes(0, blocks[group].info.bytes), [k \in DOMAIN channels |-> k])

\* What a reader of the file may rely on: the file has the group, its data
\* group is the last one, and its record ID says which group it is.
LastDataGroup == LastOf(blocks, blocks[Header].links.dg)
GroupsOf(dataGroup) == ListFrom(blocks, blocks[dataGroup].links.cg)
Fits(group) ==
  LET size == blocks[group].info.size IN
  \/ size = 0 /\ Len(GroupsOf(LastDataGroup)) = 1
  \/ size \in 1 .. 2 /\ blocks[group].info.id < 256 ^ size
  \/ size > 2
Told(group) ==
  disk.known = Len(blocks) /\ ~Finalized /\ group \in ToSet(GroupsOf(LastDataGroup))
  /\ \A other \in ToSet(GroupsOf(LastDataGroup)) : Fits(other)

\* Bytes put into the stream, which takes `room` of them, and the records that
\* they are, each with the place where it ends.  What comes after a record
\* that a reader can make nothing of is not kept.
Sent(bytes, room, records) ==
  LET sure == disk.sure /\ \A record \in ToSet(records) : Told(record.group) IN
  /\ disk.failed = "no" /\ disk.records < MaxRecords
  /\ disk.shorts < MaxShort \/ room = Len(bytes)
  /\ disk' = [disk EXCEPT !.records = @ + 1,
                          !.data = IF sure THEN @ \o SubSeq(bytes, 1, room) ELSE @,
                          !.shorts = @ + (IF room = Len(bytes) THEN 0 ELSE 1),
                          !.sure = sure /\ room = Len(bytes),
                          !.log = @ \o SelectSeq(IF sure THEN records ELSE <<>>,
                                                 LAMBDA record : record.ends <= room)]
RoomsFor(bytes, between) == {0, between, Len(bytes) - 1, Len(bytes)}

WriteDataRecord(group, values) ==
  LET bytes == RecordIdData(group) \o DataOf(group, values) IN
  /\ blocks[group].info.flag = "none"
  /\ Len(Channels(group)) = Len(values)
  /\ \E room \in RoomsFor(bytes, Len(bytes)) :
       Sent(bytes, room, <<[group |-> group, ends |-> Len(bytes), kind |-> "values", said |-> values]>>)
  /\ UNCHANGED <<blocks, texts, taken, can>>

PackedFrame(frame, time, offset) ==
  Bytes(time, 4) \o Bytes(frame.id * 4, 4)
    \o <<(IF frame.transmit THEN 1 ELSE 0) + Len(frame.data) * 2,
         ((IF frame.fd THEN 1 ELSE 0) + Len(frame.data) * 4) % 256>> \o Bytes(offset, 4)
\* Mutant: the length in front of the data is not counted.
AdvancedWithout(offset, data) == offset + Len(data)

Advanced(offset, data) == offset + 4 + Len(data)
WriteCanbusDataRecordToStream(group, frame, time) ==
  LET vlsd == can[group].vlsd
      header == RecordIdData(group)
                  \o Put(Bytes(0, blocks[group].info.bytes), 0, PackedFrame(frame, time, can[group].offset))
      bytes == header \o RecordIdData(vlsd) \o Bytes(Len(frame.data), 4) \o frame.data
  IN /\ \E room \in RoomsFor(bytes, Len(header)) :
          /\ Sent(bytes, room,
                  <<[group |-> group, ends |-> Len(header), kind |-> "can", said |-> [time |-> time, frame |-> frame]],
                    [group |-> vlsd, ends |-> Len(bytes), kind |-> "vlsd", said |-> frame.data]>>)
          /\ can' = IF room = Len(bytes)
                    THEN [can EXCEPT ![group].offset = Advanced(@, frame.data)] ELSE can
     /\ UNCHANGED <<blocks, texts, taken>>
-----------------------------------------------------------------------------
Next ==
  \/ \E size \in IdSizes : CreateDataGroup(size)
  \/ \E dataGroup \in OfKind("DG"), id \in RecordIds[Cardinality(OfKind("CG")) + 1] :
       \/ \E name \in Names : CreateChannelGroup(dataGroup, id, name)
       \/ CreateVLSDChannelGroup(dataGroup, id)
       \/ \E vlsd \in OfKind("CG"), name \in Names :
            CreateCanDataFrameChannelGroup(dataGroup, vlsd, id, name)
  \/ \E group \in OfKind("CG"), type \in DOMAIN ChannelTypes, name \in Names, unit \in Names :
       CreateDataChannel(group, type, name, unit)
  \/ \E group \in OfKind("CG"), formula \in Formulas :
       \E channel \in ToSet(Channels(group)) : SetConversion(channel, formula)
  \/ \E room \in Rooms : WriteFileToStream(room)
  \/ \E group \in OfKind("CG"), values \in Values : WriteDataRecord(group, values)
  \/ \E group \in DOMAIN can, frame \in Frames, time \in Times :
       WriteCanbusDataRecordToStream(group, frame, time)

Spec == Init /\ [][Next]_vars
-----------------------------------------------------------------------------
\* Every link is of a kind that the block has a link for; the texts are where
\* they are looked up; CAN groups know a group of VLSD records.
Linked ==
  [HD |-> {"DG", "FH"}, FH |-> {"FH", "MD"}, DG |-> {"DG", "CG", "DT"}, DT |-> {}, SI |-> {"TX"},
   CG |-> {"CG", "CN", "TX", "SI"}, CN |-> {"CN", "TX", "CC", "CG"}, CC |-> {"TX"}, TX |-> {}, MD |-> {}]
TypeOK ==
  /\ \A i \in DOMAIN blocks : \A slot \in DOMAIN blocks[i].links :
       blocks[i].links[slot] = 0 \/ blocks[blocks[i].links[slot]].kind \in Linked[blocks[i].kind]
  /\ \A name \in DOMAIN texts : blocks[texts[name]].kind = "TX" /\ blocks[texts[name]].info = name
  /\ DOMAIN taken = OfKind("DG")
  /\ \A group \in DOMAIN can : blocks[can[group].vlsd].info.flag = "vlsd"

RECURSIVE Reached(_, _)
Reached(seen, next) ==
  IF next = {} THEN seen
  ELSE LET new == UNION {Range(blocks[i].links) : i \in next} \ (seen \cup {0})
       IN Reached(seen \cup new, new)
Whole == disk.failed = "no"
Places == DOMAIN disk.entries
At(address) == disk.entries[address]

\* A file that was written to its end has every block that the header leads to
\* once, and each link of each block is the place where the block it means
\* begins, at a multiple of eight; writing never meets a block without an
\* address (WriteToStream writes in the order of ResolveAddress, also when a
\* file was written before, or not to its end).
LinksPoint ==
  /\ disk.failed # "address"
  /\ Whole =>
       /\ Cardinality(Places) = Cardinality({At(a).of : a \in Places})
       /\ disk.known = Len(blocks) =>
            {At(a).of : a \in Places} = {0} \cup Reached({Header}, {Header})
       /\ \A a \in Places :
            /\ a % 8 = 0
            /\ \A slot \in DOMAIN At(a).to : At(a).to[slot] # 0 =>
                 At(a).links[slot] \in Places /\ At(At(a).links[slot]).of = At(a).to[slot]

\* Within a data group no two channel groups have the same record ID, and no
\* channel group is in two data groups (CreateChannelGroup and its kin).
IdsDiffer ==
  LET listed == {<<dataGroup, group>> \in OfKind("DG") \X OfKind("CG") : group \in ToSet(GroupsOf(dataGroup))}
  IN \A x, y \in listed : x # y =>
       x[2] # y[2] /\ (x[1] = y[1] => blocks[x[2]].info.id # blocks[y[2]].info.id)
-----------------------------------------------------------------------------
\* What a program finds that has only the file.
Number(bytes) ==
  FoldRight(LAMBDA byte, n : IF n >= 2 ^ 23 THEN 2 ^ 31 - 1 ELSE n * 256 + byte, bytes, 0)
NumberAt(bytes, at, size) == 
  Number([k \in 1 .. size |-> IF at + k \in DOMAIN bytes THEN bytes[at + k] ELSE 0])

RECURSIVE FileList(_)
FileList(address) == IF address = 0 THEN <<>> ELSE <<At(address)>> \o FileList(At(address).links.next)
FileDataGroup == Last(FileList(At(IdBlockSize).links.dg))
FileGroups == FileList(FileDataGroup.links.cg)
FileChannels(group) == FileList(group.links.cn)

RECURSIVE RecordsIn(_, _)
RecordsIn(data, count) ==
  LET size == FileDataGroup.info.size
      group == Head(SelectSeq(FileGroups, LAMBDA g : size = 0 \/ g.info.id = NumberAt(data, 0, size)))
      start == IF group.info.flag = "vlsd" THEN size + 4 ELSE size
      length == IF group.info.flag = "vlsd" THEN NumberAt(data, size, 4) ELSE group.info.bytes
  IN IF count = 0 THEN <<>>
     ELSE <<[group |-> group, bytes |-> SubSeq(data, start + 1, start + length)]>>
            \o RecordsIn(SubSeq(data, start + length + 1, Len(data)), count - 1)
Found == RecordsIn(disk.data, Len(disk.log))

\* A reader of an unfinished file, which takes what follows the data block of
\* the last data group as its data, finds each record that was written whole,
\* in order, as one of its group, and each channel's value in the place where
\* the channel's block says it is - up to the first record that a full stream
\* cut off or that belongs to what was added after the file was written.
RecordsFound ==
  disk.log # <<>> =>
    /\ FileDataGroup.links.dt + GetBlockSize(Block("DT", <<>>)) = disk.end
    /\ \A k \in DOMAIN disk.log :
         LET record == Found[k] said == disk.log[k].said channels == FileChannels(record.group) IN
         /\ record.group.of = disk.log[k].group
         /\ disk.log[k].kind = "vlsd" => record.bytes = said
         /\ disk.log[k].kind = "values" =>
              \A i \in DOMAIN channels :
                NumberAt(record.bytes, channels[i].info.offset, channels[i].info.bits \div 8)
                  = IF channels[i].info.bits = 0 THEN 0 ELSE said[i]

\* The part of a CAN frame that a channel of the array describes.
PartOf(record, name) ==
  LET part == Head(SelectSeq(FileList(FileChannels(record.group)[2].links.array),
                             LAMBDA c : At(c.links.name).info = "CAN_DataFrame." \o name))
      word == NumberAt(record.bytes, part.info.offset, (part.info.bit + part.info.bits + 7) \div 8)
  IN IF part.info.bits >= 29 THEN word \div 2 ^ part.info.bit
     ELSE (word \div 2 ^ part.info.bit) % 2 ^ part.info.bits
\* The bytes of the records of variable length of a group, one after another.
SignalData(group) ==
  FoldLeft(LAMBDA data, k :
             IF disk.log[k].group = group
             THEN data \o Bytes(Len(disk.log[k].said), 4) \o disk.log[k].said ELSE data,
           <<>>, [k \in DOMAIN disk.log |-> k])
AloneInGroup(group) == \A other \in DOMAIN can : can[other].vlsd = can[group].vlsd => other = group

\* The channels of a CAN frame give back the frame: its ID, direction and
\* length, and the offset of its bytes in the data of the group it names as
\* its signal data - when that group serves no other (each counts its offsets
\* for itself), and a length code where it is the length.
CanFramesRead ==
  \A k \in DOMAIN disk.log :
    (disk.log[k].kind = "can" /\ k + 1 \in DOMAIN disk.log) =>
      LET record == Found[k]
          frame == disk.log[k].said.frame
          data == SignalData(disk.log[k + 1].group)
          at == PartOf(record, "DataBytes")
      IN /\ NumberAt(record.bytes, 0, 4) = disk.log[k].said.time
         /\ PartOf(record, "ID") = frame.id /\ PartOf(record, "BusChannel") = 0
         /\ PartOf(record, "Dir") = IF frame.transmit THEN 1 ELSE 0
         /\ PartOf(record, "EDL") = IF frame.fd THEN 1 ELSE 0
         /\ PartOf(record, "DataLength") = Len(frame.data)
         /\ Len(frame.data) <= 8 => PartOf(record, "DLC") = Len(frame.data)
         /\ AloneInGroup(disk.log[k].group) =>
              /\ NumberAt(data, at, 4) = Len(frame.data)
              /\ SubSeq(data, at + 5, at + 4 + Len(frame.data)) = frame.data

\* The blocks of a file: each where the links of the others say it is, and each
\* group of records with an ID of its own.
FileInv == TypeOK /\ LinksPoint /\ IdsDiffer

\* The records behind them: every one is found, and every value and frame in it.
RecordsInv == RecordsFound /\ CanFramesRead
=============================================================================
