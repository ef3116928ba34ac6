----------------------------- MODULE MdfBlocks -----------------------------
(***************************************************************************)
(* The blocks of an MDF 4 file: what each kind holds, how blocks are linked*)
(* to one another in memory, and how they get their addresses and reach a  *)
(* stream.  A block is known by its index in the sequence of all blocks    *)
(* made; link 0 is a null pointer.                                         *)
(***************************************************************************)
EXTENDS Naturals, FiniteSets, Sequences, SequencesExt, Functions, TLC

\* The links of a block in the order they have in the file, and the order in
\* which it hands addresses to the blocks it links, resets and writes them.
HeaderBlock ==
  [links |-> <<"dg", "fh", "ch", "at", "ev", "md">>, children |-> <<"md", "fh", "ch", "at", "ev", "dg">>]
FileHistoryBlock == [links |-> <<"next", "md">>, children |-> <<"md", "next">>]
DataGroupBlock ==
  [links |-> <<"next", "cg", "dt", "md">>, children |-> <<"md", "cg", "dt", "next">>]
ChannelGroupBlock ==
  [links |-> <<"next", "cn", "name", "si", "sr", "md">>,
   children |-> <<"md", "name", "si", "sr", "cn", "next">>]
ChannelBlock ==
  [links |-> <<"next", "array", "name", "si", "cc", "sd", "unit", "md">>,
   children |-> <<"md", "name", "unit", "si", "cc", "array", "sd", "next">>]
SourceInformationBlock == LET all == <<"name", "path", "md">> IN [links |-> all, children |-> all]
ChannelConversionBlock ==
  LET all == <<"name", "unit", "md", "inverse", "ref">> IN [links |-> all, children |-> all]
BlockLinksEmpty == [links |-> <<>>, children |-> <<>>]
Shape ==
  [HD |-> HeaderBlock, FH |-> FileHistoryBlock, DG |-> DataGroupBlock, CG |-> ChannelGroupBlock,
   CN |-> ChannelBlock, SI |-> SourceInformationBlock, CC |-> ChannelConversionBlock,
   DT |-> BlockLinksEmpty, TX |-> BlockLinksEmpty, MD |-> BlockLinksEmpty]

\* The bytes of a block's own fields, behind its links.
FieldBytes == [HD |-> 32, FH |-> 16, DG |-> 8, DT |-> 0, CG |-> 32, CN |-> 72, SI |-> 8, CC |-> 24]
AlignedTextSize(text) == Len(text) + (8 - (Len(text) % 8))
GetBlockSize(b) ==
  24 + 8 * Len(Shape[b.kind].links)
     + IF b.kind \in {"TX", "MD"} THEN AlignedTextSize(b.info) ELSE FieldBytes[b.kind]

\* A new block: its links, and its fields or its text.
Block(kind, info) ==
  [kind |-> kind, links |-> [slot \in ToSet(Shape[kind].links) |-> 0], info |-> info,
   address |-> 0, serialized |-> FALSE]
-----------------------------------------------------------------------------
\* Linking a block behind the last of a list; behind the list that a link
\* starts, or as its first.
RECURSIVE LastOf(_, _)
LastOf(blocks, i) ==
  IF blocks[i].links.next = 0 THEN i ELSE LastOf(blocks, blocks[i].links.next)
LinkBlock(blocks, i, new) == [blocks EXCEPT ![LastOf(blocks, i)].links.next = new]
AddTo(blocks, i, slot, new) ==
  IF blocks[i].links[slot] = 0 THEN [blocks EXCEPT ![i].links[slot] = new]
  ELSE LinkBlock(blocks, blocks[i].links[slot], new)

RECURSIVE ListFrom(_, _)
ListFrom(blocks, i) == IF i = 0 THEN <<>> ELSE <<i>> \o ListFrom(blocks, blocks[i].links.next)

ChildrenOf(blocks, i) ==
  LET children == Shape[blocks[i].kind].children
  IN SelectSeq([k \in DOMAIN children |-> blocks[i].links[children[k]]], LAMBDA child : child # 0)
-----------------------------------------------------------------------------
\* Mutant: the blocks behind it are not reset.
ResetAlone(blocks, i) == [blocks EXCEPT ![i].address = 0, ![i].serialized = FALSE]

\* A block that has no address and was not written ends the reset.
RECURSIVE Reset(_, _)
Reset(blocks, i) ==
  IF blocks[i].address = 0 /\ ~blocks[i].serialized THEN blocks
  ELSE FoldLeft(Reset, [blocks EXCEPT ![i].address = 0, ![i].serialized = FALSE],
                ChildrenOf(blocks, i))

\* The block gets the next address; then those it links that have none yet.
RECURSIVE ResolveAddress(_, _)
ResolveAddress(w, i) ==
  FoldLeft(LAMBDA done, child :
             IF done.blocks[child].address = 0 THEN ResolveAddress(done, child) ELSE done,
           [blocks |-> [w.blocks EXCEPT ![i].address = w.next],
            next |-> w.next + GetBlockSize(w.blocks[i])],
           ChildrenOf(w.blocks, i))

\* What is written of a block: the addresses of the blocks it links.
Serialize(blocks, i) ==
  [of |-> i, kind |-> blocks[i].kind, info |-> blocks[i].info, to |-> blocks[i].links,
   links |-> [slot \in DOMAIN blocks[i].links |->
                IF blocks[i].links[slot] = 0 THEN 0 ELSE blocks[blocks[i].links[slot]].address]]
InvalidBlockAddress(blocks, i) ==
  \E slot \in DOMAIN blocks[i].links :
    blocks[i].links[slot] # 0 /\ blocks[blocks[i].links[slot]].address = 0

\* Writing stops at the first block with a link that has no address, and when
\* the stream takes no more blocks than `room`.
RECURSIVE WriteToStream(_, _)
WriteToStream(w, i) ==
  IF w.failed # "no" THEN w
  ELSE IF InvalidBlockAddress(w.blocks, i) THEN [w EXCEPT !.failed = "address"]
  ELSE LET serialized == [w EXCEPT !.blocks[i].serialized = TRUE] IN
       IF Cardinality(DOMAIN w.entries) = w.room THEN [serialized EXCEPT !.failed = "stream"]
       ELSE FoldLeft(LAMBDA done, child :
                       IF done.blocks[child].serialized THEN done ELSE WriteToStream(done, child),
                     [serialized EXCEPT !.entries = (w.next :> Serialize(w.blocks, i)) @@ @,
                                        !.next = @ + GetBlockSize(w.blocks[i])],
                     ChildrenOf(w.blocks, i))
=============================================================================
