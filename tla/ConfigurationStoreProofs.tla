---------------------- MODULE ConfigurationStoreProofs ----------------------
(***************************************************************************)
(* Theorems about ConfigurationStore, for all configurations and bounds:   *)
(* every file operation preserves the inductive invariant, whose parts     *)
(* give the properties that the runs check.                                *)
(***************************************************************************)
EXTENDS ConfigurationStore, TLAPS

\* A fault of the card only raises its own count.
LEMMA CardFaultCount ==
  ASSUME count \in Bounded, CardFault
  PROVE  /\ count' \in Bounded
         /\ count'.closeFaults = count.closeFaults
         /\ count'.flashFaults = count.flashFaults
         /\ ~NoFault'
  BY BoundsAssumption DEF CardFault, Bounded, NoFault

\* The user's documents, and no checksum of none.
LEMMA UserDocuments ==
  /\ UserDocument \subseteq Document
  /\ \A d \in UserDocument : d.user = TRUE
  /\ NoSum \notin UserDocument
<1>1. UserDocument \subseteq Document
  BY DEF UserDocument, Document
<1>2. \A d \in UserDocument : d.user = TRUE
  BY DEF UserDocument
<1>3. QED
  BY <1>1, <1>2, FilesAssumption

\* A start only chooses whether the card mounts.
LEMMA PowerOnStep == ASSUME InductiveInv, PowerOn PROVE InductiveInv'
<1> USE DEF PowerOn, Goto, disk, history
<1>1. count' \in Bounded
  BY BoundsAssumption DEF InductiveInv, TypeOK, Bounded
<1>2. TypeOK'
  BY <1>1 DEF InductiveInv, TypeOK, Place
<1>3. NeverDefaulted'
  BY ConfigAssumption, FilesAssumption
     DEF InductiveInv, TypeOK, NeverDefaulted, Updating, MemoryInv
<1>4. MemoryInv'
  BY ConfigAssumption, FilesAssumption DEF InductiveInv, TypeOK, MemoryInv
<1>5. FlashInv'
  BY ConfigAssumption, FilesAssumption DEF InductiveInv, TypeOK, FlashInv, Updating
<1>6. CardInv'
  BY ConfigAssumption, FilesAssumption
     DEF InductiveInv, TypeOK, CardInv, OwnDocument, Vouched
<1>7. EditInv'
  BY ConfigAssumption, FilesAssumption
     DEF InductiveInv, TypeOK, EditInv, NoFault, BeingTakenIn
<1> QED
  BY <1>2, <1>3, <1>4, <1>5, <1>6, <1>7 DEF InductiveInv

\* The memory goes, the files stay.
LEMMA PowerLossStep == ASSUME InductiveInv, PowerLoss PROVE InductiveInv'
<1> USE DEF PowerLoss, Goto, disk, history
<1>1. NoTask \in Task
  BY ConfigAssumption DEF NoTask, Task
<1>2. TypeOK'
  BY <1>1 DEF InductiveInv, TypeOK, Place, Sum
<1>3. NeverDefaulted'
  BY ConfigAssumption, FilesAssumption
     DEF InductiveInv, TypeOK, NeverDefaulted, Updating, MemoryInv
<1>4. MemoryInv'
  BY ConfigAssumption, FilesAssumption DEF InductiveInv, TypeOK, MemoryInv
<1>5. FlashInv'
  BY ConfigAssumption, FilesAssumption DEF InductiveInv, TypeOK, FlashInv, Updating
<1>6. CardInv'
  BY ConfigAssumption, FilesAssumption
     DEF InductiveInv, TypeOK, CardInv, OwnDocument, Vouched
<1>7. EditInv'
  BY UserDocuments, FilesAssumption
     DEF InductiveInv, TypeOK, EditInv, NoFault, BeingTakenIn
<1> QED
  BY <1>2, <1>3, <1>4, <1>5, <1>6, <1>7 DEF InductiveInv

\* Taking the card out changes no file.
LEMMA CardOutStep == ASSUME InductiveInv, CardOut PROVE InductiveInv'
<1> USE DEF CardOut, Goto, disk, history
<1>1. TypeOK'
  BY DEF InductiveInv, TypeOK, Place
<1>2. NeverDefaulted'
  BY ConfigAssumption, FilesAssumption
     DEF InductiveInv, TypeOK, NeverDefaulted, Updating, MemoryInv
<1>3. MemoryInv'
  BY ConfigAssumption, FilesAssumption DEF InductiveInv, TypeOK, MemoryInv
<1>4. FlashInv'
  BY ConfigAssumption, FilesAssumption DEF InductiveInv, TypeOK, FlashInv, Updating
<1>5. CardInv'
  BY ConfigAssumption, FilesAssumption
     DEF InductiveInv, TypeOK, CardInv, OwnDocument, Vouched
<1>6. EditInv'
  BY ConfigAssumption, FilesAssumption
     DEF InductiveInv, TypeOK, EditInv, NoFault, BeingTakenIn
<1> QED
  BY <1>1, <1>2, <1>3, <1>4, <1>5, <1>6 DEF InductiveInv

\* What comes back is the old document or one of the user's.
LEMMA CardInStep == ASSUME InductiveInv, CardIn PROVE InductiveInv'
<1> USE DEF CardIn, Goto, disk, history
<1>1. count' \in Bounded
  BY BoundsAssumption DEF InductiveInv, TypeOK, Bounded
<1>2. UserDocument \subseteq Document
  BY DEF UserDocument, Document
<1>3. TypeOK'
  BY <1>1, <1>2 DEF InductiveInv, TypeOK, Place, Document, UserDocument
<1>4. NeverDefaulted'
  BY ConfigAssumption, FilesAssumption
     DEF InductiveInv, TypeOK, NeverDefaulted, Updating, MemoryInv
<1>5. MemoryInv'
  BY ConfigAssumption, FilesAssumption DEF InductiveInv, TypeOK, MemoryInv
<1>6. FlashInv'
  BY ConfigAssumption, FilesAssumption DEF InductiveInv, TypeOK, FlashInv, Updating
<1>7. CardInv'
  BY UserDocuments, FilesAssumption
     DEF InductiveInv, TypeOK, CardInv, OwnDocument, Vouched
<1>8. EditInv'
  BY UserDocuments, FilesAssumption
     DEF InductiveInv, TypeOK, EditInv, NoFault, BeingTakenIn
<1> QED
  BY <1>3, <1>4, <1>5, <1>6, <1>7, <1>8 DEF InductiveInv

\* The monitor changes no copy.
LEMMA SdMonitorHandlerStep == ASSUME InductiveInv, SdMonitorHandler PROVE InductiveInv'
<1> USE DEF SdMonitorHandler, Goto, disk, history
<1>1. TypeOK'
  BY DEF InductiveInv, TypeOK, Place
<1>2. NeverDefaulted'
  BY ConfigAssumption, FilesAssumption
     DEF InductiveInv, TypeOK, NeverDefaulted, Updating, MemoryInv
<1>3. MemoryInv'
  BY ConfigAssumption, FilesAssumption DEF InductiveInv, TypeOK, MemoryInv
<1>4. FlashInv'
  BY ConfigAssumption, FilesAssumption DEF InductiveInv, TypeOK, FlashInv, Updating
<1>5. CardInv'
  BY ConfigAssumption, FilesAssumption
     DEF InductiveInv, TypeOK, CardInv, OwnDocument, Vouched
<1>6. EditInv'
  BY ConfigAssumption, FilesAssumption
     DEF InductiveInv, TypeOK, EditInv, NoFault, BeingTakenIn
<1> QED
  BY <1>1, <1>2, <1>3, <1>4, <1>5, <1>6 DEF InductiveInv

\* A start loads the flash file, or there never was a successful update.
LEMMA LoadStep == ASSUME InductiveInv, Load PROVE InductiveInv'
<1> USE DEF Load, Begin, Goto, disk, history
<1>1. flash # NoFile => flash.config \in Config /\ flash.sum \in Sum
  BY DEF InductiveInv, TypeOK, FlashFile
<1>2. tried' \subseteq Config
  BY ConfigAssumption DEF InductiveInv, TypeOK
<1>3. [why |-> "default", config |-> Default, internal |-> FALSE] \in Task
  BY ConfigAssumption DEF Task
<1>4. task' \in Task
  BY <1>3 DEF InductiveInv, TypeOK
<1>5. TypeOK'
  BY <1>1, <1>2, <1>3, <1>4 DEF InductiveInv, TypeOK, Place
<1>6. NeverDefaulted'
  BY ConfigAssumption, FilesAssumption
     DEF InductiveInv, TypeOK, NeverDefaulted, Updating, MemoryInv
<1>7. MemoryInv'
  BY <1>1, ConfigAssumption DEF InductiveInv, TypeOK, MemoryInv
<1>8. FlashInv'
  BY ConfigAssumption, FilesAssumption DEF InductiveInv, TypeOK, FlashInv, Updating
<1>9. CardInv'
  BY ConfigAssumption, FilesAssumption
     DEF InductiveInv, TypeOK, CardInv, OwnDocument, Vouched
<1>10. EditInv'
  BY ConfigAssumption, FilesAssumption
     DEF InductiveInv, TypeOK, EditInv, NoFault, BeingTakenIn
<1> QED
  BY <1>5, <1>6, <1>7, <1>8, <1>9, <1>10 DEF InductiveInv

\* What is taken in is recorded as begun.
LEMMA ApplyJsonConfigurationStep ==
  ASSUME InductiveInv, ApplyJsonConfiguration PROVE InductiveInv'
<1> USE
   DEF ApplyJsonConfiguration, TakeIn, NothingNew, Begin, DocumentLoads,
       DocumentDoesNotLoad, Goto, disk, history
<1>1. /\ count' \in Bounded
      /\ count'.closeFaults = count.closeFaults
      /\ count'.flashFaults = count.flashFaults
      /\ (NoFault' => NoFault)
  BY CardFaultCount DEF InductiveInv, TypeOK, NoFault
<1>2. card \in Document => card.config \in Config \cup {Rejected}
  BY DEF Document
<1>3. config \in Config
  BY DEF InductiveInv, MemoryInv, TypeOK
<1>4. tried' \subseteq Config
  BY <1>2, <1>3 DEF InductiveInv, TypeOK
<1>5. \A c \in Config, i \in BOOLEAN :
        [why |-> "apply", config |-> c, internal |-> i] \in Task
  BY DEF Task
<1>6. task' \in Task
  BY <1>2, <1>3, <1>5 DEF InductiveInv, TypeOK
<1>7. sum' \in Sum
  BY DEF InductiveInv, TypeOK, Sum
<1>8. TypeOK'
  BY <1>1, <1>2, <1>3, <1>4, <1>5, <1>6, <1>7 DEF InductiveInv, TypeOK, Place
<1>9. NeverDefaulted'
  BY ConfigAssumption, FilesAssumption
     DEF InductiveInv, TypeOK, NeverDefaulted, Updating, MemoryInv
<1>10. MemoryInv'
  BY ConfigAssumption, FilesAssumption DEF InductiveInv, TypeOK, MemoryInv
<1>11. FlashInv'
  BY <1>1 DEF InductiveInv, FlashInv, Updating
<1>12. CardInv'
  BY <1>1, UserDocuments, FilesAssumption
     DEF InductiveInv, TypeOK, CardInv, OwnDocument, Vouched, MemoryInv, FlashInv,
         Updating
<1>13. EditInv'
  BY <1>1, UserDocuments, FilesAssumption
     DEF InductiveInv, TypeOK, EditInv, NoFault, BeingTakenIn, MemoryInv
<1> QED
  BY <1>8, <1>9, <1>10, <1>11, <1>12, <1>13 DEF InductiveInv

\* An update begins.
LEMMA UpdateStep == ASSUME InductiveInv, Update PROVE InductiveInv'
<1> USE DEF Update, Begin, Goto, disk, history
<1>1. count' \in Bounded
  BY BoundsAssumption DEF InductiveInv, TypeOK, Bounded
<1>2. task' \in Task /\ tried' \subseteq Config
  BY DEF InductiveInv, TypeOK, Task
<1>3. TypeOK'
  BY <1>1, <1>2 DEF InductiveInv, TypeOK, Place
<1>4. NeverDefaulted'
  BY ConfigAssumption, FilesAssumption
     DEF InductiveInv, TypeOK, NeverDefaulted, Updating, MemoryInv
<1>5. MemoryInv'
  BY ConfigAssumption, FilesAssumption DEF InductiveInv, TypeOK, MemoryInv
<1>6. FlashInv'
  BY ConfigAssumption, FilesAssumption DEF InductiveInv, TypeOK, FlashInv, Updating
<1>7. CardInv'
  BY ConfigAssumption, FilesAssumption
     DEF InductiveInv, TypeOK, CardInv, OwnDocument, Vouched
<1>8. EditInv'
  BY ConfigAssumption, FilesAssumption
     DEF InductiveInv, TypeOK, EditInv, NoFault, BeingTakenIn
<1> QED
  BY <1>3, <1>4, <1>5, <1>6, <1>7, <1>8 DEF InductiveInv

\* Without the card the document stays behind, which is recorded.
LEMMA ChooseCopiesStep == ASSUME InductiveInv, ChooseCopies PROVE InductiveInv'
<1> USE DEF ChooseCopies, Goto, disk, history
<1>1. TypeOK'
  BY DEF InductiveInv, TypeOK, Place
<1>2. NeverDefaulted'
  BY ConfigAssumption, FilesAssumption
     DEF InductiveInv, TypeOK, NeverDefaulted, Updating, MemoryInv
<1>3. MemoryInv'
  BY ConfigAssumption, FilesAssumption DEF InductiveInv, TypeOK, MemoryInv
<1>4. FlashInv'
  BY ConfigAssumption, FilesAssumption DEF InductiveInv, TypeOK, FlashInv, Updating
<1>5. CardInv'
  BY ConfigAssumption, FilesAssumption
     DEF InductiveInv, TypeOK, CardInv, OwnDocument, Vouched
<1>6. EditInv'
  BY ConfigAssumption, FilesAssumption
     DEF InductiveInv, TypeOK, EditInv, NoFault, BeingTakenIn
<1> QED
  BY <1>1, <1>2, <1>3, <1>4, <1>5, <1>6 DEF InductiveInv

\* Opening the document truncates it.
LEMMA OpenDocumentStep == ASSUME InductiveInv, OpenDocument PROVE InductiveInv'
<1> USE DEF OpenDocument, Goto, disk, history
<1>1. /\ count' \in Bounded
      /\ count'.closeFaults = count.closeFaults
      /\ count'.flashFaults = count.flashFaults
      /\ (NoFault' => NoFault)
  BY CardFaultCount DEF InductiveInv, TypeOK, NoFault
<1>2. inserted /\ pc' = "check" => ~NoFault'
  BY CardFaultCount DEF InductiveInv, TypeOK
<1>3. TypeOK'
  BY <1>1, <1>2 DEF InductiveInv, TypeOK, Place
<1>4. NeverDefaulted'
  BY ConfigAssumption, FilesAssumption
     DEF InductiveInv, TypeOK, NeverDefaulted, Updating, MemoryInv
<1>5. MemoryInv'
  BY ConfigAssumption, FilesAssumption DEF InductiveInv, TypeOK, MemoryInv
<1>6. FlashInv'
  BY <1>1 DEF InductiveInv, FlashInv, Updating
<1>7. CardInv'
  BY <1>1, UserDocuments, FilesAssumption
     DEF InductiveInv, TypeOK, CardInv, OwnDocument, Vouched, MemoryInv, FlashInv,
         Updating
<1>8. EditInv'
  BY <1>1, <1>2 DEF InductiveInv, TypeOK, EditInv, NoFault, BeingTakenIn
<1> QED
  BY <1>3, <1>4, <1>5, <1>6, <1>7, <1>8 DEF InductiveInv

\* Writing the document puts the update begun on the card.
LEMMA WriteDocumentStep == ASSUME InductiveInv, WriteDocument PROVE InductiveInv'
<1> USE DEF WriteDocument, Goto, disk, history
<1>1. /\ count' \in Bounded
      /\ count'.closeFaults = count.closeFaults
      /\ count'.flashFaults = count.flashFaults
      /\ (NoFault' => NoFault)
  BY CardFaultCount DEF InductiveInv, TypeOK, NoFault
<1>2. /\ [config |-> task.config, user |-> FALSE] \in Document
      /\ task.config \in Config
  BY DEF InductiveInv, TypeOK, Task, Document
<1>3. TypeOK'
  BY <1>1, <1>2 DEF InductiveInv, TypeOK, Place
<1>4. NeverDefaulted'
  BY ConfigAssumption, FilesAssumption
     DEF InductiveInv, TypeOK, NeverDefaulted, Updating, MemoryInv
<1>5. MemoryInv'
  BY ConfigAssumption, FilesAssumption DEF InductiveInv, TypeOK, MemoryInv
<1>6. FlashInv'
  BY <1>1 DEF InductiveInv, FlashInv, Updating
<1>7. CardInv'
  BY <1>1, UserDocuments, FilesAssumption
     DEF InductiveInv, TypeOK, CardInv, OwnDocument, Vouched, MemoryInv, FlashInv,
         Updating
<1>8. EditInv'
  BY <1>1, UserDocuments, FilesAssumption
     DEF InductiveInv, TypeOK, EditInv, NoFault, BeingTakenIn, MemoryInv
<1> QED
  BY <1>3, <1>4, <1>5, <1>6, <1>7, <1>8 DEF InductiveInv

\* The checksum read back is that of the document on the card.
LEMMA CheckDocumentStep == ASSUME InductiveInv, CheckDocument PROVE InductiveInv'
<1> USE
   DEF CheckDocument, Failed, DocumentLoads, DocumentDoesNotLoad, Goto, disk, history
<1>1. /\ count' \in Bounded
      /\ count'.closeFaults = count.closeFaults
      /\ count'.flashFaults = count.flashFaults
      /\ (NoFault' => NoFault)
  BY CardFaultCount DEF InductiveInv, TypeOK, NoFault
<1>2. TypeOK'
  BY <1>1 DEF InductiveInv, TypeOK, Place, Sum
<1>3. NeverDefaulted'
  BY ConfigAssumption, FilesAssumption
     DEF InductiveInv, TypeOK, NeverDefaulted, Updating, MemoryInv
<1>4. MemoryInv'
  BY ConfigAssumption, FilesAssumption DEF InductiveInv, TypeOK, MemoryInv
<1>5. FlashInv'
  BY <1>1 DEF InductiveInv, FlashInv, Updating
<1>6. CardInv'
  BY <1>1, UserDocuments, FilesAssumption
     DEF InductiveInv, TypeOK, CardInv, OwnDocument, Vouched, MemoryInv, FlashInv,
         Updating
<1>7. EditInv'
  BY <1>1, UserDocuments, FilesAssumption
     DEF InductiveInv, TypeOK, EditInv, NoFault, BeingTakenIn, MemoryInv
<1> QED
  BY <1>2, <1>3, <1>4, <1>5, <1>6, <1>7 DEF InductiveInv

\* The flash file now goes with the document on the card.
LEMMA SaveFlashStep == ASSUME InductiveInv, SaveFlash PROVE InductiveInv'
<1> USE DEF Goto, disk, history
<1>1. /\ task.config \in Config /\ sum \in Sum /\ flash \in FlashFile \cup {NoFile}
      /\ count \in Bounded /\ pc = "save" /\ Updating
  BY DEF InductiveInv, TypeOK, Task, SaveFlash, Updating
<1>2. /\ count.closeFaults \in Nat /\ count.flashFaults \in Nat
      /\ count.cardFaults \in Nat /\ count.closeFaults <= count.flashFaults
  BY <1>1, BoundsAssumption DEF Bounded, InductiveInv, FlashInv
<1> DEFINE file == [config |-> task.config, sum |-> sum]
<1>3. CASE /\ flash' = file
           /\ taken' = taken \cup {d \in {sum} \cap UserDocument : d.config = task.config}
           /\ pc' = "reload"
           /\ UNCHANGED <<config, sum, acked, tried, alone, count>>
           /\ UNCHANGED <<kind, card, inserted, present, task>>
  <2>1. file \in FlashFile /\ file.config = task.config /\ file.sum = sum
    BY <1>1 DEF FlashFile
  <2>2. flash' # NoFile
    BY <1>3, <2>1, FlashAssumption DEF FlashFile, Sum
  <2> HIDE DEF file
  <2>3. TypeOK'
    BY <1>3, <2>1 DEF InductiveInv, TypeOK, Place
  <2>4. NeverDefaulted' /\ MemoryInv'
    BY <1>1, <1>3, <2>2 DEF InductiveInv, NeverDefaulted, Updating, MemoryInv
  <2>5. FlashInv'
    BY <1>1, <1>3, <2>1, <2>2 DEF InductiveInv, FlashInv, Updating
  <2>6. CardInv'
    BY <1>1, <1>3, <2>1, <2>2 DEF InductiveInv, CardInv, OwnDocument, Vouched
  <2>7. EditInv'
    <3>1. NoFault /\ sum \in UserDocument => sum \in taken'
      BY <1>1, <1>3 DEF InductiveInv, EditInv, BeingTakenIn
    <3>2. QED
      BY <1>1, <1>3, <2>1, <3>1 DEF InductiveInv, EditInv, NoFault
  <2>8. QED
    BY <2>3, <2>4, <2>5, <2>6, <2>7 DEF InductiveInv
<1>4. CASE /\ FlashFault /\ pc' = "ready" /\ UNCHANGED <<config, sum, history, flash>>
           /\ UNCHANGED <<kind, card, inserted, present, task>>
  <2>1. /\ count' \in Bounded /\ ~NoFault'
        /\ count'.closeFaults = count.closeFaults
        /\ count'.closeFaults <= count'.flashFaults
    BY <1>1, <1>2, <1>4, BoundsAssumption DEF FlashFault, Bounded, NoFault
  <2>2. TypeOK'
    BY <1>4, <2>1 DEF InductiveInv, TypeOK, Place
  <2>3. NeverDefaulted' /\ MemoryInv' /\ FlashInv'
    BY <1>1, <1>4, <2>1
       DEF InductiveInv, NeverDefaulted, Updating, MemoryInv, FlashInv
  <2>4. CardInv' /\ EditInv'
    BY <1>1, <1>4, <2>1 DEF InductiveInv, CardInv, OwnDocument, Vouched, EditInv
  <2>5. QED
    BY <2>1, <2>2, <2>3, <2>4 DEF InductiveInv
<1>5. CASE /\ count.flashFaults < MaxFlashFaults
           /\ count' = [count EXCEPT !.flashFaults = @ + 1, !.closeFaults = @ + 1]
           /\ pc' = "reload" /\ UNCHANGED <<flash, config, sum, history>>
           /\ UNCHANGED <<kind, card, inserted, present, task>>
  <2>1. /\ count' \in Bounded /\ ~NoFault' /\ count'.closeFaults # 0
        /\ count'.closeFaults <= count'.flashFaults
    <3>1. /\ count'.closeFaults = count.closeFaults + 1
          /\ count'.flashFaults = count.flashFaults + 1
          /\ count'.cardFaults = count.cardFaults
      BY <1>1, <1>5 DEF Bounded
    <3>2. /\ count.closeFaults + 1 \in 0 .. MaxFlashFaults
          /\ count.flashFaults + 1 \in 0 .. MaxFlashFaults
      BY <1>2, <1>5, BoundsAssumption
    <3>3. count' \in Bounded
      BY <1>1, <1>5, <3>2 DEF Bounded
    <3>4. QED
      BY <1>2, <3>1, <3>3 DEF NoFault
  <2>2. TypeOK'
    BY <1>5, <2>1 DEF InductiveInv, TypeOK, Place
  <2>3. NeverDefaulted' /\ MemoryInv' /\ FlashInv'
    BY <1>1, <1>5, <2>1
       DEF InductiveInv, NeverDefaulted, Updating, MemoryInv, FlashInv
  <2>4. CardInv' /\ EditInv'
    BY <1>1, <1>5, <2>1 DEF InductiveInv, CardInv, OwnDocument, EditInv
  <2>5. QED
    BY <2>1, <2>2, <2>3, <2>4 DEF InductiveInv
<1>6. QED
  BY <1>3, <1>4, <1>5 DEF SaveFlash, Failed

\* Success makes the update begun the acknowledged one.
LEMMA ReloadStep == ASSUME InductiveInv, Reload PROVE InductiveInv'
<1> USE DEF Reload, Failed, Succeeded, Goto, disk, history
<1>1. flash # NoFile => flash.config \in Config /\ flash.sum \in Sum
  BY DEF InductiveInv, TypeOK, FlashFile
<1>2. acked' \in Config \cup {NoConfig} /\ tried' \subseteq Config
  BY DEF InductiveInv, TypeOK, Task
<1>3. TypeOK'
  BY <1>1, <1>2 DEF InductiveInv, TypeOK, Place
<1>4. NeverDefaulted'
  BY ConfigAssumption, FilesAssumption
     DEF InductiveInv, TypeOK, NeverDefaulted, Updating, MemoryInv
<1>5. MemoryInv'
  BY <1>1, ConfigAssumption DEF InductiveInv, TypeOK, MemoryInv
<1>6. FlashInv'
  BY ConfigAssumption, FilesAssumption DEF InductiveInv, TypeOK, FlashInv, Updating
<1>7. CardInv'
  BY ConfigAssumption, FilesAssumption
     DEF InductiveInv, TypeOK, CardInv, OwnDocument, Vouched
<1>8. EditInv'
  BY ConfigAssumption, FilesAssumption
     DEF InductiveInv, TypeOK, EditInv, NoFault, BeingTakenIn
<1> QED
  BY <1>3, <1>4, <1>5, <1>6, <1>7, <1>8 DEF InductiveInv

\* Reading the flash again changes only the memory.
LEMMA GetStep == ASSUME InductiveInv, Get PROVE InductiveInv'
<1> USE DEF Get, Goto, disk, history
<1>1. flash.config \in Config /\ flash.sum \in Sum
  BY DEF InductiveInv, TypeOK, FlashFile
<1>2. TypeOK'
  BY <1>1 DEF InductiveInv, TypeOK, Place
<1>3. NeverDefaulted'
  BY ConfigAssumption, FilesAssumption
     DEF InductiveInv, TypeOK, NeverDefaulted, Updating, MemoryInv
<1>4. MemoryInv'
  BY ConfigAssumption, FilesAssumption DEF InductiveInv, TypeOK, MemoryInv
<1>5. FlashInv'
  BY ConfigAssumption, FilesAssumption DEF InductiveInv, TypeOK, FlashInv, Updating
<1>6. CardInv'
  BY ConfigAssumption, FilesAssumption
     DEF InductiveInv, TypeOK, CardInv, OwnDocument, Vouched
<1>7. EditInv'
  BY ConfigAssumption, FilesAssumption
     DEF InductiveInv, TypeOK, EditInv, NoFault, BeingTakenIn
<1> QED
  BY <1>2, <1>3, <1>4, <1>5, <1>6, <1>7 DEF InductiveInv

\* A device fresh from the factory, with or without a card, satisfies it.
LEMMA InitInv == ASSUME Init PROVE InductiveInv
<1>1. TypeOK
  <2>1. NoTask \in Task
    BY ConfigAssumption DEF NoTask, Task
  <2>2. count \in Bounded
    BY BoundsAssumption DEF Init, Bounded
  <2>3. NoSum \in Sum /\ UserDocument \subseteq Document
    BY UserDocuments DEF Sum
  <2>4. QED
    BY <2>1, <2>2, <2>3 DEF Init, TypeOK, Place
<1>2. NeverDefaulted /\ MemoryInv /\ FlashInv
  BY DEF Init, NeverDefaulted, Updating, MemoryInv, FlashInv
<1>3. CardInv /\ EditInv
  BY UserDocuments, FilesAssumption DEF Init, CardInv, OwnDocument, EditInv
<1>4. QED
  BY <1>1, <1>2, <1>3 DEF InductiveInv

\* Every step of the manager, the card, its monitor and the power keeps it.
LEMMA NextInv == ASSUME InductiveInv, [Next]_vars PROVE InductiveInv'
<1>1. CASE Next
  BY <1>1, PowerOnStep, PowerLossStep, CardOutStep, CardInStep, SdMonitorHandlerStep,
     LoadStep, ApplyJsonConfigurationStep, UpdateStep, ChooseCopiesStep,
     OpenDocumentStep, WriteDocumentStep, CheckDocumentStep, SaveFlashStep,
     ReloadStep, GetStep DEF Next
<1>2. CASE UNCHANGED vars
  BY <1>2 DEF vars, InductiveInv, TypeOK, NeverDefaulted, Updating, MemoryInv,
              FlashInv, CardInv, OwnDocument, Vouched, EditInv, NoFault, BeingTakenIn
<1>3. QED
  BY <1>1, <1>2

\* The inductive invariant holds of every state of every run.
THEOREM Inductive == Spec => []InductiveInv
<1>1. QED
  BY InitInv, NextInv, PTL DEF Spec

\* Type correctness.
THEOREM TypeCorrect == Spec => []TypeOK
<1>1. InductiveInv => TypeOK
  BY DEF InductiveInv
<1>2. QED
  BY <1>1, Inductive, PTL

\* What is in effect is what the flash holds, and no older than the last update
\* that reported success (the constructor and Update of the managers).
THEOREM InEffectHolds == Spec => []InEffect
<1>1. InductiveInv => InEffect
  BY DEF InductiveInv, TypeOK, MemoryInv, FlashInv, InEffect
<1>2. QED
  BY <1>1, Inductive, PTL

\* After a successful update no start creates the default.
THEOREM NeverDefaultedHolds == Spec => []NeverDefaulted
<1>1. InductiveInv => NeverDefaulted
  BY DEF InductiveInv
<1>2. QED
  BY <1>1, Inductive, PTL

\* Without a failing write no document of the user is passed over.
THEOREM NoHiddenEditHolds == Spec => []NoHiddenEdit
<1>1. InductiveInv => NoHiddenEdit
  BY DEF InductiveInv, EditInv, NoFault, NoHiddenEdit
<1>2. QED
  BY <1>1, Inductive, PTL

\* A start takes from the device's own document nothing older than the last
\* successful update: the document is that update's, one begun since, or the
\* one the flash file vouches for, which is not taken in.
THEOREM UnrevertedHolds == Spec => Unreverted
<1> DEFINE A == pc = "apply" /\ pc' = "update" /\ card \in Document /\ ~card.user
                  /\ ~alone /\ count.closeFaults = 0
                    => task'.config \in {acked} \cup tried
<1>1. ASSUME InductiveInv, [Next]_vars
      PROVE  [A]_vars
  <2>1. SUFFICES ASSUME pc = "apply", pc' = "update", OwnDocument
                 PROVE  task'.config \in {acked} \cup tried
    BY DEF OwnDocument
  <2>2. ApplyJsonConfiguration
    BY <1>1, <2>1 DEF Next, vars, PowerOn, PowerLoss, CardOut, CardIn, SdMonitorHandler,
       Load, Update, ChooseCopies, OpenDocument, WriteDocument, CheckDocument,
       SaveFlash, Reload, Get, Goto
  <2>3. /\ card.config \in {acked} \cup tried \/ Vouched
        /\ sum = flash.sum /\ config = flash.config
        /\ flash # NoFile /\ flash.config \in {acked} \cup tried
    BY <1>1, <2>1 DEF InductiveInv, CardInv, MemoryInv, FlashInv, OwnDocument
  <2>4. \/ task'.config = card.config /\ card # sum
        \/ task'.config = config
    BY <2>1, <2>2 DEF ApplyJsonConfiguration, TakeIn, NothingNew, Begin, Goto
  <2>5. QED
    BY <2>3, <2>4 DEF Vouched
<1>2. QED
  BY <1>1, Inductive, PTL DEF Spec, Unreverted
=============================================================================
