------------------------- MODULE ConfigurationStore -------------------------
(***************************************************************************)
(* A configuration and its two copies: the CBOR file on the internal       *)
(* flash, which the device starts from, and the JSON document on the SD    *)
(* card, which the user may edit (SensorsConfigurationManager,             *)
(* AdcConfigurationManager, CanbusConfigurationManager over the Cbor and   *)
(* JsonConfigurationService).  The flash file records the checksum of the  *)
(* document it goes with; a document with another checksum is taken in at  *)
(* the next start.  The power may fail between any two file operations,    *)
(* the card may come and go, and every write may fail.                     *)
(*                                                                         *)
(* A document is [config, user]: what it says, and whether its text is the *)
(* user's or the one Serialize gives for that configuration.  Texts do not *)
(* share a checksum, so a document is its own checksum; an initial or      *)
(* uninitialised json_config_checksum_ is NoSum, the checksum of no text.  *)
(* The flash file system replaces a file when it is closed (littlefs); the *)
(* one of the card truncates it when it is opened (FAT).                   *)
(***************************************************************************)
EXTENDS Naturals

CONSTANTS
  Config,        \* configurations the parsers accept
  Default,       \* what CreateDefaultConfiguration saves
  Kinds,         \* the managers to look at
  NoConfig,      \* no configuration in memory
  Rejected,      \* the content of a document the parser throws at
  NoFile, Torn, NoSum,
  MaxBoots, MaxUpdates, MaxSwaps, MaxCardFaults, MaxFlashFaults

ASSUME ConfigAssumption == Default \in Config /\ {NoConfig, Rejected} \cap Config = {}
ASSUME KindsAssumption == Kinds \subseteq {"sensors", "adc", "canbus"}
ASSUME BoundsAssumption ==
  {MaxBoots, MaxUpdates, MaxSwaps, MaxCardFaults, MaxFlashFaults} \subseteq Nat

Document == [config : Config \cup {Rejected}, user : BOOLEAN]
ASSUME FilesAssumption == {NoFile, Torn, NoSum} \cap Document = {}
ASSUME FlashAssumption ==
  NoFile \notin [config : Config, sum : Document \cup {NoSum}] /\ NoFile # Torn

UserDocument == [config : Config \cup {Rejected}, user : {TRUE}]
Sum == Document \cup {NoSum}
FlashFile == [config : Config, sum : Sum]

VARIABLES
  kind,      \* which manager this is
  flash,     \* config/<name>.cbor
  card,      \* the document on the card, NoFile or Torn
  inserted,  \* the card is in its slot
  present,   \* SdmmcService::sd_card_present_
  pc,        \* where the manager is
  config,    \* configuration_ (sensors_)
  sum,       \* json_config_checksum_
  task,      \* the update under way
  acked,     \* history: the last update that reported success
  tried,     \* history: the updates begun since
  alone,     \* history: an update was made without the card
  taken,     \* history: the user's documents that reached the flash
  count      \* how often each bounded thing happened
vars == <<kind, flash, card, inserted, present, pc, config, sum, task,
          acked, tried, alone, taken, count>>
disk == <<flash, card>>
history == <<acked, tried, alone, taken>>

Place == {"off", "load", "apply", "update", "open", "write", "check", "save",
          "reload", "ready"}
NoTask == [why |-> "default", config |-> Default, internal |-> FALSE]
Task == [why : {"default", "apply", "update"}, config : Config, internal : BOOLEAN]
Bounded == [boots : 0 .. MaxBoots, updates : 0 .. MaxUpdates, swaps : 0 .. MaxSwaps,
            cardFaults : 0 .. MaxCardFaults, flashFaults : 0 .. MaxFlashFaults,
            closeFaults : 0 .. MaxFlashFaults]

TypeOK ==
  /\ kind \in Kinds
  /\ flash \in FlashFile \cup {NoFile}
  /\ card \in Document \cup {NoFile, Torn}
  /\ inserted \in BOOLEAN /\ present \in BOOLEAN
  /\ pc \in Place
  /\ config \in Config \cup {NoConfig} /\ sum \in Sum
  /\ task \in Task
  /\ acked \in Config \cup {NoConfig} /\ tried \subseteq Config
  /\ alone \in BOOLEAN /\ taken \subseteq UserDocument
  /\ count \in Bounded

Init ==
  /\ kind \in Kinds
  /\ flash = NoFile
  /\ card \in {NoFile} \cup UserDocument
  /\ inserted \in BOOLEAN /\ present = FALSE
  /\ pc = "off" /\ config = NoConfig /\ sum = NoSum
  /\ task = NoTask
  /\ acked = NoConfig /\ tried = {} /\ alone = FALSE /\ taken = {}
  /\ count = [boots |-> 0, updates |-> 0, swaps |-> 0, cardFaults |-> 0,
              flashFaults |-> 0, closeFaults |-> 0]
-----------------------------------------------------------------------------
Goto(place) == pc' = place
CardFault ==
  /\ count.cardFaults < MaxCardFaults
  /\ count' = [count EXCEPT !.cardFaults = @ + 1]
FlashFault ==
  /\ count.flashFaults < MaxFlashFaults
  /\ count' = [count EXCEPT !.flashFaults = @ + 1]

\* JsonConfigurationService::Load finds a document and can read it.
DocumentLoads == inserted /\ card \in Document /\ UNCHANGED count
\* It finds none, or the card cannot be read this time.
DocumentDoesNotLoad ==
  \/ ~(inserted /\ card \in Document) /\ UNCHANGED count
  \/ inserted /\ card \in Document /\ CardFault
-----------------------------------------------------------------------------
(***************************************************************************)
(* The power, the card and its monitor.                                    *)
(***************************************************************************)
PowerOn ==
  /\ pc = "off" /\ count.boots < MaxBoots
  /\ count' = [count EXCEPT !.boots = @ + 1]
  /\ present' \in {inserted, FALSE}  \* it may fail to mount
  /\ Goto("load")
  /\ UNCHANGED <<kind, disk, inserted, config, sum, task, history>>

PowerLoss ==
  /\ pc # "off"
  /\ Goto("off")
  /\ config' = NoConfig /\ sum' = NoSum /\ task' = NoTask
  /\ UNCHANGED <<kind, disk, inserted, present, history, count>>

CardOut ==
  /\ inserted
  /\ inserted' = FALSE
  /\ UNCHANGED <<kind, disk, present, pc, config, sum, task, history, count>>

\* The user may have edited, replaced or deleted the document meanwhile.  It
\* takes longer to swap a card than to read back what was written to it.
CardIn ==
  /\ ~inserted /\ pc \notin {"write", "check"} /\ count.swaps < MaxSwaps
  /\ count' = [count EXCEPT !.swaps = @ + 1]
  /\ inserted' = TRUE
  /\ card' \in {card, NoFile} \cup UserDocument
  /\ UNCHANGED <<kind, flash, present, pc, config, sum, task, history>>

SdMonitorHandler ==
  /\ pc # "off" /\ present # inserted
  /\ present' = inserted
  /\ UNCHANGED <<kind, disk, inserted, pc, config, sum, task, history, count>>
-----------------------------------------------------------------------------
(***************************************************************************)
(* The constructor of a manager.                                           *)
(***************************************************************************)
Begin(why, c, internal) ==
  /\ Goto("update")
  /\ task' = [why |-> why, config |-> c, internal |-> internal]
  /\ tried' = tried \cup {c}

\* Mutant: a start without a card begins from the default.
LoadOrDefault ==
  /\ pc = "load"
  /\ IF flash # NoFile /\ present
     THEN /\ Goto("apply")
          /\ config' = flash.config /\ sum' = flash.sum
          /\ UNCHANGED <<task, tried>>
     ELSE /\ Begin("default", Default, FALSE)
          /\ UNCHANGED <<config, sum>>
  /\ UNCHANGED <<kind, disk, inserted, present, acked, alone, taken, count>>

\* Get(true), and CreateDefaultConfiguration when there is no file to load.
Load ==
  /\ pc = "load"
  /\ IF flash # NoFile
     THEN /\ Goto("apply")
          /\ config' = flash.config /\ sum' = flash.sum
          /\ UNCHANGED <<task, tried>>
     ELSE /\ Begin("default", Default, FALSE)
          /\ UNCHANGED <<config, sum>>
  /\ UNCHANGED <<kind, disk, inserted, present, acked, alone, taken, count>>

\* The document is the one the flash file goes with, or the parser throws.
NothingNew == card.config = Rejected \/ card = sum

TakeIn ==
  /\ Begin("apply", card.config, kind # "canbus")
  /\ sum' = IF kind = "canbus" THEN sum ELSE card

\* Mutant: the checksum is taken over before the document is parsed.
TakeOverThenParse ==
  /\ pc = "apply"
  /\ \/ /\ ~present
        /\ Goto("ready")
        /\ UNCHANGED <<sum, task, tried, count>>
     \/ /\ present /\ DocumentLoads
        /\ IF NothingNew
           THEN Goto("ready") /\ sum' = card /\ UNCHANGED <<task, tried>>
           ELSE TakeIn
     \/ /\ present /\ DocumentDoesNotLoad
        /\ Goto("ready")
        /\ UNCHANGED <<sum, task, tried>>
  /\ UNCHANGED <<kind, disk, inserted, present, config, acked, alone, taken>>

\* The CAN bus manager writes a document that it could not load anew.
ApplyJsonConfiguration ==
  /\ pc = "apply"
  /\ \/ /\ ~present
        /\ Goto("ready")
        /\ UNCHANGED <<sum, task, tried, count>>
     \/ /\ present /\ DocumentLoads
        /\ IF NothingNew
           THEN Goto("ready") /\ UNCHANGED <<sum, task, tried>>
           ELSE TakeIn
     \/ /\ present /\ DocumentDoesNotLoad
        /\ IF kind = "canbus"
           THEN Begin("apply", config, FALSE)
           ELSE Goto("ready") /\ UNCHANGED <<task, tried>>
        /\ UNCHANGED sum
  /\ UNCHANGED <<kind, disk, inserted, present, config, acked, alone, taken>>
-----------------------------------------------------------------------------
(***************************************************************************)
(* Update: the document first, then the flash file, then both are read     *)
(* back.  A default that fails leaves the manager without a configuration. *)
(***************************************************************************)
Update ==
  /\ pc = "ready" /\ count.updates < MaxUpdates
  /\ count' = [count EXCEPT !.updates = @ + 1]
  /\ \E c \in Config : Begin("update", c, FALSE)
  /\ UNCHANGED <<kind, disk, inserted, present, config, sum, acked, alone, taken>>

Failed == Goto("ready") /\ UNCHANGED <<config, sum, history>>

ChooseCopies ==
  /\ pc = "update"
  /\ Goto(IF ~task.internal /\ present THEN "open" ELSE "save")
  /\ alone' = (alone \/ (~task.internal /\ ~present))
  /\ UNCHANGED <<kind, disk, inserted, present, config, sum, task, acked, tried, taken,
                 count>>

\* WriteFile on the card; JsonConfigurationService::Save has its result ignored.
OpenDocument ==
  /\ pc = "open"
  /\ \/ inserted /\ card' = Torn /\ Goto("write") /\ UNCHANGED count
     \/ Goto("check") /\ UNCHANGED card /\ IF inserted THEN CardFault ELSE UNCHANGED count
  /\ UNCHANGED <<kind, flash, inserted, present, config, sum, task, history>>

WriteDocument ==
  /\ pc = "write"
  /\ Goto("check")
  /\ \/ /\ inserted
        /\ card' = [config |-> task.config, user |-> FALSE]
        /\ UNCHANGED count
     \/ UNCHANGED card /\ IF inserted THEN CardFault ELSE UNCHANGED count
  /\ UNCHANGED <<kind, flash, inserted, present, config, sum, task, history>>

\* Mutant: the checksum of the document is not taken over.
CheckWithoutChecksum ==
  /\ pc = "check"
  /\ \/ DocumentLoads /\ Goto("save") /\ UNCHANGED <<config, sum, history>>
     \/ DocumentDoesNotLoad /\ Failed
  /\ UNCHANGED <<kind, disk, inserted, present, task>>

CheckDocument ==
  /\ pc = "check"
  /\ \/ DocumentLoads /\ Goto("save") /\ sum' = card /\ UNCHANGED <<config, history>>
     \/ DocumentDoesNotLoad /\ Failed
  /\ UNCHANGED <<kind, disk, inserted, present, task>>

\* CborConfigurationService::Save: written, failed, or failed at fs_close,
\* whose result WriteFile ignores.
SaveFlash ==
  /\ pc = "save"
  /\ \/ /\ flash' = [config |-> task.config, sum |-> sum]
        /\ taken' = taken \cup {d \in {sum} \cap UserDocument : d.config = task.config}
        /\ Goto("reload")
        /\ UNCHANGED <<config, sum, acked, tried, alone, count>>
     \/ FlashFault /\ Failed /\ UNCHANGED flash
     \/ /\ count.flashFaults < MaxFlashFaults
        /\ count' = [count EXCEPT !.flashFaults = @ + 1, !.closeFaults = @ + 1]
        /\ Goto("reload")
        /\ UNCHANGED <<flash, config, sum, history>>
  /\ UNCHANGED <<kind, card, inserted, present, task>>

Succeeded ==
  /\ Goto(IF task.why = "default" THEN "apply" ELSE "ready")
  /\ acked' = task.config /\ tried' = {}
  /\ UNCHANGED <<alone, taken>>

\* Mutant: the configuration in memory is left as it is.
KeepMemory ==
  /\ pc = "reload"
  /\ flash # NoFile /\ Succeeded
  /\ config' = IF config = NoConfig THEN flash.config ELSE config
  /\ sum' = flash.sum
  /\ UNCHANGED <<kind, disk, inserted, present, task, count>>

\* Get(true).
Reload ==
  /\ pc = "reload"
  /\ IF flash = NoFile THEN Failed
     ELSE config' = flash.config /\ sum' = flash.sum /\ Succeeded
  /\ UNCHANGED <<kind, disk, inserted, present, task, count>>

\* Get() reads the flash again when it has no configuration in memory, which
\* for the sensors an empty one, the default, looks like.
Get ==
  /\ pc = "ready" /\ flash # NoFile
  /\ config \in {NoConfig} \cup (IF kind = "sensors" THEN {Default} ELSE {})
  /\ config' = flash.config /\ sum' = flash.sum
  /\ UNCHANGED <<kind, disk, inserted, present, pc, task, history, count>>
-----------------------------------------------------------------------------
Next ==
  \/ PowerOn \/ PowerLoss \/ CardOut \/ CardIn \/ SdMonitorHandler
  \/ Load \/ ApplyJsonConfiguration \/ Update \/ ChooseCopies
  \/ OpenDocument \/ WriteDocument \/ CheckDocument \/ SaveFlash \/ Reload \/ Get

Spec == Init /\ [][Next]_vars
-----------------------------------------------------------------------------
Updating == pc \in {"update", "open", "write", "check", "save", "reload"}

\* Whenever no update is under way, the configuration in memory is the one of
\* the flash file, and it is the last one whose update reported success or one
\* begun after that: never an older one.  (An update may report success without
\* success when the flash fails at the close of the file.)
InEffect ==
  pc = "ready" /\ config # NoConfig =>
    /\ flash # NoFile /\ config = flash.config
    /\ count.closeFaults = 0 => config \in {acked} \cup tried

\* Once an update has succeeded, no start ever creates the default again,
\* wherever the power failed.
NeverDefaulted == Updating /\ task.why = "default" => acked = NoConfig

\* A start takes in, of what the device itself wrote to the card, only the last
\* successful update or one begun after it: an interrupted update is completed,
\* never dug up again.  (It may be once an update was made without the card, or
\* one was reported that did not reach the flash.)
Unreverted ==
  [][pc = "apply" /\ pc' = "update" /\ card \in Document /\ ~card.user
       /\ ~alone /\ count.closeFaults = 0
         => task'.config \in {acked} \cup tried]_vars

\* The flash file never vouches for a document of the user that the device
\* did not take in, as long as no write fails: no edit is passed over.
NoHiddenEdit ==
  count.cardFaults + count.flashFaults = 0 /\ flash # NoFile =>
    (flash.sum \in UserDocument => flash.sum \in taken)
-----------------------------------------------------------------------------
(***************************************************************************)
(* The inductive invariant behind the theorems, in four parts.             *)
(***************************************************************************)
\* The memory follows the flash file, but between the save and the reload.
MemoryInv ==
  /\ pc \in {"off", "load"} => config = NoConfig /\ sum = NoSum
  /\ pc = "apply" => config # NoConfig /\ sum = flash.sum
  /\ flash = NoFile => config = NoConfig /\ acked = NoConfig
  /\ pc # "reload" /\ config # NoConfig => config = flash.config

\* The flash holds the acknowledged configuration or one begun since.
FlashInv ==
  /\ count.closeFaults <= count.flashFaults
  /\ Updating => task.config \in tried
  /\ count.closeFaults = 0 /\ flash # NoFile => flash.config \in {acked} \cup tried
  /\ count.closeFaults = 0 /\ pc = "reload" =>
       flash # NoFile /\ flash.config = task.config

\* What the device wrote to the card is no older, or the flash vouches for it.
OwnDocument ==
  card \in Document /\ ~card.user /\ ~alone /\ count.closeFaults = 0
Vouched == flash # NoFile /\ flash.sum = card
CardInv ==
  OwnDocument =>
    /\ card.config \in {acked} \cup tried \/ Vouched
    /\ pc = "update" /\ task.internal => card = sum
    /\ pc = "save" => card = sum
    /\ pc = "reload" => Vouched

\* A checksum of a document of the user is only ever that of one taken in.
NoFault == count.cardFaults + count.flashFaults = 0
BeingTakenIn ==
  pc \in {"update", "save"} /\ task.internal /\ sum.config = task.config
EditInv ==
  /\ pc = "write" => card = Torn
  /\ NoFault =>
       /\ flash # NoFile /\ flash.sum \in UserDocument => flash.sum \in taken
       /\ sum \in UserDocument => sum \in taken \/ BeingTakenIn
       /\ pc = "check" /\ inserted /\ card \in Document => ~card.user

InductiveInv ==
  TypeOK /\ NeverDefaulted /\ MemoryInv /\ FlashInv /\ CardInv /\ EditInv
=============================================================================
