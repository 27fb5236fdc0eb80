------------------------ MODULE ValheimControlProofs ------------------------
(***************************************************************************)
(* Proofs about ValheimControl, for every set of worlds, settings and      *)
(* overlapping commands.                                                   *)
(***************************************************************************)
EXTENDS ValheimControl, TLAPS

Names == Worlds \cup {NoWorld}

Places == {"idle", "over", "describe", "inventory", "players", "read", "write",
           "stop", "wait", "start"}

CommandState ==
    [pc : Places, kind : AllKinds, name : Names, status : Status,
     active : Names, args : SUBSET Settings, inv : SUBSET Worlds, md : Config,
     last : BOOLEAN, said : {"nothing", "booting"}, late : BOOLEAN]

CommandsOK == cmd \in [Commands -> CommandState]

LEMMA FieldType ==
    ASSUME NEW r \in CommandState
    PROVE  /\ \A x \in Places : [r EXCEPT !.pc = x] \in CommandState
           /\ \A x \in Status : [r EXCEPT !.status = x] \in CommandState
           /\ \A x \in Names : [r EXCEPT !.active = x] \in CommandState
           /\ \A x \in SUBSET Settings : [r EXCEPT !.args = x] \in CommandState
           /\ \A x \in SUBSET Worlds : [r EXCEPT !.inv = x] \in CommandState
           /\ \A x \in Config : [r EXCEPT !.md = x] \in CommandState
           /\ \A x \in AllKinds : [r EXCEPT !.kind = x] \in CommandState
           /\ \A x \in Names : [r EXCEPT !.name = x] \in CommandState
           /\ \A x \in BOOLEAN : [r EXCEPT !.last = x] \in CommandState
           /\ \A x \in {"nothing", "booting"} : [r EXCEPT !.said = x] \in CommandState
           /\ \A x \in BOOLEAN : [r EXCEPT !.late = x] \in CommandState
  <1>1. \A x \in Places : [r EXCEPT !.pc = x] \in CommandState
    BY DEF CommandState
  <1>2. \A x \in Status : [r EXCEPT !.status = x] \in CommandState
    BY DEF CommandState
  <1>3. \A x \in Names : [r EXCEPT !.active = x] \in CommandState
    BY DEF CommandState
  <1>4. \A x \in SUBSET Settings : [r EXCEPT !.args = x] \in CommandState
    BY DEF CommandState
  <1>5. \A x \in SUBSET Worlds : [r EXCEPT !.inv = x] \in CommandState
    BY DEF CommandState
  <1>6. \A x \in Config : [r EXCEPT !.md = x] \in CommandState
    BY DEF CommandState
  <1>7. \A x \in AllKinds : [r EXCEPT !.kind = x] \in CommandState
    BY DEF CommandState
  <1>8. \A x \in Names : [r EXCEPT !.name = x] \in CommandState
    BY DEF CommandState
  <1>9. \A x \in BOOLEAN : [r EXCEPT !.last = x] \in CommandState
    BY DEF CommandState
  <1>10. \A x \in {"nothing", "booting"} : [r EXCEPT !.said = x] \in CommandState
    BY DEF CommandState
  <1>11. \A x \in BOOLEAN : [r EXCEPT !.late = x] \in CommandState
    BY DEF CommandState
  <1> QED BY <1>1, <1>2, <1>3, <1>4, <1>5, <1>6, <1>7, <1>8, <1>9, <1>10, <1>11

LEMMA UpdateType ==
    ASSUME CommandsOK, NEW c \in Commands, NEW r \in CommandState,
           cmd' = [cmd EXCEPT ![c] = r]
    PROVE  CommandsOK'
  BY DEF CommandsOK

LEMMA PcType ==
    ASSUME CommandsOK, NEW c \in Commands, NEW x \in Places, Goes(c, x)
    PROVE  CommandsOK'
  BY DEF CommandsOK, Goes, CommandState

LEMMA EndedType ==
    ASSUME NEW c \in Commands
    PROVE  Ended(c) \in CommandState
  BY DEF Ended, NoCommand, CommandState, Places, AllKinds, Names, Status, Config, Nothing

LEMMA EndsType ==
    ASSUME CommandsOK, NEW c \in Commands, Ends(c)
    PROVE  CommandsOK'
  BY EndedType DEF CommandsOK, Ends

LEMMA ValidatesType ==
    ASSUME CommandsOK, cache \in Inventory, NEW c \in Commands, NEW live \in Inventory,
           NEW seen \in Status, NEW active \in Names, Validates(c, live, seen, active)
    PROVE  CommandsOK'
  <1>1. KnownWorlds(live) \in SUBSET Worlds
    BY DEF KnownWorlds, Inventory
  <1>2. CASE Ends(c)
    BY <1>2, EndsType
  <1>3. CASE cmd' = [cmd EXCEPT ![c].pc = IF seen = "RUNNING" THEN "players" ELSE "read",
                            ![c].status = seen,
                            ![c].active = NoWorld,
                            ![c].inv = KnownWorlds(live)]
    <2> DEFINE r1 == [cmd[c] EXCEPT !.pc = IF seen = "RUNNING" THEN "players" ELSE "read"]
               r2 == [r1 EXCEPT !.status = seen]
               r3 == [r2 EXCEPT !.active = NoWorld]
               r4 == [r3 EXCEPT !.inv = KnownWorlds(live)]
    <2>1. cmd' = [cmd EXCEPT ![c] = r4]
      BY <1>3 DEF CommandsOK, CommandState
    <2>2. r1 \in CommandState
      BY FieldType DEF CommandsOK, Places
    <2> HIDE DEF r1
    <2>3. r2 \in CommandState
      BY <2>2, FieldType
    <2> HIDE DEF r2
    <2>4. r3 \in CommandState
      BY <2>3, FieldType DEF Names
    <2> HIDE DEF r3
    <2>5. r4 \in CommandState
      BY <1>1, <2>4, FieldType
    <2> HIDE DEF r4
    <2> QED BY <2>1, <2>5, UpdateType
  <1> QED BY <1>2, <1>3 DEF Validates

LEMMA AnnouncesType ==
    ASSUME CommandsOK, NEW c \in Commands, Announces(c)
    PROVE  CommandsOK'
  <1>1. [Ended(c) EXCEPT !.kind = cmd[c].kind, !.said = "booting", !.late = cmd[c].late]
            \in CommandState
    <2> DEFINE r1 == [Ended(c) EXCEPT !.kind = cmd[c].kind]
               r2 == [r1 EXCEPT !.said = "booting"]
    <2>0. cmd[c].kind \in AllKinds /\ cmd[c].late \in BOOLEAN
      BY DEF CommandsOK, CommandState
    <2>1. r1 \in CommandState
      BY <2>0, EndedType, FieldType
    <2> HIDE DEF r1
    <2>2. r2 \in CommandState
      BY <2>1, FieldType
    <2> HIDE DEF r2
    <2>3. [r2 EXCEPT !.late = cmd[c].late] \in CommandState
      BY <2>0, <2>2, FieldType
    <2> QED BY <2>3 DEF r1, r2
  <1> QED BY <1>1, EndedType, UpdateType DEF Announces

-----------------------------------------------------------------------------
(* The types are not inductive by themselves.  Two facts are missing: the  *)
(* commands that switch name a world, and so does the file that this boot  *)
(* or an earlier one has left.                                             *)
FileNamesWorld ==
    /\ worldEnv = Nothing \/ worldEnv.world \in Worlds
    /\ phase = "resolved" => worldEnv.world \in Worlds

SwitchNamesWorld ==
    \A c \in Commands : cmd[c].kind \in Switching /\ InFlight(c) => cmd[c].name \in Worlds

TypeInv ==
    /\ HostTypeOK /\ FileNamesWorld
    /\ cache \in Inventory
    /\ created \subseteq Worlds
    /\ CommandsOK /\ SwitchNamesWorld

LEMMA TypeInit == Init => TypeInv
  <1> SUFFICES ASSUME Init PROVE TypeInv
    OBVIOUS
  <1>1. HostTypeOK /\ FileNamesWorld
    BY HostAssumption DEF Init, HostInit, GceInit, HostTypeOK, GceTypeOK, Status,
       Nothing, Config, FileNamesWorld
  <1>2. cache \in Inventory /\ created \subseteq Worlds
    BY DEF Init, NoInventory, Inventory
  <1>3. NoCommand \in CommandState
    BY DEF NoCommand, CommandState, Places, AllKinds, Names, Status, Config, Nothing
  <1>4. CommandsOK
    BY <1>3 DEF Init, CommandsOK
  <1>5. SwitchNamesWorld
    BY DEF Init, NoCommand, SwitchNamesWorld, InFlight
  <1> QED BY <1>1, <1>2, <1>4, <1>5 DEF TypeInv

LEMMA TypeParts == TypeInv => TypeOK
  BY DEF TypeInv, TypeOK, CommandsOK, CommandState, Places, Names

(* The host by itself.                                                     *)
LEMMA ResolveType ==
    ASSUME NEW md \in Config
    PROVE  Resolve(md) \in Config /\ Resolve(md).world \in Worlds
  BY HostAssumption DEF Resolve, Config

HostStep == BootBegins \/ AutoStarts \/ ScriptResolves \/ ScriptRestarts \/ ComesDown

LEMMA HostType ==
    ASSUME HostTypeOK, FileNamesWorld, HostStep
    PROVE  HostTypeOK' /\ FileNamesWorld'
  <1> USE DEF HostTypeOK, GceTypeOK, FileNamesWorld
  <1>1. CASE BootBegins
    BY <1>1 DEF BootBegins, Status
  <1>2. CASE AutoStarts
    BY <1>2 DEF AutoStarts, gceVars, Launch
  <1>3. CASE ScriptResolves
    BY <1>3, ResolveType DEF ScriptResolves, gceVars
  <1>4. CASE ScriptRestarts
    BY <1>4 DEF ScriptRestarts, gceVars, Launch
  <1>5. CASE ComesDown
    BY <1>5 DEF ComesDown, Halted, Status, Nothing, Config
  <1> QED BY <1>1, <1>2, <1>3, <1>4, <1>5 DEF HostStep

LEMMA RequestType ==
    ASSUME HostTypeOK, FileNamesWorld, Start \/ Stop,
           UNCHANGED <<metadata, worldEnv, phase, game, saves>>
    PROVE  HostTypeOK' /\ FileNamesWorld'
  BY DEF Start, Stop, AfterStart, AfterStop, Status, HostTypeOK, GceTypeOK, FileNamesWorld

(* A command goes on with the same kind and name, or it is over.           *)
LEMMA GoesOn ==
    ASSUME CommandsOK, SwitchNamesWorld, NEW c \in Commands, InFlight(c),
           NEW r \in CommandState, r.kind = cmd[c].kind, r.name = cmd[c].name,
           cmd' = [cmd EXCEPT ![c] = r]
    PROVE  CommandsOK' /\ SwitchNamesWorld'
  <1>1. CommandsOK'
    BY UpdateType
  <1>2. SwitchNamesWorld'
    BY DEF CommandsOK, SwitchNamesWorld, InFlight
  <1> QED BY <1>1, <1>2

LEMMA GoesTo ==
    ASSUME CommandsOK, SwitchNamesWorld, NEW c \in Commands, InFlight(c),
           NEW x \in Places, Goes(c, x)
    PROVE  CommandsOK' /\ SwitchNamesWorld'
  <1>1. [cmd[c] EXCEPT !.pc = x] \in CommandState
    BY FieldType DEF CommandsOK
  <1>2. cmd' = [cmd EXCEPT ![c] = [cmd[c] EXCEPT !.pc = x]]
    BY DEF Goes, CommandsOK
  <1>3. [cmd[c] EXCEPT !.pc = x].kind = cmd[c].kind /\ [cmd[c] EXCEPT !.pc = x].name = cmd[c].name
    BY DEF CommandsOK, CommandState
  <1> QED BY <1>1, <1>2, <1>3, GoesOn

LEMMA EndedIdle ==
    ASSUME NEW c PROVE Ended(c).pc \in {"idle", "over"}
  BY DEF Ended, NoCommand

LEMMA EndsSwitch ==
    ASSUME CommandsOK, SwitchNamesWorld, NEW c \in Commands, Ends(c)
    PROVE  CommandsOK' /\ SwitchNamesWorld'
  <1>1. CommandsOK'
    BY EndsType
  <1>2. SwitchNamesWorld'
    BY EndedIdle DEF CommandsOK, SwitchNamesWorld, InFlight, Ends
  <1> QED BY <1>1, <1>2

LEMMA AnnouncesSwitch ==
    ASSUME CommandsOK, SwitchNamesWorld, NEW c \in Commands, Announces(c)
    PROVE  CommandsOK' /\ SwitchNamesWorld'
  <1>1. CommandsOK'
    BY AnnouncesType
  <1>2. cmd'[c].pc \in {"idle", "over"}
    BY EndedIdle, EndedType DEF CommandsOK, CommandState, Announces
  <1>3. \A d \in Commands \ {c} : cmd'[d] = cmd[d]
    BY DEF CommandsOK, Announces
  <1>4. SwitchNamesWorld'
    BY <1>2, <1>3 DEF SwitchNamesWorld, InFlight
  <1> QED BY <1>1, <1>4

LEMMA ValidatesSwitch ==
    ASSUME CommandsOK, SwitchNamesWorld, cache \in Inventory, NEW c \in Commands,
           InFlight(c), NEW live \in Inventory, NEW seen \in Status, NEW active \in Names,
           Validates(c, live, seen, active)
    PROVE  CommandsOK' /\ SwitchNamesWorld'
  <1>1. CommandsOK'
    BY ValidatesType
  <1>2. CASE Ends(c)
    BY <1>2, EndsSwitch
  <1>3. CASE cmd' = [cmd EXCEPT ![c].pc = IF seen = "RUNNING" THEN "players" ELSE "read",
                            ![c].status = seen,
                            ![c].active = NoWorld,
                            ![c].inv = KnownWorlds(live)]
    <2>1. cmd'[c].kind = cmd[c].kind /\ cmd'[c].name = cmd[c].name
      BY <1>3 DEF CommandsOK, CommandState
    <2>2. \A d \in Commands \ {c} : cmd'[d] = cmd[d]
      BY <1>3 DEF CommandsOK
    <2>3. SwitchNamesWorld'
      BY <2>1, <2>2 DEF SwitchNamesWorld, InFlight
    <2> QED BY <1>1, <2>3
  <1> QED BY <1>2, <1>3 DEF Validates

(* The inventories that a command can be given.                            *)
LEMMA RepliesType ==
    ASSUME HostTypeOK, NEW live \in Replies
    PROVE  live \in Inventory /\ live.worlds \subseteq saves
  BY DEF Replies, NoInventory, Inventory, HostTypeOK, Config

LEMMA RemembersType ==
    ASSUME cache \in Inventory, NEW live \in Inventory, NEW active \in Names,
           Remembers(live, active)
    PROVE  cache' \in Inventory
  BY DEF Remembers, Inventory, FirstOf, Names

-----------------------------------------------------------------------------
(* The steps of a command.                                                 *)
(* A step that leaves the host alone.                                      *)
LEMMA HostKept ==
    ASSUME HostTypeOK, FileNamesWorld, UNCHANGED hostVars
    PROVE  HostTypeOK' /\ FileNamesWorld'
  BY DEF hostVars, gceVars, HostTypeOK, GceTypeOK, FileNamesWorld

LEMMA BeginType ==
    ASSUME TypeInv, NEW c \in Commands, Begin(c)
    PROVE  TypeInv'
  <1>0. CommandsOK
    BY DEF TypeInv
  <1> PICK kind \in Kinds : \E name \in IF kind \in Switching THEN Worlds ELSE {NoWorld} :
          cmd' = [cmd EXCEPT ![c] = [NoCommand EXCEPT !.pc = "describe",
                                       !.kind = kind, !.name = name]]
    BY DEF Begin
  <1> PICK name \in IF kind \in Switching THEN Worlds ELSE {NoWorld} :
          cmd' = [cmd EXCEPT ![c] = [NoCommand EXCEPT !.pc = "describe",
                                       !.kind = kind, !.name = name]]
    OBVIOUS
  <1>1. [NoCommand EXCEPT !.pc = "describe", !.kind = kind, !.name = name] \in CommandState
    BY CommandAssumption DEF NoCommand, CommandState, Places, Names, Status, Config, Nothing
  <1>2. CommandsOK'
    BY <1>0, <1>1, UpdateType
  <1>3. cmd'[c].kind = kind /\ cmd'[c].name = name
    BY <1>0 DEF CommandsOK, NoCommand
  <1>4. \A d \in Commands \ {c} : cmd'[d] = cmd[d]
    BY <1>0 DEF CommandsOK
  <1>5. SwitchNamesWorld'
    BY <1>3, <1>4 DEF SwitchNamesWorld, TypeInv, InFlight
  <1>6. HostTypeOK /\ FileNamesWorld /\ UNCHANGED <<hostVars, cache, created>>
    BY DEF TypeInv, Begin
  <1>7. HostTypeOK' /\ FileNamesWorld'
    BY <1>6, HostKept
  <1> QED BY <1>2, <1>5, <1>6, <1>7 DEF TypeInv

LEMMA DescribeType ==
    ASSUME TypeInv, NEW c \in Commands, Describe(c)
    PROVE  CommandsOK' /\ SwitchNamesWorld'
  <1>0. CommandsOK /\ SwitchNamesWorld /\ InFlight(c) /\ cache \in Inventory /\ HostTypeOK
    BY DEF TypeInv, Describe, At, InFlight
  <1>2. ASSUME NEW x \in Places, Goes(c, x)
        PROVE  CommandsOK' /\ SwitchNamesWorld'
    BY <1>0, <1>2, GoesTo
  <1>3. status \in Status /\ metadata.world \in Names /\ metadata.modifiers \in SUBSET Settings
    BY <1>0 DEF HostTypeOK, GceTypeOK, Config, Names
  <1>4. CASE DescribesToLook(c)
    <2>1. CASE Ends(c)
      BY <1>0, <2>1, EndsSwitch
    <2>2. CASE cmd' = [cmd EXCEPT ![c].pc = "inventory", ![c].active = metadata.world]
      <3> DEFINE r1 == [cmd[c] EXCEPT !.pc = "inventory"]
                 r2 == [r1 EXCEPT !.active = metadata.world]
      <3>1. cmd' = [cmd EXCEPT ![c] = r2] /\ r2.kind = cmd[c].kind /\ r2.name = cmd[c].name
        BY <1>0, <2>2 DEF CommandsOK, CommandState
      <3>2. r1 \in CommandState
        BY <1>0, FieldType DEF CommandsOK, Places
      <3> HIDE DEF r1
      <3>3. r2 \in CommandState
        BY <1>3, <3>2, FieldType
      <3> HIDE DEF r2
      <3> QED BY <1>0, <3>1, <3>3, GoesOn
    <2> QED BY <1>4, <2>1, <2>2 DEF DescribesToLook
  <1>5. CASE DescribesToStart(c) \/ DescribesToStop(c)
    <2>1. CASE Ends(c)
      BY <1>0, <2>1, EndsSwitch
    <2>2. CASE Goes(c, "start") \/ Goes(c, "stop")
      BY <1>2, <2>2 DEF Places
    <2> QED BY <1>5, <2>1, <2>2 DEF DescribesToStart, DescribesToStop
  <1>6. CASE DescribesToSwitch(c)
    <2>1. CASE status = "RUNNING"
      <3> DEFINE r1 == [cmd[c] EXCEPT !.pc = "inventory"]
                 r2 == [r1 EXCEPT !.status = status]
                 r3 == [r2 EXCEPT !.active = metadata.world]
      <3>0. cmd' = [cmd EXCEPT ![c].pc = "inventory", ![c].status = status,
                               ![c].active = metadata.world]
        BY <1>6, <2>1 DEF DescribesToSwitch
      <3>1. cmd' = [cmd EXCEPT ![c] = r3] /\ r3.kind = cmd[c].kind /\ r3.name = cmd[c].name
        BY <1>0, <3>0 DEF CommandsOK, CommandState
      <3>2. r1 \in CommandState
        BY <1>0, FieldType DEF CommandsOK, Places
      <3> HIDE DEF r1
      <3>3. r2 \in CommandState
        BY <1>3, <3>2, FieldType
      <3> HIDE DEF r2
      <3>4. r3 \in CommandState
        BY <1>3, <3>3, FieldType
      <3> HIDE DEF r3
      <3> QED BY <1>0, <3>1, <3>4, GoesOn
    <2>2. CASE status # "RUNNING"
      <3>1. NoInventory \in Inventory
        BY DEF NoInventory, Inventory
      <3>2. Validates(c, NoInventory, status, metadata.world)
        BY <1>6, <2>2 DEF DescribesToSwitch
      <3> QED BY <1>0, <1>3, <3>1, <3>2, ValidatesSwitch
    <2> QED BY <2>1, <2>2
  <1>7. CASE DescribesToModify(c)
    <2> PICK args \in Edits(metadata.modifiers) :
          cmd' = [cmd EXCEPT ![c].pc = IF status = "RUNNING" THEN "players" ELSE "read",
                             ![c].status = status, ![c].args = args]
      BY <1>7 DEF DescribesToModify
    <2>1. args \in SUBSET Settings
      BY <1>3 DEF Edits
    <2> DEFINE r1 == [cmd[c] EXCEPT !.pc = IF status = "RUNNING" THEN "players" ELSE "read"]
               r2 == [r1 EXCEPT !.status = status]
               r3 == [r2 EXCEPT !.args = args]
    <2>2. cmd' = [cmd EXCEPT ![c] = r3] /\ r3.kind = cmd[c].kind /\ r3.name = cmd[c].name
      BY <1>0 DEF CommandsOK, CommandState
    <2>3. r1 \in CommandState
      BY <1>0, FieldType DEF CommandsOK, Places
    <2> HIDE DEF r1
    <2>4. r2 \in CommandState
      BY <1>3, <2>3, FieldType
    <2> HIDE DEF r2
    <2>5. r3 \in CommandState
      BY <2>1, <2>4, FieldType
    <2> HIDE DEF r3
    <2> QED BY <1>0, <2>2, <2>5, GoesOn
  <1> QED BY <1>4, <1>5, <1>6, <1>7 DEF Describe

LEMMA InventoryType ==
    ASSUME TypeInv, NEW c \in Commands, TakeInventory(c)
    PROVE  cache' \in Inventory /\ CommandsOK' /\ SwitchNamesWorld'
  <1> PICK live \in Replies :
          /\ Remembers(live, cmd[c].active)
          /\ IF cmd[c].kind = "look" THEN Ends(c)
             ELSE Validates(c, live, cmd[c].status, cmd[c].active)
    BY DEF TakeInventory
  <1>0. CommandsOK /\ SwitchNamesWorld /\ InFlight(c) /\ cache \in Inventory /\ HostTypeOK
    BY DEF TypeInv, TakeInventory, At, InFlight
  <1>1. live \in Inventory
    BY <1>0, RepliesType
  <1>2. cmd[c].status \in Status /\ cmd[c].active \in Names
    BY <1>0 DEF CommandsOK, CommandState
  <1>3. cache' \in Inventory
    BY <1>0, <1>1, <1>2, RemembersType
  <1>4. CASE Ends(c)
    BY <1>0, <1>3, <1>4, EndsSwitch
  <1>5. CASE Validates(c, live, cmd[c].status, cmd[c].active)
    BY <1>0, <1>1, <1>2, <1>3, <1>5, ValidatesSwitch
  <1> QED BY <1>4, <1>5

LEMMA ReadType ==
    ASSUME TypeInv, NEW c \in Commands, ReadMetadata(c)
    PROVE  CommandsOK' /\ SwitchNamesWorld'
  <1>0. CommandsOK /\ SwitchNamesWorld /\ InFlight(c) /\ metadata \in Config
    BY DEF TypeInv, ReadMetadata, At, InFlight, HostTypeOK
  <1> DEFINE r1 == [cmd[c] EXCEPT !.pc = "write"]
             r2 == [r1 EXCEPT !.md = metadata]
  <1>1. cmd' = [cmd EXCEPT ![c].pc = "write", ![c].md = metadata]
    BY DEF ReadMetadata
  <1>2. cmd' = [cmd EXCEPT ![c] = r2] /\ r2.kind = cmd[c].kind /\ r2.name = cmd[c].name
    BY <1>0, <1>1 DEF CommandsOK, CommandState
  <1>3. r1 \in CommandState
    BY <1>0, FieldType DEF CommandsOK, Places
  <1> HIDE DEF r1
  <1>4. r2 \in CommandState
    BY <1>0, <1>3, FieldType
  <1> HIDE DEF r2
  <1> QED BY <1>0, <1>2, <1>4, GoesOn

(* What is written, and what becomes of the commands by the write.         *)
LEMMA WithKeyType ==
    ASSUME TypeInv, NEW c \in Commands, At(c, "write")
    PROVE  WithKey(c) \in Config
  <1>1. cmd[c].md \in Config /\ cmd[c].args \in SUBSET Settings /\ cmd[c].name \in Names
    BY DEF TypeInv, CommandsOK, CommandState
  <1>2. [cmd[c].md EXCEPT !.modifiers = cmd[c].args] \in Config
    BY <1>1 DEF Config
  <1>3. [cmd[c].md EXCEPT !.world = cmd[c].name] \in Config
    BY <1>1 DEF Config, Names
  <1> QED BY <1>2, <1>3 DEF WithKey

AfterOwnWrite(c) ==
    [cmd[c] EXCEPT !.pc = AfterWrite(c), !.md = Nothing, !.args = {}, !.last = TRUE]

LEMMA OwnWriteType ==
    ASSUME CommandsOK, NEW c \in Commands
    PROVE  /\ AfterOwnWrite(c) \in CommandState
           /\ AfterOwnWrite(c).kind = cmd[c].kind
           /\ AfterOwnWrite(c).name = cmd[c].name
  <1>0. cmd[c] \in CommandState
    BY DEF CommandsOK
  <1> DEFINE r1 == [cmd[c] EXCEPT !.pc = AfterWrite(c)]
             r2 == [r1 EXCEPT !.md = Nothing]
             r3 == [r2 EXCEPT !.args = {}]
             r4 == [r3 EXCEPT !.last = TRUE]
  <1>1. AfterOwnWrite(c) = r4
    BY <1>0 DEF AfterOwnWrite, CommandState
  <1>2. r4.kind = cmd[c].kind /\ r4.name = cmd[c].name
    BY <1>0 DEF CommandState
  <1>3. r1 \in CommandState
    BY <1>0, FieldType DEF AfterWrite, Places
  <1> HIDE DEF r1
  <1>4. r2 \in CommandState
    BY <1>3, FieldType DEF Nothing, Config
  <1> HIDE DEF r2
  <1>5. r3 \in CommandState
    BY <1>4, FieldType
  <1> HIDE DEF r3
  <1>6. r4 \in CommandState
    BY <1>5, FieldType
  <1> QED BY <1>1, <1>2, <1>6

LEMMA WrittenCommands ==
    ASSUME NEW c \in Commands, WriteMetadata(c), NEW d \in Commands
    PROVE  \/ d = c /\ cmd'[d] = AfterOwnWrite(d)
           \/ d # c /\ Supersedes(c, d) /\ cmd'[d] = Ended(d)
           \/ d # c /\ Supersedes(c, d) /\ cmd'[d] = [cmd[d] EXCEPT !.last = FALSE]
           \/ d # c /\ cmd'[d] = cmd[d]
  <1>1. cmd'[d] = CASE d = c -> [cmd[c] EXCEPT !.pc = AfterWrite(c), !.md = Nothing,
                                              !.args = {}, !.last = TRUE]
                    [] Supersedes(c, d) -> IF cmd[d].said = "booting" THEN Ended(d)
                                           ELSE [cmd[d] EXCEPT !.last = FALSE]
                    [] OTHER -> cmd[d]
    BY Zenon DEF WriteMetadata
  <1>2. Supersedes(c, d) => d # c
    BY Zenon DEF Supersedes
  <1>3. CASE d = c
    <2>1. cmd'[d] = AfterOwnWrite(c)
      BY <1>1, <1>2, <1>3 DEF AfterOwnWrite
    <2> QED BY <1>3, <2>1
  <1>4. CASE d # c
    BY <1>1, <1>2, <1>4
  <1> QED BY <1>3, <1>4

LEMMA WriteType ==
    ASSUME TypeInv, NEW c \in Commands, WriteMetadata(c)
    PROVE  TypeInv'
  <1>0. CommandsOK /\ SwitchNamesWorld
    BY DEF TypeInv
  <1>1. ASSUME NEW d \in Commands
        PROVE  cmd'[d] \in CommandState
    <2>1. [cmd[d] EXCEPT !.last = FALSE] \in CommandState
      BY <1>0, FieldType DEF CommandsOK
    <2> QED BY <1>0, <2>1, WrittenCommands, OwnWriteType, EndedType DEF CommandsOK
  <1>2. CommandsOK'
    <2>1. cmd' = [d \in Commands |-> cmd'[d]]
      BY DEF WriteMetadata
    <2> QED BY <1>1, <2>1 DEF CommandsOK
  <1>3. ASSUME NEW d \in Commands, cmd'[d].kind \in Switching, InFlight(d)'
        PROVE  cmd'[d].name \in Worlds
    <2>1. CASE d = c
      <3>1. cmd'[c] = AfterOwnWrite(c)
        BY WrittenCommands
      <3>2. InFlight(c)
        BY DEF WriteMetadata, At, InFlight
      <3> QED BY <1>0, <1>3, <2>1, <3>1, <3>2, OwnWriteType DEF SwitchNamesWorld
    <2>2. CASE cmd'[d] = Ended(d)
      BY <1>3, <2>2, EndedIdle DEF InFlight
    <2>3. CASE cmd'[d] = [cmd[d] EXCEPT !.last = FALSE]
      BY <1>0, <1>3, <2>3 DEF CommandsOK, CommandState, SwitchNamesWorld, InFlight
    <2>4. CASE cmd'[d] = cmd[d]
      BY <1>0, <1>3, <2>4 DEF SwitchNamesWorld, InFlight
    <2> QED BY <2>1, <2>2, <2>3, <2>4, WrittenCommands
  <1>4. SwitchNamesWorld'
    BY <1>3 DEF SwitchNamesWorld
  <1>5. metadata' \in Config
    BY WithKeyType DEF WriteMetadata
  <1>6. HostTypeOK' /\ FileNamesWorld'
    BY <1>5 DEF TypeInv, WriteMetadata, gceVars, HostTypeOK, GceTypeOK, FileNamesWorld
  <1>7. created' \subseteq Worlds
    BY <1>0 DEF TypeInv, WriteMetadata, SwitchNamesWorld, At, InFlight, Switching
  <1> QED BY <1>2, <1>4, <1>6, <1>7 DEF TypeInv, WriteMetadata

LEMMA RunOutType ==
    ASSUME TypeInv, NEW c \in Commands, PollsRunOut(c)
    PROVE  CommandsOK' /\ SwitchNamesWorld'
  <1>0. CommandsOK /\ SwitchNamesWorld /\ InFlight(c)
    BY DEF TypeInv, PollsRunOut, At, InFlight
  <1> DEFINE r1 == [cmd[c] EXCEPT !.pc = "start"]
             r2 == [r1 EXCEPT !.late = TRUE]
  <1>1. cmd' = [cmd EXCEPT ![c].pc = "start", ![c].late = TRUE]
    BY DEF PollsRunOut
  <1>2. cmd' = [cmd EXCEPT ![c] = r2] /\ r2.kind = cmd[c].kind /\ r2.name = cmd[c].name
    BY <1>0, <1>1 DEF CommandsOK, CommandState
  <1>3. r1 \in CommandState
    BY <1>0, FieldType DEF CommandsOK, Places
  <1> HIDE DEF r1
  <1>4. r2 \in CommandState
    BY <1>3, FieldType
  <1> HIDE DEF r2
  <1> QED BY <1>0, <1>2, <1>4, GoesOn

LEMMA ProjectsType ==
    ASSUME TypeInv, NEW c \in Commands, InFlight(c), Projects(c)
    PROVE  cache' \in Inventory
  <1>1. CASE cmd[c].kind \in Switching
    <2>1. cmd[c].name \in Worlds /\ cmd[c].inv \in SUBSET Worlds
      BY <1>1 DEF TypeInv, SwitchNamesWorld, CommandsOK, CommandState
    <2>2. cache' = [worlds |-> cmd[c].inv \cup {cmd[c].name}, active |-> cmd[c].name]
      BY <1>1 DEF Projects
    <2> QED BY <2>1, <2>2 DEF Inventory
  <1>2. CASE cmd[c].kind \notin Switching
    BY <1>2 DEF Projects, TypeInv
  <1> QED BY <1>1, <1>2

LEMMA CommandStepType ==
    ASSUME TypeInv, NEW c \in Commands, CommandStep(c) \/ PollsRunOut(c) \/ Fails(c)
    PROVE  TypeInv'
  <1>0. /\ CommandsOK /\ SwitchNamesWorld /\ cache \in Inventory /\ created \subseteq Worlds
        /\ HostTypeOK /\ FileNamesWorld
    BY DEF TypeInv
  <1>1. CASE Describe(c)
    BY <1>0, <1>1, DescribeType, HostKept DEF TypeInv, Describe
  <1>2. CASE TakeInventory(c)
    BY <1>0, <1>2, InventoryType, HostKept DEF TypeInv, TakeInventory
  <1>3. CASE LookForPlayers(c)
    <2>1. CASE Goes(c, "read")
      <3>1. InFlight(c) /\ "read" \in Places
        BY <1>3 DEF LookForPlayers, At, InFlight, Places
      <3>2. CommandsOK' /\ SwitchNamesWorld'
        BY <1>0, <2>1, <3>1, GoesTo
      <3> QED BY <1>0, <1>3, <3>2, HostKept DEF TypeInv, LookForPlayers
    <2>2. CASE Ends(c)
      BY <1>0, <1>3, <2>2, EndsSwitch, HostKept DEF TypeInv, LookForPlayers
    <2> QED BY <1>3, <2>1, <2>2 DEF LookForPlayers
  <1>4. CASE ReadMetadata(c)
    BY <1>0, <1>4, ReadType, HostKept DEF TypeInv, ReadMetadata
  <1>5. CASE WriteMetadata(c)
    BY <1>5, WriteType
  <1>6. CASE StopInstance(c)
    <2>1. HostTypeOK' /\ FileNamesWorld'
      BY <1>0, <1>6, RequestType DEF StopInstance
    <2>2. CASE Goes(c, "wait")
      <3>1. InFlight(c) /\ "wait" \in Places
        BY <1>6 DEF StopInstance, At, InFlight, Places
      <3>2. CommandsOK' /\ SwitchNamesWorld'
        BY <1>0, <2>2, <3>1, GoesTo
      <3> QED BY <1>0, <1>6, <2>1, <3>2 DEF TypeInv, StopInstance
    <2>3. CASE Ends(c)
      BY <1>0, <1>6, <2>1, <2>3, EndsSwitch DEF TypeInv, StopInstance
    <2> QED BY <1>6, <2>2, <2>3 DEF StopInstance, AfterStopRequest
  <1>7. CASE PollSucceeds(c)
    <2>1. InFlight(c) /\ "start" \in Places /\ Goes(c, "start")
      BY <1>7 DEF PollSucceeds, At, InFlight, Places
    <2>2. CommandsOK' /\ SwitchNamesWorld'
      BY <1>0, <2>1, GoesTo
    <2> QED BY <1>0, <1>7, <2>2, HostKept DEF TypeInv, PollSucceeds
  <1>8. CASE StartInstance(c)
    <2>1. HostTypeOK' /\ FileNamesWorld'
      BY <1>0, <1>8, RequestType DEF StartInstance
    <2>2. CommandsOK' /\ SwitchNamesWorld'
      BY <1>0, <1>8, EndsSwitch, AnnouncesSwitch DEF StartInstance
    <2>3. cache' \in Inventory
      BY <1>8, ProjectsType DEF StartInstance, At, InFlight
    <2> QED BY <1>0, <1>8, <2>1, <2>2, <2>3 DEF TypeInv, StartInstance
  <1>9. CASE PollsRunOut(c)
    BY <1>0, <1>9, RunOutType, HostKept DEF TypeInv, PollsRunOut
  <1>10. CASE Fails(c)
    BY <1>0, <1>10, EndsSwitch, HostKept DEF TypeInv, Fails
  <1> QED BY <1>1, <1>2, <1>3, <1>4, <1>5, <1>6, <1>7, <1>8, <1>9, <1>10 DEF CommandStep

LEMMA WatcherType ==
    ASSUME TypeInv, WatcherStops
    PROVE  TypeInv'
  <1>0. CommandsOK /\ SwitchNamesWorld
    BY DEF TypeInv
  <1>1. \A c \in Commands : cmd'[c] \in {cmd[c], Ended(c)}
    BY DEF WatcherStops
  <1>2. CommandsOK'
    <2>1. cmd' = [c \in Commands |-> cmd'[c]]
      BY DEF WatcherStops
    <2>2. \A c \in Commands : cmd'[c] \in CommandState
      BY <1>0, <1>1, EndedType DEF CommandsOK
    <2> QED BY <2>1, <2>2 DEF CommandsOK
  <1>3. SwitchNamesWorld'
    BY <1>0, <1>1, EndedIdle DEF SwitchNamesWorld, InFlight
  <1>4. HostTypeOK' /\ FileNamesWorld'
    BY RequestType DEF TypeInv, WatcherStops
  <1> QED BY <1>2, <1>3, <1>4 DEF TypeInv, WatcherStops

LEMMA HostMovesType ==
    ASSUME TypeInv, HostMoves
    PROVE  TypeInv'
  <1>1. HostTypeOK' /\ FileNamesWorld'
    BY HostType DEF TypeInv, HostMoves, HostStep
  <1> QED BY <1>1 DEF TypeInv, HostMoves, CommandsOK, SwitchNamesWorld, InFlight

LEMMA TypeStep == TypeInv /\ [Next]_vars => TypeInv'
  <1> SUFFICES ASSUME TypeInv, [Next]_vars PROVE TypeInv'
    OBVIOUS
  <1>1. ASSUME NEW c \in Commands, Begin(c) PROVE TypeInv'
    BY <1>1, BeginType
  <1>2. ASSUME NEW c \in Commands, CommandStep(c) \/ PollsRunOut(c) \/ Fails(c)
        PROVE  TypeInv'
    BY <1>2, CommandStepType
  <1>3. CASE HostMoves
    BY <1>3, HostMovesType
  <1>4. CASE WatcherStops
    BY <1>4, WatcherType
  <1>5. CASE CacheLost
    <2>1. NoInventory \in Inventory
      BY DEF NoInventory, Inventory
    <2>2. HostTypeOK' /\ FileNamesWorld'
      BY <1>5, HostKept DEF CacheLost, TypeInv
    <2> QED BY <1>5, <2>1, <2>2 DEF CacheLost, TypeInv, CommandsOK, SwitchNamesWorld, InFlight
  <1>6. CASE UNCHANGED vars
    <2>1. HostTypeOK' /\ FileNamesWorld'
      BY <1>6, HostKept DEF vars, TypeInv
    <2> QED BY <1>6, <2>1 DEF vars, TypeInv, CommandsOK, SwitchNamesWorld, InFlight
  <1> QED BY <1>1, <1>2, <1>3, <1>4, <1>5, <1>6 DEF Next

LEMMA TypeInvariant == Spec => []TypeInv
  BY TypeInit, TypeStep, PTL DEF Spec

(* The state of the host, of the cache and of every command keeps its      *)
(* types, for every set of worlds and every number of commands at once: no *)
(* command switches to something that is not a world.                      *)
THEOREM TypeCorrect == Spec => []TypeOK
  BY TypeInvariant, TypeParts, PTL

-----------------------------------------------------------------------------
(* OtherKeyKept needs no invariant but the types: with the fingerprint in  *)
(* hand, what a write puts back for the other key is what is there.        *)
LEMMA WriteKeepsOther ==
    ASSUME TypeInv, NEW d \in Commands, WriteMetadata(d)
    PROVE  IF cmd[d].kind = "modifier" THEN metadata'.world = metadata.world
           ELSE metadata'.modifiers = metadata.modifiers
  <1>1. metadata = cmd[d].md /\ metadata' = WithKey(d)
    BY DEF WriteMetadata, FingerprintHolds
  <1>2. cmd[d].md \in Config
    BY DEF TypeInv, CommandsOK, CommandState
  <1> QED BY <1>1, <1>2 DEF WithKey, Config

LEMMA MetadataMoves ==
    ASSUME [Next]_vars, metadata' # metadata
    PROVE  \E d \in Commands : WriteMetadata(d)
  <1>1. ASSUME NEW c \in Commands,
               \/ Begin(c) \/ Describe(c) \/ TakeInventory(c) \/ LookForPlayers(c)
               \/ ReadMetadata(c) \/ PollSucceeds(c) \/ PollsRunOut(c) \/ Fails(c)
        PROVE  FALSE
    BY <1>1 DEF Begin, Describe, TakeInventory, LookForPlayers, ReadMetadata, PollSucceeds,
                PollsRunOut, Fails, hostVars
  <1>2. ASSUME NEW c \in Commands, StopInstance(c) \/ StartInstance(c)
        PROVE  FALSE
    BY <1>2 DEF StopInstance, StartInstance
  <1>3. CASE HostMoves
    BY <1>3 DEF HostMoves, BootBegins, AutoStarts, ScriptResolves, ScriptRestarts, ComesDown
  <1>4. CASE WatcherStops \/ CacheLost \/ UNCHANGED vars
    BY <1>4 DEF WatcherStops, CacheLost, vars, hostVars
  <1> QED BY <1>1, <1>2, <1>3, <1>4 DEF Next, CommandStep

(* compute.py:107, "preserving all other keys": for every number of        *)
(* overlapping commands no write of one key undoes a change of the other   *)
(* made since the writer read the metadata.                                *)
THEOREM OtherKeys == Spec => OtherKeyKept
  <1> DEFINE Kept == \A c \in Commands :
                        At(c, "write") /\ metadata' # metadata /\ cmd'[c] # cmd[c]
                        => IF cmd[c].kind = "modifier" THEN metadata'.world = metadata.world
                           ELSE metadata'.modifiers = metadata.modifiers
  <1>1. TypeInv /\ [Next]_vars => [Kept]_vars
    <2> SUFFICES ASSUME TypeInv, [Next]_vars, NEW c \in Commands,
                        At(c, "write"), metadata' # metadata, cmd'[c] # cmd[c]
                 PROVE  IF cmd[c].kind = "modifier" THEN metadata'.world = metadata.world
                        ELSE metadata'.modifiers = metadata.modifiers
      OBVIOUS
    <2> PICK d \in Commands : WriteMetadata(d)
      BY MetadataMoves
    <2>1. CASE c = d
      BY <2>1, WriteKeepsOther
    <2>2. CASE c # d
      <3>1. Supersedes(d, c)
        BY <2>2, WrittenCommands
      <3>2. cmd[d].kind = "modifier" <=> cmd[c].kind = "modifier"
        BY <3>1 DEF Supersedes, Switching
      <3> QED BY <3>2, WriteKeepsOther
    <2> QED BY <2>1, <2>2
  <1> QED BY <1>1, TypeInvariant, PTL DEF Spec, OtherKeyKept

-----------------------------------------------------------------------------
(* What OnlyKnownWorlds needs: every inventory, every copy of the metadata *)
(* and every name that a guard has accepted is of worlds that exist or     *)
(* were asked for; and only commands that name one or edit the modifiers   *)
(* come to a write.                                                        *)
Asked == saves \cup created

CommandKnows(c) ==
    /\ cmd[c].inv \subseteq Asked
    /\ cmd[c].md.world \in Asked \cup {NoWorld}
    /\ cmd[c].kind = "switch" /\ cmd[c].pc \in {"players", "read", "write", "stop", "wait", "start"}
          => cmd[c].name \in Asked
    /\ cmd[c].kind = "new" /\ cmd[c].pc \in {"stop", "wait", "start"}
          => cmd[c].name \in Asked
    /\ cmd[c].pc = "inventory" => cmd[c].kind \in Switching \cup {"look"}
    /\ cmd[c].pc \in {"players", "read", "write"} => cmd[c].kind \in Switching \cup {"modifier"}

NamesAreKnown ==
    /\ cache.worlds \subseteq Asked
    /\ metadata.world \in Asked \cup {NoWorld}
    /\ \A c \in Commands : CommandKnows(c)

LEMMA KnownInit == Init => NamesAreKnown
  BY DEF Init, HostInit, Nothing, NoInventory, NoCommand, NamesAreKnown, CommandKnows, Asked

(* A command that stays where it was, or is over, knows what it knew.      *)
LEMMA StaysKnown ==
    ASSUME NEW c \in Commands, CommandKnows(c), Asked \subseteq Asked',
           cmd'[c].inv = cmd[c].inv, cmd'[c].md = cmd[c].md, cmd'[c].pc = cmd[c].pc,
           cmd'[c].kind = cmd[c].kind, cmd'[c].name = cmd[c].name
    PROVE  CommandKnows(c)'
  BY DEF CommandKnows

LEMMA OverKnown ==
    ASSUME NEW c \in Commands,
           cmd'[c].inv = {}, cmd'[c].md = Nothing, cmd'[c].pc \in {"idle", "over"}
    PROVE  CommandKnows(c)'
  BY DEF CommandKnows, Nothing

LEMMA EndedKnown ==
    ASSUME NEW c \in Commands, cmd'[c] = Ended(c)
    PROVE  CommandKnows(c)'
  <1>1. Ended(c).inv = {} /\ Ended(c).md = Nothing
    BY DEF Ended, NoCommand
  <1> QED BY <1>1, EndedIdle, OverKnown

(* The step of one command, once it is known what the command knows after. *)
LEMMA OneStepKnown ==
    ASSUME CommandsOK, NamesAreKnown, NEW c \in Commands, NEW r, cmd' = [cmd EXCEPT ![c] = r],
           Asked \subseteq Asked', CommandKnows(c)',
           cache'.worlds \subseteq Asked', metadata'.world \in Asked' \cup {NoWorld}
    PROVE  NamesAreKnown'
  <1>1. ASSUME NEW d \in Commands, d # c PROVE CommandKnows(d)'
    <2>1. cmd'[d] = cmd[d] /\ CommandKnows(d)
      BY <1>1 DEF CommandsOK, NamesAreKnown
    <2> QED BY <2>1, StaysKnown
  <1> QED BY <1>1 DEF NamesAreKnown

LEMMA EndsKnown ==
    ASSUME CommandsOK, NamesAreKnown, NEW c \in Commands, Ends(c) \/ Announces(c),
           Asked \subseteq Asked', cache'.worlds \subseteq Asked',
           metadata'.world \in Asked' \cup {NoWorld}
    PROVE  NamesAreKnown'
  <1>1. CASE Ends(c)
    <2>1. cmd'[c] = Ended(c)
      BY <1>1 DEF Ends, CommandsOK
    <2> QED BY <1>1, <2>1, EndedKnown, OneStepKnown DEF Ends
  <1>2. CASE Announces(c)
    <2> DEFINE r == IF cmd[c].last
                    THEN [Ended(c) EXCEPT !.kind = cmd[c].kind, !.said = "booting",
                                          !.late = cmd[c].late]
                    ELSE Ended(c)
    <2>1. cmd' = [cmd EXCEPT ![c] = r]
      BY <1>2 DEF Announces
    <2>2. r.inv = {} /\ r.md = Nothing /\ r.pc \in {"idle", "over"}
      BY DEF Ended, NoCommand
    <2> HIDE DEF r
    <2>3. CommandKnows(c)'
      BY <2>1, <2>2, OverKnown DEF CommandsOK
    <2> QED BY <2>1, <2>3, OneStepKnown
  <1> QED BY <1>1, <1>2

LEMMA ValidatesKnown ==
    ASSUME TypeInv, NamesAreKnown, NEW c \in Commands, InFlight(c), NEW live \in Inventory,
           live.worlds \subseteq Asked, NEW seen \in Status, NEW active \in Names,
           cmd[c].kind \in Switching,
           Validates(c, live, seen, active), UNCHANGED <<hostVars, created>>,
           cache'.worlds \subseteq Asked
    PROVE  NamesAreKnown'
  <1>0. /\ CommandsOK /\ Asked' = Asked /\ CommandKnows(c)
        /\ metadata'.world \in Asked \cup {NoWorld}
    BY DEF TypeInv, Asked, hostVars, NamesAreKnown
  <1>1. KnownWorlds(live) \subseteq Asked
    BY DEF KnownWorlds, NamesAreKnown
  <1>2. CASE Ends(c)
    BY <1>0, <1>2, EndsKnown
  <1>3. CASE /\ MayProceed(cmd[c].kind, cmd[c].name, KnownWorlds(live),
                           ActiveWorld(live, active), seen)
             /\ cmd' = [cmd EXCEPT ![c].pc = IF seen = "RUNNING" THEN "players" ELSE "read",
                                   ![c].status = seen,
                                   ![c].active = NoWorld,
                                   ![c].inv = KnownWorlds(live)]
    <2> DEFINE r == [cmd[c] EXCEPT !.pc = IF seen = "RUNNING" THEN "players" ELSE "read",
                                   !.status = seen, !.active = NoWorld,
                                   !.inv = KnownWorlds(live)]
    <2>0. cmd[c] \in CommandState
      BY <1>0 DEF CommandsOK
    <2>1. cmd' = [cmd EXCEPT ![c] = r]
      BY <1>0, <1>3 DEF CommandsOK
    <2>2. /\ r.inv = KnownWorlds(live) /\ r.md = cmd[c].md
          /\ r.kind = cmd[c].kind /\ r.name = cmd[c].name
          /\ r.pc \in {"players", "read"}
      BY <2>0 DEF CommandState
    <2> HIDE DEF r
    <2>3. cmd'[c] = r
      BY <1>0, <2>1 DEF CommandsOK
    <2>4. r.kind = "switch" => r.name \in Asked
      BY <1>1, <1>3, <2>2 DEF MayProceed
    <2>5. CommandKnows(c)'
      BY <1>0, <1>1, <2>2, <2>3, <2>4 DEF CommandKnows
    <2> QED BY <1>0, <2>1, <2>5, OneStepKnown
  <1> QED BY <1>2, <1>3 DEF Validates

(* A command moves on to a place where it need not know more names.        *)
LEMMA GoesKnown ==
    ASSUME CommandsOK, NamesAreKnown, NEW c \in Commands, NEW x,
           x \in {"read", "wait", "start"}, Goes(c, x),
           \/ x = "read" /\ cmd[c].pc = "players"
           \/ x # "read" /\ cmd[c].pc \in {"stop", "wait"},
           UNCHANGED <<saves, created, cache, metadata>>
    PROVE  NamesAreKnown'
  <1> DEFINE r == [cmd[c] EXCEPT !.pc = x]
  <1>0. cmd[c] \in CommandState
    BY DEF CommandsOK
  <1>1. cmd' = [cmd EXCEPT ![c] = r]
    BY DEF Goes, CommandsOK
  <1>2. r.inv = cmd[c].inv /\ r.md = cmd[c].md /\ r.kind = cmd[c].kind
        /\ r.name = cmd[c].name /\ r.pc = x
    BY <1>0 DEF CommandState
  <1> HIDE DEF r
  <1>3. cmd'[c] = r
    BY <1>1 DEF CommandsOK
  <1>4. CommandKnows(c) /\ Asked' = Asked
    BY DEF NamesAreKnown, Asked
  <1>5. CommandKnows(c)'
    BY <1>2, <1>3, <1>4 DEF CommandKnows, Switching
  <1> QED BY <1>1, <1>4, <1>5, OneStepKnown DEF NamesAreKnown

LEMMA DescribeKnown ==
    ASSUME TypeInv, NamesAreKnown, NEW c \in Commands, Describe(c)
    PROVE  NamesAreKnown'
  <1>0. /\ CommandsOK /\ InFlight(c) /\ CommandKnows(c) /\ cmd[c] \in CommandState
        /\ cmd[c].pc = "describe" /\ UNCHANGED <<hostVars, cache, created>>
    BY DEF TypeInv, CommandsOK, NamesAreKnown, Describe, At, InFlight
  <1>1. Asked' = Asked /\ cache'.worlds \subseteq Asked /\ metadata'.world \in Asked \cup {NoWorld}
    BY <1>0 DEF Asked, hostVars, NamesAreKnown
  <1>2. CASE Ends(c)
    BY <1>0, <1>1, <1>2, EndsKnown
  <1>3. ASSUME NEW r, cmd' = [cmd EXCEPT ![c] = r],
               r.inv = cmd[c].inv, r.md = cmd[c].md, r.kind = cmd[c].kind, r.name = cmd[c].name,
               \/ r.pc = "inventory" /\ r.kind \in Switching \cup {"look"}
               \/ r.kind = "modifier" /\ r.pc \in {"players", "read"}
               \/ r.kind \in {"start", "stop"} /\ r.pc \in {"start", "stop"}
        PROVE  NamesAreKnown'
    <2>1. cmd'[c] = r
      BY <1>0, <1>3 DEF CommandsOK
    <2>2. CommandKnows(c)'
      BY <1>0, <1>1, <1>3, <2>1 DEF CommandKnows, Switching
    <2> QED BY <1>0, <1>1, <1>3, <2>2, OneStepKnown
  <1>4. CASE DescribesToLook(c)
    <2>1. CASE cmd' = [cmd EXCEPT ![c].pc = "inventory", ![c].active = metadata.world]
      <3> DEFINE r == [cmd[c] EXCEPT !.pc = "inventory", !.active = metadata.world]
      <3>1. cmd' = [cmd EXCEPT ![c] = r]
        BY <1>0, <2>1 DEF CommandsOK
      <3>2. r.inv = cmd[c].inv /\ r.md = cmd[c].md /\ r.kind = cmd[c].kind
            /\ r.name = cmd[c].name /\ r.pc = "inventory"
        BY <1>0 DEF CommandState
      <3>3. cmd[c].kind = "look"
        BY <1>4 DEF DescribesToLook
      <3> HIDE DEF r
      <3> QED BY <1>3, <3>1, <3>2, <3>3
    <2> QED BY <1>2, <1>4, <2>1 DEF DescribesToLook
  <1>5. CASE DescribesToStart(c) \/ DescribesToStop(c)
    <2>1. ASSUME NEW x \in {"start", "stop"}, Goes(c, x), cmd[c].kind \in {"start", "stop"}
          PROVE  NamesAreKnown'
      <3> DEFINE r == [cmd[c] EXCEPT !.pc = x]
      <3>1. cmd' = [cmd EXCEPT ![c] = r]
        BY <2>1 DEF Goes, CommandsOK
      <3>2. r.inv = cmd[c].inv /\ r.md = cmd[c].md /\ r.kind = cmd[c].kind
            /\ r.name = cmd[c].name /\ r.pc = x
        BY <1>0 DEF CommandState
      <3> HIDE DEF r
      <3> QED BY <1>3, <2>1, <3>1, <3>2
    <2> QED BY <1>2, <1>5, <2>1 DEF DescribesToStart, DescribesToStop
  <1>6. CASE DescribesToSwitch(c)
    <2>1. CASE status = "RUNNING"
      <3> DEFINE r == [cmd[c] EXCEPT !.pc = "inventory", !.status = status,
                                     !.active = metadata.world]
      <3>0. cmd' = [cmd EXCEPT ![c].pc = "inventory", ![c].status = status,
                               ![c].active = metadata.world]
        BY <1>6, <2>1 DEF DescribesToSwitch
      <3>1. cmd' = [cmd EXCEPT ![c] = r]
        BY <1>0, <3>0 DEF CommandsOK
      <3>2. r.inv = cmd[c].inv /\ r.md = cmd[c].md /\ r.kind = cmd[c].kind
            /\ r.name = cmd[c].name /\ r.pc = "inventory"
        BY <1>0 DEF CommandState
      <3>3. cmd[c].kind \in Switching
        BY <1>6 DEF DescribesToSwitch
      <3> HIDE DEF r
      <3> QED BY <1>3, <3>1, <3>2, <3>3
    <2>2. CASE status # "RUNNING"
      <3>1. NoInventory \in Inventory /\ NoInventory.worlds \subseteq Asked
        BY DEF NoInventory, Inventory
      <3>2. Validates(c, NoInventory, status, metadata.world)
        BY <1>6, <2>2 DEF DescribesToSwitch
      <3>4. cmd[c].kind \in Switching
        BY <1>6 DEF DescribesToSwitch
      <3>3. status \in Status /\ metadata.world \in Names
        BY DEF TypeInv, HostTypeOK, GceTypeOK, Config, Names
      <3> QED BY <1>0, <1>1, <3>1, <3>2, <3>3, <3>4, ValidatesKnown
    <2> QED BY <2>1, <2>2
  <1>7. CASE DescribesToModify(c)
    <2> PICK args \in Edits(metadata.modifiers) :
          cmd' = [cmd EXCEPT ![c].pc = IF status = "RUNNING" THEN "players" ELSE "read",
                             ![c].status = status, ![c].args = args]
      BY <1>7 DEF DescribesToModify
    <2> DEFINE r == [cmd[c] EXCEPT !.pc = IF status = "RUNNING" THEN "players" ELSE "read",
                                   !.status = status, !.args = args]
    <2>1. cmd' = [cmd EXCEPT ![c] = r]
      BY <1>0 DEF CommandsOK
    <2>2. r.inv = cmd[c].inv /\ r.md = cmd[c].md /\ r.kind = cmd[c].kind
          /\ r.name = cmd[c].name /\ r.pc \in {"players", "read"}
      BY <1>0 DEF CommandState
    <2>3. cmd[c].kind = "modifier"
      BY <1>7 DEF DescribesToModify
    <2> HIDE DEF r
    <2> QED BY <1>3, <2>1, <2>2, <2>3
  <1> QED BY <1>4, <1>5, <1>6, <1>7 DEF Describe

LEMMA InventoryKnown ==
    ASSUME TypeInv, NamesAreKnown, NEW c \in Commands, TakeInventory(c)
    PROVE  NamesAreKnown'
  <1> PICK live \in Replies :
          /\ Remembers(live, cmd[c].active)
          /\ IF cmd[c].kind = "look" THEN Ends(c)
             ELSE Validates(c, live, cmd[c].status, cmd[c].active)
    BY DEF TakeInventory
  <1>0. /\ CommandsOK /\ InFlight(c) /\ cmd[c] \in CommandState
        /\ cmd[c].pc = "inventory" /\ UNCHANGED <<hostVars, created>>
    BY DEF TypeInv, CommandsOK, TakeInventory, At, InFlight
  <1>1. Asked' = Asked /\ metadata'.world \in Asked \cup {NoWorld} /\ cache.worlds \subseteq Asked
    BY <1>0 DEF Asked, hostVars, NamesAreKnown
  <1>2. live \in Inventory /\ live.worlds \subseteq Asked
    BY RepliesType DEF TypeInv, Asked
  <1>3. cache'.worlds \subseteq Asked
    BY <1>1, <1>2 DEF Remembers
  <1>4. CASE Ends(c)
    BY <1>0, <1>1, <1>3, <1>4, EndsKnown
  <1>5. CASE cmd[c].kind # "look" /\ Validates(c, live, cmd[c].status, cmd[c].active)
    <2>1. cmd[c].status \in Status /\ cmd[c].active \in Names
      BY <1>0 DEF CommandState
    <2>2. cmd[c].kind \in Switching
      BY <1>0, <1>5 DEF NamesAreKnown, CommandKnows
    <2> QED BY <1>0, <1>2, <1>3, <1>5, <2>1, <2>2, ValidatesKnown
  <1> QED BY <1>4, <1>5

LEMMA ReadKnown ==
    ASSUME TypeInv, NamesAreKnown, NEW c \in Commands, ReadMetadata(c)
    PROVE  NamesAreKnown'
  <1> DEFINE r == [cmd[c] EXCEPT !.pc = "write", !.md = metadata]
  <1>0. /\ CommandsOK /\ CommandKnows(c) /\ cmd[c] \in CommandState
        /\ cmd[c].pc = "read" /\ UNCHANGED <<hostVars, cache, created>>
        /\ cmd' = [cmd EXCEPT ![c].pc = "write", ![c].md = metadata]
    BY DEF TypeInv, CommandsOK, NamesAreKnown, ReadMetadata, At
  <1>1. /\ Asked' = Asked /\ cache'.worlds \subseteq Asked
        /\ metadata.world \in Asked \cup {NoWorld} /\ metadata' = metadata
    BY <1>0 DEF Asked, hostVars, NamesAreKnown
  <1>2. cmd' = [cmd EXCEPT ![c] = r]
    BY <1>0 DEF CommandsOK
  <1>3. r.inv = cmd[c].inv /\ r.md = metadata /\ r.kind = cmd[c].kind
        /\ r.name = cmd[c].name /\ r.pc = "write"
    BY <1>0 DEF CommandState
  <1> HIDE DEF r
  <1>4. cmd'[c] = r
    BY <1>0, <1>2 DEF CommandsOK
  <1>5. CommandKnows(c)'
    <2>1. cmd'[c].md.world = metadata.world
      BY <1>3, <1>4
    <2>2. cmd'[c].inv = cmd[c].inv /\ cmd'[c].kind = cmd[c].kind
          /\ cmd'[c].name = cmd[c].name /\ cmd'[c].pc = "write"
      BY <1>3, <1>4
    <2>3. CommandKnows(c) /\ cmd[c].pc = "read"
      BY <1>0
    <2> QED BY <1>1, <2>1, <2>2, <2>3 DEF CommandKnows, Switching
  <1> QED BY <1>0, <1>1, <1>2, <1>5, OneStepKnown

LEMMA WriteKnown ==
    ASSUME TypeInv, NamesAreKnown, NEW c \in Commands, WriteMetadata(c)
    PROVE  NamesAreKnown'
  <1>0. /\ CommandsOK /\ CommandKnows(c) /\ cmd[c] \in CommandState
        /\ cmd[c].pc = "write" /\ UNCHANGED <<saves, cache>>
        /\ metadata' = WithKey(c)
        /\ created' = IF cmd[c].kind = "new" THEN created \cup {cmd[c].name} ELSE created
    BY DEF TypeInv, CommandsOK, NamesAreKnown, WriteMetadata, At
  <1>1. Asked \subseteq Asked' /\ cache'.worlds \subseteq Asked'
    BY <1>0 DEF Asked, NamesAreKnown
  <1>2. cmd[c].kind \in Switching => cmd[c].name \in Asked'
    BY <1>0 DEF Asked, CommandKnows, Switching
  <1>3. metadata'.world \in Asked' \cup {NoWorld}
    <2>1. CASE cmd[c].kind = "modifier"
      <3>1. metadata'.world = cmd[c].md.world
        BY <1>0, <2>1 DEF WithKey, CommandState, Config
      <3> QED BY <1>0, <1>1, <3>1 DEF CommandKnows
    <2>2. CASE cmd[c].kind # "modifier"
      <3>1. metadata'.world = cmd[c].name
        BY <1>0, <2>2 DEF WithKey, CommandState, Config
      <3>2. cmd[c].kind \in Switching
        BY <1>0, <2>2 DEF CommandKnows
      <3> QED BY <1>2, <3>1, <3>2
    <2> QED BY <2>1, <2>2
  <1>4. CommandKnows(c)'
    <2>1. AfterOwnWrite(c).inv = cmd[c].inv /\ AfterOwnWrite(c).md = Nothing
          /\ AfterOwnWrite(c).pc \in {"stop", "start"}
      BY <1>0 DEF AfterOwnWrite, AfterWrite, CommandState
    <2>2. cmd'[c] = AfterOwnWrite(c)
      BY WrittenCommands
    <2> QED BY <1>0, <1>1, <1>2, <2>1, <2>2, OwnWriteType DEF CommandKnows, Nothing, Switching
  <1>5. ASSUME NEW d \in Commands, d # c PROVE CommandKnows(d)'
    <2>0. CommandKnows(d) /\ cmd[d] \in CommandState
      BY <1>0 DEF NamesAreKnown, CommandsOK
    <2>1. CASE cmd'[d] = Ended(d)
      BY <2>1, EndedKnown
    <2>2. CASE cmd'[d] = [cmd[d] EXCEPT !.last = FALSE] \/ cmd'[d] = cmd[d]
      <3>1. /\ cmd'[d].inv = cmd[d].inv /\ cmd'[d].md = cmd[d].md /\ cmd'[d].pc = cmd[d].pc
            /\ cmd'[d].kind = cmd[d].kind /\ cmd'[d].name = cmd[d].name
        BY <2>0, <2>2 DEF CommandState
      <3> QED BY <1>1, <2>0, <3>1, StaysKnown
    <2> QED BY <1>5, <2>1, <2>2, WrittenCommands
  <1> QED BY <1>1, <1>3, <1>4, <1>5 DEF NamesAreKnown

LEMMA RunOutKnown ==
    ASSUME TypeInv, NamesAreKnown, NEW c \in Commands, PollsRunOut(c)
    PROVE  NamesAreKnown'
  <1> DEFINE r == [cmd[c] EXCEPT !.pc = "start", !.late = TRUE]
  <1>0. /\ CommandsOK /\ CommandKnows(c) /\ cmd[c] \in CommandState
        /\ cmd[c].pc = "wait" /\ UNCHANGED <<hostVars, cache, created>>
        /\ cmd' = [cmd EXCEPT ![c].pc = "start", ![c].late = TRUE]
    BY DEF TypeInv, CommandsOK, NamesAreKnown, PollsRunOut, At
  <1>1. /\ Asked' = Asked /\ cache'.worlds \subseteq Asked
        /\ metadata'.world \in Asked \cup {NoWorld}
    BY <1>0 DEF Asked, hostVars, NamesAreKnown
  <1>2. cmd' = [cmd EXCEPT ![c] = r]
    BY <1>0 DEF CommandsOK
  <1>3. r.inv = cmd[c].inv /\ r.md = cmd[c].md /\ r.kind = cmd[c].kind
        /\ r.name = cmd[c].name /\ r.pc = "start"
    BY <1>0 DEF CommandState
  <1> HIDE DEF r
  <1>4. cmd'[c] = r
    BY <1>0, <1>2 DEF CommandsOK
  <1>5. CommandKnows(c)'
    <2>1. CommandKnows(c) /\ cmd[c].pc = "wait"
      BY <1>0
    <2> QED BY <1>1, <1>3, <1>4, <2>1 DEF CommandKnows
  <1> QED BY <1>0, <1>1, <1>2, <1>5, OneStepKnown

LEMMA StartKnown ==
    ASSUME TypeInv, NamesAreKnown, NEW c \in Commands, StartInstance(c)
    PROVE  NamesAreKnown'
  <1>0. /\ CommandsOK /\ CommandKnows(c) /\ cmd[c].pc = "start"
        /\ UNCHANGED <<metadata, saves, created>>
    BY DEF TypeInv, NamesAreKnown, StartInstance, At
  <1>1. Asked' = Asked /\ metadata'.world \in Asked \cup {NoWorld}
    BY <1>0 DEF Asked, NamesAreKnown
  <1>2. cache'.worlds \subseteq Asked
    <2>1. CASE cmd[c].kind \in Switching
      <3>1. cmd[c].inv \subseteq Asked /\ cmd[c].name \in Asked
        BY <1>0, <2>1 DEF CommandKnows, Switching
      <3>2. cache' = [worlds |-> cmd[c].inv \cup {cmd[c].name}, active |-> cmd[c].name]
        BY <2>1 DEF StartInstance, Projects
      <3> QED BY <3>1, <3>2
    <2>2. CASE cmd[c].kind \notin Switching
      BY <2>2 DEF StartInstance, Projects, NamesAreKnown
    <2> QED BY <2>1, <2>2
  <1> QED BY <1>0, <1>1, <1>2, EndsKnown DEF StartInstance

(* No step of the host, the watcher or the disk forgets a world.           *)
LEMMA HostKnown ==
    ASSUME NamesAreKnown, HostMoves
    PROVE  NamesAreKnown'
  <1>1. saves \subseteq saves' /\ UNCHANGED <<metadata, cache, cmd, created>>
    BY DEF HostMoves, BootBegins, AutoStarts, ScriptResolves, ScriptRestarts, ComesDown, Launch
  <1>2. Asked \subseteq Asked'
    BY <1>1 DEF Asked
  <1>3. \A c \in Commands : CommandKnows(c)'
    BY <1>1, <1>2, StaysKnown DEF NamesAreKnown
  <1> QED BY <1>1, <1>2, <1>3 DEF NamesAreKnown

LEMMA WatcherKnown ==
    ASSUME NamesAreKnown, WatcherStops
    PROVE  NamesAreKnown'
  <1>1. UNCHANGED <<saves, metadata, cache, created>> /\ Asked' = Asked
    BY DEF WatcherStops, Asked
  <1>2. ASSUME NEW c \in Commands PROVE CommandKnows(c)'
    <2>1. cmd'[c] = cmd[c] \/ cmd'[c] = Ended(c)
      BY DEF WatcherStops
    <2>2. CommandKnows(c)
      BY DEF NamesAreKnown
    <2> QED BY <1>1, <2>1, <2>2, EndedKnown, StaysKnown
  <1> QED BY <1>1, <1>2 DEF NamesAreKnown

LEMMA IdleKnown ==
    ASSUME NamesAreKnown, CacheLost \/ UNCHANGED vars
    PROVE  NamesAreKnown'
  <1>1. UNCHANGED <<saves, metadata, cmd, created>> /\ Asked' = Asked
    BY DEF CacheLost, vars, hostVars, Asked
  <1>2. cache'.worlds \subseteq Asked
    BY DEF CacheLost, vars, NoInventory, NamesAreKnown
  <1>3. \A c \in Commands : CommandKnows(c)'
    BY <1>1, StaysKnown DEF NamesAreKnown
  <1> QED BY <1>1, <1>2, <1>3 DEF NamesAreKnown

LEMMA BeginKnown ==
    ASSUME TypeInv, NamesAreKnown, NEW c \in Commands, Begin(c)
    PROVE  NamesAreKnown'
  <1>a. PICK kind \in Kinds : \E name \in IF kind \in Switching THEN Worlds ELSE {NoWorld} :
          cmd' = [cmd EXCEPT ![c] = [NoCommand EXCEPT !.pc = "describe",
                                       !.kind = kind, !.name = name]]
    BY DEF Begin
  <1>b. PICK name \in IF kind \in Switching THEN Worlds ELSE {NoWorld} :
          cmd' = [cmd EXCEPT ![c] = [NoCommand EXCEPT !.pc = "describe",
                                       !.kind = kind, !.name = name]]
    BY <1>a
  <1> DEFINE r == [NoCommand EXCEPT !.pc = "describe", !.kind = kind, !.name = name]
  <1>0. CommandsOK /\ UNCHANGED <<hostVars, cache, created>>
    BY DEF TypeInv, Begin
  <1>1. /\ Asked' = Asked /\ cache'.worlds \subseteq Asked
        /\ metadata'.world \in Asked \cup {NoWorld}
    BY <1>0 DEF Asked, hostVars, NamesAreKnown
  <1>2. cmd' = [cmd EXCEPT ![c] = r]
    BY <1>b
  <1>3. r.inv = {} /\ r.md = Nothing /\ r.pc = "describe"
    BY DEF NoCommand
  <1> HIDE DEF r
  <1>4. CommandKnows(c)'
    <2>0. cmd'[c] = r
      BY <1>0, <1>2 DEF CommandsOK
    <2>1. cmd'[c].inv = {} /\ cmd'[c].md.world = NoWorld /\ cmd'[c].pc = "describe"
      BY <1>3, <2>0 DEF Nothing
    <2> QED BY <2>1 DEF CommandKnows
  <1> QED BY <1>0, <1>1, <1>2, <1>4, OneStepKnown

LEMMA CommandStepKnown ==
    ASSUME TypeInv, NamesAreKnown, NEW c \in Commands,
           CommandStep(c) \/ PollsRunOut(c) \/ Fails(c)
    PROVE  NamesAreKnown'
  <1>0. CommandsOK
    BY DEF TypeInv
  <1>1. ASSUME Ends(c), UNCHANGED <<saves, created, cache, metadata>>
        PROVE  NamesAreKnown'
    <2>1. /\ Asked' = Asked /\ cache'.worlds \subseteq Asked
          /\ metadata'.world \in Asked \cup {NoWorld}
      BY <1>1 DEF Asked, NamesAreKnown
    <2> QED BY <1>0, <1>1, <2>1, EndsKnown
  <1>2. CASE LookForPlayers(c)
    <2>1. UNCHANGED <<saves, created, cache, metadata>> /\ cmd[c].pc = "players"
      BY <1>2 DEF LookForPlayers, hostVars, At
    <2>2. CASE Goes(c, "read")
      BY <1>0, <2>1, <2>2, GoesKnown
    <2> QED BY <1>1, <1>2, <2>1, <2>2 DEF LookForPlayers
  <1>3. CASE StopInstance(c)
    <2>1. UNCHANGED <<saves, created, cache, metadata>> /\ cmd[c].pc = "stop"
      BY <1>3 DEF StopInstance, At
    <2>2. CASE Goes(c, "wait")
      BY <1>0, <2>1, <2>2, GoesKnown
    <2> QED BY <1>1, <1>3, <2>1, <2>2 DEF StopInstance, AfterStopRequest
  <1>4. CASE PollSucceeds(c)
    <2>1. UNCHANGED <<saves, created, cache, metadata>> /\ cmd[c].pc = "wait"
          /\ Goes(c, "start")
      BY <1>4 DEF PollSucceeds, hostVars, At
    <2> QED BY <1>0, <2>1, GoesKnown
  <1>5. CASE Fails(c)
    BY <1>1, <1>5 DEF Fails, hostVars
  <1> QED BY <1>2, <1>3, <1>4, <1>5, DescribeKnown, InventoryKnown, ReadKnown, WriteKnown,
             RunOutKnown, StartKnown DEF CommandStep

LEMMA KnownStep == TypeInv /\ NamesAreKnown /\ [Next]_vars => NamesAreKnown'
  <1> SUFFICES ASSUME TypeInv, NamesAreKnown, [Next]_vars PROVE NamesAreKnown'
    OBVIOUS
  <1> QED BY BeginKnown, CommandStepKnown, HostKnown, WatcherKnown, IdleKnown DEF Next

(* valheim.py:240-246: for every set of worlds and every number of         *)
(* overlapping commands, the metadata and the cache name only worlds that  *)
(* exist or that a /valheim world new has asked for -- although a name is  *)
(* checked against an inventory that may be stale, before several awaits.  *)
THEOREM KnownWorldsOnly == Spec => []OnlyKnownWorlds
  <1>1. NamesAreKnown => OnlyKnownWorlds
    BY DEF NamesAreKnown, OnlyKnownWorlds, Asked
  <1>2. Spec => []NamesAreKnown
    BY KnownInit, KnownStep, TypeInvariant, PTL DEF Spec
  <1> QED BY <1>1, <1>2, PTL

=============================================================================
