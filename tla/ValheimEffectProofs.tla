------------------------- MODULE ValheimEffectProofs -------------------------
(***************************************************************************)
(* For every set of worlds, settings and overlapping commands: a change    *)
(* that was announced, and not written over since, is in effect on every   *)
(* server that has booted.                                                 *)
(***************************************************************************)
EXTENDS ValheimControlProofs

Writing == Switching \cup {"modifier"}

(* No boot is past the point at which it has taken the key of this kind of *)
(* command from the metadata, unless it took what the metadata says now.   *)
Applied(kind) ==
    status = "RUNNING" =>
        IF kind = "modifier"
        THEN /\ phase = "resolved" => worldEnv.modifiers = Resolve(metadata).modifiers
             /\ phase = "done" => game.modifiers = Resolve(metadata).modifiers
        ELSE /\ phase = "resolved" => worldEnv.world = Resolve(metadata).world
             /\ phase = "done" => game.world = Resolve(metadata).world

(* The boot, if there is one, has yet to read the metadata.                *)
NotResolved == status = "RUNNING" => phase = "booting"

(* What a command carries from its reading of the status to its answer.    *)
(* One that found the instance TERMINATED writes before a boot reads; any  *)
(* other stops the instance after its write, so that the next boot reads.  *)
Carries(c) ==
    /\ cmd[c].said = "booting" => cmd[c].pc \in {"idle", "over"}
    /\ cmd[c].last \/ cmd[c].said = "booting" => cmd[c].kind \in Writing
    /\ cmd[c].pc = "inventory" /\ cmd[c].kind # "look" => cmd[c].status = "RUNNING"
    /\ cmd[c].pc = "players" => cmd[c].status = "RUNNING"
    /\ cmd[c].pc \in {"read", "write"} /\ cmd[c].status = "TERMINATED" => NotResolved
    /\ (cmd[c].last /\ cmd[c].pc \in {"wait", "start"}) \/ cmd[c].said = "booting"
           => Applied(cmd[c].kind)

AllCarry == \A c \in Commands : Carries(c)

-----------------------------------------------------------------------------
LEMMA AllCarryInit == Init => AllCarry
  BY DEF Init, NoCommand, AllCarry, Carries

(* The host: a boot that begins has resolved nothing, and one that         *)
(* resolves or restarts the game does so from what the metadata says.      *)
LEMMA HostApplies ==
    ASSUME NEW kind, HostMoves, Applied(kind)
    PROVE  Applied(kind)'
  <1> USE DEF Applied, Resolve
  <1>1. CASE BootBegins
    BY <1>1 DEF BootBegins
  <1>2. CASE AutoStarts
    BY <1>2 DEF AutoStarts, Launch, gceVars
  <1>3. CASE ScriptResolves
    BY <1>3 DEF ScriptResolves, gceVars
  <1>4. CASE ScriptRestarts
    BY <1>4 DEF ScriptRestarts, Launch, gceVars
  <1>5. CASE ComesDown
    BY <1>5 DEF ComesDown, Halted
  <1> QED BY <1>1, <1>2, <1>3, <1>4, <1>5 DEF HostMoves

(* Only the script takes the metadata, and not while a command that found  *)
(* the instance TERMINATED has its write before it.                        *)
LEMMA HostUnresolved ==
    ASSUME HostMoves, NotResolved
    PROVE  NotResolved' \/ Prompt
  <1>1. CASE BootBegins \/ AutoStarts \/ ScriptRestarts \/ ComesDown
    BY <1>1 DEF BootBegins, AutoStarts, ScriptRestarts, ComesDown, Halted, gceVars, NotResolved
  <1> QED BY <1>1 DEF HostMoves

LEMMA HostStays ==
    ASSUME UNCHANGED hostVars
    PROVE  (NotResolved' <=> NotResolved) /\ \A kind : Applied(kind)' <=> Applied(kind)
  BY DEF hostVars, gceVars, NotResolved, Applied, Resolve

(* A stopped instance has no boot.                                         *)
LEMMA StopApplies ==
    ASSUME Stop
    PROVE  NotResolved' /\ \A kind : Applied(kind)'
  BY DEF Stop, AfterStop, NotResolved, Applied

-----------------------------------------------------------------------------
(* A command that is over, or begins, carries nothing.                     *)
LEMMA EndedCarries ==
    ASSUME NEW c \in Commands, cmd'[c] = Ended(c)
    PROVE  Carries(c)'
  BY DEF Carries, Ended, NoCommand

LEMMA SameCarries ==
    ASSUME NEW c \in Commands, Carries(c), cmd'[c] = cmd[c],
           NotResolved => NotResolved', \A kind : Applied(kind) => Applied(kind)'
    PROVE  Carries(c)'
  BY DEF Carries, Applied

Others(c) == \A d \in Commands \ {c} : cmd'[d] = cmd[d]

LEMMA OneCarries ==
    ASSUME AllCarry, NEW c \in Commands, Others(c), Carries(c)',
           NotResolved => NotResolved', \A kind : Applied(kind) => Applied(kind)'
    PROVE  AllCarry'
  <1>1. ASSUME NEW d \in Commands \ {c}
        PROVE  Carries(d)'
    BY SameCarries DEF AllCarry, Others
  <1> QED BY <1>1 DEF AllCarry

LEMMA EndsCarries ==
    ASSUME CommandsOK, AllCarry, NEW c \in Commands, Ends(c),
           NotResolved => NotResolved', \A kind : Applied(kind) => Applied(kind)'
    PROVE  AllCarry'
  <1>1. cmd'[c] = Ended(c) /\ Others(c)
    BY DEF Ends, CommandsOK, Others
  <1> QED BY <1>1, EndedCarries, OneCarries

(* A command that goes on keeps its kind, what it has written and how it   *)
(* ended the last time.                                                    *)
GoesAlong(c) ==
    /\ cmd'[c].kind = cmd[c].kind /\ cmd'[c].last = cmd[c].last
    /\ cmd'[c].said = cmd[c].said
    /\ Others(c)

LEMMA GoesKeeps ==
    ASSUME CommandsOK, NEW c \in Commands, NEW x, Goes(c, x)
    PROVE  GoesAlong(c) /\ cmd'[c].pc = x /\ cmd'[c].status = cmd[c].status
  BY DEF CommandsOK, CommandState, Goes, GoesAlong, Others

LEMMA BeginCarries ==
    ASSUME TypeInv, AllCarry, NEW c \in Commands, Begin(c)
    PROVE  AllCarry'
  <1>1. PICK kind \in Kinds, name \in Worlds \cup {NoWorld} :
          cmd' = [cmd EXCEPT ![c] = [NoCommand EXCEPT !.pc = "describe",
                                       !.kind = kind, !.name = name]]
    BY DEF Begin
  <1>2. CommandsOK /\ UNCHANGED hostVars
    BY DEF TypeInv, Begin
  <1>3. /\ cmd'[c].pc = "describe" /\ cmd'[c].last = FALSE /\ cmd'[c].said = "nothing"
        /\ Others(c)
    BY <1>1, <1>2 DEF CommandsOK, NoCommand, Others
  <1>4. Carries(c)'
    BY <1>3 DEF Carries
  <1> QED BY <1>2, <1>3, <1>4, HostStays, OneCarries

LEMMA ValidatesCarries ==
    ASSUME CommandsOK, AllCarry, NEW c \in Commands, cmd[c].kind \in Switching,
           cmd[c].pc \in {"describe", "inventory"}, UNCHANGED hostVars,
           NEW live, NEW active, NEW seen, Validates(c, live, seen, active),
           seen = "TERMINATED" => NotResolved
    PROVE  AllCarry'
  <1>1. CASE Ends(c)
    BY <1>1, EndsCarries, HostStays
  <1>2. CASE cmd' = [cmd EXCEPT ![c].pc = IF seen = "RUNNING" THEN "players" ELSE "read",
                            ![c].status = seen,
                            ![c].active = NoWorld,
                            ![c].inv = KnownWorlds(live)]
    <2>1. /\ GoesAlong(c) /\ cmd'[c].status = seen
          /\ cmd'[c].pc = IF seen = "RUNNING" THEN "players" ELSE "read"
      BY <1>2 DEF CommandsOK, CommandState, GoesAlong, Others
    <2>2. Carries(c) /\ (seen = "TERMINATED" => NotResolved')
      BY HostStays DEF AllCarry
    <2>3. Carries(c)'
      BY <2>1, <2>2 DEF Carries, GoesAlong, Writing
    <2> QED BY <2>1, <2>3, HostStays, OneCarries DEF GoesAlong
  <1> QED BY <1>1, <1>2 DEF Validates

LEMMA DescribeCarries ==
    ASSUME TypeInv, AllCarry, NEW c \in Commands, Describe(c)
    PROVE  AllCarry'
  <1>0. CommandsOK /\ Carries(c) /\ cmd[c].pc = "describe" /\ UNCHANGED hostVars
    BY DEF TypeInv, AllCarry, Describe, At
  <1>1. CASE Ends(c)
    BY <1>0, <1>1, EndsCarries, HostStays
  <1>2. ASSUME GoesAlong(c), Carries(c)'
        PROVE  AllCarry'
    BY <1>0, <1>2, OneCarries, HostStays DEF GoesAlong
  <1>3. CASE DescribesToLook(c) /\ ~Ends(c)
    <2>1. GoesAlong(c) /\ cmd'[c].pc = "inventory" /\ cmd[c].kind = "look"
      BY <1>0, <1>3 DEF DescribesToLook, CommandsOK, CommandState, GoesAlong, Others
    <2>2. Carries(c)'
      BY <1>0, <2>1 DEF Carries, GoesAlong
    <2> QED BY <1>2, <2>1, <2>2
  <1>4. CASE (DescribesToStart(c) \/ DescribesToStop(c)) /\ ~Ends(c)
    <2>1. /\ GoesAlong(c) /\ cmd'[c].pc \in {"start", "stop"}
          /\ cmd[c].kind \in {"start", "stop"}
      BY <1>0, <1>4, GoesKeeps DEF DescribesToStart, DescribesToStop
    <2>2. Carries(c)'
      BY <1>0, <2>1 DEF Carries, GoesAlong, Writing, Switching
    <2> QED BY <1>2, <2>1, <2>2
  <1>5. CASE DescribesToSwitch(c)
    <2>1. CASE status = "RUNNING"
      <3>1. GoesAlong(c) /\ cmd'[c].pc = "inventory" /\ cmd'[c].status = "RUNNING"
        BY <1>0, <1>5, <2>1
           DEF DescribesToSwitch, CommandsOK, CommandState, GoesAlong, Others
      <3>2. Carries(c)'
        BY <1>0, <3>1 DEF Carries, GoesAlong
      <3> QED BY <1>2, <3>1, <3>2
    <2>2. CASE status # "RUNNING"
      <3>1. cmd[c].kind \in Switching /\ Validates(c, NoInventory, status, metadata.world)
        BY <1>5, <2>2 DEF DescribesToSwitch
      <3>2. NotResolved
        BY <2>2 DEF NotResolved
      <3> QED BY <1>0, <3>1, <3>2, ValidatesCarries
    <2> QED BY <2>1, <2>2
  <1>6. CASE DescribesToModify(c)
    <2>1. PICK args \in Edits(metadata.modifiers) :
          cmd' = [cmd EXCEPT ![c].pc = IF status = "RUNNING" THEN "players" ELSE "read",
                             ![c].status = status, ![c].args = args]
      BY <1>6 DEF DescribesToModify
    <2>2. /\ GoesAlong(c) /\ cmd'[c].status = status
          /\ cmd'[c].pc = IF status = "RUNNING" THEN "players" ELSE "read"
      BY <1>0, <2>1 DEF CommandsOK, CommandState, GoesAlong, Others
    <2>3. status # "RUNNING" => NotResolved'
      BY <1>0, HostStays DEF NotResolved
    <2>4. Carries(c)'
      BY <1>0, <2>2, <2>3 DEF Carries, GoesAlong
    <2> QED BY <1>2, <2>2, <2>4
  <1> QED BY <1>1, <1>3, <1>4, <1>5, <1>6 DEF Describe

LEMMA InventoryCarries ==
    ASSUME TypeInv, NamesAreKnown, AllCarry, NEW c \in Commands, TakeInventory(c)
    PROVE  AllCarry'
  <1>0. CommandsOK /\ Carries(c) /\ cmd[c].pc = "inventory" /\ UNCHANGED hostVars
    BY DEF TypeInv, AllCarry, TakeInventory, At
  <1>1. PICK live \in Replies :
            IF cmd[c].kind = "look" THEN Ends(c)
            ELSE Validates(c, live, cmd[c].status, cmd[c].active)
    BY DEF TakeInventory
  <1>2. CASE cmd[c].kind = "look"
    BY <1>0, <1>1, <1>2, EndsCarries, HostStays
  <1>3. CASE cmd[c].kind # "look"
    <2>1. cmd[c].kind \in Switching
      BY <1>0, <1>3 DEF NamesAreKnown, CommandKnows
    <2>2. cmd[c].status # "TERMINATED"
      BY <1>0, <1>3 DEF Carries
    <2> QED BY <1>0, <1>1, <1>3, <2>1, <2>2, ValidatesCarries
  <1> QED BY <1>2, <1>3

LEMMA PlayersCarries ==
    ASSUME TypeInv, AllCarry, NEW c \in Commands, LookForPlayers(c)
    PROVE  AllCarry'
  <1>0. CommandsOK /\ Carries(c) /\ cmd[c].pc = "players" /\ UNCHANGED hostVars
    BY DEF TypeInv, AllCarry, LookForPlayers, At
  <1>1. CASE Ends(c)
    BY <1>0, <1>1, EndsCarries, HostStays
  <1>2. CASE Goes(c, "read")
    <2>1. GoesAlong(c) /\ cmd'[c].pc = "read" /\ cmd'[c].status = cmd[c].status
      BY <1>0, <1>2, GoesKeeps
    <2>2. Carries(c)'
      BY <1>0, <2>1 DEF Carries, GoesAlong
    <2> QED BY <1>0, <2>1, <2>2, HostStays, OneCarries DEF GoesAlong
  <1> QED BY <1>1, <1>2 DEF LookForPlayers

LEMMA ReadCarries ==
    ASSUME TypeInv, AllCarry, NEW c \in Commands, ReadMetadata(c)
    PROVE  AllCarry'
  <1>0. CommandsOK /\ Carries(c) /\ cmd[c].pc = "read" /\ UNCHANGED hostVars
    BY DEF TypeInv, AllCarry, ReadMetadata, At
  <1>1. GoesAlong(c) /\ cmd'[c].pc = "write" /\ cmd'[c].status = cmd[c].status
    BY <1>0 DEF ReadMetadata, CommandsOK, CommandState, GoesAlong, Others
  <1>2. NotResolved' <=> NotResolved
    BY <1>0, HostStays
  <1>3. Carries(c)'
    BY <1>0, <1>1, <1>2 DEF Carries, GoesAlong
  <1> QED BY <1>0, <1>1, <1>3, HostStays, OneCarries DEF GoesAlong

(* The write: what it changes is the writer's own key, so that a command   *)
(* that it does not supersede has the other one.                           *)
LEMMA WriteApplies ==
    ASSUME TypeInv, NEW c \in Commands, WriteMetadata(c)
    PROVE  /\ UNCHANGED <<status, worldEnv, phase, game>>
           /\ cmd[c].kind = "modifier" => metadata'.world = metadata.world
           /\ cmd[c].kind # "modifier" => metadata'.modifiers = metadata.modifiers
  <1>1. UNCHANGED <<status, worldEnv, phase, game>>
    BY DEF WriteMetadata, gceVars
  <1>2. metadata' = WithKey(c) /\ cmd[c].md = metadata /\ metadata \in Config
    BY DEF WriteMetadata, FingerprintHolds, TypeInv, HostTypeOK
  <1> QED BY <1>1, <1>2 DEF WithKey, Config

LEMMA WriteCarries ==
    ASSUME TypeInv, NamesAreKnown, AllCarry, NEW c \in Commands, WriteMetadata(c)
    PROVE  AllCarry'
  <1>0. /\ CommandsOK /\ Carries(c) /\ cmd[c] \in CommandState /\ cmd[c].pc = "write"
        /\ cmd[c].kind \in Writing
    BY DEF TypeInv, CommandsOK, AllCarry, WriteMetadata, At, NamesAreKnown, CommandKnows,
       Writing
  <1>1. NotResolved' <=> NotResolved
    BY WriteApplies DEF NotResolved
  <1>2. Carries(c)'
    <2>1. cmd'[c] = AfterOwnWrite(c)
      BY WrittenCommands
    <2>2. /\ cmd'[c].pc = AfterWrite(c) /\ cmd'[c].kind = cmd[c].kind
          /\ cmd'[c].said = cmd[c].said
      BY <1>0, <2>1 DEF AfterOwnWrite, CommandState
    <2>3. cmd'[c].pc = "start" => cmd[c].status = "TERMINATED"
      BY <2>2 DEF AfterWrite
    <2>4. NotResolved' => \A kind : Applied(kind)'
      BY DEF NotResolved, Applied
    <2>5. cmd'[c].pc \in {"start", "stop"}
      BY <2>2 DEF AfterWrite
    <2> QED BY <1>0, <1>1, <2>2, <2>3, <2>4, <2>5 DEF Carries
  <1>3. ASSUME NEW d \in Commands, d # c
        PROVE  Carries(d)'
    <2>0. Carries(d) /\ cmd[d] \in CommandState
      BY <1>0 DEF AllCarry, CommandsOK
    <2>1. CASE cmd'[d] = Ended(d)
      BY <2>1, EndedCarries
    <2>2. CASE Supersedes(c, d) /\ cmd[d].said = "nothing"
               /\ cmd'[d] = [cmd[d] EXCEPT !.last = FALSE]
      <3>1. /\ cmd'[d].pc = cmd[d].pc /\ cmd'[d].kind = cmd[d].kind
            /\ cmd'[d].status = cmd[d].status
            /\ cmd'[d].last = FALSE /\ cmd'[d].said = "nothing"
        BY <2>0, <2>2 DEF CommandState
      <3> QED BY <1>1, <2>0, <3>1 DEF Carries
    <2>3. CASE ~Supersedes(c, d) /\ cmd'[d] = cmd[d]
      <3>1. cmd[d].kind \in Writing => (cmd[d].kind = "modifier" <=> cmd[c].kind # "modifier")
        BY <1>0, <1>3, <2>3 DEF Supersedes, Writing, Switching
      <3>2. cmd[d].kind \in Writing /\ Applied(cmd[d].kind) => Applied(cmd[d].kind)'
        BY <2>3, <3>1, WriteApplies DEF Applied, Resolve
      <3> QED BY <1>1, <2>0, <2>3, <3>2 DEF Carries
    <2>4. \/ cmd'[d] = Ended(d)
          \/ Supersedes(c, d) /\ cmd[d].said = "nothing"
             /\ cmd'[d] = [cmd[d] EXCEPT !.last = FALSE]
          \/ ~Supersedes(c, d) /\ cmd'[d] = cmd[d]
      <3>1. cmd'[d] = CASE d = c -> AfterOwnWrite(c)
                        [] Supersedes(c, d) -> IF cmd[d].said = "booting" THEN Ended(d)
                                               ELSE [cmd[d] EXCEPT !.last = FALSE]
                        [] OTHER -> cmd[d]
        BY Zenon DEF WriteMetadata, AfterOwnWrite
      <3>2. cmd[d].said \in {"nothing", "booting"}
        BY <2>0 DEF CommandState
      <3> QED BY <1>3, <3>1, <3>2
    <2> QED BY <2>1, <2>2, <2>3, <2>4
  <1> QED BY <1>2, <1>3 DEF AllCarry

LEMMA StopCarries ==
    ASSUME TypeInv, AllCarry, NEW c \in Commands, StopInstance(c)
    PROVE  AllCarry'
  <1>0. CommandsOK /\ Carries(c) /\ cmd[c].pc = "stop"
    BY DEF TypeInv, AllCarry, StopInstance, At
  <1>1. NotResolved' /\ \A kind : Applied(kind)'
    BY StopApplies DEF StopInstance
  <1>2. CASE Ends(c)
    BY <1>0, <1>1, <1>2, EndsCarries
  <1>3. CASE Goes(c, "wait")
    <2>1. GoesAlong(c) /\ cmd'[c].pc = "wait"
      BY <1>0, <1>3, GoesKeeps
    <2>2. Carries(c)'
      BY <1>0, <1>1, <2>1 DEF Carries, GoesAlong
    <2> QED BY <1>1, <2>1, <2>2, OneCarries DEF GoesAlong
  <1> QED BY <1>2, <1>3 DEF StopInstance, AfterStopRequest

LEMMA WaitCarries ==
    ASSUME TypeInv, AllCarry, NEW c \in Commands, PollSucceeds(c) \/ PollsRunOut(c)
    PROVE  AllCarry'
  <1>0. CommandsOK /\ Carries(c) /\ cmd[c].pc = "wait" /\ UNCHANGED hostVars
    BY DEF TypeInv, AllCarry, PollSucceeds, PollsRunOut, At
  <1>1. GoesAlong(c) /\ cmd'[c].pc = "start"
    <2>1. CASE PollSucceeds(c)
      BY <1>0, <2>1, GoesKeeps DEF PollSucceeds
    <2>2. CASE PollsRunOut(c)
      BY <1>0, <2>2 DEF PollsRunOut, CommandsOK, CommandState, GoesAlong, Others
    <2> QED BY <2>1, <2>2
  <1>2. Applied(cmd[c].kind) => Applied(cmd[c].kind)'
    BY <1>0, <1>1 DEF GoesAlong, hostVars, gceVars, Applied, Resolve
  <1>3. Carries(c)'
    BY <1>0, <1>1, <1>2 DEF Carries, GoesAlong
  <1> QED BY <1>0, <1>1, <1>3, HostStays, OneCarries DEF GoesAlong

LEMMA StartCarries ==
    ASSUME TypeInv, AllCarry, NEW c \in Commands, StartInstance(c)
    PROVE  AllCarry'
  <1>0. /\ CommandsOK /\ Carries(c) /\ cmd[c].pc = "start"
        /\ Start /\ UNCHANGED <<metadata, worldEnv, phase, game>>
    BY DEF TypeInv, AllCarry, StartInstance, At
  <1>1. /\ NotResolved => NotResolved'
        /\ \A kind : Applied(kind) => Applied(kind)'
    BY <1>0 DEF Start, AfterStart, NotResolved, Applied, Resolve
  <1>2. CASE Ends(c)
    BY <1>0, <1>1, <1>2, EndsCarries
  <1>3. CASE Announces(c) /\ cmd[c].last
    <2>1. /\ cmd'[c].kind = cmd[c].kind /\ cmd'[c].last = FALSE
          /\ cmd'[c].pc = Ended(c).pc /\ Others(c)
      BY <1>0, <1>3 DEF Announces, CommandsOK, Ended, NoCommand, Others
    <2>2. cmd'[c].pc \in {"idle", "over"}
      BY <2>1, EndedIdle
    <2>3. cmd[c].kind \in Writing /\ Applied(cmd[c].kind)
      BY <1>0, <1>3 DEF Carries
    <2>4. Applied(cmd[c].kind)'
      BY <1>0, <2>1, <2>3 DEF Start, AfterStart, Applied, Resolve
    <2>5. Carries(c)'
      BY <2>1, <2>2, <2>3, <2>4 DEF Carries
    <2> QED BY <1>1, <2>1, <2>5, OneCarries
  <1>4. CASE Announces(c) /\ ~cmd[c].last
    <2>1. Ends(c)
      BY <1>4 DEF Announces, Ends
    <2> QED BY <1>2, <2>1
  <1> QED BY <1>2, <1>3, <1>4 DEF StartInstance

LEMMA CommandCarries ==
    ASSUME TypeInv, NamesAreKnown, AllCarry, NEW c \in Commands,
           CommandStep(c) \/ PollsRunOut(c) \/ Fails(c)
    PROVE  AllCarry'
  <1>1. CASE Fails(c)
    BY <1>1, EndsCarries, HostStays DEF TypeInv, Fails
  <1> QED BY <1>1, DescribeCarries, InventoryCarries, PlayersCarries, ReadCarries, WriteCarries,
             StopCarries, WaitCarries, StartCarries DEF CommandStep

-----------------------------------------------------------------------------
LEMMA HostCarries ==
    ASSUME AllCarry, HostMoves
    PROVE  AllCarry'
  <1>1. cmd' = cmd /\ \A kind : Applied(kind) => Applied(kind)'
    BY HostApplies DEF HostMoves
  <1>2. ASSUME NEW c \in Commands
        PROVE  Carries(c)'
    <2>1. Carries(c)
      BY DEF AllCarry
    <2>2. cmd[c].pc \in {"read", "write"} /\ cmd[c].status = "TERMINATED" => NotResolved'
      BY <2>1, HostUnresolved DEF Carries, Prompt
    <2> QED BY <1>1, <2>1, <2>2 DEF Carries, Applied
  <1> QED BY <1>2 DEF AllCarry

LEMMA WatcherCarries ==
    ASSUME AllCarry, WatcherStops
    PROVE  AllCarry'
  <1>1. NotResolved' /\ \A kind : Applied(kind)'
    BY StopApplies DEF WatcherStops
  <1>2. ASSUME NEW c \in Commands
        PROVE  Carries(c)'
    <2>1. cmd'[c] = cmd[c] \/ cmd'[c] = Ended(c)
      BY DEF WatcherStops
    <2> QED BY <1>1, <2>1, EndedCarries, SameCarries DEF AllCarry
  <1> QED BY <1>2 DEF AllCarry

LEMMA IdleCarries ==
    ASSUME AllCarry, CacheLost \/ UNCHANGED vars
    PROVE  AllCarry'
  <1>1. UNCHANGED <<hostVars, cmd>>
    BY DEF CacheLost, vars
  <1> QED BY <1>1, HostStays, SameCarries DEF AllCarry

LEMMA CarryStep == TypeInv /\ NamesAreKnown /\ AllCarry /\ [Next]_vars => AllCarry'
  <1> SUFFICES ASSUME TypeInv, NamesAreKnown, AllCarry, [Next]_vars PROVE AllCarry'
    OBVIOUS
  <1> QED BY BeginCarries, CommandCarries, HostCarries, WatcherCarries, IdleCarries DEF Next

(* valheim.py:293-295, 359-361: for every set of worlds and settings and   *)
(* every number of overlapping commands, a server that has booted runs     *)
(* with the change that was announced last for its key -- whatever the     *)
(* other commands and the watcher did to the instance between the write,   *)
(* the stop, the start and the answer.                                     *)
THEOREM AnnouncedInEffect == Spec => []AnnouncedIsInEffect
  <1>1. AllCarry => AnnouncedIsInEffect
    BY DEF AllCarry, Carries, Applied, AnnouncedIsInEffect
  <1>2. Spec => [](TypeInv /\ NamesAreKnown)
    BY KnownInit, KnownStep, TypeInvariant, PTL DEF Spec
  <1>3. Spec => []AllCarry
    BY <1>2, AllCarryInit, CarryStep, PTL DEF Spec
  <1> QED BY <1>1, <1>3, PTL

==============================================================================
