--------------------------- MODULE ValheimControl ---------------------------
(***************************************************************************)
(* The /valheim commands (bot/src/cogs/valheim.py over services/compute.py *)
(* and services/world_cache.py).  Every command is a coroutine; several    *)
(* run at once, and what one learnt before an await may be out of date     *)
(* after it.  One action is the code between two awaits with the remote    *)
(* call that ends them.                                                    *)
(***************************************************************************)
EXTENDS ValheimHost

CONSTANTS
    Commands,       \* the commands that may be in flight at once
    Repeated,       \* those that may be issued again when they have ended
    Kinds           \* which of AllKinds the users issue

(* "look" is status or world list; "modifier" is modifier set, preset and  *)
(* key.  modifier list changes nothing and is left out.                    *)
AllKinds == {"look", "start", "stop", "switch", "new", "modifier"}

Switching == {"switch", "new"}

ASSUME CommandAssumption == Repeated \subseteq Commands /\ Kinds \subseteq AllKinds

VARIABLES
    cache,          \* the world inventory on the bot's disk
    cmd,            \* per command, where it is and its locals
    created         \* names that /valheim world new has written (history)

vars == <<hostVars, cache, cmd, created>>

Inventory == [worlds : SUBSET Worlds, active : Worlds \cup {NoWorld}]

NoInventory == [worlds |-> {}, active |-> NoWorld]

(* status and active are what describe_instance told the command, args the *)
(* modifiers it computed from that, inv the names it validated against,    *)
(* and md set_metadata's copy of the metadata.  last: nobody has written   *)
(* its key since it did; said: how it ended; late: the wait for TERMINATED *)
(* timed out (last and said are history).                                  *)
NoCommand ==
    [pc |-> "idle", kind |-> "look", name |-> NoWorld, status |-> "TERMINATED",
     active |-> NoWorld, args |-> {}, inv |-> {}, md |-> Nothing,
     last |-> FALSE, said |-> "nothing", late |-> FALSE]

Init ==
    /\ HostInit
    /\ cache = NoInventory
    /\ cmd = [c \in Commands |-> NoCommand]
    /\ created = {}

-----------------------------------------------------------------------------
At(c, place) == cmd[c].pc = place

Goes(c, place) == cmd' = [cmd EXCEPT ![c].pc = place]

(* A command that fails, or answers without a boot, is forgotten.  One     *)
(* that announces a boot is remembered until it is issued again, its key   *)
(* is written again, or the booted server is stopped.                      *)
Ended(c) == [NoCommand EXCEPT !.pc = IF c \in Repeated THEN "idle" ELSE "over"]

Ends(c) == cmd' = [cmd EXCEPT ![c] = Ended(c)]

Announces(c) ==
    cmd' = [cmd EXCEPT ![c] =
              IF cmd[c].last THEN [Ended(c) EXCEPT !.kind = cmd[c].kind, !.said = "booting",
                                                   !.late = cmd[c].late]
              ELSE Ended(c)]

FirstOf(a, b) == IF a # NoWorld THEN a ELSE b

(* A user issues a command whose arguments pass validation.                *)
Begin(c) ==
    /\ At(c, "idle")
    /\ \E kind \in Kinds :
       \E name \in IF kind \in Switching THEN Worlds ELSE {NoWorld} :
          cmd' = [cmd EXCEPT ![c] = [NoCommand EXCEPT !.pc = "describe",
                                       !.kind = kind, !.name = name]]
    /\ UNCHANGED <<hostVars, cache, created>>

-----------------------------------------------------------------------------
(* What the daemon lists: some saves, as of its last scan, while the game  *)
(* answers it; otherwise nothing the inventory uses.                       *)
Replies ==
    {NoInventory} \cup
    IF game = Nothing THEN {}
    ELSE [worlds : SUBSET saves \ {{}}, active : {worldEnv.world}]

(* world_cache.remember(live.worlds, live.active_world or the metadata's). *)
Remembers(live, active) ==
    IF live.worlds = {} THEN UNCHANGED cache
    ELSE cache' = [worlds |-> live.worlds, active |-> FirstOf(live.active, active)]

(* resolve_inventory, on the cache as just refreshed.                      *)
KnownWorlds(live) == IF live.worlds # {} THEN live.worlds ELSE cache.worlds

ActiveWorld(live, active) == FirstOf(active, FirstOf(live.active, cache.active))

ClobberGuardOnly(kind, name, known, active, seen) ==   \* mutant: any name is switched to
    /\ kind = "new" => name \notin known
    /\ kind = "switch" => (active = name => seen = "TERMINATED")

MayProceed(kind, name, known, active, seen) ==
    /\ kind = "new" => name \notin known
    /\ kind = "switch" => /\ name \in known
                          /\ active = name => seen = "TERMINATED"

(* The end of _fetch_inventory and the guards of _perform_switch.          *)
Validates(c, live, seen, active) ==
    IF MayProceed(cmd[c].kind, cmd[c].name, KnownWorlds(live),
                  ActiveWorld(live, active), seen)
    THEN cmd' = [cmd EXCEPT ![c].pc = IF seen = "RUNNING" THEN "players" ELSE "read",
                            ![c].status = seen,
                            ![c].active = NoWorld,
                            ![c].inv = KnownWorlds(live)]
    ELSE Ends(c)

(* The modifiers the edit of one setting makes of those in force: set,     *)
(* preset and key add a setting or take one away.                          *)
Edits(mods) == {mods \cup {s} : s \in Settings} \cup {mods \ {s} : s \in Settings}

-----------------------------------------------------------------------------
(* describe_instance, and what each command does on its answer.            *)
DescribesToLook(c) ==
    /\ cmd[c].kind = "look"
    /\ IF status = "RUNNING"
       THEN cmd' = [cmd EXCEPT ![c].pc = "inventory", ![c].active = metadata.world]
       ELSE Ends(c)

DescribesToStart(c) ==
    /\ cmd[c].kind = "start"
    /\ IF status = "RUNNING" THEN Ends(c) ELSE Goes(c, "start")

DescribesToStop(c) ==
    /\ cmd[c].kind = "stop"
    /\ IF status = "TERMINATED" THEN Ends(c) ELSE Goes(c, "stop")

DescribesToSwitch(c) ==
    /\ cmd[c].kind \in Switching
    /\ IF status = "RUNNING"
       THEN cmd' = [cmd EXCEPT ![c].pc = "inventory", ![c].status = status,
                               ![c].active = metadata.world]
       ELSE Validates(c, NoInventory, status, metadata.world)

DescribesToModify(c) ==
    /\ cmd[c].kind = "modifier"
    /\ \E args \in Edits(metadata.modifiers) :
          cmd' = [cmd EXCEPT ![c].pc = IF status = "RUNNING" THEN "players" ELSE "read",
                             ![c].status = status, ![c].args = args]

Describe(c) ==
    /\ At(c, "describe")
    /\ \/ DescribesToLook(c) \/ DescribesToStart(c) \/ DescribesToStop(c)
       \/ DescribesToSwitch(c) \/ DescribesToModify(c)
    /\ UNCHANGED <<hostVars, cache, created>>

(* fetch_status for the inventory.                                         *)
TakeInventory(c) ==
    /\ At(c, "inventory")
    /\ \E live \in Replies :
          /\ Remembers(live, cmd[c].active)
          /\ IF cmd[c].kind = "look" THEN Ends(c)
             ELSE Validates(c, live, cmd[c].status, cmd[c].active)
    /\ UNCHANGED <<hostVars, created>>

(* fetch_status for the players guard.  The count it is told and force     *)
(* decide between going on and giving up; either may come.                 *)
LookForPlayers(c) ==
    /\ At(c, "players")
    /\ Goes(c, "read") \/ Ends(c)
    /\ UNCHANGED <<hostVars, cache, created>>

-----------------------------------------------------------------------------
(* set_metadata: instances.get ...                                         *)
ReadMetadata(c) ==
    /\ At(c, "read")
    /\ cmd' = [cmd EXCEPT ![c].pc = "write", ![c].md = metadata]
    /\ UNCHANGED <<hostVars, cache, created>>

(* ... and instances.setMetadata, which replaces everything and is refused *)
(* when the fingerprint is no longer that of what is stored.               *)
FingerprintIgnored(c) == TRUE   \* mutant: no fingerprint is sent

FingerprintHolds(c) == metadata = cmd[c].md

WithKey(c) ==
    IF cmd[c].kind = "modifier"
    THEN [cmd[c].md EXCEPT !.modifiers = cmd[c].args]
    ELSE [cmd[c].md EXCEPT !.world = cmd[c].name]

StopsIfRunning(c) ==    \* mutant: an instance still coming up is left alone
    IF cmd[c].status = "RUNNING" THEN "stop" ELSE "start"

AfterWrite(c) == IF cmd[c].status # "TERMINATED" THEN "stop" ELSE "start"

Supersedes(c, d) ==
    /\ d # c
    /\ IF cmd[c].kind = "modifier" THEN cmd[d].kind = "modifier"
       ELSE cmd[d].kind \in Switching

WriteMetadata(c) ==
    /\ At(c, "write")
    /\ FingerprintHolds(c)
    /\ metadata' = WithKey(c)
    /\ created' = IF cmd[c].kind = "new" THEN created \cup {cmd[c].name} ELSE created
    /\ cmd' = [d \in Commands |->
                 CASE d = c -> [cmd[c] EXCEPT !.pc = AfterWrite(c), !.md = Nothing,
                                              !.args = {}, !.last = TRUE]
                   [] Supersedes(c, d) -> IF cmd[d].said = "booting" THEN Ended(d)
                                          ELSE [cmd[d] EXCEPT !.last = FALSE]
                   [] OTHER -> cmd[d]]
    /\ UNCHANGED <<gceVars, worldEnv, phase, game, saves, cache>>

-----------------------------------------------------------------------------
(* stop_instance skips an instance that is TERMINATED.                     *)
StartsAtOnce(c) == IF cmd[c].kind = "stop" THEN Ends(c) ELSE Goes(c, "start")   \* mutant: no wait

AfterStopRequest(c) == IF cmd[c].kind = "stop" THEN Ends(c) ELSE Goes(c, "wait")

StopInstance(c) ==
    /\ At(c, "stop")
    /\ Stop
    /\ AfterStopRequest(c)
    /\ UNCHANGED <<metadata, worldEnv, phase, game, saves, cache, created>>

(* One poll of _wait_for_status that sees the target; the others only take *)
(* time ...                                                                *)
PollSucceeds(c) ==
    /\ At(c, "wait")
    /\ status = "TERMINATED"
    /\ Goes(c, "start")
    /\ UNCHANGED <<hostVars, cache, created>>

(* ... until the last one has not seen it either.                          *)
PollsRunOut(c) ==
    /\ At(c, "wait")
    /\ status # "TERMINATED"
    /\ cmd' = [cmd EXCEPT ![c].pc = "start", ![c].late = TRUE]
    /\ UNCHANGED <<hostVars, cache, created>>

(* A switch leaves the inventory it expects in the cache.                  *)
Projects(c) ==
    cache' = IF cmd[c].kind \in Switching
             THEN [worlds |-> cmd[c].inv \cup {cmd[c].name}, active |-> cmd[c].name]
             ELSE cache

(* start_instance skips an instance that is RUNNING; then the answer.      *)
StartInstance(c) ==
    /\ At(c, "start")
    /\ Start
    /\ IF cmd[c].kind = "start" THEN Ends(c) ELSE Announces(c)
    /\ Projects(c)
    /\ UNCHANGED <<metadata, worldEnv, phase, game, saves, created>>

InFlight(c) == cmd[c].pc \notin {"idle", "over"}

(* A call raises (a refused fingerprint, an API error, a message Discord   *)
(* does not take, a restart of the bot): the command ends where it is.     *)
Fails(c) ==
    /\ InFlight(c)
    /\ Ends(c)
    /\ UNCHANGED <<hostVars, cache, created>>

CommandStep(c) ==
    \/ Describe(c) \/ TakeInventory(c) \/ LookForPlayers(c)
    \/ ReadMetadata(c) \/ WriteMetadata(c)
    \/ StopInstance(c) \/ PollSucceeds(c) \/ StartInstance(c)

-----------------------------------------------------------------------------
(* The idle watcher, which needs more periods of empty answers than a boot *)
(* takes.  What was announced before is history then.                      *)
WatcherStops ==
    /\ status = "RUNNING"
    /\ phase = "done"
    /\ Stop
    /\ cmd' = [c \in Commands |->
                 IF cmd[c].said = "booting" THEN Ended(c) ELSE cmd[c]]
    /\ UNCHANGED <<metadata, worldEnv, phase, game, saves, cache, created>>

(* The bot's disk is replaced, or the file on it is unreadable.            *)
CacheLost ==
    /\ cache' = NoInventory
    /\ UNCHANGED <<hostVars, cmd, created>>

(* The one assumption on time: a command that found the instance           *)
(* TERMINATED is two API calls away from having written its key, a boot    *)
(* many seconds away from the script's reading it.                         *)
Prompt ==
    \A c \in Commands :
       cmd[c].pc \in {"read", "write"} => cmd[c].status # "TERMINATED"

HostMoves ==
    /\ BootBegins \/ AutoStarts \/ (Prompt /\ ScriptResolves) \/ ScriptRestarts \/ ComesDown
    /\ UNCHANGED <<cache, cmd, created>>

Next ==
    \/ \E c \in Commands : Begin(c) \/ CommandStep(c) \/ PollsRunOut(c) \/ Fails(c)
    \/ HostMoves
    \/ WatcherStops
    \/ CacheLost

Spec == Init /\ [][Next]_vars

(* A coroutine runs on, calls return; an instance completes its            *)
(* transitions and its startup script.                                     *)
Fairness ==
    /\ \A c \in Commands : WF_vars(CommandStep(c))
    /\ WF_vars(HostMoves)

FairSpec == Spec /\ Fairness

-----------------------------------------------------------------------------
(* Types of the state.                                                     *)
TypeOK ==
    /\ HostTypeOK
    /\ cache \in Inventory
    /\ cmd \in [Commands ->
         [pc : {"idle", "over", "describe", "inventory", "players", "read", "write",
                "stop", "wait", "start"},
          kind : AllKinds, name : Worlds \cup {NoWorld}, status : Status,
          active : Worlds \cup {NoWorld}, args : SUBSET Settings,
          inv : SUBSET Worlds, md : Config,
          last : BOOLEAN, said : {"nothing", "booting"}, late : BOOLEAN]]
    /\ created \subseteq Worlds

(* compute.py:107, "preserving all other keys": the write of one command   *)
(* never undoes what another has done to the other key since it read them. *)
OtherKeyKept ==
    [][\A c \in Commands : At(c, "write") /\ metadata' # metadata /\ cmd'[c] # cmd[c]
          => IF cmd[c].kind = "modifier" THEN metadata'.world = metadata.world
             ELSE metadata'.modifiers = metadata.modifiers]_vars

(* valheim.py:240-246: no mistyped name reaches the metadata, where the    *)
(* next boot would generate a world for it, nor the cache: each names      *)
(* saves and worlds that a /valheim world new has asked for.               *)
OnlyKnownWorlds ==
    cache.worlds \cup {metadata.world} \subseteq saves \cup created \cup {NoWorld}

(* A command that answered that its change is booting, or takes effect on  *)
(* boot (valheim.py:293-295, 359-361), and was the last to write its key:  *)
(* a server that has booted runs with the change, whatever other commands  *)
(* and the watcher were doing to the instance at the time.                 *)
AnnouncedIsInEffect ==
    \A c \in Commands :
       cmd[c].said = "booting" /\ status = "RUNNING" /\ phase = "done"
       => IF cmd[c].kind = "modifier"
          THEN game.modifiers = Resolve(metadata).modifiers
          ELSE game.world = Resolve(metadata).world

(* And it does boot: after an answer that was not preceded by the warning  *)
(* about a slow stop, the server comes up with the change, unless the      *)
(* command is issued again before.                                         *)
AnnouncedBoots ==
    \A c \in Commands :
       cmd[c].said = "booting" /\ ~cmd[c].late
       ~> (status = "RUNNING" /\ phase = "done") \/ cmd[c].said # "booting"

=============================================================================
