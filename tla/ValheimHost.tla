----------------------------- MODULE ValheimHost -----------------------------
(***************************************************************************)
(* The Valheim VM as the bot's commands move it: the instance metadata     *)
(* they write, the boot that turns it into world.env, and the game server  *)
(* that world.env launches (server/startup-script.sh.tftpl).               *)
(*                                                                         *)
(* World modifiers are a set of settings that differ from the game's       *)
(* defaults; the launch-argument string they travel in is empty when the   *)
(* set is.                                                                 *)
(***************************************************************************)
EXTENDS GceInstance

CONSTANTS
    Worlds,         \* legal world names
    NoWorld,        \* stands for an absent metadata key, None and no file
    Settings,       \* world modifiers other than the game's defaults
    DefaultWorld,   \* Terraform's world_name
    DefaultArgs     \* Terraform's world_modifiers

ASSUME HostAssumption ==
    /\ NoWorld \notin Worlds
    /\ DefaultWorld \in Worlds
    /\ DefaultArgs \subseteq Settings

VARIABLES
    metadata,       \* the two keys of the instance metadata the bot writes
    worldEnv,       \* /etc/valheim/world.env, kept on the boot disk
    phase,          \* how far the startup script is in this boot
    game,           \* what the running game server was launched with
    saves           \* world saves on the data disk

hostVars == <<gceVars, metadata, worldEnv, phase, game, saves>>

Config == [world : Worlds \cup {NoWorld}, modifiers : SUBSET Settings]

Nothing == [world |-> NoWorld, modifiers |-> {}]

HostTypeOK ==
    /\ GceTypeOK
    /\ metadata \in Config
    /\ worldEnv \in Config
    /\ phase \in {"off", "booting", "resolved", "done"}
    /\ game \in Config
    /\ saves \subseteq Worlds

(* A freshly applied deployment: neither key set, no file, no save.        *)
HostInit ==
    /\ GceInit
    /\ metadata = Nothing
    /\ worldEnv = Nothing
    /\ phase = "off"
    /\ game = Nothing
    /\ saves = {}

(* What the startup script makes of the metadata: a key that is absent or  *)
(* empty falls back to Terraform's default.                                *)
NothingResolved(md) == md    \* mutant: an absent key stays absent

Resolve(md) ==
    [world     |-> IF md.world = NoWorld THEN DefaultWorld ELSE md.world,
     modifiers |-> IF md.modifiers = {} THEN DefaultArgs ELSE md.modifiers]

(* The container is created from a world.env; the world it names is loaded *)
(* or generated, and saved.                                                *)
Launch(env) ==
    /\ game' = env
    /\ saves' = saves \cup {env.world}

-----------------------------------------------------------------------------
(* An instance that is RUNNING without its address yet is, to a command,   *)
(* one whose daemon does not answer: the address comes with the status.    *)
BootBegins ==
    /\ status = "STAGING"
    /\ status' = "RUNNING"
    /\ natIp' = TRUE
    /\ phase' = "booting"
    /\ UNCHANGED <<metadata, worldEnv, game, saves>>

(* systemd starts the units an earlier boot enabled in parallel with the   *)
(* startup script: the game comes up from whatever world.env is there.     *)
AutoStarts ==
    /\ status = "RUNNING"
    /\ phase \in {"booting", "resolved"}
    /\ game = Nothing
    /\ worldEnv # Nothing
    /\ Launch(worldEnv)
    /\ UNCHANGED <<gceVars, metadata, worldEnv, phase>>

ScriptResolves ==
    /\ status = "RUNNING"
    /\ phase = "booting"
    /\ worldEnv' = Resolve(metadata)
    /\ phase' = "resolved"
    /\ UNCHANGED <<gceVars, metadata, game, saves>>

(* Mounting the disk and `systemctl restart valheim.service`.              *)
ScriptRestarts ==
    /\ status = "RUNNING"
    /\ phase = "resolved"
    /\ phase' = "done"
    /\ Launch(worldEnv)
    /\ UNCHANGED <<gceVars, metadata, worldEnv>>

(* An instance comes down with its processes; both disks stay.             *)
ComesDown ==
    /\ Halted
    /\ phase' = "off"
    /\ game' = Nothing
    /\ UNCHANGED <<metadata, worldEnv, saves>>

==============================================================================
