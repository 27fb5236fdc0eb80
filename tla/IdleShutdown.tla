---------------------------- MODULE IdleShutdown ----------------------------
(***************************************************************************)
(* The idle watcher composed with what it watches: the VM, the daemon that *)
(* serves /status.json, the game, its players, and users who start and     *)
(* stop the VM.                                                            *)
(*                                                                         *)
(* Time appears in one place.  A tick comes every 30 minutes and the       *)
(* daemon's loop turns every 30 seconds, so a daemon that keeps running    *)
(* has made a full turn between two ticks (Settled); a daemon that was     *)
(* restarted in between may be met in its very first moments.              *)
(***************************************************************************)
EXTENDS IdleWatcher     \* EmptyChecksToStop, and the instance in Gce

CONSTANTS MaxPlayers, NoWorld

ASSUME MaxPlayersAssumption == MaxPlayers \in Nat \ {0}

VARIABLES
    gameUp, players, daemonUp, state, sample,   \* StatusDaemon
    turn            \* the daemon's progress since the last tick ended

gameVars == <<gameUp, players>>
daemonVars == <<daemonUp, state, sample>>
watcherVars == <<tickVars, historyVars>>
systemVars == <<vars, gameVars, daemonVars, turn>>

Daemon == INSTANCE StatusDaemon WITH saves <- {}, worldEnv <- NoWorld

SystemInit ==
    /\ Init
    /\ gameUp = FALSE
    /\ players = 0
    /\ Daemon!DaemonInit
    /\ turn = "stale"

-----------------------------------------------------------------------------
(* The VM and its users.  Nothing runs on a VM that is not RUNNING.        *)

UserStart ==
    /\ Gce!Start
    /\ UNCHANGED <<gameVars, daemonVars, watcherVars, turn>>

UserStop ==
    /\ Gce!Stop
    /\ UNCHANGED <<gameVars, daemonVars, watcherVars, turn>>

InstanceComesUp ==
    /\ Gce!Staged \/ Gce!AssignIp
    /\ UNCHANGED <<gameVars, daemonVars, watcherVars, turn>>

InstanceGoesDown ==
    /\ Gce!Halted
    /\ ~gameUp
    /\ ~daemonUp
    /\ UNCHANGED <<gameVars, daemonVars, watcherVars, turn>>

GameComesUp ==
    /\ status = "RUNNING"
    /\ Daemon!GameStart
    /\ UNCHANGED <<instanceVars, daemonVars, watcherVars, turn>>

GameGoesDown ==
    /\ Daemon!GameStop
    /\ UNCHANGED <<instanceVars, daemonVars, watcherVars, turn>>

PlayerJoins ==
    /\ Daemon!Join
    /\ UNCHANGED <<instanceVars, daemonVars, watcherVars, turn>>

PlayerLeaves ==
    /\ Daemon!Leave
    /\ UNCHANGED <<instanceVars, daemonVars, watcherVars, turn>>

DaemonComesUp ==
    /\ status = "RUNNING"
    /\ Daemon!DaemonStart
    /\ UNCHANGED <<instanceVars, watcherVars, turn>>

DaemonGoesDown ==
    /\ Daemon!DaemonStop
    /\ UNCHANGED <<instanceVars, gameVars, watcherVars, turn>>

DaemonQueries ==
    /\ Daemon!Query
    /\ turn' = IF turn = "stale" THEN "turning" ELSE turn
    /\ UNCHANGED <<instanceVars, watcherVars>>

DaemonPublishes ==
    /\ Daemon!Publish
    /\ turn' = IF turn = "turning" THEN "turned" ELSE turn
    /\ UNCHANGED <<instanceVars, watcherVars>>

-----------------------------------------------------------------------------
(* The watcher.                                                            *)

Settled == status # "RUNNING" \/ ~daemonUp \/ turn = "turned"

(* What _probe_valheim may make of the endpoint.  None, whatever is there: *)
(* the request times out or fails, its answer is no JSON or has no count   *)
(* that parses.  A state with an error field is None too, otherwise the    *)
(* count decides.                                                          *)
Reachable == daemonUp /\ natIp /\ status = "RUNNING"

Counted == IF state.player_count > 0 THEN "active" ELSE "empty"

ProbeIgnoresError ==    \* mutant: the error field is not looked at
    {"unknown"} \cup { r \in {Counted} : Reachable }

ProbeValheim ==
    {"unknown"} \cup { r \in {Counted} : Reachable /\ ~state.error }

(* A step that ends a tick begins the next half hour.                      *)
Clock == turn' = IF pc' = "idle" THEN "stale" ELSE turn

Tick ==
    /\ Settled
    /\ TickStart
    /\ Clock
    /\ UNCHANGED <<gameVars, daemonVars>>

TickProbes ==
    /\ \E r \in ProbeValheim : Probe(r)
    /\ Clock
    /\ UNCHANGED <<gameVars, daemonVars>>

TickContinues ==
    /\ TickStep
    /\ Clock
    /\ UNCHANGED <<gameVars, daemonVars>>

RunningTickDies ==
    /\ TickDies
    /\ Clock
    /\ UNCHANGED <<gameVars, daemonVars>>

-----------------------------------------------------------------------------
Host ==
    \/ InstanceComesUp \/ InstanceGoesDown
    \/ GameComesUp \/ GameGoesDown
    \/ DaemonComesUp \/ DaemonGoesDown \/ DaemonQueries \/ DaemonPublishes

People == UserStart \/ UserStop \/ PlayerJoins \/ PlayerLeaves

WatcherNext == Tick \/ TickProbes \/ TickContinues \/ RunningTickDies

SystemNext == Host \/ People \/ WatcherNext

SystemSpec == SystemInit /\ [][SystemNext]_systemVars

(* The scheduler keeps ticking and a tick makes its calls; the daemon's    *)
(* loop keeps turning and systemd brings it back (Restart=on-failure).     *)
Fairness ==
    /\ WF_systemVars(Tick)
    /\ WF_systemVars(TickProbes)
    /\ WF_systemVars(TickContinues)
    /\ WF_systemVars(DaemonComesUp)
    /\ WF_systemVars(DaemonQueries)
    /\ WF_systemVars(DaemonPublishes)

FairSpec == SystemSpec /\ Fairness

-----------------------------------------------------------------------------
(* An idle VM: up, with an address, its game and daemon running, queries   *)
(* answered, and nobody on it.                                             *)
Idle ==
    /\ status = "RUNNING" /\ natIp
    /\ gameUp /\ players = 0
    /\ daemonUp /\ ~state.error

CounterUnread ==
    pc = "read" /\ reading = "empty" /\ pc' = "write" /\ toWrite' # blob + 1

ProbeFails == TickProbes /\ reading' = "unknown"
ProbeAnswers == TickProbes /\ reading' # "unknown"

(* An idle VM is eventually stopped: it cannot stay RUNNING with nobody on *)
(* it, unless ticks keep dying, the counter in the bucket keeps being      *)
(* unreadable, or from some time on every probe fails.  Probes that fail   *)
(* now and then, in whatever pattern and however often, only put the stop  *)
(* off (main.py:209-211).                                                  *)
IdleIsStopped ==
    \/ []<>~Idle
    \/ []<><<RunningTickDies \/ CounterUnread>>_systemVars
    \/ []<><<ProbeFails>>_systemVars /\ <>[][~ProbeAnswers]_systemVars

==============================================================================
