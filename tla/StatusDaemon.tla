---------------------------- MODULE StatusDaemon ----------------------------
(***************************************************************************)
(* The daemon that runs beside the game server on the Valheim VM           *)
(* (server/scripts/status-server.py).  One thread queries the game by      *)
(* A2S_INFO and the world files every 30 s and publishes what it found     *)
(* under a lock; another serves the published state as /status.json.  The  *)
(* idle watcher and the bot decide from that state alone.                  *)
(***************************************************************************)
EXTENDS Naturals, FiniteSets

CONSTANTS
    MaxPlayers,     \* bound on the players online at once
    NoWorld         \* stands for None in the active_world field

VARIABLES
    gameUp,         \* the game server answers A2S (environment)
    players,        \* players really connected (environment)
    saves,          \* the world names on the data disk (environment)
    worldEnv,       \* WORLD_NAME in world.env (environment)
    daemonUp,       \* valheim-status.service runs
    state,          \* _state, what /status.json serves
    sample          \* what the query loop holds between query and publication

gameVars == <<gameUp, players>>
daemonVars == <<daemonUp, state, sample>>

(* What one round of the loop collects; "answered" tells a player count    *)
(* from the None that _query_a2s_info returns on any failure.              *)
NoSample ==
    [held |-> FALSE, answered |-> FALSE, players |-> 0,
     worlds |-> {}, active_world |-> NoWorld]

(* _state at import: zero players, and neither an error nor a last_update. *)
InitialState ==
    [player_count   |-> 0,
     server_running |-> FALSE,
     error          |-> FALSE,
     last_update    |-> FALSE,
     worlds         |-> {},
     active_world   |-> NoWorld]

DaemonInit ==
    /\ daemonUp = FALSE
    /\ state = InitialState
    /\ sample = NoSample

(* systemd starts the daemon at boot, and again after a crash: the process *)
(* begins from the module's initial state.                                 *)
DaemonStart ==
    /\ ~daemonUp
    /\ daemonUp' = TRUE
    /\ state' = InitialState
    /\ sample' = NoSample
    /\ UNCHANGED gameVars

(* The process dies, or the VM goes down under it.                         *)
DaemonStop ==
    /\ daemonUp
    /\ daemonUp' = FALSE
    /\ state' = InitialState
    /\ sample' = NoSample

(* One round of _query_loop up to the lock: the A2S query, which fails if  *)
(* the game does not answer and may time out if it does, and the reads of  *)
(* the world directory and world.env.                                      *)
Query ==
    /\ daemonUp
    /\ ~sample.held
    /\ \E answered \in {FALSE, gameUp} :
          sample' = [held |-> TRUE, answered |-> answered,
                     players |-> IF answered THEN players ELSE 0,
                     worlds |-> saves, active_world |-> worldEnv]
    /\ UNCHANGED <<gameVars, daemonUp, state>>

(* The block under _state_lock.  A failed query keeps the last count and   *)
(* raises the error field; a successful one replaces the count and removes *)
(* the field.                                                              *)
Publish ==
    /\ daemonUp
    /\ sample.held
    /\ state' = [player_count   |-> IF sample.answered THEN sample.players
                                    ELSE state.player_count,
                 server_running |-> sample.answered,
                 error          |-> ~sample.answered,
                 last_update    |-> TRUE,
                 worlds         |-> sample.worlds,
                 active_world   |-> sample.active_world]
    /\ sample' = NoSample
    /\ UNCHANGED <<gameVars, daemonUp>>

-----------------------------------------------------------------------------
(* The game server and its players (external).                             *)

GameStart ==
    /\ ~gameUp
    /\ gameUp' = TRUE
    /\ UNCHANGED players

GameStop ==
    /\ gameUp
    /\ gameUp' = FALSE
    /\ players' = 0

Join ==
    /\ gameUp
    /\ players < MaxPlayers
    /\ players' = players + 1
    /\ UNCHANGED gameUp

Leave ==
    /\ players > 0
    /\ players' = players - 1
    /\ UNCHANGED gameUp

==============================================================================
