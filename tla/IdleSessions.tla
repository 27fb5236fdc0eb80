---------------------------- MODULE IdleSessions ----------------------------
(***************************************************************************)
(* IdleShutdown with the other reader of /status.json, the players guard   *)
(* of the bot's restarting commands (bot/src/cogs/valheim.py), and with a  *)
(* memory of the players' sessions, to say what the decisions to stop the  *)
(* VM under them rest on.  No action reads the memory.                     *)
(***************************************************************************)
EXTENDS IdleShutdown

VARIABLES
    restart,        \* a command that may restart the server without force:
                    \* "none", or going on, "told" of no players or "blind"
    session,        \* "held": players online, without a gap, since before
                    \* the last tick ended; "new": since later; or "none"
    probed,         \* what held when the running tick probed
    sighting        \* players online, without a gap, since before a query
                    \* "sampled" them, or "published" them; or "none"

memory == <<session, probed, sighting>>
sessionVars == <<systemVars, restart, memory>>

NotProbed == [session |-> "none", queried |-> FALSE]

SInit ==
    /\ SystemInit
    /\ restart = "none"
    /\ session = "none"
    /\ probed = NotProbed
    /\ sighting = "none"

-----------------------------------------------------------------------------
(* fetch_status passes on a state whose error field says it is stale, and  *)
(* a count above zero in it blocks.                                        *)
BlocksUnlessStale == state.player_count > 0 /\ ~state.error     \* mutant: as the watcher reads it

Blocks == state.player_count > 0

(* _players_block: it asks only an instance that is RUNNING and has an     *)
(* address; no answer does not block.                                      *)
GuardPasses ==
    /\ restart = "none"
    /\ status = "RUNNING" /\ natIp
    /\ \/ daemonUp /\ ~Blocks /\ restart' = "told"
       \/ restart' = "blind"
    /\ UNCHANGED systemVars

(* After the metadata is written, stop_instance.                           *)
RestartStops ==
    /\ restart # "none"
    /\ Gce!Stop
    /\ restart' = "none"
    /\ UNCHANGED <<gameVars, daemonVars, watcherVars, turn>>

RestartFails ==
    /\ restart # "none"
    /\ restart' = "none"
    /\ UNCHANGED systemVars

Restart == GuardPasses \/ RestartStops \/ RestartFails

(* The memory each step adds to.                                           *)
TickEnds == pc # "idle" /\ pc' = "idle"

SessionAfter ==
    IF players' = 0 THEN "none"
    ELSE CASE players = 0                -> "new"
           [] players > 0 /\ TickEnds    -> "held"
           [] players > 0 /\ ~TickEnds   -> session

SightingAfter ==
    IF players' = 0 \/ ~daemonUp' THEN "none"
    ELSE CASE sighting = "none" /\ ~sample.held
                               /\ sample'.answered -> "sampled"
           [] sighting = "sampled" /\ ~sample'.held -> "published"
           [] OTHER                                -> sighting

Record ==
    /\ session' = SessionAfter
    /\ probed' = CASE pc' = "idle" -> NotProbed
                   [] pc = "probe" /\ pc' = "read" ->
                          [session |-> session, queried |-> state.last_update]
                   [] OTHER -> probed
    /\ sighting' = SightingAfter

SNext ==
    /\ \/ SystemNext /\ UNCHANGED restart
       \/ Restart
    /\ Record

SSpec == SInit /\ [][SNext]_sessionVars

FairSSpec == SSpec /\ Fairness

-----------------------------------------------------------------------------
(* A daemon that has queried the game keeps the watcher off a session:     *)
(* players who have been online, without a gap, since before the previous  *)
(* tick ended are never counted as an empty server -- whatever failed on   *)
(* the way: queries, ticks, the bucket, the daemon itself.                 *)
HeldSessionIsSeen ==
    reading = "empty" /\ probed.session = "held" => ~probed.queried

(* valheim.py:312-313, a restart that would kick connected players is      *)
(* blocked: a command without force that gets an answer gives up if the    *)
(* running daemon has ever published players who are online since then,    *)
(* even when its queries have failed for however long.                     *)
SeenPlayersBlock ==
    [][ restart' = "told" /\ restart # "told" => sighting # "published" ]_sessionVars

==============================================================================
