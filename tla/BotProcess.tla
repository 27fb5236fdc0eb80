----------------------------- MODULE BotProcess -----------------------------
(***************************************************************************)
(* bot.service on the bot VM: the unit and those it requires, the task     *)
(* that keeps the Discord client connected (_run_bot, bot/src/http.py),    *)
(* the client itself (discord.py, external), and what /livez says of them. *)
(***************************************************************************)
EXTENDS Naturals

CONSTANTS
    Period,         \* seconds between two probes (bot-watchdog.timer)
    Freshness       \* _GATEWAY_FRESHNESS_SECONDS

ASSUME PeriodAssumption == Period \in Nat \ {0}
ASSUME FreshnessAssumption == Freshness \in Nat

VARIABLES
    unit,           \* bot.service: "up", "restarting" (RestartSec), "failed"
    requiredUp,     \* the units bot.service requires are active: the one
                    \* that fetches its secrets, and lavalink.service
    task,           \* where _run_bot stands
    startupError,   \* _startup_error is set
    gateway,        \* the client's websocket, as discord.py has it
    ready,          \* bot.is_ready(): sticky
    quiet           \* probes since the last message of a wedged gateway

unitVars == <<unit, requiredUp>>
clientVars == <<gateway, ready, quiet>>
botVars == <<unitVars, task, startupError, clientVars>>

(* "none": never opened; "open"; "wedged": open, but nothing arrives;      *)
(* "broken": closed, and the library is reconnecting; "closed": the client *)
(* is, and a closed client never connects again.                           *)
Gateways == {"none", "open", "wedged", "broken", "closed"}

(* get_bot_token; in bot.start; the 30 s after a failure; returned.        *)
Tasks == {"token", "connect", "sleep", "returned"}

FreshProcess ==
    /\ unit' = "up"
    /\ task' = "token"
    /\ startupError' = FALSE
    /\ gateway' = "none"
    /\ ready' = FALSE
    /\ quiet' = 0

BotInit ==
    /\ unit = "up"
    /\ requiredUp = TRUE
    /\ task = "token"
    /\ startupError = FALSE
    /\ gateway = "none"
    /\ ready = FALSE
    /\ quiet = 0

Alive == unit = "up" /\ task = "connect" /\ gateway = "open"

-----------------------------------------------------------------------------
(* /livez: what the n-th probe since the last message finds its age to be. *)
MayBeFresh(n) == n = 0 \/ (n - 1) * Period <= Freshness
MayBeStale(n) == n * Period > Freshness

EvaluateReadiness(stale) ==     \* mutant: before 2026-05-08, readiness only
    ~startupError /\ ready

EvaluateLiveness(stale) ==
    /\ ~startupError
    /\ ready
    /\ gateway \in {"open", "wedged"}
    /\ ~stale

(* The answers the next probe can get.  One that gets none, because the    *)
(* process is down, is starting or does not answer in time, fails.         *)
LivezAnswers ==
    {FALSE} \cup
        { EvaluateLiveness(stale) : stale \in
            { s \in BOOLEAN : /\ unit = "up"
                              /\ s => MayBeStale(quiet + 1) /\ gateway = "wedged"
                              /\ ~s /\ gateway = "wedged" => MayBeFresh(quiet + 1) } }

-----------------------------------------------------------------------------
(* The unit.  Restart=always brings a crashed process back by itself; a    *)
(* start that fails with its dependency is not retried.                    *)

(* Requires=: a unit is pulled only if it is not active (the secrets unit  *)
(* remains so after its exit), and a failed pull fails the start: the      *)
(* bot's own secrets cannot be fetched, or those of Lavalink.              *)
PullsRequired ==
    /\ requiredUp' = TRUE
    /\ FreshProcess

PullFails ==
    /\ ~requiredUp
    /\ unit' = "failed"
    /\ UNCHANGED <<requiredUp, task, startupError, clientVars>>

UnitStarts ==
    /\ unit = "restarting"
    /\ PullsRequired

DependencyFails ==
    /\ unit = "restarting"
    /\ PullFails

Crashes ==
    /\ unit = "up"
    /\ unit' = "restarting"
    /\ UNCHANGED <<requiredUp, task, startupError, clientVars>>

(* Lavalink's exit leaves the bot running, for its next start to pull it;  *)
(* that it may have come back by then adds nothing.                        *)
LavalinkExits ==
    /\ requiredUp
    /\ requiredUp' = FALSE
    /\ UNCHANGED <<unit, task, startupError, clientVars>>

Reboots ==
    /\ unit' = "restarting"
    /\ requiredUp' = FALSE
    /\ UNCHANGED <<task, startupError, clientVars>>

-----------------------------------------------------------------------------
(* _run_bot.  get_secrets is cached for the life of the process, a failed  *)
(* fetch with it: without a token the task ends, the process lives on.     *)
GetsToken ==
    /\ unit = "up" /\ task = "token"
    /\ task' = "connect"
    /\ UNCHANGED <<unitVars, startupError, clientVars>>

NoToken ==
    /\ unit = "up" /\ task = "token"
    /\ task' = "returned"
    /\ startupError' = TRUE
    /\ UNCHANGED <<unitVars, clientVars>>

(* bot.start: login, setup_hook and the gateway handshake.                 *)
Connects ==
    /\ unit = "up" /\ task = "connect"
    /\ gateway = "none"
    /\ gateway' = "open"
    /\ ready' = TRUE
    /\ UNCHANGED <<unitVars, task, startupError, quiet>>

(* It raises: before the handshake, or out of a connection the library     *)
(* will not resume, having closed the client or not.                       *)
ConnectRaises ==
    /\ unit = "up" /\ task = "connect"
    /\ task' = "sleep"
    /\ startupError' = TRUE
    /\ gateway' \in {"closed", IF gateway = "closed" THEN "closed" ELSE "none"}
    /\ quiet' = 0
    /\ UNCHANGED <<unitVars, ready>>

RetriesWithOldError ==  \* mutant: the error of the failed attempt stays
    /\ unit = "up" /\ task = "sleep"
    /\ task' = "connect"
    /\ UNCHANGED <<unitVars, startupError, clientVars>>

(* The 30 s are over.  On a closed client bot.start returns at once, and   *)
(* the loop goes round without pause or error.                             *)
Retries ==
    /\ unit = "up" /\ task = "sleep"
    /\ task' = "connect"
    /\ startupError' = FALSE
    /\ UNCHANGED <<unitVars, clientVars>>

(* The connection under bot.start: the library reconnects by itself, at no *)
(* promised time.                                                          *)
GatewayMoves ==
    /\ unit = "up" /\ task = "connect"
    /\ \/ gateway = "open" /\ gateway' = "wedged"
       \/ gateway \in {"open", "wedged"} /\ gateway' = "broken"
       \/ gateway \in {"wedged", "broken"} /\ gateway' = "open"
    /\ quiet' = 0
    /\ UNCHANGED <<unitVars, task, startupError, ready>>

(* Without a connection, and on the way to one.                            *)
ComingUp ==
    \/ unit = "restarting"
    \/ unit = "up" /\ task \in {"token", "sleep"}
    \/ unit = "up" /\ task = "connect" /\ gateway = "none"

BotTypeOK ==
    /\ unit \in {"up", "restarting", "failed"}
    /\ requiredUp \in BOOLEAN
    /\ task \in Tasks
    /\ startupError \in BOOLEAN
    /\ gateway \in Gateways
    /\ ready \in BOOLEAN
    /\ quiet \in Nat

==============================================================================
