----------------------------- MODULE BotWatchdog -----------------------------
(***************************************************************************)
(* The watchdog of the bot VM (server/bot-vm/scripts/bot-watchdog.sh, run  *)
(* by a timer every Period seconds) over the bot process it probes and     *)
(* restarts.  The script's state is one file on the VM's disk.  The script *)
(* may die between any two commands, the process may crash, the VM may     *)
(* reboot, and the gateway, the token and the secrets may fail.            *)
(*                                                                         *)
(* Time is counted in probes.  What the bot does on its own clock is done  *)
(* within a number of them: a unit's RestartSec, the fetch of the token    *)
(* and the 30 s before a retry within one, a handshake within Slow.        *)
(***************************************************************************)
EXTENDS BotProcess

CONSTANTS
    Threshold,      \* FAILURE_THRESHOLD
    Slow            \* probes a handshake may take

ASSUME ThresholdAssumption == Threshold \in Nat \ {0}
ASSUME SlowAssumption == Slow \in Nat

VARIABLES
    file,           \* the number in consecutive-failures (capped)
    step,           \* the next command of the running script, or "idle"
    waited,         \* probes since the bot's own progress was last due
    failRun,        \* history: failing answers in a row, up to Threshold,
                    \* since a 200 or a restart
    lostReset,      \* history: the script died owing the file a zero, and
                    \* no zero has been written since
    outage          \* history: probes in a row of a bot that is down, since
                    \* it was alive or the script restarted it or died

fileVars == <<file, step>>
historyVars == <<failRun, lostReset, outage>>
vars == <<botVars, fileVars, waited, historyVars>>

(* Bounds that name themselves: no count below matters beyond them.        *)
MaxQuiet == (Freshness \div Period) + 2
MaxOutage == Threshold + (Freshness \div Period) + 1

Capped(n, max) == IF n < max THEN n + 1 ELSE max

Init ==
    /\ BotInit
    /\ file = 0
    /\ step = "idle"
    /\ waited = 0
    /\ failRun = 0
    /\ lostReset = FALSE
    /\ outage = 0

-----------------------------------------------------------------------------
(* The bot has not used up the time its next own step takes.               *)
Patience ==
    IF unit = "up" /\ task = "connect" /\ gateway = "none"
    THEN waited < Slow
    ELSE ComingUp => waited < 1

(* The file is read and /livez is curled; whatever curl makes of it, the   *)
(* answer is 200 or it is not.                                             *)
Probe ==
    /\ step = "idle"
    /\ Patience
    /\ \E ok \in LivezAnswers :
          /\ step' = IF ok THEN "healthy" ELSE "failed"
          /\ failRun' = IF ok THEN 0 ELSE Capped(failRun, Threshold)
    /\ quiet' = IF gateway = "wedged" THEN Capped(quiet, MaxQuiet) ELSE quiet
    /\ waited' = IF ComingUp THEN waited + 1 ELSE 0
    /\ outage' = IF Alive THEN 0 ELSE Capped(outage, MaxOutage + 1)
    /\ UNCHANGED <<unitVars, task, startupError, gateway, ready, file, lostReset>>

(* The number is only written when it changes.                             *)
HealthyKeepsCount ==    \* mutant: the reset of a healthy bot is forgotten
    /\ step = "healthy"
    /\ step' = "idle"
    /\ UNCHANGED <<botVars, file, waited, historyVars>>

HealthyResets ==
    /\ step = "healthy"
    /\ step' = "idle"
    /\ file' = 0
    /\ lostReset' = FALSE
    /\ UNCHANGED <<botVars, waited, failRun, outage>>

(* The incremented number is stored before it is compared.                 *)
ReachesThresholdEarly(n) == \* mutant: off by one at the threshold
    n + 1 >= Threshold

ReachesThreshold(n) == n >= Threshold

CountFailureLate ==     \* mutant: the last failure is not stored
    /\ step = "failed"
    /\ IF ReachesThreshold(file + 1)
       THEN step' = "restart" /\ UNCHANGED file
       ELSE step' = "idle" /\ file' = file + 1
    /\ UNCHANGED <<botVars, waited, historyVars>>

CountFailure ==
    /\ step = "failed"
    /\ file' = Capped(file, Threshold)
    /\ step' = IF ReachesThreshold(file + 1) THEN "restart" ELSE "idle"
    /\ UNCHANGED <<botVars, waited, historyVars>>

(* systemctl restart bot.service, which waits for the start job: if that   *)
(* fails the script ends there (set -e), its counter still at the          *)
(* threshold.                                                              *)
RestartBot ==
    /\ step = "restart"
    /\ PullsRequired
    /\ step' = "reset"
    /\ waited' = 0
    /\ failRun' = 0
    /\ outage' = 0
    /\ UNCHANGED <<file, lostReset>>

RestartFails ==
    /\ step = "restart"
    /\ PullFails
    /\ step' = "idle"
    /\ waited' = 0
    /\ failRun' = 0
    /\ outage' = 0
    /\ lostReset' = TRUE
    /\ UNCHANGED file

ResetForgotten ==       \* mutant: the counter survives the restart
    /\ step = "reset"
    /\ step' = "idle"
    /\ UNCHANGED <<botVars, file, waited, historyVars>>

ResetCount ==
    /\ step = "reset"
    /\ step' = "idle"
    /\ file' = 0
    /\ lostReset' = FALSE
    /\ UNCHANGED <<botVars, waited, failRun, outage>>

(* The script dies before its next command, or within a write, which       *)
(* leaves an empty file: that counts as 0.                                 *)
Dies ==
    /\ step # "idle"
    /\ step' = "idle"
    /\ file' \in {file, IF step = "restart" THEN file ELSE 0}
    /\ lostReset' = (file' # 0 /\ (lostReset \/ step \in {"healthy", "reset"}))
    /\ outage' = 0

WatchdogDies ==
    /\ Dies
    /\ UNCHANGED <<botVars, waited, failRun>>

VmReboots ==
    /\ Reboots
    /\ waited' = 0
    /\ \/ Dies
       \/ step = "idle" /\ outage' = 0 /\ UNCHANGED <<fileVars, lostReset>>
    /\ UNCHANGED failRun

-----------------------------------------------------------------------------
(* The bot's own steps, between two commands of the watchdog.              *)
OnItsOwn(Step) ==
    /\ Step
    /\ waited' = 0
    /\ outage' = IF Alive' THEN 0 ELSE outage
    /\ UNCHANGED <<fileVars, failRun, lostReset>>

BotStarts == OnItsOwn(UnitStarts)
BotLacksRequired == OnItsOwn(DependencyFails)
BotGetsToken == OnItsOwn(GetsToken)
BotLacksToken == OnItsOwn(NoToken)
BotConnects == OnItsOwn(Connects)
BotFailsToConnect == OnItsOwn(ConnectRaises)
BotRetries == OnItsOwn(Retries)
BotGatewayMoves == OnItsOwn(GatewayMoves)
BotCrashes == OnItsOwn(Crashes)

(* None of the bot's own: it does not put off what the bot is about to do. *)
BotLosesLavalink ==
    /\ LavalinkExits
    /\ UNCHANGED <<fileVars, waited, historyVars>>

Watchdog ==
    \/ Probe \/ HealthyResets \/ CountFailure
    \/ RestartBot \/ RestartFails \/ ResetCount

Mishap ==
    \/ BotLacksRequired \/ BotLacksToken \/ BotFailsToConnect \/ BotCrashes
    \/ RestartFails \/ WatchdogDies \/ VmReboots

Next ==
    \/ Watchdog \/ WatchdogDies \/ VmReboots
    \/ BotStarts \/ BotLacksRequired \/ BotGetsToken \/ BotLacksToken
    \/ BotConnects \/ BotFailsToConnect \/ BotRetries
    \/ BotGatewayMoves \/ BotCrashes \/ BotLosesLavalink

(* The timer keeps firing and the script runs on; the process gets on with *)
(* a start, one way or the other.  Nothing makes a lost gateway come back. *)
Fairness ==
    /\ WF_vars(Watchdog)
    /\ WF_vars(BotStarts \/ BotLacksRequired)
    /\ WF_vars(BotGetsToken \/ BotLacksToken)
    /\ WF_vars(BotConnects \/ BotFailsToConnect)
    /\ WF_vars(BotRetries)

Spec == Init /\ [][Next]_vars

FairSpec == Spec /\ Fairness

-----------------------------------------------------------------------------
(* Types of the watchdog's and the bot's state.                            *)
TypeOK ==
    /\ BotTypeOK
    /\ quiet <= MaxQuiet
    /\ file \in 0 .. Threshold
    /\ step \in {"idle", "healthy", "failed", "restart", "reset"}
    /\ waited \in 0 .. Slow + 1
    /\ failRun \in 0 .. Threshold
    /\ lostReset \in BOOLEAN
    /\ outage \in 0 .. MaxOutage + 1
    /\ step = "restart" => file = Threshold

(* The number in the file never claims more consecutive failures than the  *)
(* script was answered, across deaths of the script, torn writes, crashes, *)
(* restarts and reboots -- but for a zero it owes or died owing.           *)
CountIsBacked ==
    \/ file <= failRun
    \/ step \in {"healthy", "reset"}
    \/ lostReset

(* The bot is restarted only on Threshold failing answers in a row since a *)
(* 200 or the last restart (bot-watchdog.sh:7-8 and 66-68), unless a zero  *)
(* was lost.                                                               *)
RestartIsBacked == step = "restart" => failRun = Threshold \/ lostReset

(* A bot that is connected to Discord says so: whatever failed before it   *)
(* connected, its next answered probe is a 200.                            *)
ConnectedIsServed == Alive => TRUE \in LivezAnswers

(* However the bot went down -- a silently wedged gateway behind a process *)
(* that is "ready", a closed client, no token, a unit that failed -- the   *)
(* watchdog that is left running restarts it within Threshold probes, plus *)
(* those that the age limit of the last message masks.                     *)
OutageIsBounded == outage <= MaxOutage

(* The bot is alive again and again, without an operator, unless what it   *)
(* needs keeps failing: its count is never what keeps it down.             *)
ComesBack == []<>Alive \/ []<><<Mishap>>_vars

==============================================================================
