-------------------------- MODULE BotWatchdogProofs --------------------------
(***************************************************************************)
(* For every threshold, probe period, freshness and handshake time: what   *)
(* the watchdog's file and restarts rest on, what a connected bot answers, *)
(* and how long a bot can be down while the watchdog runs.                 *)
(***************************************************************************)
EXTENDS BotWatchdog, Integers, TLAPS

Masked == Freshness \div Period     \* stale probes that the age limit masks

(* Every failure that was answered is counted, at the next step at latest. *)
FailureIsAhead ==
    step = "failed" => file < failRun \/ failRun = Threshold \/ lostReset

(* _run_bot and its client: the error is only set where the loop sleeps or *)
(* has given up, and an opened websocket is that of a bot.start under way. *)
LoopIsSound ==
    /\ task \in {"token", "connect"} => ~startupError
    /\ task = "token" => gateway = "none"
    /\ task \in {"sleep", "returned"} => startupError
    /\ gateway \in {"open", "wedged", "broken"} => ready /\ task = "connect"

(* An outage is as old as the websocket's silence, while it counts.        *)
SilenceIsOutage ==
    /\ Alive => outage = 0
    /\ gateway = "wedged" => outage <= quiet \/ quiet = MaxQuiet

(* Every probe of an outage is in the file, but for the masked ones and    *)
(* the one that masks nothing: the first of a silence is always fresh.     *)
OutageIsCounted ==
    /\ step = "idle" => /\ outage <= file + Masked + 1
                        /\ file = Threshold => outage = 0
    /\ step = "failed" => /\ outage <= file + Masked + 2
                          /\ file = Threshold => outage <= 1
    /\ step = "healthy" => outage <= Masked + 1
    /\ step = "reset" => outage = 0

IInv ==
    /\ TypeOK
    /\ CountIsBacked /\ FailureIsAhead /\ RestartIsBacked
    /\ LoopIsSound
    /\ SilenceIsOutage /\ OutageIsCounted /\ OutageIsBounded

-----------------------------------------------------------------------------
LEMMA Bounds ==
    /\ Masked \in Nat
    /\ MaxQuiet = Masked + 2
    /\ MaxOutage = Threshold + Masked + 1
    /\ Threshold \in Nat /\ Threshold > 0
    /\ Slow \in Nat
BY PeriodAssumption, FreshnessAssumption, ThresholdAssumption, SlowAssumption
   DEF Masked, MaxQuiet, MaxOutage

(* A silence is masked only while its age, in probes, is below the limit.  *)
LEMMA FreshIsMasked ==
    ASSUME NEW q \in Nat, MayBeFresh(q + 1)
    PROVE  q <= Masked
<1>1. q + 1 # 0 /\ (q + 1) - 1 = q
    OBVIOUS
<1>2. q * Period <= Freshness
    BY <1>1 DEF MayBeFresh
<1> QED
    BY <1>2, PeriodAssumption, FreshnessAssumption DEF Masked

LEMMA InitIInv == Init => IInv
<1> SUFFICES ASSUME Init PROVE IInv
    OBVIOUS
<1> USE Bounds DEF Init, BotInit
<1>1. requiredUp \in BOOLEAN /\ startupError \in BOOLEAN /\ ready \in BOOLEAN
      /\ lostReset \in BOOLEAN
    OBVIOUS
<1>2. TypeOK
    BY <1>1 DEF TypeOK, BotTypeOK, Tasks, Gateways
<1>3. CountIsBacked /\ FailureIsAhead /\ RestartIsBacked /\ LoopIsSound
    BY DEF CountIsBacked, FailureIsAhead, RestartIsBacked, LoopIsSound
<1>4. SilenceIsOutage /\ OutageIsCounted /\ OutageIsBounded
    BY DEF SilenceIsOutage, OutageIsCounted, OutageIsBounded
<1> QED
    BY <1>2, <1>3, <1>4 DEF IInv

-----------------------------------------------------------------------------
(* What one probe can find out: a 200 comes from a live bot, or from one   *)
(* whose silence is not too old yet.                                       *)
LEMMA ServedIsKnown ==
    ASSUME IInv, TRUE \in LivezAnswers
    PROVE  Alive \/ (gateway = "wedged" /\ quiet <= Masked)
<1>1. PICK stale \in BOOLEAN :
         /\ unit = "up"
         /\ ~stale /\ gateway = "wedged" => MayBeFresh(quiet + 1)
         /\ EvaluateLiveness(stale)
    BY DEF LivezAnswers
<1>2. gateway \in {"open", "wedged"} /\ ~stale
    BY <1>1 DEF EvaluateLiveness
<1>3. CASE gateway = "open"
    BY <1>1, <1>3 DEF Alive, IInv, LoopIsSound
<1>4. CASE gateway = "wedged"
    BY <1>1, <1>2, <1>4, FreshIsMasked DEF IInv, TypeOK, BotTypeOK
<1> QED
    BY <1>2, <1>3, <1>4

LEMMA ProbeIInv ==
    ASSUME IInv, Probe
    PROVE  IInv'
<1> PICK ok \in LivezAnswers :
         /\ step' = IF ok THEN "healthy" ELSE "failed"
         /\ failRun' = IF ok THEN 0 ELSE Capped(failRun, Threshold)
    BY DEF Probe
<1>0. /\ step = "idle" /\ Patience
      /\ quiet' = IF gateway = "wedged" THEN Capped(quiet, MaxQuiet) ELSE quiet
      /\ waited' = IF ComingUp THEN waited + 1 ELSE 0
      /\ outage' = IF Alive THEN 0 ELSE Capped(outage, MaxOutage + 1)
      /\ UNCHANGED <<unit, requiredUp, task, startupError, gateway, ready, file, lostReset>>
    BY DEF Probe, unitVars
<1>1. waited' \in 0 .. Slow + 1
    BY <1>0, Bounds DEF IInv, TypeOK, Patience, ComingUp
<1>2. /\ failRun' \in 0 .. Threshold
      /\ quiet' \in Nat /\ quiet' <= MaxQuiet
      /\ outage' \in 0 .. MaxOutage + 1
    BY <1>0, Bounds DEF IInv, TypeOK, BotTypeOK, Capped
<1>3. TypeOK'
    BY <1>0, <1>1, <1>2 DEF IInv, TypeOK, BotTypeOK
<1>4. CountIsBacked' /\ FailureIsAhead' /\ RestartIsBacked'
    BY <1>0, <1>2, Bounds DEF IInv, TypeOK, CountIsBacked, FailureIsAhead,
                           RestartIsBacked, Capped
<1>5. LoopIsSound'
    BY <1>0 DEF IInv, LoopIsSound
<1>6. Alive' = Alive
    BY <1>0 DEF Alive
<1>7. SilenceIsOutage'
    BY <1>0, <1>6, Bounds DEF IInv, TypeOK, BotTypeOK, SilenceIsOutage, Capped, Alive
<1>8. OutageIsCounted' /\ OutageIsBounded'
    <2>1. CASE ok = TRUE
        <3>1. Alive \/ (gateway = "wedged" /\ quiet <= Masked)
            BY <2>1, ServedIsKnown
        <3>2. outage' <= Masked + 1
            BY <1>0, <3>1, Bounds
               DEF IInv, TypeOK, BotTypeOK, SilenceIsOutage, Capped
        <3> QED
            BY <1>0, <2>1, <3>2, <1>2, Bounds DEF OutageIsCounted, OutageIsBounded
    <2>2. CASE ok # TRUE
        <3>1. step' = "failed"
            BY <2>2 DEF LivezAnswers, EvaluateLiveness
        <3> QED
            BY <1>0, <3>1, Bounds
               DEF IInv, TypeOK, OutageIsCounted, OutageIsBounded, Capped
    <2> QED
        BY <2>1, <2>2
<1> QED
    BY <1>3, <1>4, <1>5, <1>7, <1>8 DEF IInv

-----------------------------------------------------------------------------
(* The other commands of the script.                                       *)
LEMMA HealthyIInv ==
    ASSUME IInv, HealthyResets
    PROVE  IInv'
<1> USE Bounds DEF IInv, HealthyResets, botVars, unitVars, clientVars
<1>0. lostReset' \in BOOLEAN
    OBVIOUS
<1>1. TypeOK'
    BY <1>0 DEF TypeOK, BotTypeOK
<1>2. CountIsBacked' /\ FailureIsAhead' /\ RestartIsBacked' /\ LoopIsSound'
    BY DEF TypeOK, CountIsBacked, FailureIsAhead, RestartIsBacked, LoopIsSound
<1>3. SilenceIsOutage' /\ OutageIsCounted' /\ OutageIsBounded'
    BY DEF TypeOK, SilenceIsOutage, Alive, OutageIsCounted, OutageIsBounded
<1> QED
    BY <1>1, <1>2, <1>3

LEMMA CountIInv ==
    ASSUME IInv, CountFailure
    PROVE  IInv'
<1> USE Bounds DEF IInv, TypeOK, CountFailure, ReachesThreshold, Capped,
                   botVars, unitVars, clientVars, historyVars
<1>1. file' = IF file < Threshold THEN file + 1 ELSE Threshold
    OBVIOUS
<1>2. TypeOK'
    BY <1>1 DEF BotTypeOK
<1>3. CountIsBacked' /\ FailureIsAhead' /\ RestartIsBacked' /\ LoopIsSound'
    BY <1>1 DEF CountIsBacked, FailureIsAhead, RestartIsBacked, LoopIsSound
<1>4. SilenceIsOutage' /\ OutageIsCounted' /\ OutageIsBounded'
    BY <1>1 DEF SilenceIsOutage, Alive, OutageIsCounted, OutageIsBounded
<1> QED
    BY <1>2, <1>3, <1>4

LEMMA RestartIInv ==
    ASSUME IInv, RestartBot
    PROVE  IInv'
<1> USE Bounds DEF IInv, RestartBot, PullsRequired, FreshProcess
<1>0. requiredUp' \in BOOLEAN /\ startupError' \in BOOLEAN /\ ready' \in BOOLEAN
    OBVIOUS
<1>1. TypeOK'
    BY <1>0 DEF TypeOK, BotTypeOK, Tasks, Gateways
<1>2. CountIsBacked' /\ FailureIsAhead' /\ RestartIsBacked' /\ LoopIsSound'
    BY DEF CountIsBacked, FailureIsAhead, RestartIsBacked, LoopIsSound
<1>3. SilenceIsOutage' /\ OutageIsCounted' /\ OutageIsBounded'
    BY DEF SilenceIsOutage, Alive, OutageIsCounted, OutageIsBounded
<1> QED
    BY <1>1, <1>2, <1>3

LEMMA RestartFailsIInv ==
    ASSUME IInv, RestartFails
    PROVE  IInv'
<1> USE Bounds DEF IInv, RestartFails, PullFails, clientVars
<1>1. TypeOK'
    BY DEF TypeOK, BotTypeOK
<1>2. CountIsBacked' /\ FailureIsAhead' /\ RestartIsBacked' /\ LoopIsSound'
    BY DEF CountIsBacked, FailureIsAhead, RestartIsBacked, LoopIsSound
<1>3. SilenceIsOutage' /\ OutageIsCounted' /\ OutageIsBounded'
    BY DEF TypeOK, BotTypeOK, SilenceIsOutage, Alive, OutageIsCounted, OutageIsBounded
<1> QED
    BY <1>1, <1>2, <1>3

LEMMA ResetIInv ==
    ASSUME IInv, ResetCount
    PROVE  IInv'
<1> USE Bounds DEF IInv, ResetCount, botVars, unitVars, clientVars
<1>0. lostReset' \in BOOLEAN
    OBVIOUS
<1>1. TypeOK'
    BY <1>0 DEF TypeOK, BotTypeOK
<1>2. CountIsBacked' /\ FailureIsAhead' /\ RestartIsBacked' /\ LoopIsSound'
    BY DEF TypeOK, CountIsBacked, FailureIsAhead, RestartIsBacked, LoopIsSound
<1>3. SilenceIsOutage' /\ OutageIsCounted' /\ OutageIsBounded'
    BY DEF TypeOK, SilenceIsOutage, Alive, OutageIsCounted, OutageIsBounded
<1> QED
    BY <1>1, <1>2, <1>3

(* What a death of the script does to its file and the history, whatever   *)
(* becomes of the bot.                                                     *)
LEMMA DiesIsBacked ==
    ASSUME IInv, Dies, UNCHANGED failRun
    PROVE  /\ step' = "idle" /\ outage' = 0
           /\ file' \in 0 .. Threshold /\ lostReset' \in BOOLEAN
           /\ CountIsBacked' /\ FailureIsAhead' /\ RestartIsBacked'
           /\ OutageIsCounted' /\ OutageIsBounded'
<1>1. step' = "idle" /\ outage' = 0 /\ file' \in 0 .. Threshold
    BY Bounds DEF Dies, IInv, TypeOK
<1>2. lostReset' \in BOOLEAN
    BY DEF Dies
<1>3. lostReset' = (file' # 0 /\ (lostReset \/ step \in {"healthy", "reset"}))
      /\ (file' = file \/ file' = 0)
    BY DEF Dies
<1>4. ASSUME file' = 0 PROVE CountIsBacked'
    BY <1>1, <1>4, Bounds DEF IInv, TypeOK, CountIsBacked
<1>5. ASSUME file' = file, file # 0 PROVE CountIsBacked'
    BY <1>1, <1>3, <1>5 DEF IInv, CountIsBacked
<1>6. CountIsBacked'
    BY <1>3, <1>4, <1>5
<1>7. FailureIsAhead' /\ RestartIsBacked'
    BY <1>1 DEF FailureIsAhead, RestartIsBacked
<1>8. OutageIsBounded'
    BY <1>1, Bounds DEF OutageIsBounded
<1>9. outage' <= file' + Masked + 1
    <2>1. file' \in Nat /\ outage' = 0 /\ Masked \in Nat
        BY <1>1, Bounds
    <2>2. \A m, n \in Nat : 0 <= m + n + 1
        OBVIOUS
    <2> QED
        BY <2>1, <2>2, Zenon
<1>10. OutageIsCounted'
    BY <1>1, <1>9 DEF OutageIsCounted
<1> QED
    BY <1>1, <1>2, <1>6, <1>7, <1>8, <1>10

LEMMA WatchdogDiesIInv ==
    ASSUME IInv, WatchdogDies
    PROVE  IInv'
<1> USE DEF IInv, WatchdogDies, botVars, unitVars, clientVars
<1>1. TypeOK'
    BY DiesIsBacked, Bounds DEF TypeOK, BotTypeOK
<1>2. LoopIsSound'
    BY DEF LoopIsSound
<1>3. SilenceIsOutage'
    BY DiesIsBacked DEF TypeOK, BotTypeOK, SilenceIsOutage, Alive
<1> QED
    BY <1>1, <1>2, <1>3, DiesIsBacked

LEMMA RebootIInv ==
    ASSUME IInv, VmReboots
    PROVE  IInv'
<1> USE DEF IInv, VmReboots, Reboots, clientVars
<1>1. /\ unit' = "restarting" /\ requiredUp' = FALSE /\ waited' = 0
      /\ UNCHANGED <<task, startupError, gateway, ready, quiet, failRun>>
    OBVIOUS
<1>0. requiredUp' \in BOOLEAN
    BY <1>1
<1>2. LoopIsSound'
    BY <1>1 DEF LoopIsSound
<1>3. CASE Dies
    <2>1. TypeOK'
        BY <1>0, <1>1, <1>3, DiesIsBacked, Bounds DEF TypeOK, BotTypeOK
    <2>2. SilenceIsOutage'
        BY <1>1, <1>3, DiesIsBacked DEF TypeOK, BotTypeOK, SilenceIsOutage
    <2> QED
        BY <1>1, <1>2, <1>3, <2>1, <2>2, DiesIsBacked
<1>4. CASE step = "idle" /\ outage' = 0 /\ UNCHANGED <<fileVars, lostReset>>
    <2>1. TypeOK'
        BY <1>0, <1>1, <1>4, Bounds DEF TypeOK, BotTypeOK, fileVars
    <2>2. SilenceIsOutage' /\ OutageIsCounted' /\ OutageIsBounded'
        BY <1>1, <1>4, Bounds DEF TypeOK, BotTypeOK, SilenceIsOutage, Alive,
           OutageIsCounted, OutageIsBounded, fileVars
    <2>3. CountIsBacked' /\ FailureIsAhead' /\ RestartIsBacked'
        BY <1>1, <1>4 DEF CountIsBacked, FailureIsAhead, RestartIsBacked, fileVars
    <2> QED
        BY <1>2, <2>1, <2>2, <2>3
<1> QED
    BY <1>3, <1>4

-----------------------------------------------------------------------------
(* The bot's own steps only touch the bot: what they must keep.            *)
LEMMA OwnStepIInv ==
    ASSUME IInv, BotTypeOK', quiet' <= MaxQuiet, LoopIsSound', waited' = 0,
           outage' = IF Alive' THEN 0 ELSE outage,
           UNCHANGED <<fileVars, failRun, lostReset>>,
           gateway' = "wedged" /\ ~Alive => UNCHANGED <<gateway, quiet>>
    PROVE  IInv'
<1> USE Bounds DEF IInv, fileVars
<1>1. outage' \in {0, outage} /\ (Alive' => outage' = 0)
    OBVIOUS
<1>2. TypeOK'
    BY <1>1 DEF TypeOK
<1>3. CountIsBacked' /\ FailureIsAhead' /\ RestartIsBacked'
    BY DEF CountIsBacked, FailureIsAhead, RestartIsBacked
<1>4. OutageIsCounted' /\ OutageIsBounded'
    BY <1>1 DEF TypeOK, OutageIsCounted, OutageIsBounded
<1>5. SilenceIsOutage'
    <2>1. CASE Alive
        <3>1. outage' = 0 /\ quiet' \in Nat
            BY <1>1, <2>1 DEF SilenceIsOutage, BotTypeOK
        <3> QED
            BY <3>1 DEF SilenceIsOutage
    <2>2. CASE ~Alive
        BY <1>1, <2>2 DEF SilenceIsOutage, TypeOK, BotTypeOK
    <2> QED
        BY <2>1, <2>2
<1> QED
    BY <1>2, <1>3, <1>4, <1>5

LEMMA OwnIInv ==
    ASSUME IInv,
           \/ BotStarts \/ BotLacksRequired \/ BotGetsToken \/ BotLacksToken
           \/ BotConnects \/ BotFailsToConnect \/ BotRetries
           \/ BotGatewayMoves \/ BotCrashes
    PROVE  IInv'
<1> DEFINE Kept == /\ BotTypeOK' /\ quiet' <= MaxQuiet
                   /\ LoopIsSound'
                   /\ gateway' = "wedged" /\ ~Alive => UNCHANGED <<gateway, quiet>>
<1>0. BotTypeOK /\ quiet <= MaxQuiet /\ LoopIsSound
    BY DEF IInv, TypeOK
<1>1. CASE BotStarts
    <2>1. requiredUp' = TRUE /\ FreshProcess
        BY <1>1 DEF BotStarts, OnItsOwn, UnitStarts, PullsRequired
    <2>2. requiredUp' \in BOOLEAN /\ startupError' \in BOOLEAN /\ ready' \in BOOLEAN
        BY <2>1 DEF FreshProcess
    <2>3. Kept
        BY <2>1, <2>2, Bounds DEF FreshProcess, BotTypeOK, Tasks, Gateways, LoopIsSound
    <2> QED
        BY <1>1, <2>3, OwnStepIInv DEF BotStarts, OnItsOwn
<1>2. CASE BotLacksRequired
    <2>1. unit' = "failed" /\ UNCHANGED <<requiredUp, task, startupError, gateway, ready, quiet>>
        BY <1>2 DEF BotLacksRequired, OnItsOwn, DependencyFails, PullFails, clientVars
    <2>2. Kept
        BY <1>0, <2>1 DEF BotTypeOK, LoopIsSound
    <2> QED
        BY <1>2, <2>2, OwnStepIInv DEF BotLacksRequired, OnItsOwn
<1>3. CASE BotGetsToken
    <2>1. /\ task = "token" /\ task' = "connect"
          /\ UNCHANGED <<unit, requiredUp, startupError, gateway, ready, quiet>>
        BY <1>3 DEF BotGetsToken, OnItsOwn, GetsToken, unitVars, clientVars
    <2>2. Kept
        BY <1>0, <2>1 DEF BotTypeOK, LoopIsSound, Tasks
    <2> QED
        BY <1>3, <2>2, OwnStepIInv DEF BotGetsToken, OnItsOwn
<1>4. CASE BotLacksToken
    <2>1. /\ task = "token" /\ task' = "returned" /\ startupError' = TRUE
          /\ UNCHANGED <<unit, requiredUp, gateway, ready, quiet>>
        BY <1>4 DEF BotLacksToken, OnItsOwn, NoToken, unitVars, clientVars
    <2>2. startupError' \in BOOLEAN
        BY <2>1
    <2>3. Kept
        BY <1>0, <2>1, <2>2 DEF BotTypeOK, LoopIsSound, Tasks
    <2> QED
        BY <1>4, <2>3, OwnStepIInv DEF BotLacksToken, OnItsOwn
<1>5. CASE BotConnects
    <2>1. /\ task = "connect" /\ gateway' = "open" /\ ready' = TRUE
          /\ UNCHANGED <<unit, requiredUp, task, startupError, quiet>>
        BY <1>5 DEF BotConnects, OnItsOwn, Connects, unitVars
    <2>2. ready' \in BOOLEAN
        BY <2>1
    <2>3. Kept
        BY <1>0, <2>1, <2>2 DEF BotTypeOK, LoopIsSound, Gateways
    <2> QED
        BY <1>5, <2>3, OwnStepIInv DEF BotConnects, OnItsOwn
<1>6. CASE BotFailsToConnect
    <2>1. /\ task' = "sleep" /\ startupError' = TRUE /\ quiet' = 0
          /\ gateway' \in {"closed", "none"}
          /\ UNCHANGED <<unit, requiredUp, ready>>
        BY <1>6 DEF BotFailsToConnect, OnItsOwn, ConnectRaises, unitVars
    <2>2. startupError' \in BOOLEAN
        BY <2>1
    <2>3. Kept
        BY <1>0, <2>1, <2>2, Bounds DEF BotTypeOK, LoopIsSound, Gateways, Tasks
    <2> QED
        BY <1>6, <2>3, OwnStepIInv DEF BotFailsToConnect, OnItsOwn
<1>7. CASE BotRetries
    <2>1. /\ task = "sleep" /\ task' = "connect" /\ startupError' = FALSE
          /\ UNCHANGED <<unit, requiredUp, gateway, ready, quiet>>
        BY <1>7 DEF BotRetries, OnItsOwn, Retries, unitVars, clientVars
    <2>2. startupError' \in BOOLEAN
        BY <2>1
    <2>3. Kept
        BY <1>0, <2>1, <2>2 DEF BotTypeOK, LoopIsSound, Tasks
    <2> QED
        BY <1>7, <2>3, OwnStepIInv DEF BotRetries, OnItsOwn
<1>8. CASE BotGatewayMoves
    <2>1. /\ unit = "up" /\ task = "connect" /\ quiet' = 0
          /\ UNCHANGED <<unit, requiredUp, task, startupError, ready>>
          /\ \/ gateway = "open" /\ gateway' = "wedged"
             \/ gateway \in {"open", "wedged"} /\ gateway' = "broken"
             \/ gateway \in {"wedged", "broken"} /\ gateway' = "open"
        BY <1>8 DEF BotGatewayMoves, OnItsOwn, GatewayMoves, unitVars
    <2>2. Kept
        BY <1>0, <2>1, Bounds DEF BotTypeOK, LoopIsSound, Gateways, Alive
    <2> QED
        BY <1>8, <2>2, OwnStepIInv DEF BotGatewayMoves, OnItsOwn
<1>9. CASE BotCrashes
    <2>1. unit' = "restarting" /\ UNCHANGED <<requiredUp, task, startupError, gateway, ready, quiet>>
        BY <1>9 DEF BotCrashes, OnItsOwn, Crashes, clientVars
    <2>2. Kept
        BY <1>0, <2>1 DEF BotTypeOK, LoopIsSound
    <2> QED
        BY <1>9, <2>2, OwnStepIInv DEF BotCrashes, OnItsOwn
<1> QED
    BY <1>1, <1>2, <1>3, <1>4, <1>5, <1>6, <1>7, <1>8, <1>9

LEMMA LavalinkIInv ==
    ASSUME IInv, BotLosesLavalink
    PROVE  IInv'
<1>1. requiredUp' = FALSE
      /\ UNCHANGED <<unit, task, startupError, gateway, ready, quiet, file, step, waited,
                     failRun, lostReset, outage>>
    BY DEF BotLosesLavalink, LavalinkExits, clientVars, fileVars, historyVars
<1>2. requiredUp' \in BOOLEAN
    BY <1>1
<1>3. TypeOK' /\ CountIsBacked' /\ FailureIsAhead' /\ RestartIsBacked'
    BY <1>1, <1>2 DEF IInv, TypeOK, BotTypeOK, CountIsBacked, FailureIsAhead, RestartIsBacked
<1>4. LoopIsSound' /\ SilenceIsOutage' /\ OutageIsCounted' /\ OutageIsBounded'
    BY <1>1 DEF IInv, LoopIsSound, SilenceIsOutage, Alive, OutageIsCounted, OutageIsBounded
<1> QED
    BY <1>3, <1>4 DEF IInv

-----------------------------------------------------------------------------
LEMMA NextIInv == IInv /\ [Next]_vars => IInv'
<1> SUFFICES ASSUME IInv, [Next]_vars PROVE IInv'
    OBVIOUS
<1>1. CASE Watchdog
    BY <1>1, ProbeIInv, HealthyIInv, CountIInv, RestartIInv, RestartFailsIInv, ResetIInv
       DEF Watchdog
<1>2. CASE WatchdogDies \/ VmReboots
    BY <1>2, WatchdogDiesIInv, RebootIInv
<1>3. CASE UNCHANGED vars
    <2> USE <1>3 DEF vars, botVars, unitVars, clientVars, fileVars, historyVars
    <2>1. TypeOK' /\ CountIsBacked' /\ FailureIsAhead' /\ RestartIsBacked'
        BY DEF IInv, TypeOK, BotTypeOK, CountIsBacked, FailureIsAhead, RestartIsBacked
    <2>2. LoopIsSound' /\ SilenceIsOutage' /\ OutageIsCounted' /\ OutageIsBounded'
        BY DEF IInv, LoopIsSound, SilenceIsOutage, Alive, OutageIsCounted, OutageIsBounded
    <2> QED
        BY <2>1, <2>2 DEF IInv
<1> QED
    BY <1>1, <1>2, <1>3, OwnIInv, LavalinkIInv DEF Next

LEMMA SpecIInv == Spec => []IInv
BY InitIInv, NextIInv, PTL DEF Spec

(* The file, the script and the bot keep their types; the number in the    *)
(* file never passes the threshold.                                        *)
THEOREM TypeCorrect == Spec => []TypeOK
<1>1. IInv => TypeOK
    BY DEF IInv
<1> QED
    BY <1>1, SpecIInv, PTL

(* The number in the file is backed by failing answers in a row, whatever  *)
(* dies, crashes or reboots in between -- but for a lost or pending zero.  *)
THEOREM CountBacked == Spec => []CountIsBacked
<1>1. IInv => CountIsBacked
    BY DEF IInv
<1> QED
    BY <1>1, SpecIInv, PTL

(* The bot is restarted on Threshold failing answers in a row.             *)
THEOREM RestartBacked == Spec => []RestartIsBacked
<1>1. IInv => RestartIsBacked
    BY DEF IInv
<1> QED
    BY <1>1, SpecIInv, PTL

(* A connected bot can always answer 200: neither the error of an earlier  *)
(* attempt nor a flag that was never set stands in its way.                *)
THEOREM ConnectedServed == Spec => []ConnectedIsServed
<1>1. IInv => ConnectedIsServed
    <2> SUFFICES ASSUME IInv, Alive PROVE TRUE \in LivezAnswers
        BY DEF ConnectedIsServed
    <2>1. unit = "up" /\ gateway = "open" /\ ~startupError /\ ready
        BY DEF Alive, IInv, LoopIsSound
    <2>2. EvaluateLiveness(FALSE)
        BY <2>1 DEF EvaluateLiveness
    <2>3. EvaluateLiveness(FALSE) = TRUE
        BY <2>2 DEF EvaluateLiveness
    <2>4. FALSE \in { s \in BOOLEAN :
                        /\ unit = "up"
                        /\ s => MayBeStale(quiet + 1) /\ gateway = "wedged"
                        /\ ~s /\ gateway = "wedged" => MayBeFresh(quiet + 1) }
        BY <2>1
    <2> QED
        BY <2>3, <2>4 DEF LivezAnswers
<1> QED
    BY <1>1, SpecIInv, PTL

(* A bot that is down is restarted within the threshold and the probes     *)
(* that the age limit masks, while the script and the VM live.             *)
THEOREM OutageBounded == Spec => []OutageIsBounded
<1>1. IInv => OutageIsBounded
    BY DEF IInv
<1> QED
    BY <1>1, SpecIInv, PTL

==============================================================================
