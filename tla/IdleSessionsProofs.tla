-------------------------- MODULE IdleSessionsProofs --------------------------
(***************************************************************************)
(* For every threshold and any number of players: the watcher among the    *)
(* VM, the daemon, the game, users and the bot's restarting commands keeps *)
(* what IdleWatcherProofs shows of it alone, it sees a session that lasts, *)
(* and so does the players guard.                                          *)
(***************************************************************************)
EXTENDS IdleSessions, IdleWatcherProofs

HostTypes ==
    /\ gameUp \in BOOLEAN /\ daemonUp \in BOOLEAN
    /\ players \in 0 .. MaxPlayers
    /\ turn \in {"stale", "turning", "turned"}
    /\ state.player_count \in 0 .. MaxPlayers
    /\ state.error \in BOOLEAN /\ state.last_update \in BOOLEAN
    /\ sample.players \in 0 .. MaxPlayers
    /\ sample.held \in BOOLEAN /\ sample.answered \in BOOLEAN

(* A daemon that is down has published nothing and samples nothing; the    *)
(* sample is emptied when it is published.                                 *)
DaemonIsBlank ==
    /\ ~daemonUp => ~state.last_update /\ ~sample.held
    /\ ~sample.held => ~sample.answered

(* Whose sessions and sightings are remembered are online.                 *)
MemoryIsOfPlayers ==
    /\ session # "none" => players > 0
    /\ sighting # "none" => players > 0 /\ daemonUp

(* A session that was there before the last tick ended is in all that the  *)
(* daemon has sampled since, and in all it has published in a full turn.   *)
TurnSeesSession ==
    session = "held" =>
        /\ turn # "stale" /\ sample.answered => sample.players > 0
        /\ turn = "turned" /\ state.last_update /\ ~state.error
               => state.player_count > 0

(* A tick that is to probe meets a full turn, or a daemon that has come up *)
(* since and not published yet.                                            *)
ProbeMeetsTurn ==
    pc = "probe" => \/ turn = "turned"
                    \/ ~state.last_update /\ (sample.held => turn = "turning")

(* Players once published stay in the count while they stay online.        *)
SightingIsKept ==
    /\ sighting = "sampled" => sample.held /\ sample.answered /\ sample.players > 0
    /\ sighting = "published" => /\ state.player_count > 0
                                 /\ sample.answered => sample.players > 0

SInv ==
    /\ HostTypes /\ DaemonIsBlank /\ MemoryIsOfPlayers
    /\ TurnSeesSession /\ ProbeMeetsTurn /\ SightingIsKept
    /\ HeldSessionIsSeen

-----------------------------------------------------------------------------
(* The composition implements the watcher alone, whose instance and probe  *)
(* may do anything.                                                        *)
LEMMA ProbeReads == ProbeValheim \subseteq Readings
BY DEF ProbeValheim, Counted, Readings

LEMMA WatcherStep == [SNext]_sessionVars => [Next]_vars
<1> SUFFICES ASSUME [SNext]_sessionVars PROVE [Next]_vars
    OBVIOUS
<1>1. CASE \/ UserStart \/ UserStop \/ InstanceComesUp \/ InstanceGoesDown \/ RestartStops
    BY <1>1 DEF UserStart, UserStop, InstanceComesUp, InstanceGoesDown, RestartStops,
       watcherVars, Next, InstanceMoves
<1>2. CASE \/ GameComesUp \/ GameGoesDown \/ PlayerJoins \/ PlayerLeaves
           \/ DaemonComesUp \/ DaemonGoesDown \/ DaemonQueries \/ DaemonPublishes
    BY <1>2 DEF GameComesUp, GameGoesDown, PlayerJoins, PlayerLeaves, DaemonComesUp,
       DaemonGoesDown, DaemonQueries, DaemonPublishes, watcherVars, vars
<1>3. CASE WatcherNext
    BY <1>3, ProbeReads DEF WatcherNext, Tick, TickProbes, TickContinues, RunningTickDies, Next
<1>4. CASE GuardPasses \/ RestartFails \/ UNCHANGED sessionVars
    BY <1>4 DEF GuardPasses, RestartFails, sessionVars, systemVars
<1> QED
    BY <1>1, <1>2, <1>3, <1>4 DEF SNext, SystemNext, Host, People, Restart

(* The watcher among the VM, the daemon and the bot is the watcher of      *)
(* IdleWatcher: the composition adds no behaviour to main.py.              *)
THEOREM WatcherRefined == SSpec => Spec
<1>1. SInit => Init
    BY DEF SInit, SystemInit
<1> QED
    BY <1>1, WatcherStep, PTL DEF SSpec, Spec

-----------------------------------------------------------------------------
(* What each kind of step leaves alone.  Steps of the VM, of users and of  *)
(* the bot's commands touch neither the watcher nor the daemon.            *)
InstanceSteps ==
    UserStart \/ UserStop \/ InstanceComesUp \/ InstanceGoesDown \/ Restart

LEMMA InstanceKeeps ==
    ASSUME InstanceSteps
    PROVE  UNCHANGED <<pc, reading, gameUp, players, daemonUp, state, sample, turn>>
BY DEF InstanceSteps, UserStart, UserStop, InstanceComesUp, InstanceGoesDown, Restart,
       GuardPasses, RestartStops, RestartFails, systemVars, vars, tickVars, watcherVars,
       gameVars, daemonVars

GameSteps == GameComesUp \/ GameGoesDown \/ PlayerJoins \/ PlayerLeaves

LEMMA GameKeeps ==
    ASSUME GameSteps, HostTypes
    PROVE  /\ UNCHANGED <<pc, reading, daemonUp, state, sample, turn>>
           /\ gameUp' \in BOOLEAN /\ players' \in 0 .. MaxPlayers
<1> USE MaxPlayersAssumption
    DEF HostTypes, tickVars, watcherVars, daemonVars
<1>1. CASE GameComesUp
    BY <1>1 DEF GameComesUp, Daemon!GameStart
<1>2. CASE GameGoesDown
    <2>1. /\ gameUp' = FALSE /\ players' = 0
          /\ UNCHANGED <<pc, reading, daemonUp, state, sample, turn>>
        BY <1>2 DEF GameGoesDown, Daemon!GameStop
    <2>2. gameUp' \in BOOLEAN
        BY <2>1
    <2> QED
        BY <2>1, <2>2
<1>3. CASE PlayerJoins
    BY <1>3 DEF PlayerJoins, Daemon!Join
<1>4. CASE PlayerLeaves
    BY <1>4 DEF PlayerLeaves, Daemon!Leave
<1> QED
    BY <1>1, <1>2, <1>3, <1>4 DEF GameSteps

LEMMA WatcherKeeps ==
    ASSUME WatcherNext
    PROVE  /\ UNCHANGED <<gameUp, players, daemonUp, state, sample>>
           /\ turn' = IF pc' = "idle" THEN "stale" ELSE turn
BY DEF WatcherNext, Tick, TickProbes, TickContinues, RunningTickDies, Clock, gameVars, daemonVars

DaemonSteps == DaemonComesUp \/ DaemonGoesDown \/ DaemonQueries \/ DaemonPublishes

LEMMA DaemonKeeps ==
    ASSUME DaemonSteps
    PROVE  UNCHANGED <<pc, reading, gameUp, players>>
BY DEF DaemonSteps, DaemonComesUp, DaemonGoesDown, DaemonQueries, DaemonPublishes,
       Daemon!DaemonStart, Daemon!Query, Daemon!Publish, Daemon!gameVars,
       tickVars, watcherVars, gameVars

(* The daemon's own steps, without what no invariant here looks at.        *)
Blanks ==
    /\ daemonUp' \in BOOLEAN /\ (daemonUp' <=> ~daemonUp)
    /\ ~state'.last_update /\ ~state'.error /\ state'.player_count = 0
    /\ ~sample'.held /\ ~sample'.answered /\ sample'.players = 0
    /\ UNCHANGED turn

Samples ==
    /\ daemonUp /\ ~sample.held
    /\ sample'.held
    /\ sample'.players = IF sample'.answered THEN players ELSE 0
    /\ turn' = IF turn = "stale" THEN "turning" ELSE turn
    /\ UNCHANGED <<daemonUp, state>>

Publishes ==
    /\ daemonUp /\ sample.held
    /\ state'.player_count = IF sample.answered THEN sample.players ELSE state.player_count
    /\ state'.error <=> ~sample.answered
    /\ ~sample'.held /\ ~sample'.answered /\ sample'.players = 0
    /\ turn' = IF turn = "turning" THEN "turned" ELSE turn
    /\ UNCHANGED daemonUp

SampleTypes ==
    /\ state.error \in BOOLEAN /\ state.last_update \in BOOLEAN
    /\ sample.held \in BOOLEAN /\ sample.answered \in BOOLEAN

LEMMA DaemonDoes ==
    ASSUME DaemonSteps, HostTypes
    PROVE  (Blanks \/ Samples \/ Publishes) /\ SampleTypes'
<1>1. CASE DaemonComesUp \/ DaemonGoesDown
    <2>1. /\ state' = Daemon!InitialState /\ sample' = Daemon!NoSample
          /\ (daemonUp' = TRUE /\ ~daemonUp) \/ (daemonUp' = FALSE /\ daemonUp)
          /\ UNCHANGED turn
        BY <1>1 DEF DaemonComesUp, DaemonGoesDown, Daemon!DaemonStart, Daemon!DaemonStop
    <2>2. daemonUp' \in BOOLEAN
        BY <2>1
    <2>3. /\ state'.last_update = FALSE /\ state'.error = FALSE /\ state'.player_count = 0
          /\ sample'.held = FALSE /\ sample'.answered = FALSE /\ sample'.players = 0
        BY <2>1 DEF Daemon!InitialState, Daemon!NoSample
    <2> QED
        BY <2>1, <2>2, <2>3 DEF Blanks, SampleTypes
<1>2. CASE DaemonQueries
    <2>1. PICK answered \in {FALSE, gameUp} :
              sample' = [held |-> TRUE, answered |-> answered,
                         players |-> IF answered THEN players ELSE 0,
                         worlds |-> {}, active_world |-> NoWorld]
        BY <1>2 DEF DaemonQueries, Daemon!Query
    <2>2. /\ daemonUp /\ daemonUp' = daemonUp /\ state' = state /\ ~sample.held
          /\ turn' = IF turn = "stale" THEN "turning" ELSE turn
        BY <1>2 DEF DaemonQueries, Daemon!Query
    <2>3. answered \in BOOLEAN
        BY DEF HostTypes
    <2>4. /\ sample'.held = TRUE /\ sample'.answered = answered
          /\ sample'.players = IF answered THEN players ELSE 0
        BY <2>1
    <2> QED
        BY <2>2, <2>3, <2>4 DEF Samples, SampleTypes, HostTypes
<1>3. CASE DaemonPublishes
    <2>1. /\ daemonUp /\ daemonUp' = daemonUp /\ sample.held
          /\ turn' = IF turn = "turning" THEN "turned" ELSE turn
          /\ sample' = Daemon!NoSample
        BY <1>3 DEF DaemonPublishes, Daemon!Publish
    <2>2. /\ state'.player_count = IF sample.answered THEN sample.players ELSE state.player_count
          /\ state'.error = (~sample.answered) /\ state'.last_update = TRUE
        BY <1>3 DEF DaemonPublishes, Daemon!Publish
    <2>3. sample'.held = FALSE /\ sample'.answered = FALSE /\ sample'.players = 0
        BY <2>1 DEF Daemon!NoSample
    <2>4. state'.error \in BOOLEAN /\ state'.last_update \in BOOLEAN
        BY <2>2
    <2> QED
        BY <2>1, <2>2, <2>3, <2>4 DEF Publishes, SampleTypes
<1> QED
    BY <1>1, <1>2, <1>3 DEF DaemonSteps

(* Every step is one of these; all of them keep the memory.                *)
LEMMA StepKinds ==
    ASSUME SNext, HostTypes
    PROVE  /\ InstanceSteps \/ GameSteps \/ DaemonSteps \/ WatcherNext
           /\ Record
BY DEF SNext, SystemNext, Host, People, InstanceSteps, GameSteps, DaemonSteps

-----------------------------------------------------------------------------
LEMMA HostTypesStep ==
    ASSUME HostTypes, SNext
    PROVE  HostTypes'
<1>1. CASE InstanceSteps
    BY <1>1, InstanceKeeps DEF HostTypes
<1>2. CASE GameSteps
    BY <1>2, GameKeeps DEF HostTypes
<1>3. CASE DaemonSteps
    <2>1. UNCHANGED <<gameUp, players>> /\ SampleTypes'
        BY <1>3, DaemonKeeps, DaemonDoes
    <2>2. CASE Blanks
        BY <2>1, <2>2, MaxPlayersAssumption DEF HostTypes, SampleTypes, Blanks
    <2>3. CASE Samples
        BY <2>1, <2>3, MaxPlayersAssumption DEF HostTypes, SampleTypes, Samples
    <2>4. CASE Publishes
        BY <2>1, <2>4, MaxPlayersAssumption DEF HostTypes, SampleTypes, Publishes
    <2>5. Blanks \/ Samples \/ Publishes
        BY <1>3, DaemonDoes
    <2> QED
        BY <2>2, <2>3, <2>4, <2>5
<1>4. CASE WatcherNext
    BY <1>4, WatcherKeeps DEF HostTypes
<1> QED
    BY <1>1, <1>2, <1>3, <1>4, StepKinds

LEMMA BlankStep ==
    ASSUME HostTypes, DaemonIsBlank, SNext
    PROVE  DaemonIsBlank'
<1> USE DEF DaemonIsBlank
<1>1. CASE DaemonSteps
    BY <1>1, DaemonDoes DEF Blanks, Samples, Publishes, HostTypes
<1>2. CASE InstanceSteps \/ GameSteps \/ WatcherNext
    BY <1>2, InstanceKeeps, GameKeeps, WatcherKeeps
<1> QED
    BY <1>1, <1>2, StepKinds

LEMMA MemoryStep ==
    ASSUME HostTypes, MemoryIsOfPlayers, SNext
    PROVE  MemoryIsOfPlayers'
<1>1. players \in Nat /\ players' \in Nat
    BY HostTypesStep, MaxPlayersAssumption DEF HostTypes
<1>2. session' = SessionAfter /\ sighting' = SightingAfter
    BY StepKinds DEF Record
<1>3. session' # "none" => players' > 0
    BY <1>1, <1>2 DEF SessionAfter, TickEnds
<1>4. sighting' # "none" => players' > 0 /\ daemonUp'
    BY <1>1, <1>2 DEF SightingAfter
<1> QED
    BY <1>3, <1>4 DEF MemoryIsOfPlayers

LEMMA TurnStep ==
    ASSUME HostTypes, MemoryIsOfPlayers, TurnSeesSession, SNext
    PROVE  TurnSeesSession'
<1>1. players \in Nat /\ players' \in Nat
    BY HostTypesStep, MaxPlayersAssumption DEF HostTypes
<1>2. session' = SessionAfter
    BY StepKinds DEF Record
<1>3. CASE InstanceSteps
    BY <1>1, <1>2, <1>3, InstanceKeeps DEF TurnSeesSession, SessionAfter, TickEnds
<1>4. CASE GameSteps
    BY <1>1, <1>2, <1>4, GameKeeps DEF TurnSeesSession, SessionAfter, TickEnds
<1>5. CASE DaemonSteps
    BY <1>1, <1>2, <1>5, DaemonKeeps, DaemonDoes
       DEF TurnSeesSession, SessionAfter, TickEnds, Blanks, Samples, Publishes, HostTypes, MemoryIsOfPlayers
<1>6. CASE WatcherNext
    BY <1>1, <1>2, <1>6, WatcherKeeps DEF TurnSeesSession, SessionAfter, TickEnds
<1> QED
    BY <1>3, <1>4, <1>5, <1>6, StepKinds

LEMMA ProbeStep ==
    ASSUME HostTypes, DaemonIsBlank, ProbeMeetsTurn, SNext
    PROVE  ProbeMeetsTurn'
<1> USE DEF ProbeMeetsTurn
<1>1. CASE InstanceSteps
    BY <1>1, InstanceKeeps
<1>2. CASE GameSteps
    BY <1>2, GameKeeps
<1>3. CASE DaemonSteps
    BY <1>3, DaemonKeeps, DaemonDoes DEF Blanks, Samples, Publishes, HostTypes
<1>4. CASE WatcherNext
    <2>1. CASE Tick /\ TickRunning
        BY <1>4, <2>1, WatcherKeeps DEF Tick, TickRunning, Settled, DaemonIsBlank
    <2>2. CASE ~(Tick /\ TickRunning)
        <3>1. pc' # "probe"
            BY <1>4, <2>2
               DEF WatcherNext, Tick, TickStart, TickNotRunning, TickNoAddress, vars, tickVars,
                   TickProbes, Probe, TickContinues, TickStep, Decide, ActiveResets,
                   EmptyCounts, EmptyStops, StopInstance, WriteState, EndTick,
                   RunningTickDies, TickDies
        <3> QED
            BY <3>1
    <2> QED
        BY <2>1, <2>2
<1> QED
    BY <1>1, <1>2, <1>3, <1>4, StepKinds

LEMMA SightingStep ==
    ASSUME HostTypes, DaemonIsBlank, MemoryIsOfPlayers, SightingIsKept, SNext
    PROVE  SightingIsKept'
<1>1. players \in Nat /\ players' \in Nat
    BY HostTypesStep, MaxPlayersAssumption DEF HostTypes
<1>2. sighting' = SightingAfter
    BY StepKinds DEF Record
<1>3. CASE InstanceSteps \/ GameSteps \/ WatcherNext
    <2>1. UNCHANGED <<state, sample>>
        BY <1>3, InstanceKeeps, GameKeeps, WatcherKeeps
    <2> QED
        BY <1>2, <2>1 DEF SightingIsKept, SightingAfter, DaemonIsBlank
<1>4. CASE DaemonSteps
    <2>1. Blanks \/ Samples \/ Publishes
        BY <1>4, DaemonDoes
    <2>2. players' = players /\ sample'.held \in BOOLEAN
        BY <1>4, DaemonKeeps, DaemonDoes DEF SampleTypes
    <2>3. CASE sighting' = "none"
        BY <2>3 DEF SightingIsKept
    <2>4. CASE sighting' # "none" /\ Blanks
        BY <1>2, <2>2, <2>4
           DEF SightingIsKept, SightingAfter, MemoryIsOfPlayers, Blanks
    <2>5. CASE sighting' # "none" /\ Samples
        BY <1>1, <1>2, <2>2, <2>5
           DEF SightingIsKept, SightingAfter, Samples
    <2>6. CASE sighting' # "none" /\ Publishes
        BY <1>1, <1>2, <2>2, <2>6
           DEF SightingIsKept, SightingAfter, Publishes
    <2> QED
        BY <2>1, <2>3, <2>4, <2>5, <2>6
<1> QED
    BY <1>3, <1>4, StepKinds

LEMMA SeenStep ==
    ASSUME HostTypes, TurnSeesSession, ProbeMeetsTurn, HeldSessionIsSeen, SNext
    PROVE  HeldSessionIsSeen'
<1>1. probed' = IF pc' = "idle" THEN NotProbed
                ELSE IF pc = "probe" /\ pc' = "read"
                     THEN [session |-> session, queried |-> state.last_update]
                     ELSE probed
    BY StepKinds DEF Record
<1>2. CASE pc' = "idle"
    BY <1>1, <1>2 DEF HeldSessionIsSeen, NotProbed
<1>3. CASE InstanceSteps \/ GameSteps \/ DaemonSteps
    <2>1. UNCHANGED <<pc, reading>>
        BY <1>3, InstanceKeeps, GameKeeps, DaemonKeeps
    <2> QED
        BY <1>1, <1>2, <2>1 DEF HeldSessionIsSeen
<1>4. CASE TickProbes /\ pc' # "idle"
    <2>1. /\ probed'.session = session /\ probed'.queried = state.last_update
          /\ pc = "probe" /\ reading' \in ProbeValheim
        BY <1>1, <1>4 DEF TickProbes, Probe
    <2>2. ASSUME "empty" \in ProbeValheim
          PROVE  ~state.error /\ ~(state.player_count > 0)
        BY <2>2 DEF ProbeValheim, Counted
    <2> QED
        BY <2>1, <2>2 DEF HeldSessionIsSeen, ProbeMeetsTurn, TurnSeesSession
<1>5. CASE (Tick \/ TickContinues \/ RunningTickDies) /\ pc' # "idle"
    <2>1. reading' = reading /\ pc # "probe"
        BY <1>5
           DEF Tick, TickStart, TickNotRunning, TickNoAddress, TickRunning, vars, tickVars,
               TickContinues, TickStep, Decide, StopInstance, WriteState, EndTick,
               RunningTickDies, TickDies
    <2> QED
        BY <1>1, <1>5, <2>1 DEF HeldSessionIsSeen
<1> QED
    BY <1>2, <1>3, <1>4, <1>5, StepKinds DEF WatcherNext

-----------------------------------------------------------------------------
LEMMA InitSInv == SInit => SInv
<1> SUFFICES ASSUME SInit PROVE SInv
    OBVIOUS
<1>1. /\ gameUp = FALSE /\ daemonUp = FALSE /\ players = 0 /\ turn = "stale"
      /\ state = Daemon!InitialState /\ sample = Daemon!NoSample
      /\ session = "none" /\ sighting = "none" /\ pc = "idle" /\ probed = NotProbed
    BY DEF SInit, SystemInit, Init, WatcherInit, Daemon!DaemonInit
<1>2. /\ state.player_count = 0 /\ state.error = FALSE /\ state.last_update = FALSE
      /\ sample.players = 0 /\ sample.held = FALSE /\ sample.answered = FALSE
    BY <1>1 DEF Daemon!InitialState, Daemon!NoSample
<1>3. /\ gameUp \in BOOLEAN /\ daemonUp \in BOOLEAN /\ SampleTypes
      /\ players \in 0 .. MaxPlayers /\ turn \in {"stale", "turning", "turned"}
      /\ state.player_count \in 0 .. MaxPlayers /\ sample.players \in 0 .. MaxPlayers
    <2>1. gameUp \in BOOLEAN /\ daemonUp \in BOOLEAN
        BY <1>1
    <2>2. SampleTypes
        BY <1>2 DEF SampleTypes
    <2> QED
        BY <1>1, <1>2, <2>1, <2>2, MaxPlayersAssumption
<1>4. DaemonIsBlank /\ MemoryIsOfPlayers /\ TurnSeesSession /\ ProbeMeetsTurn /\ SightingIsKept
    BY <1>1, <1>2
       DEF DaemonIsBlank, MemoryIsOfPlayers, TurnSeesSession, ProbeMeetsTurn, SightingIsKept
<1>5. HeldSessionIsSeen
    BY <1>1 DEF HeldSessionIsSeen, NotProbed
<1> QED
    BY <1>3, <1>4, <1>5 DEF SInv, HostTypes, SampleTypes

LEMMA SameSInv == SInv /\ UNCHANGED sessionVars => SInv'
BY DEF SInv, HostTypes, DaemonIsBlank, MemoryIsOfPlayers, TurnSeesSession, ProbeMeetsTurn,
       SightingIsKept, HeldSessionIsSeen, sessionVars, systemVars, vars, tickVars, gameVars,
       daemonVars, memory

LEMMA NextSInv == SInv /\ [SNext]_sessionVars => SInv'
BY SameSInv, HostTypesStep, BlankStep, MemoryStep, TurnStep, ProbeStep, SightingStep, SeenStep
   DEF SInv

LEMMA SpecSInv == SSpec => []SInv
BY InitSInv, NextSInv, PTL DEF SSpec

(* The watcher's stored counter is backed by empty readings of the real    *)
(* daemon, but for a lost or pending reset.                                *)
THEOREM SystemCountBacked == SSpec => []CountIsBacked
BY WatcherRefined, CountBacked, PTL

(* A VM is stopped by the watcher on EMPTY_CHECKS_TO_STOP empty readings   *)
(* of the real daemon in a row, but for a lost reset.                      *)
THEOREM SystemStopBacked == SSpec => []StopIsBacked
BY WatcherRefined, StopBacked, PTL

(* Players online, without a gap, since before the last tick ended are not *)
(* counted as an empty server by a probe of a daemon that has queried the  *)
(* game (main.py:108-116, status-server.py:285-305).                       *)
THEOREM HeldSessionSeen == SSpec => []HeldSessionIsSeen
<1>1. SInv => HeldSessionIsSeen
    BY DEF SInv
<1> QED
    BY <1>1, SpecSInv, PTL

(* A restarting command that was told of no players was not told so by a   *)
(* daemon that had published the players who are online (valheim.py:319).  *)
THEOREM SeenBlock == SSpec => SeenPlayersBlock
<1>1. SInv /\ [SNext]_sessionVars
          => [restart' = "told" /\ restart # "told" => sighting # "published"]_sessionVars
    <2> SUFFICES ASSUME SInv, SNext, restart' = "told", restart # "told"
                 PROVE  sighting # "published"
        OBVIOUS
    <2>1. GuardPasses
        BY DEF SNext, Restart, RestartStops, RestartFails
    <2>2. ~Blocks
        BY <2>1 DEF GuardPasses
    <2> QED
        BY <2>2 DEF SInv, SightingIsKept, Blocks
<1> QED
    BY <1>1, SpecSInv, PTL DEF SSpec, SeenPlayersBlock

==============================================================================
