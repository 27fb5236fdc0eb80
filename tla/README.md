# Verification of mr-swede

TLA+ models of mr-swede, the TLC runs that check them on small instances, and
TLAPS proofs of what matters most for every instance. Paths are relative to the
repository (`bot/src/cogs/music.py` is `src/bot/src/cogs/music.py` here).
`PROJECT.json` is the index: components, runs, mutants, findings, hazards,
theorems, and for every definition the lines it models.

To check: `tlc -workers 2 -config X.cfg M` for the pairs of the table of runs,
`tlapm` on each `*Proofs.tla`.

## 1. The system

A Discord bot (a small always-on VM, one asyncio process) runs a Valheim server
on a second VM that is started on demand, plays music through a Lavalink node,
and is kept alive by a shell watchdog. A Cloud Function stops the Valheim VM
when nobody plays.

```
  Discord users ──► bot (discord.py)
                     ├─ cogs/valheim.py ──► Compute API: describe, metadata, start, stop
                     │        └──────────► GET /status.json (count, worlds, active world)
                     ├─ cogs/music.py ────► wavelink ──► Lavalink ──► Discord voice
                     └─ http.py /livez ◄── bot-watchdog.sh (timer) ──► systemctl restart bot

  Cloud Scheduler ──► idle watcher ──► Compute API: get, stop
                          ├──────────► GET /status.json
                          └──────────► bucket: state-valheim.json

  Valheim VM: startup script ─ metadata ─► world.env ─► valheim.service (the game)
              status-server.py ─ A2S query, world files ─► /status.json
```

### Components, their state, and what makes them correct

| component | state | operations | hard because | correct when |
|---|---|---|---|---|
| **Idle watcher** `infra/modules/gcp-idle-watcher/function/main.py` | the counter in the bucket; a tick's locals | one tick: get, probe, read, write or stop-then-write | no retry, no lock, any call may raise; the VM and the players move under the tick | a VM is stopped only on N empty readings in a row; an idle VM is stopped in the end |
| **Status daemon** `server/scripts/status-server.py` | `_state` under a lock; the query loop's sample | query, publish, serve, restart | serves before it has queried; a failed query keeps the old count | nobody reads an unknown count as zero |
| **Valheim commands** `bot/src/cogs/valheim.py`, `services/compute.py` | the coroutines' locals; the instance metadata and status | status, start, stop, world list / switch / new, modifier set / preset / key | every command is many awaits over remote state; several run at once, beside the watcher | an announced change is what boots; no other key is undone; no mistyped world is generated |
| **World inventory, cache** `services/worlds.py`, `world_cache.py` | a JSON file on the bot's disk | remember, recall, resolve_inventory, validate | stale, lost, or ahead of the disk | every name the guards trust exists or was asked for |
| **Valheim VM boot** `server/startup-script.sh.tftpl`, the units | metadata, `world.env`, saves | resolve, write `world.env`, restart the units | systemd starts enabled units in parallel with the script | the booted game runs with the metadata of the moment |
| **Voice recovery** `services/voice_recovery.py`, `cogs/music.py` | `GuildRecoveryState` per guild; the player | heartbeat tick, close-event handler, dispatch, reconnect | two kinds of task share the state and the player across awaits; users act in between | one retry per track, then a skip; no action on one bad sample; no silence for ever |
| **Music commands, queue** `services/music.py`, `cogs/music.py` | wavelink's player and queue | play, playlist, skip, pause, stop, clear, shuffle, loop, volume | check-then-act around `await player.play` | nothing queued is lost or played twice |
| **Node connection** `services/music.py:110-173` | wavelink's node pool | ensure connected, evict, poll the handshake | two commands connect at once | the node a command got is usable |
| **Bot process** `bot/src/http.py`, `bot.py` | `startup_error`, the client's state | run loop with reconnect, `/livez` | a loop that no longer connects still answers HTTP | `/livez` is red when the bot cannot recover by itself |
| **Bot watchdog** `server/bot-vm/scripts/bot-watchdog.sh` | a failure counter in a file | probe, count, restart, reset | dies between restart and reset; races a slow boot | restarts a dead bot, not a booting one |
| **Modifiers** `services/modifiers.py` | one string in the instance metadata | parse, validate, edit one setting, format | strings typed by hand; the string is rewritten whole by each edit | an edit changes its own setting and no other, and boots |
| **Secrets** `config/secrets.py` | two caches | fetch, cached read | rotation | a reader gets a current value |
| checks, embeds, diagnostics, logging, settings, provisioning scripts, Terraform | — | — | pure predicates, rendering, I/O, declarations | — |

## 2. Modules

```
  GceInstance ◄─ INSTANCE ─ IdleWatcher ◄─ EXTENDS ─ IdleWatcherProofs
       ▲                        ▲
       │                        │ EXTENDS
       │                   IdleShutdown ◄─ EXTENDS ─ IdleSessions ◄─ EXTENDS ─ IdleSessionsProofs
       │                        │ INSTANCE
       │                        ▼
       │                  StatusDaemon
       └─ EXTENDS ─ ValheimHost ◄─ EXTENDS ─ ValheimControl
                                                 ▲
                                                 └─ EXTENDS ─ ValheimControlProofs ◄─ EXTENDS ─ ValheimEffectProofs

  ModifierBoard  ◄─ INSTANCE (refinement) ─ Modifiers ◄─ EXTENDS ─ MCModifiers
                                                ▲
                                                └─ EXTENDS ─ ModifiersProofs

  RecoveryPolicy ◄─ INSTANCE (refinement) ─ VoiceRecovery ◄─ EXTENDS ─ VoiceClaims
                                                 ▲
                                                 └─ EXTENDS ─ VoiceRecoveryProofs
  MusicQueue ◄─ EXTENDS ─ MusicQueueProofs

  BotProcess ◄─ EXTENDS ─ BotWatchdog ◄─ EXTENDS ─ BotWatchdogProofs
```

### GceInstance
The VM as the callers see it: `status` and whether an address is attached
(`natIp`). `Start`/`Stop` are accepted requests, `Staged`/`Halted` the completion
of a transition. A start that meets STOPPING has no effect; PROVISIONING is
folded into STAGING. External: modelled from how the code uses the API.

### IdleWatcher
A tick of `_process_target` for the Valheim target, one action per remote call:
`TickStart` is `instances.get` and the early outcomes, `Probe` the HTTP read,
`Decide` is `_read_state` with the three branches after it, then `StopInstance`
and `WriteState`. `TickDies` ends a tick anywhere: nothing catches its exceptions
and the scheduler's `retry_count` is 0. `blob` is the object in the bucket;
`_read_state` yields 0 on any exception, so `StoredCounts` is `{blob, 0}`. The
instance and the probe's answers are arbitrary: what is proved here holds
against any VM, daemon and game. `emptyRun` (empty readings in a row since players were seen,
the VM was seen down or the watcher stopped it) and `lostReset` are history that no
action reads.

### StatusDaemon, IdleShutdown, IdleSessions
`StatusDaemon` is one round of the query loop in two steps (`Query`, `Publish`)
with the published record `state`; `error` and `last_update` stand for the presence
of these fields. `IdleShutdown` composes watcher, VM, daemon, game, players and
people; `ProbeValheim` is the set of answers `_probe_valheim` may give: None at any time, since
the request, its JSON or the count may fail while the daemon is up, and otherwise what the
served record says. `IdleSessions` adds the
other reader of that record: `GuardPasses` is `_players_block` of a command that restarts
the server without force (`Blocks` is the count as `fetch_status` hands it on, with or
without an error field), `RestartStops` the stop it leads to. `session`, `probed` and
`sighting` are a memory of the players' sessions that no action reads.

*The timing assumption* is `Settled`: a tick comes every 30 minutes, the daemon's
loop turns every 30 seconds, so between two ticks a daemon that keeps running
completes a round. Nothing is assumed of a daemon restarted in between.

### RecoveryPolicy, VoiceRecovery, VoiceClaims
`VoiceRecovery` is one guild's recovery: the heartbeat task and any number of
close-event handlers, each step the code between two awaits. `pc` is what a task
awaits: `probe` (fetch of the player's state), `retry`/`skip` (the announcement
of that action), `sleep` and `replay` (inside `reconnect_player_at_position`),
`reset` (the skip of the player, after which the budget is reset). `job` holds its locals: which track it judged,
whether the player it holds is still the guild's (`mine`, `left`) and whether
the state object it holds is still in `_recovery_state` (`held`) — a tick without
a player pops the entry while another task may still write to it. Frames are
a Boolean (`spike`: the deficit grew beyond the threshold since the last sample);
time is a throttle (`cooling`) that ends at any moment. Users, Lavalink and
Discord are the actions of `World`.

`RecoveryPolicy` is the abstract promise (docs/prd.md:439): while a track stays
loaded, a confirmed wedge is retried once and then skipped. The heartbeat alone
implements it (`OneRetryThenSkip`, a refinement, also proved). With close events it
does not: the run `voice_double_fire` shows why.

`VoiceClaims` adds the history needed to state two claims of comments and docs.

### MusicQueue
One guild's `/music play` commands, each action the code between two awaits: `connect_node`
(`NodeIsReady` … `PollEnds`), the join or the move of
a player that is in another channel (`JoinBegins` … `JoinFails`), the search, and the
guard with its effect (`PlaysFirst`, `PutsAll`), which has no await in it; the rest of a
playlist is put when `player.play` returns (`StartReturns`). A track is the number under
which it was accepted, so that order is visible. `job.mine` says that the player a command
holds is still the guild's. The commands on the queue are one action each. wavelink is
external: the end of a track (`TrackEnds`), its handler, which takes the next one
(`Advances`) or does not (`AdvanceEnds`), a node whose connection moves. `Destroyed` is
what a disconnect does to a player, whoever asks for it. `top`, `mixed` and `cut` are
history.

### BotProcess, BotWatchdog
`BotProcess` is the unit with those it requires (its secrets, Lavalink, whose own secrets may
fail in turn: `requiredUp` says that all are active, `PullFails` that one cannot be started;
the network is taken to be there), the task `_run_bot` (`token`, `connect`, `sleep`, `returned`), the
client as `/livez` can see it, and the verdict (`EvaluateLiveness`, branch by branch; the
age of the last message is the number of probes since). `BotWatchdog` is the script, one
action per command that touches the file or the unit: `Probe`, `HealthyResets`,
`CountFailure` (stores before it compares), `RestartBot`, `ResetCount`; it may die before
any of them (`Dies`), and within a write. `RestartFails`: `systemctl restart` waits for the
start job, which fails with a required unit, and `set -e` then ends the script before its reset.
`failRun`, `lostReset` and `outage` are history.

*The timing assumption* is `Patience`: time is counted in probes, and what the bot does on
its own clock is done within a number of them — the 10 s of `RestartSec`, the fetch of the
token and the 30 s before a retry within one probe, a handshake (login, `setup_hook`, READY)
within `Slow`. A wedged gateway has no such limit, nor has the library's own reconnection.

### ValheimHost, ValheimControl
`ValheimHost` is the boot: `BootBegins`, `ScriptResolves` (metadata with
Terraform's defaults for absent or empty keys → `worldEnv`), `ScriptRestarts`
(the game launched from it), and `AutoStarts`: units an earlier boot enabled start
in parallel and may load the old `world.env` first. `ValheimControl` is the
commands as coroutines: `Describe` and the guards that follow it, `TakeInventory`
(`fetch_status` and `resolve_inventory`), `LookForPlayers`, the two calls of
`set_metadata` (`ReadMetadata`, `WriteMetadata` with the fingerprint as a
comparison of contents), `StopInstance`, `PollSucceeds`/`PollsRunOut`, `StartInstance`
with the answer and the cache projection. `Fails` ends a command before any of
its calls. The watcher, the loss of the cache, and the host move in between.
World names are model values; the modifier string is a set of settings.

### ModifierBoard, Modifiers
`Modifiers` is that string as the sequence of its words. `ParseArgs` is the loop over the
words, one turn of which is `ReadFrom` (read from the right, so that the later of two settings
wins); `ToArgs` is the formatting in the order of the menu, made of `WrittenPreset`,
`WrittenDial` and `WrittenKey`; `SetModifier`, `SetPreset` and `SetKey` the edits; the tables are the
code's. `Lower` is `str.lower`, a constant of which only what the code relies on is assumed;
`MCModifiers` gives it its value on the words of the runs. An action is a command from its arguments to the string it writes, and starts from
whatever was there: the first string may have been typed by hand, wrong or truncated.
`Shown` is what `modifier list` shows of a string (`Listed` once it is parsed), `SERVER_ARGS` what a boot makes of it.
`ModifierBoard` is what a user is promised: settings next to each other, one changed at a
time.

*The timing assumption* is `Prompt`: a command that found the VM TERMINATED is
two API calls from having written its key, while a boot takes many seconds before
the script reads it. Without it another command's start could boot the VM between
the description and the write: the running server would have the old value
although the command answers "booting". The assumption is about that window
only; everything else is untimed.

## 3. Runs

| run | module / cfg | instance | checks |
|---|---|---|---|
| `idle_sessions` | IdleSessions | N = 3, 2 players, 1 restarting command, fair | `TypeOK`, `CountIsBacked`, `StopIsBacked`, `HeldSessionIsSeen`, `SeenPlayersBlock`, `IdleIsStopped` |
| `voice_recovery` | VoiceRecovery | 2 tracks, 1 handler, no queue, fair | `TypeOK`, `AttemptsBounded`, `HeartbeatNeedsTwoSamples`, `SilenceEnds` |
| `voice_heartbeat` | VoiceRecovery / VoiceHeartbeat | 3 tracks, no handler, queue 1 | `OneRetryThenSkip` (refinement of RecoveryPolicy) |
| `valheim_control` | ValheimControl | 2 worlds, 1 setting, 1 command repeated for ever, fair | `TypeOK`, `AnnouncedBoots` |
| `valheim_commands` | ValheimControl / ValheimCommands | 2 worlds, 1 setting, 3 overlapping commands | `OnlyKnownWorlds`, `AnnouncedIsInEffect`, `OtherKeyKept` |
| `modifiers` | MCModifiers / Modifiers | every string of 2 phrases over 9 words | `TypeOK`, `WrittenIsReadBack`, `ImplementsBoard` (refinement of ModifierBoard) |
| `bot_watchdog` | BotWatchdog | the code's threshold 5, period 60 s and freshness 90 s; a handshake within 2 probes; fair | `TypeOK`, `CountIsBacked`, `RestartIsBacked`, `ConnectedIsServed`, `OutageIsBounded`, `ComesBack` |
| `music_queue` | MusicQueue | 2 play commands repeated for ever, playlists cut to 2, 4 tracks | `TypeOK`, `InOrder`, `StallsAreCut`, `ReplacesOnlyWhileJoining` |
| `voice_double_fire` | VoiceClaims / VoiceDoubleFire | 2 tracks, 1 handler, queue 1 | *violates* `NoDoubleFire` |
| `voice_stays_out` | VoiceClaims / VoiceStaysOut | 2 tracks, 1 handler, queue 1 | *violates* `StaysOut` |
| `music_stall` | MusicQueue / MusicStall | 2 play commands, 3 tracks | *violates* `PlayEndsSilence` |
| `modifiers_cleared` | MCModifiers / ModifiersCleared | as `modifiers` | *violates* `AppliedTakesEffect` |

### What the passing runs show
- **Idle watcher.** `CountIsBacked` and `StopIsBacked`: the stored counter claims no
  more empty readings in a row than there were, and a stop rests on N of them since the last
  one, through failed reads and deaths anywhere — except after a *lost reset*: a tick that owed
  the bucket a zero, for players, a VM that was down or its own stop, and died.
  `HeldSessionIsSeen`: players online without a gap since before the previous tick
  ended are never counted as an empty server, if the daemon had queried at all.
  `SeenPlayersBlock`: the bot's players guard, which reads the same record the other way
  round (it ignores the error field, and so keeps the last count of a daemon whose queries
  fail), never lets a restart without force pass over players the running daemon has
  published and who are still there.
  `IdleIsStopped`: an idle VM is stopped, unless ticks keep dying, the counter stays
  unreadable, or from some time on every probe fails. The last is what main.py:129-133 tells of
  a target whose probe got 404 on every tick; probes that fail now and then, however often,
  leave the counter alone and only put the stop off.
- **Voice.** `AttemptsBounded`: charged attempts plus pending ones never exceed one
  per task. `HeartbeatNeedsTwoSamples`: the heartbeat acts only when its last two
  samples, of one track, showed a wedge. That is not obvious: a close event rebinds
  the budget to a new track without clearing the streak, and what saves it is
  the comparison with the last sample's track. `SilenceEnds`: a track over a dead
  connection is reconnected, skipped or over in the end.
- **Valheim.** `AnnouncedIsInEffect`: when a server has booted, it runs with the last
  change that was announced as booting, whatever else was in flight.
  `AnnouncedBoots`: it does boot, unless the answer came with the warning about a slow
  stop. `OtherKeyKept`: the fingerprint makes read-modify-write of the metadata
  atomic across commands. `OnlyKnownWorlds`: metadata and cache name only
  worlds that exist or that a `world new` asked for. An announcement counts until
  its key is written again, the command is issued again or the watcher stops the VM.

- **Modifiers.** `ImplementsBoard`: whatever string it starts from, an edit changes the one
  setting it announces and no other, both in the list and in what boots — except that a
  string with nothing set may boot with the deployment's. `WrittenIsReadBack`: edits reach a
  normal form at once and stay in it.
- **Watchdog.** `CountIsBacked`, `RestartIsBacked`: the file never claims more failures in a
  row than were answered, and the bot is restarted only on five of them, through deaths,
  torn writes, crashes and reboots — but for a zero that was lost. `ConnectedIsServed`: a
  connected bot says so, whatever failed before. `OutageIsBounded`: however a bot went down,
  it is not left down for more than the threshold plus the probes that the age limit masks.
  `ComesBack`: with the timer running, nothing keeps the bot down but what it needs failing
  again and again; its own counter does not.
- **Music.** `InOrder`: without shuffle and loop, no track starts before one accepted earlier
  that still waits, and none twice, although two playlists may be put into each other's
  middle. `ReplacesOnlyWhileJoining`: `play` takes a loaded track away only during the
  player's voice handshake. `StallsAreCut`: a silent player with a queue got there by one of
  four known ways.

### Bounds, and why they are enough
- *N (EmptyChecksToStop)*: 3 leaves a counter with a start, a middle and a
  threshold; the safety properties are also proved for every N, alone and in the composition.
- *Players*: the code compares the count with zero only; 2 lets one leave while
  another stays.
- *Tracks, handlers, queue*: the state binds to one track, so two tell "same" from
  "other"; three in the refinement run let a third follow a skip. Handlers
  run the same code; one beside the heartbeat gives every pair of tasks but two
  handlers, which the theorems cover. A queue of one tells "advances" from
  "stops" (in the refinement and the violation runs); `voice_recovery` has none, which leaves
  room for liveness over two tracks: users put the second one on themselves.
- *Attempts* are unbounded in the code; `AttemptsBounded` is what bounds them.
- *Commands*: three let a third command come between the two halves of each of two
  others; a command's kind and arguments are chosen afresh at `Begin`. In the
  liveness run one command repeats for ever, beside the watcher, failures and cache
  loss. Two worlds and one setting give a current and another value per key.
- *Watchdog*: the constants are the code's. `quiet` and `outage` saturate one beyond what
  they are compared with; `Slow` = 2 is a handshake of up to two minutes.
- *Play commands*: two interleave at every await and are issued again for ever; a third would
  only repeat what one of them does. Four tracks let a playlist of two be put while another
  is started (MaxTracks bounds what is ever accepted, for TLC only); PlaylistCap = 2 lets playlists of one, two and more tracks, cut to two, occur.
- *Modifier strings*: two phrases of up to three words give repeated settings, flags without
  their words, flags taken for words and words of the wrong kind; every command is then
  issued from each, for ever.
- `emptyRun` and `wedgedRun` count up to the threshold that the properties compare
  with.

No run disables the deadlock check, and no state constraint is used; `Repeated =
{}` in `valheim_commands` makes commands one-shot, while the watcher, the loss of
the cache and the host always leave a step.

### Fairness, and why the code justifies it
- `IdleShutdown`, `IdleSessions`: weak fairness of `Tick`, `TickProbes`, `TickContinues` (the scheduler
  invokes the function every 30 minutes, and a started call returns or dies), of
  `DaemonQueries`, `DaemonPublishes` (the loop sleeps and turns for ever) and of
  `DaemonComesUp` (the unit is started at boot, and again by `Restart=on-failure`).
  Nothing forces an A2S query or a probe to succeed or a tick to survive: `IdleIsStopped`
  names these exceptions.
- `VoiceRecovery`: weak fairness of the heartbeat's next step (asyncio runs what is
  ready; the HTTP calls have timeouts) and of the end of the throttle. Strong fairness
  of `Observe`, of a heartbeat's retry that gets past its announcement and of any
  task's skip that changes the player: these may fail any number of times, but not
  for ever. The handlers' other steps need no fairness, although asyncio runs them
  too: `SilenceEnds` holds even if a handler hangs in its announcement. Without the
  fairness of the skips it fails, since a skip that never works still renews the
  budget and the retries go on.
- `ValheimControl`: weak fairness of each command's next step (calls return,
  and a poll that finds TERMINATED goes on; polls may run out at any time before) and of the host (a transition or a startup script
  completes). `Fails` has none, and is allowed at any time.
- `BotWatchdog`: weak fairness of the script's next command (the timer fires for ever), of a
  unit's start, of the token's fetch, of a connection attempt and of the retry; each may end
  either way. Nothing makes a gateway recover: `ComesBack` names the mishaps that may go on.

## 4. Proofs

| theorem | says, for every value of the constants | assumes |
|---|---|---|
| `IdleWatcherProofs!TypeCorrect` | `Spec => []TypeOK` | N a positive integer |
| `IdleWatcherProofs!CountBacked` | `Spec => []CountIsBacked` | same |
| `IdleWatcherProofs!StopBacked` | `Spec => []StopIsBacked` | same |
| `IdleSessionsProofs!WatcherRefined` | `SSpec => Spec`: the composed system implements the watcher alone | N and `MaxPlayers` positive integers |
| `IdleSessionsProofs!SystemCountBacked`, `SystemStopBacked` | `SSpec => []CountIsBacked`, `SSpec => []StopIsBacked` | same |
| `IdleSessionsProofs!HeldSessionSeen` | `SSpec => []HeldSessionIsSeen` | same |
| `IdleSessionsProofs!SeenBlock` | `SSpec => SeenPlayersBlock` (an action property) | same |
| `VoiceRecoveryProofs!TypeCorrect` | `Spec => []TypeOK` | `NoTrack` is no track; handlers a finite set without the heartbeat; `MaxQueue` a natural |
| `VoiceRecoveryProofs!TwoSamples` | `Spec => []HeartbeatNeedsTwoSamples` | same |
| `VoiceRecoveryProofs!BoundedAttempts` | `Spec => []AttemptsBounded` | same |
| `VoiceRecoveryProofs!PolicyKept` | `Spec /\ [][NoCloseEvent]_vars => OneRetryThenSkip`: a behaviour of VoiceRecovery without a close event implements RecoveryPolicy | same |
| `ValheimControlProofs!TypeCorrect` | `Spec => []TypeOK` | `NoWorld` is no world; Terraform's defaults are a world and settings; `Repeated` and `Kinds` are subsets of what they should be |
| `ValheimControlProofs!OtherKeys` | `Spec => OtherKeyKept` (an action property) | same |
| `ValheimControlProofs!KnownWorldsOnly` | `Spec => []OnlyKnownWorlds` | same |
| `ValheimEffectProofs!AnnouncedInEffect` | `Spec => []AnnouncedIsInEffect` | same |
| `BotWatchdogProofs!TypeCorrect` | `Spec => []TypeOK` | `Threshold` and `Period` positive, `Freshness` and `Slow` naturals |
| `BotWatchdogProofs!CountBacked`, `RestartBacked` | `Spec => []CountIsBacked`, `Spec => []RestartIsBacked` | same |
| `BotWatchdogProofs!ConnectedServed` | `Spec => []ConnectedIsServed` | same |
| `BotWatchdogProofs!OutageBounded` | `Spec => []OutageIsBounded` | same |
| `MusicQueueProofs!TypeCorrect` | `Spec => []TypeOK` | commands a finite set; `PlaylistCap` positive; `MaxTracks` a natural, however large |
| `MusicQueueProofs!Ordered` | `Spec => []InOrder` | same |
| `MusicQueueProofs!StallsCut` | `Spec => []StallsAreCut` | same |
| `MusicQueueProofs!JoiningReplaces` | `Spec => ReplacesOnlyWhileJoining` (an action property) | same |
| `ModifiersProofs!TypeCorrect` | `Spec => []TypeOK` | `Lower` is idempotent on the words people type, and leaves the names of the menu and the flags as they are; `MaxPhrases` a natural |
| `ModifiersProofs!ReadBack` | `Spec => []WrittenIsReadBack` | same |
| `ModifiersProofs!BoardImplemented` | `Spec => ImplementsBoard` (Modifiers implements ModifierBoard) | same |

*Idle watcher.* Neither property is inductive. A stop is decided from the counter
read back, so `StopIsBacked` needs `CountIsBacked` when the tick read it; that needs to
know that the tick's own empty reading is already in `emptyRun` but not yet in the
bucket (`ReadingIsAhead`), and that a pending write writes no more than was seen
(`WriteIsBacked`). `IInv` is the conjunction of these with `TypeOK`. Each action of
`Next` is one step of `NextIInv`.

*Voice recovery.* `TypeCorrect` goes through lemmas on what each update of the state
record returns. `HeartbeatNeedsTwoSamples` is not inductive: the sample that confirms
a wedge needs the one before it. `SampleInv` adds `StreakIsBacked`: a streak that is
not zero has the last sample behind it, a wedged one of the track in the last
snapshot. `Observe` confirms only if the track is that of the last snapshot, so it
finds two such samples; handlers leave the last snapshot alone and can only
clear the streak.
`BoundedAttempts` counts the set `Pending` of tasks between decision and charge: a
decision to retry is taken only on a state without attempts, so it adds one task
to `Pending` against a zero; a charge moves one from `Pending` to `attempts`. It
rests on the library's facts on cardinalities of finite sets.

*Valheim commands.* `TypeInv` is the types with two facts they need: a command that
switches names a world, and `world.env` names one once a boot has resolved it
(otherwise a launch could add "no world" to the saves, and a write to the metadata
something that is not a name). `OtherKeys` follows from the types alone: with a
fingerprint that still holds, the copy a command writes back is what is stored.
`OnlyKnownWorlds` speaks of the metadata and the cache, which are written many
awaits after a name was checked; `NamesAreKnown` says of every command in flight
that its inventory, its copy of the metadata and the name a guard accepted for it
(or that its own `world new` has written) are of worlds that exist or were asked for.
Worlds are never forgotten, so the steps of others keep it.

`AnnouncedIsInEffect` speaks of the end of a boot, of which the command that answered saw
nothing. `AllCarry` says what each command carries there: an instance it found TERMINATED
has not resolved its metadata while the write is still to come (`Prompt`, the timing
assumption, is used there and nowhere else), and from its stop on -- or from its write, if
it found the instance TERMINATED -- no boot is past the resolution unless it resolved what
the metadata says of the command's key now (`Applied`). The next writer of that key takes
the claim away; every other command, the watcher and the host keep it: a write touches the
other key only, a stop ends the boot, and the host resolves nothing but the metadata.

*The composed idle system.* `WatcherRefined` maps every step of VM, daemon, game, players
and bot to a step or a stutter of `IdleWatcher`, whose instance and probe may do
anything; what is proved of the watcher alone so holds in the composition.
`HeldSessionIsSeen` needs the sample and the record, which lag behind the players:
`TurnSeesSession` says that whatever the loop sampled or published since the last tick
ended counts a session that was there before, `ProbeMeetsTurn` that a probe finds a full
turn or a daemon that has published nothing, which is where `Settled` enters.
`SeenPlayersBlock` needs `SightingIsKept`: players published once stay in the count while they
stay online, since the sample that follows sees them and a failed query keeps the old count.

*Voice recovery against the policy.* For the heartbeat alone, `BudgetIsOfLastSample` ties the
bound track, on which the code decides, to the last sample, on which the policy does: a
used-up budget is that of the last sample's track, and a verdict keeps it so until it is
charged or reset. Every step of the heartbeat is then one of the policy's, those of the
users and of the throttle stutter. A close event rebinds the budget to a track the heartbeat
has not sampled, which breaks the invariant; the theorem therefore speaks of behaviours in
which none is handled (`NoCloseEvent`), whatever handlers there are: `HandlersIdle` says that
these have nothing to do then. The run shows the instance without handlers.

*Watchdog.* `RestartIsBacked` needs `FailureIsAhead`: a failure that was answered and is not in
the file yet is in `failRun`. `OutageIsBounded` is the sum of three bounds (`OutageIsCounted`):
every failing probe of an outage is in the file, so there are at most `Threshold` of them; a
wedged gateway answers 200 for as many probes as the age limit masks, `Freshness \div
Period`, and once more for the probe at which the silence began. It is `SilenceIsOutage`
that excludes a later 200, and `LoopIsSound` (where `_run_bot` can be while the client looks
ready) that excludes one from any other way of being down.

*Music.* `InOrder` is inductive once the tracks are known to be the accepted ones: whatever is put
is newer than all that is queued, and `mode` is normal while nothing was mixed, so the past is
not put back. That a `play` replaces a track only while joining needs only `PlayerIsHeld`:
a guild without a player has no track.
`StallsAreCut` needs to know of every step that takes the current track away that it
starts the next one or sets `cut`: an advance in flight or a loaded track
means autoplay is on (`AutoplayIsSet`), and a guild without a player has neither
(`PlayerIsHeld`). `MaxTracks` bounds `accepted` in the guards only; no theorem depends on its value.

*Modifiers.* Everything rests on one round trip: a string that `ToArgs` wrote is parsed to
what was written, up to a normal form (no preset instead of `normal`, no toggle that the menu
does not know). It is proved from the end of the string backwards, as the loop is read:
`WrittenKeyRead`, `WrittenDialRead` and `WrittenPresetRead` say what one written setting in front of
a string adds to what the string is parsed to, `KeysRead` and `DialsRead` put five of each
together, and a setting cannot be taken for another because what follows a flag is never cut
short. That an edit changes one cell of the list and no other (`SetModifierListed` and its
two companions) is a statement about parsed values only. What ties them is the type
invariant: `ParseArgs(text) \in Parsed` holds of any string, typed by hand or written, since
only dials of the menu are kept and words are lowered; without it an edit could write a
dial under a name that is read back as another. A boot's effect follows (`BootEffect`), the
empty string apart, which the board allows. The inductions this takes, over the
positions of a string's words and of the sequences that `FlattenSeq` joins -- that the
recursive functions behind `ParseArgs` and `FlattenSeq` exist and have the value at each
position that they are written to have, and the type of that value -- are made by hand from
the least counterexample (`LeastNat`), because the library's induction theorems take an
operator as a parameter.

*What proving changed in the model.* Three CASE expressions had arms that overlap. TLC takes the
first that holds, TLA+ leaves the choice open, and the provers rightly found no value; they are
disjoint now. `MusicQueue`'s types speak of the accepted tracks instead of a bound. In `Modifiers`
the turn of the loop, the three kinds of phrases and the cells of the list became operators
of their own, which lemmas can be about; `Put` takes the place of a function merge that the
provers cannot see through; and `str.lower`, which was written down for the words of the run,
is a constant with an assumption.

*Only model-checked:* liveness (`IdleIsStopped`, `SilenceEnds`, `AnnouncedBoots`,
`ComesBack`) and anything with ENABLED, which is beyond the prover. Every other property of a
passing run is stated by a theorem. No module uses RECURSIVE operators.

## 5. Findings

Found by a violation run (quoted in `PROJECT.json`):

1. **Recovery can double-fire** (music.py:399). The charge that is to prevent it
   comes after `await self._announce(...)`, not before.
2. **Recovery rejoins after a stop or a kick** (music.py:423 and :128). A recovery in
   flight reconnects to the channel of the player it holds; a kick's own
   close event (4014, by_remote false) starts one.
3. **Play does not end silence** (services/music.py:242). A silent player with a queue — its
   first track ended or was skipped while `player.play` was awaited, and the playlist's rest
   was put behind it; or the next track did not load — is never started again by
   `/music play`, which only adds to the queue.
4. **Clearing the last modifier does not clear it** (startup-script.sh.tftpl:137). The string is
   then empty, and the boot replaces it by Terraform's `world_modifiers`, "-modifier portals
   casual" unless configured otherwise; the command and the list say "default".

Seen while modelling, in the model as the code does it, without a run:

- A tick that sees players, or has just stopped the VM, and then fails to write the zero leaves
  the old count; the next empty tick continues from it, and a VM is stopped on readings that are
  not consecutive (main.py:214, 220), against main.py:1 and 221. `CountIsBacked` and
  `StopIsBacked` name the case.
- The daemon's initial state has `player_count` 0 and no `error`, so the watcher's probe
  reads it as empty (status-server.py:255), against the comment at 249-254: ticks that meet
  freshly started daemons stop a VM, with players on it or not. For this reason
  `HeldSessionIsSeen` asks for a daemon that has queried.
- valheim.py:312-313 says of the players guard "True if a restart would kick connected
  players"; a daemon that has just started, whose queries have failed since they joined, or that
  does not answer lets the restart pass. `SeenPlayersBlock` says what is kept.
- The idle window can be shorter than N periods: the first empty reading may
  come right after the last player left (the watcher's README:87).
- A skip hits whatever plays when the announcement is out, perhaps the successor
  of the wedged track (music.py:388). A retry is likewise charged to the track that was
  announced while the one playing by then is reconnected (voice_recovery.py:387).
- A tick that lands inside a recovery's reconnect finds no player and pops the state:
  budget and throttle are lost (music.py:267-269), against "exactly once per track"
  (voice_recovery.py:57-60).
- A reconnect loses the queue, so the skip after a failed retry has nothing to move to
  (voice_recovery.py:407; docs/runbook.md:680-683 expects the next track).
- Two overlapping edits of different modifiers: the later write has the settings of its
  older snapshot, and one edit is lost (valheim.py:421). The fingerprint is taken
  inside `set_metadata`, after that snapshot.
- On a VM no modifier command has touched, the list shows defaults while Terraform's
  modifiers are in force, and the first edit drops them (startup-script.sh.tftpl:135-139).
- An edit drops flags and toggles the menu does not know from a string typed by hand, and
  moves a preset to the front of it (modifiers.py:56-67).
- After a slow stop the bot says it will still start the server; a start on STOPPING
  has no effect, so it stays down (valheim.py:273-277).
- `world new` with the VM off and an empty cache is not guarded: an
  existing save of that name is loaded (valheim.py:219).
- An eviction during wavelink's own reconnection closes the node and with it every player on
  it, queue included (services/music.py:150); an eviction of another command's handshake can
  end with no node in the pool.
- A `/music stop` during a search: the track goes to the dismissed player, and the answer is
  "Now playing" (services/music.py:219-244).
- docs/prd.md:207 has the bot leave voice after five idle minutes; no code does.
- A client that closed itself makes `_run_bot` turn without a pause (http.py:93-95); it takes
  the watchdog to end that. A missing `_last_recv` fails the probe (http.py:224) although the
  comment at 268-271 says it should not.
- bot-watchdog.sh:62 says the restart is asynchronous; `systemctl restart` waits, so a failing
  dependency ends the script before its reset. bot-fetch-secrets.service:5-7 expects each start
  of the bot to fetch afresh; `RemainAfterExit` makes it once per boot.
- checks.py:64-66 relies on an error handler that tells check failures apart; bot.py:91-121
  does not.
- One clock reading serves every guild of a heartbeat tick (music.py:263); with many guilds
  and slow recoveries it is minutes old when it is compared.
- valheim.py:85-87 describes the password as read afresh; `lru_cache` keeps the first
  value for the life of the process (secrets.py:263-266).

## 6. Not modelled, and why

- *Legality of world names, the backup filter* (worlds.py:27-57): predicates on single strings.
- *pause, resume, volume, nowplaying, queue* of the music commands: they touch neither the
  queue nor what is loaded (pause is in VoiceRecovery).
- *Rotation of secrets*: one cached value, no second actor. *Cloud Run's probe* (
  gcp-bot-runtime): the retired deployment, with the threshold and period of the watchdog.
- *Voice recovery and the queue commands together*: each has the other's effects as
  its environment.
- *The Lavalink target of the watcher*: same `_process_target` with another probe; the
  counters of the targets are separate objects.
- *Several guilds in one heartbeat tick*, and the clock value they share: guilds share
  no other state; the throttle is untimed.
- *Players joining between the guard and the stop*: any number of them are disconnected, in
  the model as in the code; no property speaks of them.
- *A metadata server that does not answer at boot*; mods, disks, secrets of the VM.
- *Checks, embeds, diagnostics, logging, settings*: stateless, or rendering.
- *Provisioning scripts, Terraform*: installation and declarations; the defaults,
  schedule and retry policy they set appear in the models.

## 7. Plan

Modelled and checked: all of the components above but those of section 6. Proved: every
safety and action property the passing runs check, and the refinements of `RecoveryPolicy`,
`ModifierBoard` and, by the composed idle system, of `IdleWatcher`.

Left: what close events leave of the recovery policy, that is, which of its steps a heartbeat
still keeps beside handlers that do act; and a model of the components of section 6 that keep
state, should they grow more of it.
