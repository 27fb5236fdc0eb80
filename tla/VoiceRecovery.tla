---------------------------- MODULE VoiceRecovery ----------------------------
(***************************************************************************)
(* Recovery of a wedged voice connection, for one guild                    *)
(* (bot/src/services/voice_recovery.py and the recovery half of            *)
(* bot/src/cogs/music.py).  Two kinds of asyncio task share the guild's    *)
(* GuildRecoveryState and its player: the heartbeat, which samples the     *)
(* player every 2 s, and one handler per websocket_closed event.  A task   *)
(* runs from one await to the next, so every step below is the code        *)
(* between two awaits; users and Discord move the player in between.       *)
(*                                                                         *)
(* Time is abstracted: a state's 60 s throttle, once started, ends at any  *)
(* later moment.                                                           *)
(***************************************************************************)
EXTENDS Naturals, FiniteSets

CONSTANTS
    Tracks,         \* track identifiers
    NoTrack,        \* None: no track, no snapshot, no bound track
    Handlers,       \* the close-event handlers that may run at one time
    MaxQueue        \* bound: tracks waiting in a player's queue

ASSUME TracksAssumption == NoTrack \notin Tracks
ASSUME HandlersAssumption == IsFiniteSet(Handlers) /\ "heartbeat" \notin Handlers
ASSUME MaxQueueAssumption == MaxQueue \in Nat

VARIABLES
    attached,       \* guild.voice_client is a player
    current,        \* that player's current track
    linked,         \* Lavalink's voice connection for it is alive
    paused,
    queued,         \* the length of its queue
    recovery,       \* the guild's GuildRecoveryState
    pc,             \* what each task is waiting for, "idle" when it is not
                    \* running (a handler) or asleep (the heartbeat)
    job,            \* the local variables of each task
    wedgedRun       \* history: the track of the last heartbeat sample and how
                    \* many samples in a row showed it wedged, up to Confirm

playerVars == <<attached, current, linked, paused, queued>>
vars == <<playerVars, recovery, pc, job, wedgedRun>>

Heartbeat == "heartbeat"
Tasks == {Heartbeat} \cup Handlers
MaybeTrack == Tracks \cup {NoTrack}

Confirm == 2        \* _WEDGE_CONFIRMATION_SAMPLES
MaxAttempts == 1    \* _MAX_RECOVERY_ATTEMPTS_PER_TRACK

(* GuildRecoveryState(): last_snapshot (its track is all that is compared), *)
(* consecutive_wedge_samples (counted up to Confirm), whether              *)
(* last_recovery_at is within the throttle, recovery_attempts_for_track,   *)
(* attempts_bound_to_track.  An absent entry is a fresh one (setdefault).  *)
Fresh == [last |-> NoTrack, streak |-> 0, cooling |-> FALSE,
          attempts |-> 0, bound |-> NoTrack]

(* A task's locals: the track it judged or saved; whether its player is    *)
(* still the guild's and, if not, the track that player was left with;     *)
(* whether its state object is still the one in _recovery_state.           *)
NoJob == [track |-> NoTrack, mine |-> FALSE, left |-> NoTrack, held |-> FALSE]

Init ==
    /\ attached = FALSE
    /\ current = NoTrack
    /\ linked = FALSE
    /\ paused = FALSE
    /\ queued = 0
    /\ recovery = Fresh
    /\ pc = [p \in Tasks |-> "idle"]
    /\ job = [p \in Tasks |-> NoJob]
    /\ wedgedRun = [track |-> NoTrack, n |-> 0]

-----------------------------------------------------------------------------
(* The player, Lavalink and Discord (external).                            *)

(* Player.disconnect, a kick, /music stop: the guild has no voice client.  *)
Detached ==
    /\ attached' = FALSE
    /\ current' = NoTrack
    /\ linked' = FALSE
    /\ paused' = FALSE
    /\ queued' = 0

(* Tasks that hold the player keep it, and its last track.                 *)
LeftBehind ==
    [p \in Tasks |-> IF job[p].mine
                     THEN [job[p] EXCEPT !.mine = FALSE, !.left = current]
                     ELSE job[p]]

(* The current track is over; AutoPlayMode.partial takes the queue's next. *)
Advance ==
    /\ attached
    /\ \/ queued > 0 /\ queued' = queued - 1 /\ current' \in Tracks
       \/ queued = 0 /\ current' = NoTrack /\ UNCHANGED queued
    /\ UNCHANGED <<attached, linked, paused>>

UserLeaves == /\ attached
              /\ Detached
              /\ job' = LeftBehind
              /\ UNCHANGED <<recovery, pc, wedgedRun>>

TaskVars == <<recovery, pc, job, wedgedRun>>

(* music.play: connect if there is no player, then play or enqueue.        *)
UserJoins ==
    /\ ~attached
    /\ attached' = TRUE
    /\ linked' = TRUE
    /\ UNCHANGED <<current, paused, queued, TaskVars>>

UserPlays ==
    /\ attached
    /\ current = NoTrack
    /\ queued = 0
    /\ current' \in Tracks
    /\ UNCHANGED <<attached, linked, paused, queued, TaskVars>>

UserEnqueues ==
    /\ attached
    /\ current # NoTrack \/ queued > 0
    /\ queued < MaxQueue
    /\ queued' = queued + 1
    /\ UNCHANGED <<attached, current, linked, paused, TaskVars>>

UserPauses ==
    /\ attached
    /\ paused' = ~paused
    /\ UNCHANGED <<attached, current, linked, queued, TaskVars>>

(* A track ends by itself, raises an exception or is skipped by a user.    *)
TrackEnds ==
    /\ current # NoTrack
    /\ Advance
    /\ UNCHANGED TaskVars

VoiceChanges ==
    /\ attached
    /\ linked' = ~linked
    /\ UNCHANGED <<attached, current, paused, queued, TaskVars>>

World ==
    \/ UserJoins \/ UserPlays \/ UserEnqueues \/ UserPauses \/ UserLeaves
    \/ TrackEnds \/ VoiceChanges

-----------------------------------------------------------------------------
(* The decision.                                                           *)

ConfirmedAnyTrack(s, prev, t, playing, signal) ==   \* mutant: no baseline check
    /\ t # NoTrack
    /\ playing
    /\ ~s.cooling
    /\ signal
    /\ s.streak >= Confirm

(* should_recover on a state whose streak counts this sample; signal: the  *)
(* voice connection is dead or the frame deficit grew too fast.            *)
Confirmed(s, prev, t, playing, signal) ==
    /\ t # NoTrack
    /\ playing
    /\ prev = t
    /\ ~s.cooling
    /\ signal
    /\ s.streak >= Confirm

SpentLater(s) == s.attempts > MaxAttempts       \* mutant: one retry too many

Spent(s) == s.attempts >= MaxAttempts

ShouldRecover(s, prev, t, playing, signal) ==
    CASE ~Confirmed(s, prev, t, playing, signal) -> "none"
      [] Confirmed(s, prev, t, playing, signal) /\ Spent(s) -> "skip"
      [] OTHER -> "retry"

(* Another track than the one the attempts are bound to: the budget is     *)
(* renewed.  Only the heartbeat also restarts the streak.                  *)
Rebound(s, t) ==
    IF s.bound = t THEN s ELSE [s EXCEPT !.bound = t, !.attempts = 0]

ReboundBySample(s, t) ==
    IF s.bound = t THEN s ELSE [Rebound(s, t) EXCEPT !.streak = 0]

CountsPastConfirm(s, wedged) ==     \* mutant: a healthy sample counts as well
    [s EXCEPT !.streak = @ + 1]

CountSample(s, wedged) ==
    [s EXCEPT !.streak = IF ~wedged THEN 0
                         ELSE IF @ < Confirm THEN @ + 1 ELSE Confirm]

EvidenceOfFrames(spike, prev, t) == spike /\ prev = t   \* mutant: state ignored

(* The evidence of one sample: Lavalink reports the voice connection dead, *)
(* or the frame deficit grew too fast since the last sample of this track. *)
Evidence(spike, prev, t) == ~linked \/ (spike /\ prev = t)

(* player.current of the player a task holds.                              *)
PlayerTrack(p) == IF job[p].mine THEN current ELSE job[p].left

(* The task returns.                                                       *)
End(p) ==
    /\ pc' = [pc EXCEPT ![p] = "idle"]
    /\ job' = [job EXCEPT ![p] = NoJob]

(* _dispatch_recovery up to its first await, the announcement, in a task   *)
(* whose locals are j.                                                     *)
Dispatch(p, act, j) ==
    IF act = "none" THEN End(p)
    ELSE /\ pc' = [pc EXCEPT ![p] = act]
         /\ job' = [job EXCEPT ![p] = j]

-----------------------------------------------------------------------------
(* The heartbeat.  A tick that finds the node unreachable, or gets no      *)
(* stats, does nothing.                                                    *)

(* No player: the guild's state is dropped.  A task that still holds the   *)
(* old object writes to nobody from now on.                                *)
TickDropsState ==
    /\ pc[Heartbeat] = "idle"
    /\ ~attached
    /\ recovery' = Fresh
    /\ job' = [p \in Tasks |-> [job[p] EXCEPT !.held = FALSE]]
    /\ wedgedRun' = [track |-> NoTrack, n |-> 0]
    /\ UNCHANGED <<playerVars, pc>>

TickProbes ==
    /\ pc[Heartbeat] = "idle"
    /\ attached
    /\ pc' = [pc EXCEPT ![Heartbeat] = "probe"]
    /\ job' = [job EXCEPT ![Heartbeat] = [NoJob EXCEPT !.mine = TRUE]]
    /\ UNCHANGED <<playerVars, recovery, wedgedRun>>

(* fetch_player_state: no answer, or a 404 when the player is gone.        *)
ProbeFails ==
    /\ pc[Heartbeat] = "probe"
    /\ End(Heartbeat)
    /\ UNCHANGED <<playerVars, recovery, wedgedRun>>

(* _observe_and_maybe_recover, with the player fetched before the probe.   *)
(* A player that was disconnected meanwhile is not playing.                *)
Observe(spike) ==
    LET t == PlayerTrack(Heartbeat)
        playing == job[Heartbeat].mine /\ t # NoTrack /\ ~paused
        signal == Evidence(spike, recovery.last, t)
        wedged == playing /\ signal
        s == CountSample(ReboundBySample(recovery, t), wedged)
    IN  /\ pc[Heartbeat] = "probe"
        /\ attached
        /\ recovery' = [s EXCEPT !.last = t]
        /\ Dispatch(Heartbeat, ShouldRecover(s, recovery.last, t, playing, signal),
                    [job[Heartbeat] EXCEPT !.track = t, !.held = TRUE])
        /\ wedgedRun' = [track |-> t,
                         n |-> CASE ~wedged -> 0
                                 [] wedged /\ wedgedRun.track # t -> 1
                                 [] OTHER -> IF wedgedRun.n < Confirm
                                             THEN wedgedRun.n + 1 ELSE Confirm]
        /\ UNCHANGED playerVars

-----------------------------------------------------------------------------
(* on_wavelink_websocket_closed with a recoverable code: a confirmed wedge *)
(* of the player's current track.                                          *)
CloseEvent(h) ==
    LET t == current
        s == Rebound(recovery, t)
        closed == [s EXCEPT !.streak = Confirm]
    IN  /\ pc[h] = "idle"
        /\ attached
        /\ ~linked
        /\ recovery' = s
        /\ Dispatch(h, ShouldRecover(closed, t, t, TRUE, TRUE),
                    [track |-> t, mine |-> TRUE, left |-> NoTrack, held |-> TRUE])
        /\ UNCHANGED <<playerVars, wedgedRun>>

-----------------------------------------------------------------------------
(* _dispatch_recovery after its announcement, for either kind of task.     *)

ChargeForgotten(s) == [s EXCEPT !.cooling = TRUE, !.streak = 0]   \* mutant

Charge(s) == [s EXCEPT !.attempts = @ + 1, !.cooling = TRUE, !.streak = 0]

Charged(p) == recovery' = IF job[p].held THEN Charge(recovery) ELSE recovery

(* _announce catches Discord's HTTP errors only: on any other error the    *)
(* task ends here, and nothing is charged, reset or recovered.             *)
AnnounceRaises(p) ==
    /\ pc[p] \in {"retry", "skip"}
    /\ End(p)
    /\ UNCHANGED <<playerVars, recovery, wedgedRun>>

(* The player has no channel, or no track to resume: the retry is spent.   *)
RetryEndsEarly(p) ==
    /\ pc[p] = "retry"
    /\ Charged(p)
    /\ End(p)
    /\ UNCHANGED <<playerVars, wedgedRun>>

(* reconnect_player_at_position saves the player's current track, not the  *)
(* one that was announced, and disconnects the guild; a disconnect that    *)
(* raises is ignored.                                                      *)
RetryDisconnects(p) ==
    /\ pc[p] = "retry"
    /\ PlayerTrack(p) # NoTrack
    /\ Charged(p)
    /\ pc' = [pc EXCEPT ![p] = "sleep"]
    /\ LET saved == [NoJob EXCEPT !.track = PlayerTrack(p)]
       IN  \/ Detached /\ job' = [LeftBehind EXCEPT ![p] = saved]
           \/ UNCHANGED playerVars /\ job' = [job EXCEPT ![p] = saved]
    /\ UNCHANGED wedgedRun

(* connect raises, at the latest because the guild has a voice client.     *)
ReconnectFails(p) ==
    /\ pc[p] = "sleep"
    /\ End(p)
    /\ UNCHANGED <<playerVars, recovery, wedgedRun>>

(* A new player: nothing loaded, an empty queue, perhaps no better voice   *)
(* connection.                                                             *)
Reconnects(p) ==
    /\ pc[p] = "sleep"
    /\ ~attached
    /\ attached' = TRUE
    /\ linked' \in BOOLEAN
    /\ pc' = [pc EXCEPT ![p] = "replay"]
    /\ job' = [job EXCEPT ![p].mine = TRUE]
    /\ UNCHANGED <<current, paused, queued, recovery, wedgedRun>>

Replays(p) ==
    /\ pc[p] = "replay"
    /\ job[p].mine
    /\ current' = job[p].track
    /\ paused' = FALSE
    /\ End(p)
    /\ UNCHANGED <<attached, linked, queued, recovery, wedgedRun>>

ReplayFails(p) ==
    /\ pc[p] = "replay"
    /\ End(p)
    /\ UNCHANGED <<playerVars, recovery, wedgedRun>>

(* GIVE_UP_AND_SKIP.  Lavalink keys players by guild: whatever is loaded   *)
(* when the announcement has been sent is skipped.  player.skip may raise. *)
Skips(p) ==
    /\ pc[p] = "skip"
    /\ Advance \/ UNCHANGED playerVars
    /\ pc' = [pc EXCEPT ![p] = "reset"]
    /\ job' = [job EXCEPT ![p] = [NoJob EXCEPT !.held = job[p].held]]
    /\ UNCHANGED <<recovery, wedgedRun>>

Renew(s) == [s EXCEPT !.attempts = 0, !.bound = NoTrack, !.streak = 0]

Resets(p) ==
    /\ pc[p] = "reset"
    /\ recovery' = IF job[p].held THEN Renew(recovery) ELSE recovery
    /\ End(p)
    /\ UNCHANGED <<playerVars, wedgedRun>>

(* _RECOVERY_THROTTLE_SECONDS have passed since last_recovery_at.          *)
ThrottleEnds ==
    /\ recovery.cooling
    /\ recovery' = [recovery EXCEPT !.cooling = FALSE]
    /\ UNCHANGED <<playerVars, pc, job, wedgedRun>>

HeartbeatStep ==
    \/ TickDropsState
    \/ TickProbes
    \/ ProbeFails
    \/ \E spike \in BOOLEAN : Observe(spike)

TaskStep(p) ==
    \/ AnnounceRaises(p)
    \/ RetryEndsEarly(p) \/ RetryDisconnects(p)
    \/ ReconnectFails(p) \/ Reconnects(p)
    \/ Replays(p) \/ ReplayFails(p)
    \/ Skips(p) \/ Resets(p)

Next ==
    \/ World
    \/ HeartbeatStep
    \/ \E h \in Handlers : CloseEvent(h)
    \/ \E p \in Tasks : TaskStep(p)
    \/ ThrottleEnds

Spec == Init /\ [][Next]_vars

-----------------------------------------------------------------------------
Waits == {"idle", "probe", "retry", "sleep", "replay", "skip", "reset"}

RecoveryState == [last : MaybeTrack, streak : 0 .. Confirm, cooling : BOOLEAN,
                  attempts : Nat, bound : MaybeTrack]

Jobs == [track : MaybeTrack, mine : BOOLEAN, left : MaybeTrack, held : BOOLEAN]

(* Types.                                                                  *)
TypeOK ==
    /\ attached \in BOOLEAN
    /\ current \in MaybeTrack
    /\ linked \in BOOLEAN
    /\ paused \in BOOLEAN
    /\ queued \in 0 .. MaxQueue
    /\ recovery \in RecoveryState
    /\ pc \in [Tasks -> Waits]
    /\ job \in [Tasks -> Jobs]
    /\ wedgedRun \in [track : MaybeTrack, n : 0 .. Confirm]

(* Retries that are announced and will be charged to the state.            *)
Pending == {p \in Tasks : pc[p] = "retry" /\ job[p].held}

(* A budget of one (voice_recovery.py:57-61) can be overdrawn, but only by *)
(* the tasks that are announcing at one time: what is charged and what is  *)
(* about to be never exceeds one attempt per task, whatever resets, dropped *)
(* states and rebinding come between a decision and its charge.            *)
AttemptsBounded ==
    recovery.attempts + Cardinality(Pending) <= Cardinality(Tasks)

(* The heartbeat acts only when its last two samples, of one and the same  *)
(* track, both showed a wedge (voice_recovery.py:50-55): not on a streak   *)
(* that an earlier track left behind when a close event rebound the budget *)
(* without clearing it, nor across a dropped state.                        *)
HeartbeatNeedsTwoSamples ==
    pc[Heartbeat] \in {"retry", "skip"} =>
        wedgedRun = [track |-> job[Heartbeat].track, n |-> Confirm]

-----------------------------------------------------------------------------
(* The heartbeat alone (no close events) against the policy: once the skip *)
(* is made, the budget it is about to reset is forgotten.                  *)
Policy == INSTANCE RecoveryPolicy WITH
    seen <- recovery.last,
    spent <- IF Spent(recovery) /\ pc[Heartbeat] # "reset"
             THEN recovery.bound ELSE NoTrack,
    verdict <- CASE pc[Heartbeat] \in {"retry", "skip"} -> pc[Heartbeat]
                 [] pc[Heartbeat] \in {"sleep", "replay"} -> "rebuild"
                 [] OTHER -> "none"

(* docs/prd.md:439: while a track stays loaded, a confirmed wedge is        *)
(* retried once and then skipped; healthy audio in between, failed probes, *)
(* failed reconnects, users and the throttle do not renew the budget.      *)
OneRetryThenSkip == Policy!Spec

(* The event loop runs the heartbeat whenever it can run and the throttle  *)
(* ends.  The heartbeat's probes and announcements and either task's skips *)
(* are not lost for ever; nothing else is asked of the handlers.           *)
Fairness ==
    /\ WF_vars(HeartbeatStep \/ TaskStep(Heartbeat))
    /\ SF_vars(\E spike \in BOOLEAN : Observe(spike))
    /\ SF_vars(RetryEndsEarly(Heartbeat) \/ RetryDisconnects(Heartbeat))
    /\ \A p \in Tasks : SF_vars(Skips(p) /\ playerVars' # playerVars)
    /\ WF_vars(ThrottleEnds)

FairSpec == Spec /\ Fairness

Silent(t) == attached /\ current = t /\ ~paused /\ ~linked

(* The incident the module was written for (voice_recovery.py:3-9): users  *)
(* never stay in silence.  A track that plays over a dead connection is,   *)
(* in the end, reconnected, skipped or over -- whatever the handlers do to *)
(* the streak and the budget meanwhile.                                    *)
SilenceEnds == \A t \in Tracks : []<>~Silent(t)

==============================================================================
