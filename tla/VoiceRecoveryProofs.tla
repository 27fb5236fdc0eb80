------------------------- MODULE VoiceRecoveryProofs -------------------------
(***************************************************************************)
(* Proofs about VoiceRecovery, for every set of tracks, every number of    *)
(* concurrent close-event handlers and every queue length.                 *)
(***************************************************************************)
EXTENDS VoiceRecovery, FiniteSetTheorems, TLAPS

Acts == {"none", "retry", "skip"}

USE DEF MaybeTrack, Heartbeat

(* What the helpers of the decision return.                                *)
LEMMA DecisionType ==
    \A s, prev, t, playing, signal :
        ShouldRecover(s, prev, t, playing, signal) \in Acts
  BY DEF ShouldRecover, Acts

LEMMA FieldType ==
    ASSUME NEW s \in RecoveryState
    PROVE  /\ \A t \in MaybeTrack : [s EXCEPT !.last = t] \in RecoveryState
           /\ \A t \in MaybeTrack : [s EXCEPT !.bound = t] \in RecoveryState
           /\ \A n \in 0 .. Confirm : [s EXCEPT !.streak = n] \in RecoveryState
           /\ [s EXCEPT !.streak = 0] \in RecoveryState
           /\ \A n \in Nat : [s EXCEPT !.attempts = n] \in RecoveryState
           /\ \A b \in BOOLEAN : [s EXCEPT !.cooling = b] \in RecoveryState
  <1>1. \A t \in MaybeTrack : [s EXCEPT !.last = t] \in RecoveryState
    BY DEF RecoveryState
  <1>2. \A t \in MaybeTrack : [s EXCEPT !.bound = t] \in RecoveryState
    BY DEF RecoveryState
  <1>3. \A n \in 0 .. Confirm : [s EXCEPT !.streak = n] \in RecoveryState
    BY DEF RecoveryState, Confirm
  <1>6. [s EXCEPT !.streak = 0] \in RecoveryState
    BY DEF RecoveryState, Confirm
  <1>4. \A n \in Nat : [s EXCEPT !.attempts = n] \in RecoveryState
    BY DEF RecoveryState
  <1>5. \A b \in BOOLEAN : [s EXCEPT !.cooling = b] \in RecoveryState
    BY DEF RecoveryState
  <1> QED BY <1>1, <1>2, <1>3, <1>4, <1>5, <1>6

LEMMA ReboundType ==
    ASSUME NEW s \in RecoveryState, NEW t \in MaybeTrack
    PROVE  Rebound(s, t) \in RecoveryState /\ ReboundBySample(s, t) \in RecoveryState
  <1> DEFINE bound == [s EXCEPT !.bound = t]
             renewed == [bound EXCEPT !.attempts = 0]
  <1>1. renewed \in RecoveryState
    <2>1. bound \in RecoveryState
      BY FieldType
    <2> HIDE DEF bound
    <2> QED BY <2>1, FieldType
  <1>2. Rebound(s, t) \in RecoveryState
    BY <1>1 DEF Rebound
  <1>3. [Rebound(s, t) EXCEPT !.streak = 0] \in RecoveryState
    BY <1>2, FieldType
  <1> QED BY <1>2, <1>3 DEF ReboundBySample

LEMMA CountType ==
    ASSUME NEW s \in RecoveryState, NEW wedged \in BOOLEAN
    PROVE  CountSample(s, wedged) \in RecoveryState
  <1> DEFINE n == IF ~wedged THEN 0
                  ELSE IF s.streak < Confirm THEN s.streak + 1 ELSE Confirm
  <1>1. n \in 0 .. Confirm
    BY DEF RecoveryState, Confirm
  <1> HIDE DEF n
  <1>2. [s EXCEPT !.streak = n] \in RecoveryState
    BY <1>1, FieldType
  <1> QED BY <1>2 DEF CountSample, n

LEMMA ChargeType ==
    ASSUME NEW s \in RecoveryState
    PROVE  Charge(s) \in RecoveryState /\ Renew(s) \in RecoveryState
  <1> DEFINE more == [s EXCEPT !.attempts = s.attempts + 1]
             cooled == [more EXCEPT !.cooling = TRUE]
             none == [s EXCEPT !.attempts = 0]
             unbound == [none EXCEPT !.bound = NoTrack]
  <1>1. [cooled EXCEPT !.streak = 0] \in RecoveryState
    <2>1. more \in RecoveryState
      BY FieldType DEF RecoveryState
    <2> HIDE DEF more
    <2>2. cooled \in RecoveryState
      BY <2>1, FieldType
    <2> HIDE DEF cooled
    <2> QED BY <2>2, FieldType
  <1>2. [unbound EXCEPT !.streak = 0] \in RecoveryState
    <2>1. none \in RecoveryState
      BY FieldType
    <2> HIDE DEF none
    <2>2. unbound \in RecoveryState
      BY <2>1, FieldType
    <2> HIDE DEF unbound
    <2> QED BY <2>2, FieldType
  <1> QED BY <1>1, <1>2 DEF Charge, Renew

(* A task's wait and locals keep their types when it ends or dispatches.   *)
TasksOK == pc \in [Tasks -> Waits] /\ job \in [Tasks -> Jobs]

LEMMA EndType ==
    ASSUME TasksOK, NEW p \in Tasks, End(p)
    PROVE  TasksOK'
  BY DEF TasksOK, End, NoJob, Jobs, Waits

LEMMA DispatchType ==
    ASSUME TasksOK, NEW p \in Tasks, NEW act \in Acts, NEW j \in Jobs,
           Dispatch(p, act, j)
    PROVE  TasksOK'
  <1>1. CASE act = "none"
    BY <1>1, EndType DEF Dispatch
  <1>2. CASE act # "none"
    BY <1>2 DEF Dispatch, TasksOK, Waits, Acts
  <1> QED BY <1>1, <1>2

LEMMA LeftBehindType ==
    ASSUME job \in [Tasks -> Jobs], current \in MaybeTrack
    PROVE  LeftBehind \in [Tasks -> Jobs]
  BY DEF LeftBehind, Jobs

LEMMA InitType == Init => TypeOK
  <1> SUFFICES ASSUME Init PROVE TypeOK
    OBVIOUS
  <1>1. recovery \in RecoveryState
    BY DEF Init, Fresh, RecoveryState, Confirm
  <1>2. pc \in [Tasks -> Waits] /\ job \in [Tasks -> Jobs]
    BY DEF Init, NoJob, Jobs, Waits
  <1>3. wedgedRun \in [track : MaybeTrack, n : 0 .. Confirm]
    BY DEF Init, Confirm
  <1>4. queued \in 0 .. MaxQueue
    BY MaxQueueAssumption DEF Init
  <1> QED BY <1>1, <1>2, <1>3, <1>4 DEF Init, TypeOK

-----------------------------------------------------------------------------
(* TypeOK in the parts that steps change together.                         *)
PlayerOK ==
    /\ attached \in BOOLEAN
    /\ current \in MaybeTrack
    /\ linked \in BOOLEAN
    /\ paused \in BOOLEAN
    /\ queued \in 0 .. MaxQueue

RunOK == wedgedRun \in [track : MaybeTrack, n : 0 .. Confirm]

LEMMA TypeParts == TypeOK <=> PlayerOK /\ recovery \in RecoveryState /\ TasksOK /\ RunOK
  BY DEF TypeOK, PlayerOK, TasksOK, RunOK

LEMMA DetachedType == Detached => PlayerOK'
  <1> SUFFICES ASSUME Detached PROVE PlayerOK'
    OBVIOUS
  <1>1. queued' \in 0 .. MaxQueue
    BY MaxQueueAssumption, SMT DEF Detached
  <1>2. attached' \in BOOLEAN /\ linked' \in BOOLEAN /\ paused' \in BOOLEAN
    BY Zenon DEF Detached
  <1>3. current' \in MaybeTrack
    BY Zenon DEF Detached
  <1> QED BY <1>1, <1>2, <1>3 DEF PlayerOK

LEMMA AdvanceType == PlayerOK /\ Advance => PlayerOK'
  BY MaxQueueAssumption DEF Advance, PlayerOK

LEMMA WorldType ==
    ASSUME PlayerOK, TasksOK, World
    PROVE  PlayerOK' /\ TasksOK' /\ UNCHANGED <<recovery, wedgedRun>>
  <1>1. CASE UserLeaves
    <2>1. job' \in [Tasks -> Jobs]
      BY <1>1, LeftBehindType DEF UserLeaves, PlayerOK, TasksOK
    <2> QED BY <1>1, <2>1, DetachedType DEF UserLeaves, TasksOK
  <1>2. CASE TrackEnds
    BY <1>2, AdvanceType DEF TrackEnds, TaskVars, TasksOK
  <1>3. CASE UserJoins \/ UserPlays
    BY <1>3 DEF UserJoins, UserPlays, TaskVars, PlayerOK, TasksOK
  <1>4. CASE UserEnqueues
    BY <1>4, MaxQueueAssumption DEF UserEnqueues, TaskVars, PlayerOK, TasksOK
  <1>5. CASE UserPauses \/ VoiceChanges
    BY <1>5 DEF UserPauses, VoiceChanges, TaskVars, PlayerOK, TasksOK
  <1> QED BY <1>1, <1>2, <1>3, <1>4, <1>5 DEF World

LEMMA HeartbeatType ==
    ASSUME TypeOK, HeartbeatStep
    PROVE  TypeOK'
  <1>0. PlayerOK /\ recovery \in RecoveryState /\ TasksOK /\ RunOK
    BY TypeParts
  <1>1. Heartbeat \in Tasks
    BY DEF Tasks
  <1>2. CASE TickDropsState
    <2>1. Fresh \in RecoveryState
      BY DEF Fresh, RecoveryState, Confirm
    <2>2. TasksOK'
      BY <1>0, <1>2 DEF TickDropsState, TasksOK, Jobs
    <2>3. RunOK'
      BY <1>2 DEF TickDropsState, RunOK, Confirm
    <2>4. PlayerOK'
      BY <1>0, <1>2 DEF TickDropsState, PlayerOK, playerVars
    <2> QED BY <1>2, <2>1, <2>2, <2>3, <2>4 DEF TickDropsState, TypeOK, PlayerOK, TasksOK, RunOK
  <1>3. CASE TickProbes
    <2>1. TasksOK'
      BY <1>0, <1>1, <1>3 DEF TickProbes, TasksOK, NoJob, Jobs, Waits
    <2> QED BY <1>0, <1>3, <2>1 DEF TickProbes, TypeOK, PlayerOK, TasksOK, RunOK, playerVars
  <1>4. CASE ProbeFails
    <2>1. TasksOK'
      BY <1>0, <1>1, <1>4, EndType DEF ProbeFails
    <2> QED BY <1>0, <1>4, <2>1 DEF ProbeFails, TypeOK, PlayerOK, TasksOK, RunOK, playerVars
  <1>5. ASSUME NEW spike \in BOOLEAN, Observe(spike)
        PROVE  TypeOK'
    <2> DEFINE t == PlayerTrack(Heartbeat)
               playing == job[Heartbeat].mine /\ t # NoTrack /\ ~paused
               signal == Evidence(spike, recovery.last, t)
               wedged == playing /\ signal
               s == CountSample(ReboundBySample(recovery, t), wedged)
               act == ShouldRecover(s, recovery.last, t, playing, signal)
               j == [job[Heartbeat] EXCEPT !.track = t, !.held = TRUE]
    <2>1. /\ recovery' = [s EXCEPT !.last = t]
          /\ Dispatch(Heartbeat, act, j)
          /\ wedgedRun' = [track |-> t,
                           n |-> CASE ~wedged -> 0
                                   [] wedged /\ wedgedRun.track # t -> 1
                                   [] OTHER -> IF wedgedRun.n < Confirm
                                               THEN wedgedRun.n + 1 ELSE Confirm]
          /\ UNCHANGED playerVars
      BY <1>5 DEF Observe
    <2>2. t \in MaybeTrack
      BY <1>0, <1>1 DEF PlayerTrack, PlayerOK, TasksOK, Jobs
    <2>3. wedged \in BOOLEAN
      BY DEF Evidence
    <2> HIDE DEF t, wedged
    <2>4. recovery' \in RecoveryState
      <3>1. ReboundBySample(recovery, t) \in RecoveryState
        BY <1>0, <2>2, ReboundType
      <3>2. s \in RecoveryState
        BY <2>3, <3>1, CountType
      <3> QED BY <2>1, <2>2, <3>2, FieldType
    <2>5. TasksOK'
      <3>1. j \in Jobs
        BY <1>0, <1>1, <2>2 DEF TasksOK, Jobs
      <3>2. act \in Acts
        BY DecisionType
      <3> HIDE DEF act, j
      <3> QED BY <1>0, <1>1, <2>1, <3>1, <3>2, DispatchType
    <2>6. RunOK'
      <3>1. CASE ~wedged
        BY <2>1, <2>2, <3>1 DEF RunOK, Confirm
      <3>2. CASE wedged /\ wedgedRun.track # t
        BY <2>1, <2>2, <3>2 DEF RunOK, Confirm
      <3>3. CASE wedged /\ wedgedRun.track = t
        BY <1>0, <2>1, <2>2, <3>3 DEF RunOK, Confirm
      <3> QED BY <3>1, <3>2, <3>3
    <2>7. PlayerOK'
      BY <1>0, <2>1 DEF PlayerOK, playerVars
    <2> QED BY <2>4, <2>5, <2>6, <2>7 DEF TypeOK, PlayerOK, TasksOK, RunOK
  <1> QED BY <1>2, <1>3, <1>4, <1>5 DEF HeartbeatStep

LEMMA CloseEventType ==
    ASSUME TypeOK, NEW h \in Handlers, CloseEvent(h)
    PROVE  TypeOK'
  <1> DEFINE s == Rebound(recovery, current)
             closed == [s EXCEPT !.streak = Confirm]
             act == ShouldRecover(closed, current, current, TRUE, TRUE)
             j == [track |-> current, mine |-> TRUE, left |-> NoTrack, held |-> TRUE]
  <1>0. PlayerOK /\ recovery \in RecoveryState /\ TasksOK /\ RunOK
    BY TypeParts
  <1>1. h \in Tasks
    BY DEF Tasks
  <1>2. /\ recovery' = s
        /\ Dispatch(h, act, j)
        /\ UNCHANGED <<playerVars, wedgedRun>>
    BY DEF CloseEvent
  <1>3. recovery' \in RecoveryState
    BY <1>0, <1>2, ReboundType DEF PlayerOK
  <1>4. TasksOK'
    <2>1. j \in Jobs
      BY <1>0 DEF PlayerOK, Jobs
    <2>2. act \in Acts
      BY DecisionType
    <2> HIDE DEF act, j
    <2> QED BY <1>0, <1>1, <1>2, <2>1, <2>2, DispatchType
  <1> QED BY <1>0, <1>2, <1>3, <1>4 DEF TypeOK, PlayerOK, TasksOK, RunOK, playerVars

LEMMA TaskStepType ==
    ASSUME TypeOK, NEW p \in Tasks, TaskStep(p)
    PROVE  TypeOK'
  <1>0. PlayerOK /\ recovery \in RecoveryState /\ TasksOK /\ RunOK
    BY TypeParts
  <1>1. SUFFICES /\ PlayerOK'
                 /\ recovery' \in RecoveryState
                 /\ TasksOK'
                 /\ UNCHANGED wedgedRun
    BY <1>0 DEF TypeOK, PlayerOK, TasksOK, RunOK
  <1>2. Charged(p) => recovery' \in RecoveryState
    BY <1>0, ChargeType DEF Charged
  <1>3. UNCHANGED playerVars => PlayerOK'
    BY <1>0 DEF PlayerOK, playerVars
  <1>4. CASE RetryEndsEarly(p)
    BY <1>0, <1>2, <1>3, <1>4, EndType DEF RetryEndsEarly
  <1>5. CASE RetryDisconnects(p)
    <2> DEFINE saved == [NoJob EXCEPT !.track = PlayerTrack(p)]
    <2>1. saved \in Jobs
      BY <1>0 DEF PlayerTrack, NoJob, Jobs, PlayerOK, TasksOK
    <2>2. LeftBehind \in [Tasks -> Jobs]
      BY <1>0, LeftBehindType DEF PlayerOK, TasksOK
    <2>3. job' = [LeftBehind EXCEPT ![p] = saved] \/ job' = [job EXCEPT ![p] = saved]
      BY <1>5 DEF RetryDisconnects
    <2>4. Detached \/ UNCHANGED playerVars
      BY <1>5 DEF RetryDisconnects
    <2> HIDE DEF saved
    <2>5. job' \in [Tasks -> Jobs]
      BY <1>0, <2>1, <2>2, <2>3 DEF TasksOK
    <2>6. pc' \in [Tasks -> Waits]
      BY <1>0, <1>5 DEF RetryDisconnects, TasksOK, Waits
    <2> QED BY <1>2, <1>3, <1>5, <2>4, <2>5, <2>6, DetachedType DEF RetryDisconnects, TasksOK
  <1>6. CASE AnnounceRaises(p) \/ ReconnectFails(p) \/ ReplayFails(p)
    BY <1>0, <1>3, <1>6, EndType DEF AnnounceRaises, ReconnectFails, ReplayFails
  <1>7. CASE Reconnects(p)
    <2>1. TasksOK'
      BY <1>0, <1>7 DEF Reconnects, TasksOK, Jobs, Waits
    <2>2. PlayerOK'
      BY <1>0, <1>7 DEF Reconnects, PlayerOK
    <2> QED BY <1>0, <1>7, <2>1, <2>2 DEF Reconnects
  <1>8. CASE Replays(p)
    <2>1. TasksOK'
      BY <1>0, <1>8, EndType DEF Replays
    <2>2. PlayerOK'
      BY <1>0, <1>8 DEF Replays, PlayerOK, TasksOK, Jobs
    <2> QED BY <1>0, <1>8, <2>1, <2>2 DEF Replays
  <1>9. CASE Skips(p)
    <2>1. TasksOK'
      BY <1>0, <1>9 DEF Skips, TasksOK, NoJob, Jobs, Waits
    <2>2. PlayerOK'
      BY <1>0, <1>3, <1>9, AdvanceType DEF Skips
    <2> QED BY <1>0, <1>9, <2>1, <2>2 DEF Skips
  <1>10. CASE Resets(p)
    <2>1. recovery' \in RecoveryState
      BY <1>0, <1>10, ChargeType DEF Resets
    <2> QED BY <1>0, <1>3, <1>10, <2>1, EndType DEF Resets
  <1> QED BY <1>4, <1>5, <1>6, <1>7, <1>8, <1>9, <1>10 DEF TaskStep

LEMMA TypeStep == TypeOK /\ [Next]_vars => TypeOK'
  <1> SUFFICES ASSUME TypeOK, [Next]_vars PROVE TypeOK'
    OBVIOUS
  <1>0. PlayerOK /\ recovery \in RecoveryState /\ TasksOK /\ RunOK
    BY TypeParts
  <1>1. CASE World
    BY <1>0, <1>1, WorldType DEF TypeOK, PlayerOK, TasksOK, RunOK
  <1>2. CASE HeartbeatStep
    BY <1>2, HeartbeatType
  <1>3. ASSUME NEW h \in Handlers, CloseEvent(h) PROVE TypeOK'
    BY <1>3, CloseEventType
  <1>4. ASSUME NEW p \in Tasks, TaskStep(p) PROVE TypeOK'
    BY <1>4, TaskStepType
  <1>5. CASE ThrottleEnds
    <2>1. recovery' \in RecoveryState
      BY <1>0, <1>5, FieldType DEF ThrottleEnds
    <2> QED BY <1>0, <1>5, <2>1 DEF ThrottleEnds, TypeOK, PlayerOK, TasksOK, RunOK, playerVars
  <1>6. CASE UNCHANGED vars
    BY <1>0, <1>6 DEF vars, playerVars, TypeOK, PlayerOK, TasksOK, RunOK
  <1> QED BY <1>1, <1>2, <1>3, <1>4, <1>5, <1>6 DEF Next

(* Every variable keeps its type, whatever the number of tracks, handlers  *)
(* and queue places.                                                       *)
THEOREM TypeCorrect == Spec => []TypeOK
  BY InitType, TypeStep, PTL DEF Spec

-----------------------------------------------------------------------------
(* A streak that is not zero has the last sample behind it: that sample    *)
(* was of the track in last_snapshot and showed a wedge.  This is what     *)
(* carries HeartbeatNeedsTwoSamples over the sample that starts a streak.  *)
StreakIsBacked ==
    recovery.streak > 0 => wedgedRun.n > 0 /\ wedgedRun.track = recovery.last

SampleInv == TypeOK /\ StreakIsBacked /\ HeartbeatNeedsTwoSamples

(* Steps that leave the streak and the last snapshot, or clear the streak. *)
LEMMA StreakKept ==
    ASSUME StreakIsBacked, UNCHANGED wedgedRun,
           \/ recovery'.streak = 0
           \/ recovery'.streak = recovery.streak /\ recovery'.last = recovery.last
    PROVE  StreakIsBacked'
  BY DEF StreakIsBacked

LEMMA FieldsKept ==
    ASSUME NEW s \in RecoveryState, NEW t \in MaybeTrack
    PROVE  /\ Rebound(s, t).streak = s.streak /\ Rebound(s, t).last = s.last
           /\ Charge(s).streak = 0 /\ Renew(s).streak = 0
           /\ ReboundBySample(s, t).last = s.last
           /\ ReboundBySample(s, t).streak \in {0, s.streak}
  BY DEF Rebound, ReboundBySample, Charge, Renew, RecoveryState

LEMMA Counted ==
    ASSUME NEW s \in RecoveryState, NEW wedged \in BOOLEAN
    PROVE  /\ CountSample(s, wedged).streak > 0 => wedged
           /\ CountSample(s, wedged).streak >= Confirm => s.streak > 0
  BY DEF CountSample, RecoveryState, Confirm

LEMMA ObserveSample ==
    ASSUME SampleInv, NEW spike \in BOOLEAN, Observe(spike)
    PROVE  StreakIsBacked' /\ HeartbeatNeedsTwoSamples'
  <1> DEFINE t == PlayerTrack(Heartbeat)
             playing == job[Heartbeat].mine /\ t # NoTrack /\ ~paused
             signal == Evidence(spike, recovery.last, t)
             wedged == playing /\ signal
             r == ReboundBySample(recovery, t)
             s == CountSample(r, wedged)
             act == ShouldRecover(s, recovery.last, t, playing, signal)
             j == [job[Heartbeat] EXCEPT !.track = t, !.held = TRUE]
  <1>0. PlayerOK /\ recovery \in RecoveryState /\ TasksOK /\ RunOK /\ Heartbeat \in Tasks
    BY TypeParts DEF SampleInv, Tasks
  <1>1. /\ recovery' = [s EXCEPT !.last = t]
        /\ Dispatch(Heartbeat, act, j)
        /\ wedgedRun' = [track |-> t,
                         n |-> CASE ~wedged -> 0
                                 [] wedged /\ wedgedRun.track # t -> 1
                                 [] OTHER -> IF wedgedRun.n < Confirm
                                             THEN wedgedRun.n + 1 ELSE Confirm]
    BY DEF Observe
  <1>2. t \in MaybeTrack /\ wedged \in BOOLEAN
    BY <1>0 DEF PlayerTrack, PlayerOK, TasksOK, Jobs, Evidence
  <1>3. j \in Jobs /\ j.track = t
    BY <1>0, <1>2 DEF TasksOK, Jobs
  <1>4. act # "none" => playing /\ signal /\ recovery.last = t /\ s.streak >= Confirm
    BY DEF ShouldRecover, Confirmed
  <1>5. act \in Acts
    BY DecisionType
  <1> HIDE DEF t, act, j, playing, signal
  <1>6. r \in RecoveryState /\ r.last = recovery.last /\ r.streak \in {0, recovery.streak}
    BY <1>0, <1>2, ReboundType, FieldsKept
  <1>7. s \in RecoveryState /\ (s.streak > 0 => wedged) /\ (s.streak >= Confirm => r.streak > 0)
    BY <1>2, <1>6, CountType, Counted
  <1> HIDE DEF r, s, wedged
  <1>8. recovery'.streak = s.streak /\ recovery'.last = t
    BY <1>1, <1>7 DEF RecoveryState
  <1>9. wedged => wedgedRun'.n > 0 /\ wedgedRun'.track = t
    BY <1>0, <1>1 DEF RunOK, Confirm
  <1>10. StreakIsBacked'
    BY <1>7, <1>8, <1>9 DEF StreakIsBacked
  <1>11. ASSUME pc'[Heartbeat] \in {"retry", "skip"}
         PROVE  wedgedRun' = [track |-> job'[Heartbeat].track, n |-> Confirm]
    <2>1. act # "none" /\ job'[Heartbeat] = j
      BY <1>0, <1>1, <1>5, <1>11 DEF Dispatch, End, TasksOK, Acts
    <2>2. wedged /\ recovery.last = t /\ recovery.streak > 0
      BY <1>4, <1>6, <1>7, <2>1, <1>0 DEF wedged, RecoveryState
    <2>3. wedgedRun.n > 0 /\ wedgedRun.track = t
      BY <2>2 DEF SampleInv, StreakIsBacked
    <2> QED BY <1>0, <1>1, <1>3, <2>1, <2>2, <2>3 DEF RunOK, Confirm
  <1> QED BY <1>10, <1>11 DEF HeartbeatNeedsTwoSamples

(* What the other steps do to the heartbeat's wait and judged track: they  *)
(* never bring it to an announcement.                                      *)
HeartbeatKept ==
    \/ pc'[Heartbeat] \notin {"retry", "skip"}
    \/ /\ pc'[Heartbeat] = pc[Heartbeat]
       /\ job'[Heartbeat].track = job[Heartbeat].track
       /\ UNCHANGED wedgedRun

LEMMA HeartbeatKeptSuffices ==
    ASSUME HeartbeatNeedsTwoSamples, HeartbeatKept
    PROVE  HeartbeatNeedsTwoSamples'
  BY DEF HeartbeatNeedsTwoSamples, HeartbeatKept

LEMMA LeftBehindTrack ==
    ASSUME TasksOK, NEW p \in Tasks
    PROVE  LeftBehind[p].track = job[p].track /\ LeftBehind[p].held = job[p].held
  BY DEF LeftBehind, TasksOK, Jobs

LEMMA OtherSample ==
    ASSUME SampleInv, [Next]_vars, \A spike \in BOOLEAN : ~Observe(spike)
    PROVE  StreakIsBacked' /\ HeartbeatNeedsTwoSamples'
  <1>0. /\ PlayerOK /\ recovery \in RecoveryState /\ TasksOK /\ RunOK
        /\ Heartbeat \in Tasks /\ StreakIsBacked /\ HeartbeatNeedsTwoSamples
    BY TypeParts DEF SampleInv, Tasks
  <1>1. CASE World
    <2>1. UNCHANGED <<recovery, pc, wedgedRun>>
      BY <1>1 DEF World, UserJoins, UserPlays, UserEnqueues, UserPauses, UserLeaves,
                  TrackEnds, VoiceChanges, TaskVars
    <2>2. job'[Heartbeat].track = job[Heartbeat].track
      BY <1>0, <1>1, LeftBehindTrack
         DEF World, UserJoins, UserPlays, UserEnqueues, UserPauses, UserLeaves,
             TrackEnds, VoiceChanges, TaskVars
    <2>3. HeartbeatKept
      BY <2>1, <2>2 DEF HeartbeatKept
    <2> QED BY <1>0, <2>1, <2>3, StreakKept, HeartbeatKeptSuffices
  <1>2. CASE TickDropsState
    BY <1>2 DEF TickDropsState, StreakIsBacked, HeartbeatNeedsTwoSamples, Fresh
  <1>3. CASE TickProbes \/ ProbeFails
    <2>1. pc'[Heartbeat] \notin {"retry", "skip"}
      BY <1>0, <1>3 DEF TickProbes, ProbeFails, End, TasksOK
    <2>2. UNCHANGED <<recovery, wedgedRun>>
      BY <1>3 DEF TickProbes, ProbeFails
    <2> QED BY <1>0, <2>1, <2>2, StreakKept DEF HeartbeatNeedsTwoSamples
  <1>4. ASSUME NEW h \in Handlers, CloseEvent(h)
        PROVE  StreakIsBacked' /\ HeartbeatNeedsTwoSamples'
    <2>1. h # Heartbeat /\ h \in Tasks
      BY HandlersAssumption DEF Tasks
    <2>2. UNCHANGED wedgedRun /\ recovery' = Rebound(recovery, current)
      BY <1>4 DEF CloseEvent
    <2>3. recovery'.streak = recovery.streak /\ recovery'.last = recovery.last
      BY <1>0, <2>2, FieldsKept DEF PlayerOK
    <2>4. pc'[Heartbeat] = pc[Heartbeat] /\ job'[Heartbeat] = job[Heartbeat]
      BY <1>0, <1>4, <2>1 DEF CloseEvent, Dispatch, End, TasksOK
    <2>5. HeartbeatKept
      BY <2>2, <2>4 DEF HeartbeatKept
    <2> QED BY <1>0, <2>2, <2>3, <2>5, StreakKept, HeartbeatKeptSuffices
  <1>5. ASSUME NEW p \in Tasks, TaskStep(p)
        PROVE  StreakIsBacked' /\ HeartbeatNeedsTwoSamples'
    <2>1. UNCHANGED wedgedRun
      BY <1>5 DEF TaskStep, AnnounceRaises, RetryEndsEarly, RetryDisconnects, ReconnectFails, Reconnects,
                  Replays, ReplayFails, Skips, Resets
    <2>2. \/ UNCHANGED recovery
          \/ recovery' = Charge(recovery)
          \/ recovery' = Renew(recovery)
      BY <1>5 DEF TaskStep, AnnounceRaises, RetryEndsEarly, RetryDisconnects, ReconnectFails, Reconnects,
                  Replays, ReplayFails, Skips, Resets, Charged
    <2>3. \/ recovery'.streak = 0
          \/ recovery'.streak = recovery.streak /\ recovery'.last = recovery.last
      BY <1>0, <2>2, FieldsKept
    <2>4. pc'[p] \notin {"retry", "skip"} /\ \A q \in Tasks : q # p => pc'[q] = pc[q]
      BY <1>0, <1>5 DEF TaskStep, AnnounceRaises, RetryEndsEarly, RetryDisconnects, ReconnectFails, Reconnects,
                        Replays, ReplayFails, Skips, Resets, End, TasksOK
    <2>5. \A q \in Tasks : q # p => job'[q].track = job[q].track
      BY <1>0, <1>5, LeftBehindTrack, LeftBehindType
         DEF TaskStep, AnnounceRaises, RetryEndsEarly, RetryDisconnects, ReconnectFails, Reconnects,
             Replays, ReplayFails, Skips, Resets, End, TasksOK, PlayerOK
    <2>6. HeartbeatKept
      BY <1>0, <2>1, <2>4, <2>5 DEF HeartbeatKept
    <2> QED BY <1>0, <2>1, <2>3, <2>6, StreakKept, HeartbeatKeptSuffices
  <1>6. CASE ThrottleEnds
    <2>1. recovery'.streak = recovery.streak /\ recovery'.last = recovery.last
      BY <1>0, <1>6 DEF ThrottleEnds, RecoveryState
    <2> QED BY <1>0, <1>6, <2>1, StreakKept DEF ThrottleEnds, HeartbeatNeedsTwoSamples
  <1>7. CASE UNCHANGED vars
    BY <1>0, <1>7 DEF vars, StreakIsBacked, HeartbeatNeedsTwoSamples
  <1> QED BY <1>1, <1>2, <1>3, <1>4, <1>5, <1>6, <1>7 DEF Next, HeartbeatStep

(* The heartbeat never acts on less than two samples in a row of one       *)
(* wedged track, whatever the handlers do to the shared state.             *)
THEOREM TwoSamples == Spec => []HeartbeatNeedsTwoSamples
  <1>1. Init => SampleInv
    <2>1. Init => StreakIsBacked
      BY DEF Init, StreakIsBacked, Fresh
    <2>2. Init => HeartbeatNeedsTwoSamples
      BY DEF Init, HeartbeatNeedsTwoSamples, Tasks
    <2> QED BY <2>1, <2>2, InitType DEF SampleInv
  <1>2. SampleInv /\ [Next]_vars => SampleInv'
    <2> SUFFICES ASSUME SampleInv, [Next]_vars PROVE SampleInv'
      OBVIOUS
    <2>1. TypeOK'
      BY TypeStep DEF SampleInv
    <2> QED BY <2>1, ObserveSample, OtherSample DEF SampleInv
  <1>3. SampleInv => HeartbeatNeedsTwoSamples
    BY DEF SampleInv
  <1> QED BY <1>1, <1>2, <1>3, PTL DEF Spec

-----------------------------------------------------------------------------
(* AttemptsBounded.  A step clears the attempts, or leaves them and no new *)
(* retry is pending, or turns one pending retry into an attempt.           *)
LEMMA TasksFinite == IsFiniteSet(Tasks)
  BY HandlersAssumption, FS_AddElement, FS_Singleton, FS_Union DEF Tasks

LEMMA PendingFinite ==
    /\ IsFiniteSet(Pending)
    /\ Cardinality(Pending) \in Nat
    /\ Cardinality(Pending) <= Cardinality(Tasks)
  BY TasksFinite, FS_Subset, FS_CardinalityType DEF Pending

LEMMA BoundKept ==
    ASSUME AttemptsBounded, recovery.attempts \in Nat,
           \/ recovery'.attempts = 0
           \/ recovery'.attempts = recovery.attempts /\ Pending' \subseteq Pending
           \/ /\ recovery'.attempts = recovery.attempts + 1
              /\ \E p \in Pending : Pending' \subseteq Pending \ {p}
    PROVE  AttemptsBounded'
  <1>1. /\ Cardinality(Pending') \in Nat
        /\ Cardinality(Pending') <= Cardinality(Tasks)
    BY TasksFinite, FS_Subset, FS_CardinalityType DEF Pending
  <1>2. Cardinality(Tasks) \in Nat
    BY TasksFinite, FS_CardinalityType
  <1>3. CASE recovery'.attempts = 0
    BY <1>1, <1>2, <1>3 DEF AttemptsBounded
  <1>4. CASE recovery'.attempts = recovery.attempts /\ Pending' \subseteq Pending
    <2>1. Cardinality(Pending') <= Cardinality(Pending)
      BY <1>4, PendingFinite, FS_Subset
    <2> QED BY <1>1, <1>2, <1>4, <2>1, PendingFinite DEF AttemptsBounded
  <1>5. ASSUME recovery'.attempts = recovery.attempts + 1,
               NEW p \in Pending, Pending' \subseteq Pending \ {p}
        PROVE  AttemptsBounded'
    <2>1. /\ IsFiniteSet(Pending \ {p})
          /\ Cardinality(Pending \ {p}) = Cardinality(Pending) - 1
      BY PendingFinite, FS_RemoveElement
    <2>2. Cardinality(Pending') <= Cardinality(Pending) - 1
      BY <1>5, <2>1, FS_Subset
    <2> QED BY <1>1, <1>2, <1>5, <2>2, PendingFinite DEF AttemptsBounded
  <1> QED BY <1>3, <1>4, <1>5

LEMMA AttemptsOf ==
    ASSUME NEW s \in RecoveryState, NEW t \in MaybeTrack, NEW wedged \in BOOLEAN
    PROVE  /\ Rebound(s, t).attempts \in {0, s.attempts}
           /\ ReboundBySample(s, t).attempts \in {0, s.attempts}
           /\ CountSample(s, wedged).attempts = s.attempts
           /\ Charge(s).attempts = s.attempts + 1
           /\ Renew(s).attempts = 0
  BY DEF Rebound, ReboundBySample, CountSample, Charge, Renew, RecoveryState

(* A decision adds a pending retry only when nothing is charged.           *)
LEMMA DispatchPending ==
    ASSUME TasksOK, NEW p \in Tasks, NEW j \in Jobs, NEW act \in Acts, act # "retry",
           Dispatch(p, act, j)
    PROVE  Pending' \subseteq Pending
  BY DEF Dispatch, End, TasksOK, Pending, NoJob

LEMMA RetryUncharged ==
    ASSUME NEW s \in RecoveryState, NEW prev, NEW t, NEW playing, NEW signal,
           ShouldRecover(s, prev, t, playing, signal) = "retry"
    PROVE  s.attempts = 0
  BY DEF ShouldRecover, Spent, MaxAttempts, RecoveryState

LEMMA DecisionBound ==
    ASSUME TypeOK, AttemptsBounded,
           \/ \E spike \in BOOLEAN : Observe(spike)
           \/ \E h \in Handlers : CloseEvent(h)
    PROVE  AttemptsBounded'
  <1>0. PlayerOK /\ recovery \in RecoveryState /\ TasksOK /\ Heartbeat \in Tasks
    BY TypeParts DEF Tasks
  <1>1. ASSUME NEW spike \in BOOLEAN, Observe(spike)
        PROVE  AttemptsBounded'
    <2> DEFINE t == PlayerTrack(Heartbeat)
               playing == job[Heartbeat].mine /\ t # NoTrack /\ ~paused
               signal == Evidence(spike, recovery.last, t)
               wedged == playing /\ signal
               r == ReboundBySample(recovery, t)
               s == CountSample(r, wedged)
               act == ShouldRecover(s, recovery.last, t, playing, signal)
               j == [job[Heartbeat] EXCEPT !.track = t, !.held = TRUE]
    <2>1. recovery' = [s EXCEPT !.last = t] /\ Dispatch(Heartbeat, act, j)
      BY <1>1 DEF Observe
    <2>2. t \in MaybeTrack /\ wedged \in BOOLEAN
      BY <1>0 DEF PlayerTrack, PlayerOK, TasksOK, Jobs, Evidence
    <2>3. act \in Acts /\ j \in Jobs
      BY <1>0, <2>2, DecisionType DEF TasksOK, Jobs
    <2> HIDE DEF t, j, wedged
    <2>4. r \in RecoveryState /\ r.attempts \in {0, recovery.attempts}
      BY <1>0, <2>2, ReboundType, AttemptsOf
    <2> HIDE DEF r
    <2>5. s \in RecoveryState /\ s.attempts = r.attempts
      BY <2>2, <2>4, CountType, AttemptsOf
    <2>6. act = "retry" => s.attempts = 0
      BY <2>5, RetryUncharged
    <2> HIDE DEF s, act
    <2>7. recovery'.attempts = s.attempts
      BY <2>1, <2>5 DEF RecoveryState
    <2>8. act # "retry" => Pending' \subseteq Pending
      BY <1>0, <2>1, <2>3, DispatchPending
    <2> QED BY <1>0, <2>4, <2>5, <2>6, <2>7, <2>8, BoundKept DEF RecoveryState
  <1>2. ASSUME NEW h \in Handlers, CloseEvent(h)
        PROVE  AttemptsBounded'
    <2> DEFINE s == Rebound(recovery, current)
               closed == [s EXCEPT !.streak = Confirm]
               act == ShouldRecover(closed, current, current, TRUE, TRUE)
               j == [track |-> current, mine |-> TRUE, left |-> NoTrack, held |-> TRUE]
    <2>1. recovery' = s /\ Dispatch(h, act, j) /\ h \in Tasks
      BY <1>2 DEF CloseEvent, Tasks
    <2>2. act \in Acts /\ j \in Jobs
      BY <1>0, DecisionType DEF PlayerOK, Jobs
    <2>3. s \in RecoveryState /\ s.attempts \in {0, recovery.attempts}
      BY <1>0, ReboundType, AttemptsOf DEF PlayerOK
    <2> HIDE DEF s, j
    <2>4. closed \in RecoveryState /\ closed.attempts = s.attempts
      BY <2>3 DEF RecoveryState, Confirm
    <2> HIDE DEF closed
    <2>5. act = "retry" => s.attempts = 0
      BY <2>4, RetryUncharged
    <2> HIDE DEF act
    <2>6. act # "retry" => Pending' \subseteq Pending
      BY <1>0, <2>1, <2>2, DispatchPending
    <2> QED BY <1>0, <2>1, <2>3, <2>5, <2>6, BoundKept DEF RecoveryState
  <1> QED BY <1>1, <1>2

LEMMA TaskStepBound ==
    ASSUME TypeOK, AttemptsBounded, NEW p \in Tasks, TaskStep(p)
    PROVE  AttemptsBounded'
  <1>0. PlayerOK /\ recovery \in RecoveryState /\ TasksOK
    BY TypeParts
  <1>1. \A q \in Tasks : q # p => pc'[q] = pc[q] /\ job'[q].held = job[q].held
    BY <1>0, LeftBehindType, LeftBehindTrack
       DEF TaskStep, AnnounceRaises, RetryEndsEarly, RetryDisconnects, ReconnectFails, Reconnects, Replays,
           ReplayFails, Skips, Resets, End, TasksOK, PlayerOK
  <1>2. pc'[p] # "retry"
    BY <1>0 DEF TaskStep, AnnounceRaises, RetryEndsEarly, RetryDisconnects, ReconnectFails, Reconnects, Replays,
                ReplayFails, Skips, Resets, End, TasksOK
  <1>3. Pending' \subseteq Pending \ {p}
    BY <1>1, <1>2 DEF Pending
  <1>4. CASE RetryEndsEarly(p) \/ RetryDisconnects(p)
    <2>1. pc[p] = "retry" /\ Charged(p)
      BY <1>4 DEF RetryEndsEarly, RetryDisconnects
    <2>2. CASE job[p].held
      <3>1. p \in Pending
        BY <2>1, <2>2 DEF Pending
      <3>2. recovery'.attempts = recovery.attempts + 1
        BY <1>0, <2>1, <2>2, AttemptsOf DEF Charged
      <3> QED BY <1>0, <1>3, <3>1, <3>2, BoundKept DEF RecoveryState
    <2>3. CASE ~job[p].held
      BY <1>0, <1>3, <2>1, <2>3, BoundKept DEF Charged, RecoveryState
    <2> QED BY <2>2, <2>3
  <1>5. CASE Resets(p)
    <2>1. recovery'.attempts \in {0, recovery.attempts}
      BY <1>0, <1>5, AttemptsOf DEF Resets
    <2> QED BY <1>0, <1>3, <2>1, BoundKept DEF RecoveryState
  <1>6. CASE \/ AnnounceRaises(p) \/ ReconnectFails(p) \/ Reconnects(p)
             \/ Replays(p) \/ ReplayFails(p) \/ Skips(p)
    <2>1. UNCHANGED recovery
      BY <1>6 DEF AnnounceRaises, ReconnectFails, Reconnects, Replays, ReplayFails, Skips
    <2> QED BY <1>0, <1>3, <2>1, BoundKept DEF RecoveryState
  <1> QED BY <1>4, <1>5, <1>6 DEF TaskStep

(* What one track is charged, with what is about to be charged, never      *)
(* exceeds one attempt per task.                                           *)
THEOREM BoundedAttempts == Spec => []AttemptsBounded
  <1>1. Init => AttemptsBounded
    <2> SUFFICES ASSUME Init PROVE AttemptsBounded
      OBVIOUS
    <2>1. recovery.attempts = 0
      BY DEF Init, Fresh
    <2> QED BY <2>1, PendingFinite, TasksFinite, FS_CardinalityType DEF AttemptsBounded
  <1>2. TypeOK /\ AttemptsBounded /\ [Next]_vars => AttemptsBounded'
    <2> SUFFICES ASSUME TypeOK, AttemptsBounded, [Next]_vars PROVE AttemptsBounded'
      OBVIOUS
    <2>0. recovery \in RecoveryState /\ TasksOK /\ PlayerOK
      BY TypeParts
    <2>1. CASE World
      <3>1. UNCHANGED <<recovery, pc>>
        BY <2>1 DEF World, UserJoins, UserPlays, UserEnqueues, UserPauses, UserLeaves,
                    TrackEnds, VoiceChanges, TaskVars
      <3>2. \A p \in Tasks : job'[p].held = job[p].held
        BY <2>0, <2>1 DEF World, UserJoins, UserPlays, UserEnqueues, UserPauses, UserLeaves,
                          TrackEnds, VoiceChanges, TaskVars, LeftBehind, TasksOK, Jobs
      <3>3. Pending' \subseteq Pending
        BY <3>1, <3>2 DEF Pending
      <3> QED BY <2>0, <3>1, <3>3, BoundKept DEF RecoveryState
    <2>2. CASE TickDropsState
      <3>1. recovery'.attempts = 0
        BY <2>2 DEF TickDropsState, Fresh
      <3> QED BY <2>0, <3>1, BoundKept DEF RecoveryState
    <2>3. CASE TickProbes \/ ProbeFails
      <3>1. UNCHANGED recovery /\ Pending' \subseteq Pending
        BY <2>0, <2>3 DEF TickProbes, ProbeFails, End, Pending, TasksOK
      <3> QED BY <2>0, <3>1, BoundKept DEF RecoveryState
    <2>4. CASE \E spike \in BOOLEAN : Observe(spike)
      BY <2>4, DecisionBound
    <2>5. CASE \E h \in Handlers : CloseEvent(h)
      BY <2>5, DecisionBound
    <2>6. ASSUME NEW p \in Tasks, TaskStep(p) PROVE AttemptsBounded'
      BY <2>6, TaskStepBound
    <2>7. CASE ThrottleEnds
      <3>1. recovery'.attempts = recovery.attempts /\ Pending' = Pending
        BY <2>0, <2>7 DEF ThrottleEnds, RecoveryState, Pending
      <3> QED BY <2>0, <3>1, BoundKept DEF RecoveryState
    <2>8. CASE UNCHANGED vars
      <3>1. recovery' = recovery /\ Pending' = Pending
        BY <2>8 DEF vars, Pending
      <3> QED BY <2>0, <3>1, BoundKept DEF RecoveryState
    <2> QED BY <2>1, <2>2, <2>3, <2>4, <2>5, <2>6, <2>7, <2>8 DEF Next, HeartbeatStep
  <1> QED BY <1>1, <1>2, TypeCorrect, PTL DEF Spec
-----------------------------------------------------------------------------
(* The heartbeat alone implements the policy.  The three parts of the      *)
(* mapping, by name.                                                       *)
Seen == recovery.last

SpentOn == IF Spent(recovery) /\ pc[Heartbeat] # "reset" THEN recovery.bound ELSE NoTrack

Verdict ==
    CASE pc[Heartbeat] \in {"retry", "skip"} -> pc[Heartbeat]
      [] pc[Heartbeat] \in {"sleep", "replay"} -> "rebuild"
      [] OTHER -> "none"

(* A budget that is used up is that of the last sample's track, and a      *)
(* verdict on its way is about that track and still charges or resets the  *)
(* guild's own state.  A close event may rebind the budget in between.     *)
BudgetIsOfLastSample ==
    /\ Spent(recovery) => recovery.bound = recovery.last
    /\ pc[Heartbeat] \in {"retry", "skip"} =>
          /\ job[Heartbeat].held
          /\ recovery.bound = recovery.last
          /\ recovery.last # NoTrack
    /\ pc[Heartbeat] = "reset" => job[Heartbeat].held

(* No close event was handled: what a heartbeat alone does to the state.   *)
HandlersIdle == \A h \in Handlers : pc[h] = "idle"

NoCloseEvent == \A h \in Handlers : ~CloseEvent(h)

BudgetInv == TypeOK /\ HandlersIdle /\ BudgetIsOfLastSample

LEMMA PolicyStutters ==
    ASSUME UNCHANGED <<Seen, SpentOn, Verdict>>
    PROVE  [Policy!Next]_(Policy!vars)
  BY DEF Seen, SpentOn, Verdict, Policy!vars

(* An idle handler has no step but a close event's.                        *)
LEMMA AloneSteps ==
    ASSUME HandlersIdle, [Next]_vars, NoCloseEvent \/ UNCHANGED vars
    PROVE  \/ World \/ ThrottleEnds \/ UNCHANGED vars
           \/ HeartbeatStep \/ TaskStep(Heartbeat)
  <1>1. ASSUME NEW h \in Handlers, TaskStep(h) PROVE FALSE
    BY <1>1 DEF HandlersIdle, TaskStep, AnnounceRaises, RetryEndsEarly, RetryDisconnects,
                ReconnectFails, Reconnects, Replays, ReplayFails, Skips, Resets
  <1>2. CASE UNCHANGED vars
    BY <1>2
  <1>3. CASE Next /\ NoCloseEvent
    BY <1>1, <1>3 DEF Next, NoCloseEvent, Tasks
  <1> QED BY <1>2, <1>3

LEMMA HandlersStayIdle ==
    ASSUME TypeOK, HandlersIdle,
           \/ World \/ ThrottleEnds \/ UNCHANGED vars
           \/ HeartbeatStep \/ TaskStep(Heartbeat)
    PROVE  HandlersIdle'
  <1> SUFFICES ASSUME NEW h \in Handlers PROVE pc'[h] = pc[h]
    BY DEF HandlersIdle
  <1>1. TasksOK /\ h # Heartbeat /\ h \in Tasks /\ Heartbeat \in Tasks
    BY TypeParts, HandlersAssumption DEF Tasks
  <1>2. CASE World \/ ThrottleEnds \/ UNCHANGED vars
    BY <1>2 DEF World, UserJoins, UserPlays, UserEnqueues, UserPauses, UserLeaves,
                TrackEnds, VoiceChanges, TaskVars, ThrottleEnds, vars
  <1>3. CASE HeartbeatStep
    BY <1>1, <1>3 DEF HeartbeatStep, TickDropsState, TickProbes, ProbeFails, Observe,
                      Dispatch, End, TasksOK
  <1>4. CASE TaskStep(Heartbeat)
    BY <1>1, <1>4 DEF TaskStep, AnnounceRaises, RetryEndsEarly, RetryDisconnects,
                      ReconnectFails, Reconnects, Replays, ReplayFails, Skips, Resets,
                      End, TasksOK
  <1> QED BY <1>2, <1>3, <1>4

LEMMA PolicySample ==
    ASSUME BudgetInv, NEW spike \in BOOLEAN, Observe(spike)
    PROVE  BudgetIsOfLastSample' /\ Policy!Next
  <1> DEFINE t == PlayerTrack(Heartbeat)
             playing == job[Heartbeat].mine /\ t # NoTrack /\ ~paused
             signal == Evidence(spike, recovery.last, t)
             wedged == playing /\ signal
             r == ReboundBySample(recovery, t)
             s == CountSample(r, wedged)
             act == ShouldRecover(s, recovery.last, t, playing, signal)
             j == [job[Heartbeat] EXCEPT !.track = t, !.held = TRUE]
  <1>0. /\ PlayerOK /\ recovery \in RecoveryState /\ TasksOK /\ Heartbeat \in Tasks
        /\ pc[Heartbeat] = "probe"
    BY TypeParts DEF BudgetInv, Tasks, Observe
  <1>1. recovery' = [s EXCEPT !.last = t] /\ Dispatch(Heartbeat, act, j)
    BY DEF Observe
  <1>2. t \in MaybeTrack /\ wedged \in BOOLEAN
    BY <1>0 DEF PlayerTrack, PlayerOK, TasksOK, Jobs, Evidence
  <1>3. j.held = TRUE
    BY <1>0 DEF TasksOK, Jobs
  <1>4. act # "none" => t # NoTrack /\ recovery.last = t /\ (act = "skip" <=> Spent(s))
    BY DecisionType DEF ShouldRecover, Confirmed, Acts
  <1>5. act \in Acts
    BY DecisionType
  <1> HIDE DEF t, act, j, playing, signal
  <1>6. r \in RecoveryState /\ r.bound = t
        /\ r.attempts = IF recovery.bound = t THEN recovery.attempts ELSE 0
    BY <1>0, <1>2, ReboundType DEF ReboundBySample, Rebound, RecoveryState
  <1>7. s \in RecoveryState /\ s.bound = r.bound /\ s.attempts = r.attempts
    BY <1>2, <1>6, CountType DEF CountSample, RecoveryState
  <1> HIDE DEF r, s, wedged
  <1>8. recovery'.last = t /\ recovery'.bound = t /\ recovery'.attempts = r.attempts
    BY <1>1, <1>6, <1>7 DEF RecoveryState
  <1>9. /\ pc'[Heartbeat] = IF act = "none" THEN "idle" ELSE act
        /\ act # "none" => job'[Heartbeat] = j
    BY <1>0, <1>1 DEF Dispatch, End, TasksOK
  <1>10. BudgetIsOfLastSample'
    BY <1>3, <1>4, <1>5, <1>8, <1>9 DEF BudgetIsOfLastSample, Acts
  <1>11. /\ Seen' = t
         /\ SpentOn' = IF recovery.bound = t /\ Spent(recovery) THEN t ELSE NoTrack
         /\ Verdict = "none" /\ Verdict' = act
    BY <1>0, <1>5, <1>6, <1>8, <1>9 DEF Seen, SpentOn, Verdict, Spent, MaxAttempts, Acts
  <1>12. SpentOn = IF Spent(recovery) THEN recovery.bound ELSE NoTrack
    BY <1>0 DEF SpentOn
  <1>13. CASE act = "none"
    <2>1. Policy!Sample(t)
      BY <1>11, <1>12, <1>13 DEF Policy!Sample, Policy!StillSpent, Seen, SpentOn, Verdict
    <2> QED BY <1>2, <1>10, <1>11, <2>1 DEF Policy!Next, Verdict
  <1>14. CASE act # "none"
    <2>1. Spent(s) <=> recovery.bound = t /\ Spent(recovery)
      BY <1>6, <1>7 DEF Spent, MaxAttempts
    <2>2. Spent(recovery) => recovery.bound = t
      BY <1>4, <1>14 DEF BudgetInv, BudgetIsOfLastSample
    <2>3. SpentOn' = SpentOn /\ (act = "skip" <=> SpentOn = t)
      BY <1>4, <1>11, <1>12, <1>14, <2>1, <2>2
    <2>4. Policy!Decide(t, act)
      BY <1>4, <1>5, <1>11, <1>14, <2>3 DEF Policy!Decide, Seen, SpentOn, Verdict, Acts
    <2> QED BY <1>2, <1>10, <1>5, <1>11, <1>14, <2>4 DEF Policy!Next, Verdict, Acts
  <1> QED BY <1>10, <1>13, <1>14

LEMMA PolicyTask ==
    ASSUME BudgetInv, TaskStep(Heartbeat)
    PROVE  BudgetIsOfLastSample' /\ [Policy!Next]_(Policy!vars)
  <1>0. recovery \in RecoveryState /\ TasksOK /\ Heartbeat \in Tasks /\ BudgetIsOfLastSample
    BY TypeParts DEF BudgetInv, Tasks
  <1> USE DEF BudgetIsOfLastSample
  <1>1. ASSUME AnnounceRaises(Heartbeat)
        PROVE  BudgetIsOfLastSample' /\ [Policy!Next]_(Policy!vars)
    <2>1. /\ pc[Heartbeat] \in {"retry", "skip"} /\ pc'[Heartbeat] = "idle"
          /\ recovery' = recovery
      BY <1>0, <1>1 DEF AnnounceRaises, End, TasksOK
    <2>2. Policy!Abandoned
      BY <2>1 DEF Policy!Abandoned
    <2> QED BY <1>0, <2>1, <2>2 DEF Policy!Next
  <1>2. ASSUME RetryEndsEarly(Heartbeat) \/ RetryDisconnects(Heartbeat)
        PROVE  BudgetIsOfLastSample' /\ [Policy!Next]_(Policy!vars)
    <2>1. pc[Heartbeat] = "retry" /\ pc'[Heartbeat] \in {"idle", "sleep"}
      BY <1>0, <1>2 DEF RetryEndsEarly, RetryDisconnects, End, TasksOK
    <2>2. recovery' = Charge(recovery) /\ recovery.bound = recovery.last
      BY <1>0, <1>2, <2>1 DEF RetryEndsEarly, RetryDisconnects, Charged
    <2>3. /\ recovery'.last = recovery.last /\ recovery'.bound = recovery.last
          /\ recovery'.attempts = recovery.attempts + 1 /\ recovery.attempts \in Nat
      BY <1>0, <2>2 DEF Charge, RecoveryState
    <2>4. Spent(recovery')
      BY <2>3 DEF Spent, MaxAttempts
    <2>5. Policy!Retried
      BY <2>1, <2>3, <2>4 DEF Policy!Retried
    <2> QED BY <2>1, <2>3, <2>5 DEF Policy!Next
  <1>3. ASSUME ReconnectFails(Heartbeat) \/ Replays(Heartbeat) \/ ReplayFails(Heartbeat)
        PROVE  BudgetIsOfLastSample' /\ [Policy!Next]_(Policy!vars)
    <2>1. /\ pc[Heartbeat] \in {"sleep", "replay"} /\ pc'[Heartbeat] = "idle"
          /\ recovery' = recovery
      BY <1>0, <1>3 DEF ReconnectFails, Replays, ReplayFails, End, TasksOK
    <2>2. Policy!Rebuilt
      BY <2>1 DEF Policy!Rebuilt
    <2> QED BY <1>0, <2>1, <2>2 DEF Policy!Next
  <1>4. ASSUME Reconnects(Heartbeat)
        PROVE  BudgetIsOfLastSample' /\ [Policy!Next]_(Policy!vars)
    <2>1. /\ pc[Heartbeat] = "sleep" /\ pc'[Heartbeat] = "replay"
          /\ recovery' = recovery
      BY <1>0, <1>4 DEF Reconnects, TasksOK
    <2> QED BY <1>0, <2>1, PolicyStutters DEF Seen, SpentOn, Verdict
  <1>5. ASSUME Skips(Heartbeat)
        PROVE  BudgetIsOfLastSample' /\ [Policy!Next]_(Policy!vars)
    <2>1. /\ pc[Heartbeat] = "skip" /\ pc'[Heartbeat] = "reset"
          /\ recovery' = recovery /\ job'[Heartbeat].held
      BY <1>0, <1>5 DEF Skips, TasksOK, NoJob
    <2>2. Policy!Skipped
      BY <2>1 DEF Policy!Skipped
    <2> QED BY <1>0, <2>1, <2>2 DEF Policy!Next
  <1>6. ASSUME Resets(Heartbeat)
        PROVE  BudgetIsOfLastSample' /\ [Policy!Next]_(Policy!vars)
    <2>1. /\ pc[Heartbeat] = "reset" /\ pc'[Heartbeat] = "idle"
          /\ recovery' = Renew(recovery)
      BY <1>0, <1>6 DEF Resets, End, TasksOK
    <2>2. recovery'.attempts = 0 /\ recovery'.last = recovery.last
      BY <1>0, <2>1 DEF Renew, RecoveryState
    <2> QED BY <2>1, <2>2, PolicyStutters DEF Seen, SpentOn, Verdict, Spent, MaxAttempts
  <1> QED BY <1>1, <1>2, <1>3, <1>4, <1>5, <1>6 DEF TaskStep

LEMMA PolicyElse ==
    ASSUME BudgetInv, World \/ ThrottleEnds \/ TickDropsState \/ TickProbes \/ ProbeFails
                      \/ UNCHANGED vars
    PROVE  BudgetIsOfLastSample' /\ [Policy!Next]_(Policy!vars)
  <1>0. recovery \in RecoveryState /\ TasksOK /\ Heartbeat \in Tasks /\ BudgetIsOfLastSample
    BY TypeParts DEF BudgetInv, Tasks
  <1>1. CASE World \/ UNCHANGED vars
    <2>1. UNCHANGED <<recovery, pc>> /\ job'[Heartbeat].held = job[Heartbeat].held
      BY <1>0, <1>1, LeftBehindTrack
         DEF World, UserJoins, UserPlays, UserEnqueues, UserPauses, UserLeaves,
             TrackEnds, VoiceChanges, TaskVars, vars
    <2> QED BY <1>0, <2>1, PolicyStutters DEF BudgetIsOfLastSample, Seen, SpentOn, Verdict
  <1>2. CASE ThrottleEnds
    <2>1. /\ UNCHANGED <<pc, job>> /\ recovery'.attempts = recovery.attempts
          /\ recovery'.bound = recovery.bound /\ recovery'.last = recovery.last
      BY <1>0, <1>2 DEF ThrottleEnds, RecoveryState
    <2> QED BY <1>0, <2>1, PolicyStutters
            DEF BudgetIsOfLastSample, Seen, SpentOn, Verdict, Spent
  <1>3. CASE TickDropsState
    <2>1. /\ recovery'.attempts = 0 /\ recovery'.last = NoTrack
          /\ pc[Heartbeat] = "idle" /\ pc' = pc
      BY <1>3 DEF TickDropsState, Fresh
    <2>2. Policy!PlayerGone
      BY <2>1 DEF Policy!PlayerGone, Spent, MaxAttempts
    <2> QED BY <2>1, <2>2 DEF Policy!Next, BudgetIsOfLastSample, Spent, MaxAttempts
  <1>4. CASE TickProbes \/ ProbeFails
    <2>1. /\ UNCHANGED recovery
          /\ pc[Heartbeat] \in {"idle", "probe"} /\ pc'[Heartbeat] \in {"idle", "probe"}
      BY <1>0, <1>4 DEF TickProbes, ProbeFails, End, TasksOK
    <2> QED BY <1>0, <2>1, PolicyStutters DEF BudgetIsOfLastSample, Seen, SpentOn, Verdict
  <1> QED BY <1>1, <1>2, <1>3, <1>4

LEMMA PolicyStep ==
    ASSUME BudgetInv, [Next]_vars, NoCloseEvent \/ UNCHANGED vars
    PROVE  BudgetInv' /\ [Policy!Next]_(Policy!vars)
  <1>1. TypeOK'
    BY TypeStep DEF BudgetInv
  <1>2. \/ World \/ ThrottleEnds \/ UNCHANGED vars
        \/ HeartbeatStep \/ TaskStep(Heartbeat)
    BY AloneSteps DEF BudgetInv
  <1>3. HandlersIdle'
    BY <1>2, HandlersStayIdle DEF BudgetInv
  <1>4. BudgetIsOfLastSample' /\ [Policy!Next]_(Policy!vars)
    BY <1>2, PolicySample, PolicyTask, PolicyElse DEF HeartbeatStep
  <1> QED BY <1>1, <1>3, <1>4 DEF BudgetInv

(* docs/prd.md:439: for every set of tracks and every queue, a heartbeat   *)
(* that no close event disturbs keeps the policy: while a track stays      *)
(* loaded the first confirmed wedge is retried and the next one skipped,   *)
(* and nothing but another track, or no player, renews the budget.         *)
THEOREM PolicyKept ==
    Spec /\ [][NoCloseEvent]_vars => OneRetryThenSkip
  <1>1. Init => BudgetInv /\ Policy!Init
    <2> SUFFICES ASSUME Init PROVE BudgetInv /\ Policy!Init
      OBVIOUS
    <2>1. recovery = Fresh /\ pc[Heartbeat] = "idle" /\ HandlersIdle
      BY DEF Init, Tasks, HandlersIdle
    <2> QED BY <2>1, InitType
            DEF BudgetInv, BudgetIsOfLastSample, Policy!Init, Fresh, Spent, MaxAttempts
  <1>2. BudgetInv /\ [Next]_vars /\ [NoCloseEvent]_vars
            => BudgetInv' /\ [Policy!Next]_(Policy!vars)
    BY PolicyStep
  <1> QED BY <1>1, <1>2, PTL DEF Spec, OneRetryThenSkip, Policy!Spec

==============================================================================
