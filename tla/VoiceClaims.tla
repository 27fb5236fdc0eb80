----------------------------- MODULE VoiceClaims -----------------------------
(***************************************************************************)
(* What comments and the runbook say of voice recovery, as properties of   *)
(* VoiceRecovery with the history they need.                               *)
(***************************************************************************)
EXTENDS VoiceRecovery

VARIABLE
    dismissed       \* a user stopped or kicked the bot and has not called it
                    \* back since

allVars == <<vars, dismissed>>

InitClaims == Init /\ dismissed = FALSE

CalledBack == UserJoins /\ dismissed' = FALSE

Dismissed == UserLeaves /\ dismissed' = TRUE

Others ==
    /\ \/ UserPlays \/ UserEnqueues \/ UserPauses \/ VoiceChanges \/ TrackEnds
       \/ HeartbeatStep
       \/ \E h \in Handlers : CloseEvent(h)
       \/ \E p \in Tasks : TaskStep(p)
       \/ ThrottleEnds
    /\ UNCHANGED dismissed

NextClaims == CalledBack \/ Dismissed \/ Others

SpecClaims == InitClaims /\ [][NextClaims]_allVars

-----------------------------------------------------------------------------
(* music.py:404-405: the charge precedes the reconnect so that a concurrent *)
(* heartbeat tick "can't double-fire": no two tasks rebuild the voice       *)
(* connection at one time.                                                 *)
NoDoubleFire ==
    \A p, q \in Tasks : {pc[p], pc[q]} \subseteq {"sleep", "replay"} => p = q

(* music.py:55-57 and docs/runbook.md:729-735: once a user has kicked or   *)
(* stopped the bot it does not reconnect by itself.                        *)
StaysOut == [][dismissed /\ dismissed' => (attached' => attached)]_allVars

==============================================================================
