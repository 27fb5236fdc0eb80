--------------------------- MODULE RecoveryPolicy ----------------------------
(***************************************************************************)
(* What voice recovery promises (docs/prd.md, decision of 2026-05-13):     *)
(* while a player's health is sampled and the same track stays loaded, the *)
(* first confirmed wedge earns one reconnect and the next one a skip.      *)
(* Budget is forgotten only when another track, or no player, is seen.     *)
(***************************************************************************)
CONSTANTS Tracks, NoTrack

VARIABLES
    seen,       \* the track of the last sample, NoTrack without one
    spent,      \* the track whose one retry is used, NoTrack if none is
    verdict     \* what is announced: "retry", "skip"; "rebuild" while the
                \* connection is being rebuilt; or "none"

vars == <<seen, spent, verdict>>

Init ==
    /\ seen = NoTrack
    /\ spent = NoTrack
    /\ verdict = "none"

StillSpent(t) == IF spent = t THEN spent ELSE NoTrack

(* A sample of track t that calls for nothing.                             *)
Sample(t) ==
    /\ seen' = t
    /\ spent' = StillSpent(t)
    /\ UNCHANGED verdict

(* A sample that confirms a wedge on the track of the sample before it.    *)
Decide(t, act) ==
    /\ t # NoTrack
    /\ seen = t
    /\ act = IF spent = t THEN "skip" ELSE "retry"
    /\ verdict' = act
    /\ UNCHANGED <<seen, spent>>

(* A retry is spent before the connection is touched; it may turn out that *)
(* there is nothing to rebuild.                                            *)
Retried ==
    /\ verdict = "retry"
    /\ verdict' \in {"rebuild", "none"}
    /\ spent' = seen
    /\ UNCHANGED seen

Rebuilt ==
    /\ verdict = "rebuild"
    /\ verdict' = "none"
    /\ UNCHANGED <<seen, spent>>

Skipped ==
    /\ verdict = "skip"
    /\ verdict' = "none"
    /\ spent' = NoTrack
    /\ UNCHANGED seen

(* The announcement fails, and nothing comes of the verdict.               *)
Abandoned ==
    /\ verdict \in {"retry", "skip"}
    /\ verdict' = "none"
    /\ UNCHANGED <<seen, spent>>

PlayerGone ==
    /\ verdict = "none"
    /\ seen' = NoTrack
    /\ spent' = NoTrack
    /\ UNCHANGED verdict

Next ==
    \/ /\ verdict = "none"
       /\ \E t \in Tracks \cup {NoTrack} :
             Sample(t) \/ \E act \in {"retry", "skip"} : Decide(t, act)
    \/ Retried \/ Rebuilt \/ Skipped \/ Abandoned
    \/ PlayerGone

Spec == Init /\ [][Next]_vars

==============================================================================
