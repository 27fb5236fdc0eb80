--------------------------- MODULE MusicQueueProofs ---------------------------
(***************************************************************************)
(* For any number of play commands, any cap on a playlist and any number   *)
(* of tracks: the order of the queue, what a play command may replace, and *)
(* how a player can be silent with tracks in its queue.                    *)
(***************************************************************************)
EXTENDS MusicQueue, SequenceTheorems, TLAPS

Jobs == [first : MaybeTrack, rest : 0 .. PlaylistCap - 1, mine : BOOLEAN]

(* A command that has started a track holds it.                            *)
StartingHasTrack == \A c \in Commands : pc[c] = "starting" => job[c].first # NoTrack

(* Nobody holds the player of a guild that has none.                       *)
PlayerIsHeld ==
    player = "none" => /\ current = NoTrack /\ ~advance
                       /\ \A c \in Commands : ~job[c].mine

(* Whoever starts tracks on a player has turned its autoplay on.           *)
AutoplayIsSet ==
    /\ current # NoTrack \/ advance => autoplay
    /\ \A c \in Commands :
          job[c].mine /\ pc[c] \in {"search", "starting"} => autoplay

(* StallsAreCut, for a player that is still joining as well.               *)
SilenceIsCut == current = NoTrack /\ queue # <<>> /\ ~advance => cut

NormalUnlessMixed == ~mixed => mode = "normal"

(* InOrder, without the sequence that puts top before the queue.           *)
Ascending(t, s) == \A i \in 1 .. Len(s) : (IF i = 1 THEN t ELSE s[i - 1]) < s[i]

QueueAscends == ~mixed => Ascending(top, queue)

PlainTypes ==
    /\ node \in {"none", "connecting", "connected"}
    /\ player \in {"none", "joining", "joined"}
    /\ mode \in Modes
    /\ autoplay \in BOOLEAN /\ advance \in BOOLEAN
    /\ mixed \in BOOLEAN /\ cut \in BOOLEAN

TrackTypes ==
    /\ accepted \in Nat
    /\ current \in MaybeTrack /\ loaded \in MaybeTrack /\ top \in MaybeTrack
    /\ queue \in Seq(Accepted) /\ past \in Seq(Accepted)

CommandTypes ==
    /\ pc \in [Commands -> Waits]
    /\ job \in [Commands -> Jobs]
    /\ StartingHasTrack

TypeInv == PlainTypes /\ TrackTypes /\ CommandTypes

IInv ==
    /\ TypeInv
    /\ PlayerIsHeld /\ AutoplayIsSet /\ SilenceIsCut
    /\ NormalUnlessMixed /\ QueueAscends

-----------------------------------------------------------------------------
(* Sequences of tracks.                                                    *)
LEMMA FreshIsSeq ==
    ASSUME NEW n \in Nat, accepted \in Nat
    PROVE  /\ Fresh(n) \in Seq(1 .. accepted + n)
           /\ Len(Fresh(n)) = n
           /\ \A i \in 1 .. n : Fresh(n)[i] = accepted + i
<1>1. Fresh(n) \in [1 .. n -> 1 .. accepted + n]
    BY DEF Fresh
<1>2. Fresh(n) \in Seq(1 .. accepted + n)
    BY <1>1, SeqDef
<1>3. \A i \in 1 .. n : Fresh(n)[i] = accepted + i
    BY DEF Fresh
<1>4. Len(Fresh(n)) = n
    BY <1>1, <1>2, LenProperties
<1> QED
    BY <1>2, <1>3, <1>4

LEMMA AscendingEmpty == \A t : Ascending(t, <<>>)
BY DEF Ascending

LEMMA AscendingFresh ==
    ASSUME accepted \in Nat, NEW t \in 0 .. accepted, NEW s \in Seq(Accepted),
           Ascending(t, s), NEW n \in Nat
    PROVE  Ascending(t, s \o Fresh(n))
<1> DEFINE r == s \o Fresh(n)
<1>1. s \in Seq(Nat) /\ Fresh(n) \in Seq(Nat) /\ \A i \in 1 .. Len(s) : s[i] \in 1 .. accepted
    <2>1. Accepted \subseteq Nat /\ 1 .. accepted + n \subseteq Nat
        BY DEF Accepted
    <2> QED
        BY <2>1, FreshIsSeq, SeqMonotonic, ElementOfSeq DEF Accepted
<1>2. /\ Len(r) = Len(s) + n
      /\ \A i \in 1 .. Len(s) + n : r[i] = IF i <= Len(s) THEN s[i] ELSE accepted + (i - Len(s))
    <2>1. Len(s) \in Nat /\ Len(Fresh(n)) = n
        BY FreshIsSeq, LenProperties
    <2>2. Len(r) = Len(s) + n
        BY <1>1, <2>1, ConcatProperties
    <2>3. \A i \in 1 .. Len(s) + n : r[i] = IF i <= Len(s) THEN s[i] ELSE Fresh(n)[i - Len(s)]
        BY <1>1, <2>1, ConcatProperties
    <2>4. \A i \in 1 .. Len(s) + n : i > Len(s) => i - Len(s) \in 1 .. n
        BY <2>1
    <2>5. \A i \in 1 .. Len(s) + n : i > Len(s) => Fresh(n)[i - Len(s)] = accepted + (i - Len(s))
        BY <2>4, FreshIsSeq
    <2> QED
        BY <2>1, <2>2, <2>3, <2>5
<1> HIDE DEF r
<1>3. Len(s) \in Nat
    BY LenProperties
<1>4. ASSUME NEW i \in 1 .. Len(r)
      PROVE  (IF i = 1 THEN t ELSE r[i - 1]) < r[i]
    <2>1. CASE i <= Len(s)
        <3>1. (IF i = 1 THEN t ELSE s[i - 1]) < s[i]
            BY <1>3, <2>1 DEF Ascending
        <3>2. r[i] = s[i] /\ (i # 1 => r[i - 1] = s[i - 1])
            BY <1>2, <1>3, <2>1
        <3> QED
            BY <3>1, <3>2
    <2>2. CASE i > Len(s)
        <3>1. r[i] = accepted + (i - Len(s))
            BY <1>2, <1>3, <2>2
        <3>2. i # 1 => r[i - 1] = IF i - 1 <= Len(s) THEN s[i - 1]
                                  ELSE accepted + ((i - 1) - Len(s))
            BY <1>2, <1>3, <2>2
        <3>3. i # 1 /\ i - 1 <= Len(s) => s[i - 1] \in 1 .. accepted
            BY <1>1, <1>3, <2>2
        <3> QED
            BY <1>3, <2>2, <3>1, <3>2, <3>3
    <2> QED
        BY <1>2, <1>3, <2>1, <2>2
<1> QED
    BY <1>4 DEF Ascending, r

LEMMA AscendingTail ==
    ASSUME accepted \in Nat, NEW t \in 0 .. accepted, NEW s \in Seq(Accepted),
           Ascending(t, s), s # <<>>
    PROVE  /\ t < Head(s)
           /\ Ascending(Head(s), Tail(s)) /\ Ascending(t, Tail(s))
<1>1. /\ Len(s) \in Nat /\ Len(s) > 0 /\ Len(Tail(s)) = Len(s) - 1
      /\ \A i \in 1 .. Len(Tail(s)) : Tail(s)[i] = s[i + 1]
    BY LenProperties, EmptySeq, HeadTailProperties
<1>2. Head(s) = s[1] /\ \A i \in 1 .. Len(s) : s[i] \in 1 .. accepted
    BY <1>1, ElementOfSeq DEF Accepted
<1>3. t < s[1] /\ \A i \in 2 .. Len(s) : s[i - 1] < s[i]
    BY <1>1 DEF Ascending
<1>4. \A i \in 1 .. Len(Tail(s)) : (IF i = 1 THEN s[1] ELSE Tail(s)[i - 1]) < Tail(s)[i]
    BY <1>1, <1>3
<1>5. \A i \in 1 .. Len(Tail(s)) : (IF i = 1 THEN t ELSE Tail(s)[i - 1]) < Tail(s)[i]
    BY <1>1, <1>2, <1>3
<1> QED
    BY <1>2, <1>3, <1>4, <1>5 DEF Ascending

(* What play commands and the queue hold stays among the accepted.         *)
LEMMA Grows ==
    ASSUME accepted \in Nat, accepted' \in Nat, accepted <= accepted'
    PROVE  /\ MaybeTrack \subseteq MaybeTrack'
           /\ \A s \in Seq(Accepted) : s \in Seq(Accepted')
           /\ Jobs \subseteq Jobs'
<1>1. Accepted \subseteq Accepted' /\ MaybeTrack \subseteq MaybeTrack'
    BY DEF Accepted, MaybeTrack
<1>2. \A s \in Seq(Accepted) : s \in Seq(Accepted')
    BY <1>1, SeqMonotonic
<1> QED
    BY <1>1, <1>2 DEF Jobs

LEMMA ShuffledType ==
    ASSUME NEW S, NEW s \in Seq(S), NEW p \in Bijection(1 .. Len(s), 1 .. Len(s))
    PROVE  /\ [i \in 1 .. Len(s) |-> s[p[i]]] \in Seq(S)
           /\ s = <<>> => [i \in 1 .. Len(s) |-> s[p[i]]] = <<>>
<1>1. Len(s) \in Nat /\ p \in [1 .. Len(s) -> 1 .. Len(s)]
    BY LenProperties DEF Bijection, Injection, Surjection
<1>2. [i \in 1 .. Len(s) |-> s[p[i]]] \in [1 .. Len(s) -> S]
    BY <1>1, ElementOfSeq
<1>3. [i \in 1 .. Len(s) |-> s[p[i]]] \in Seq(S)
    BY <1>1, <1>2, SeqDef
<1>4. Len([i \in 1 .. Len(s) |-> s[p[i]]]) = Len(s)
    BY <1>1, <1>2, <1>3, LenProperties
<1> QED
    BY <1>3, <1>4, EmptySeq

LEMMA ResolvedType == \A n \in Resolved : n \in 1 .. PlaylistCap
BY SizeAssumption DEF Resolved, Truncated


-----------------------------------------------------------------------------
(* What the recurring parts of the actions do to the types.                *)
LEMMA TypeParts == TypeInv => TypeOK
BY DEF TypeInv, PlainTypes, TrackTypes, CommandTypes, Jobs, TypeOK

LEMMA DestroyedType ==
    ASSUME TypeInv, Destroyed, UNCHANGED <<node, accepted, top>>
    PROVE  PlainTypes' /\ TrackTypes'
<1>1. /\ autoplay' \in BOOLEAN /\ advance' \in BOOLEAN
      /\ mixed' \in BOOLEAN /\ cut' \in BOOLEAN
    BY DEF Destroyed
<1>2. PlainTypes'
    BY <1>1 DEF TypeInv, PlainTypes, Destroyed, Modes
<1>3. <<>> \in Seq(Accepted') /\ Accepted' = Accepted /\ MaybeTrack' = MaybeTrack
    BY EmptySeq DEF Accepted, MaybeTrack
<1>4. TrackTypes'
    BY <1>3 DEF TypeInv, TrackTypes, Destroyed, MaybeTrack
<1> QED
    BY <1>2, <1>4

LEMMA NoJobType == NoJob \in Jobs'
BY SizeAssumption DEF NoJob, Jobs, MaybeTrack

LEMMA EndType ==
    ASSUME TypeInv, NEW c \in Commands, End(c), accepted' \in Nat, accepted <= accepted'
    PROVE  CommandTypes'
<1>1. Jobs \subseteq Jobs' /\ NoJob \in Jobs'
    BY Grows, NoJobType DEF TypeInv, TrackTypes
<1>2. pc' \in [Commands -> Waits]
    BY DEF TypeInv, CommandTypes, End, Goes, Waits
<1>3. job' \in [Commands -> Jobs']
    BY <1>1 DEF TypeInv, CommandTypes, End
<1>4. StartingHasTrack'
    BY DEF TypeInv, CommandTypes, End, Goes, StartingHasTrack
<1> QED
    BY <1>2, <1>3, <1>4 DEF CommandTypes

(* The commands lose the player, or one gets it; their tracks stay.        *)
LEMMA HoldType ==
    ASSUME TypeInv, UNCHANGED accepted,
           AllLetGo \/ \E c \in Commands : job' = [job EXCEPT ![c].mine = TRUE]
    PROVE  /\ job' \in [Commands -> Jobs']
           /\ \A c \in Commands : job'[c].first = job[c].first
<1>1. Jobs' = Jobs /\ job \in [Commands -> Jobs]
    BY DEF Jobs, MaybeTrack, Accepted, TypeInv, CommandTypes
<1>2. \A j \in Jobs, b \in BOOLEAN : /\ [j EXCEPT !.mine = b] \in Jobs
                                      /\ [j EXCEPT !.mine = b].first = j.first
    BY DEF Jobs
<1>3. CASE AllLetGo
    BY <1>1, <1>2, <1>3 DEF AllLetGo
<1>4. ASSUME NEW c \in Commands, job' = [job EXCEPT ![c].mine = TRUE]
      PROVE  /\ job' \in [Commands -> Jobs']
             /\ \A d \in Commands : job'[d].first = job[d].first
    <2>1. job' = [job EXCEPT ![c] = [job[c] EXCEPT !.mine = TRUE]]
        BY <1>4
    <2> QED
        BY <1>1, <1>2, <2>1
<1> QED
    BY <1>3, <1>4

LEMMA GoesType ==
    ASSUME TypeInv, UNCHANGED accepted, NEW c \in Commands,
           NEW x \in Waits \ {"starting"}, Goes(c, x),
           job' \in [Commands -> Jobs'], \A d \in Commands : job'[d].first = job[d].first
    PROVE  CommandTypes'
<1>1. pc' \in [Commands -> Waits]
    BY DEF TypeInv, CommandTypes, Goes
<1>2. StartingHasTrack'
    BY DEF TypeInv, CommandTypes, Goes, StartingHasTrack
<1> QED
    BY <1>1, <1>2 DEF CommandTypes

LEMMA GoesOnlyType ==
    ASSUME TypeInv, UNCHANGED <<accepted, job>>, NEW c \in Commands,
           NEW x \in Waits \ {"starting"}, Goes(c, x)
    PROVE  CommandTypes'
<1>1. Jobs' = Jobs
    BY DEF Jobs, MaybeTrack, Accepted
<1> QED
    BY <1>1, GoesType DEF TypeInv, CommandTypes

-----------------------------------------------------------------------------
(* The types, action by action.                                            *)
(* Steps of a command that leave player, queue and history alone.          *)
Quiet(c) ==
    \/ Begin(c) \/ NodeIsReady(c) \/ NodeIsAbsent(c) \/ EvictEnds(c)
    \/ PoolConnects(c) \/ PollEnds(c) \/ Fails(c) \/ PlaysToNobody(c)

LEMMA QuietKeeps ==
    ASSUME NEW c \in Commands, Quiet(c)
    PROVE  UNCHANGED <<player, autoplay, current, queue, past, loaded, mode, advance,
                       accepted, top, mixed, cut>>
BY DEF Quiet, Begin, NodeIsReady, NodeIsAbsent, EvictEnds, PoolConnects, PollEnds, Fails,
       PlaysToNobody, playerVars, queueVars, historyVars

LEMMA SameTracks ==
    ASSUME TypeInv, UNCHANGED <<current, queue, past, loaded, accepted, top>>
    PROVE  TrackTypes'
BY DEF TypeInv, TrackTypes, MaybeTrack, Accepted

LEMMA SameCommands ==
    ASSUME TypeInv, UNCHANGED <<pc, job, accepted>>
    PROVE  CommandTypes'
BY DEF TypeInv, CommandTypes, Jobs, MaybeTrack, Accepted, StartingHasTrack

LEMMA QuietType ==
    ASSUME TypeInv, NEW c \in Commands, Quiet(c)
    PROVE  TypeInv'
<1>1. TrackTypes'
    BY QuietKeeps, SameTracks
<1>2. node' \in {"none", "connecting", "connected"}
    BY DEF TypeInv, PlainTypes, Quiet, Begin, NodeIsReady, NodeIsAbsent, EvictEnds,
           PoolConnects, PollEnds, Fails, PlaysToNobody
<1>3. PlainTypes'
    BY <1>2, QuietKeeps DEF TypeInv, PlainTypes
<1>4. CASE Begin(c) \/ NodeIsReady(c) \/ NodeIsAbsent(c) \/ EvictEnds(c)
           \/ PoolConnects(c) \/ PollEnds(c)
    <2>1. UNCHANGED <<accepted, job>>
        BY <1>4 DEF Begin, NodeIsReady, NodeIsAbsent, EvictEnds, PoolConnects, PollEnds
    <2>2. \E x \in Waits \ {"starting"} : Goes(c, x)
        BY <1>4 DEF Begin, NodeIsReady, NodeIsAbsent, EvictEnds, PoolConnects, PollEnds, Waits
    <2>3. CommandTypes'
        BY <2>1, <2>2, GoesOnlyType
    <2> QED
        BY <1>1, <1>3, <2>3 DEF TypeInv
<1>5. CASE Fails(c) \/ PlaysToNobody(c)
    <2>1. End(c) /\ UNCHANGED accepted /\ accepted \in Nat
        BY <1>5 DEF Fails, PlaysToNobody, TypeInv, TrackTypes
    <2>2. CommandTypes'
        BY <2>1, EndType
    <2> QED
        BY <1>1, <1>3, <2>2 DEF TypeInv
<1> QED
    BY <1>4, <1>5 DEF Quiet

LEMMA JoinType ==
    ASSUME TypeInv, NEW c \in Commands,
           EvictBegins(c) \/ JoinBegins(c) \/ FindsPlayer(c)
           \/ MoveBegins(c) \/ Moves(c) \/ Joins(c) \/ JoinFails(c)
    PROVE  TypeInv'
<1>1. CASE EvictBegins(c)
    <2>1. Goes(c, "evict") /\ UNCHANGED <<node, accepted>>
        BY <1>1 DEF EvictBegins
    <2>2. CASE Destroyed /\ AllLetGo /\ UNCHANGED top
        <3>1. PlainTypes' /\ TrackTypes'
            BY <2>1, <2>2, DestroyedType
        <3>2. CommandTypes'
            BY <2>1, <2>2, HoldType, GoesType DEF Waits
        <3> QED
            BY <3>1, <3>2 DEF TypeInv
    <2>3. CASE UNCHANGED <<playerVars, job, historyVars>>
        <3>1. TrackTypes' /\ PlainTypes'
            BY <2>1, <2>3, SameTracks
               DEF playerVars, queueVars, historyVars, TypeInv, PlainTypes
        <3>2. CommandTypes'
            BY <2>1, <2>3, GoesOnlyType DEF Waits
        <3> QED
            BY <3>1, <3>2 DEF TypeInv
    <2> QED
        BY <1>1, <2>2, <2>3 DEF EvictBegins
<1>2. CASE JoinBegins(c)
    <2>1. PlainTypes' /\ TrackTypes'
        BY <1>2, SameTracks DEF JoinBegins, TypeInv, PlainTypes, queueVars, historyVars
    <2>2. CommandTypes'
        BY <1>2, HoldType, GoesType DEF JoinBegins, Waits
    <2> QED
        BY <2>1, <2>2 DEF TypeInv
<1>3. CASE FindsPlayer(c)
    <2>1. autoplay' \in BOOLEAN
        BY <1>3 DEF FindsPlayer, SetsAutoplay
    <2>2. PlainTypes' /\ TrackTypes'
        BY <1>3, <2>1, SameTracks DEF FindsPlayer, TypeInv, PlainTypes, queueVars, historyVars
    <2>3. CommandTypes'
        BY <1>3, HoldType, GoesType DEF FindsPlayer, Waits
    <2> QED
        BY <2>2, <2>3 DEF TypeInv
<1>4. CASE MoveBegins(c)
    <2>1. PlainTypes' /\ TrackTypes'
        BY <1>4, SameTracks DEF MoveBegins, TypeInv, PlainTypes, playerVars, queueVars, historyVars
    <2>2. CommandTypes'
        BY <1>4, HoldType, GoesType DEF MoveBegins, Waits
    <2> QED
        BY <2>1, <2>2 DEF TypeInv
<1>5. CASE Moves(c)
    <2>1. autoplay' \in BOOLEAN
        BY <1>5 DEF Moves, SetsAutoplay, TypeInv, PlainTypes
    <2>2. PlainTypes' /\ TrackTypes'
        BY <1>5, <2>1, SameTracks DEF Moves, TypeInv, PlainTypes, queueVars, historyVars
    <2>3. CommandTypes'
        BY <1>5, GoesOnlyType DEF Moves, Waits
    <2> QED
        BY <2>2, <2>3 DEF TypeInv
<1>6. CASE Joins(c)
    <2>1. autoplay' \in BOOLEAN
        BY <1>6 DEF Joins, SetsAutoplay
    <2>2. PlainTypes' /\ TrackTypes'
        BY <1>6, <2>1, SameTracks DEF Joins, TypeInv, PlainTypes, queueVars, historyVars
    <2>3. CommandTypes'
        BY <1>6, GoesOnlyType DEF Joins, Waits
    <2> QED
        BY <2>2, <2>3 DEF TypeInv
<1>7. CASE JoinFails(c)
    <2>1. PlainTypes' /\ TrackTypes'
        BY <1>7, DestroyedType DEF JoinFails
    <2>2. CommandTypes'
        BY <1>7, HoldType, GoesType DEF JoinFails, Waits
    <2> QED
        BY <2>1, <2>2 DEF TypeInv
<1> QED
    BY <1>1, <1>2, <1>3, <1>4, <1>5, <1>6, <1>7

LEMMA FoundType ==
    ASSUME TypeInv, NEW c \in Commands, NEW n \in Resolved,
           PlaysFirst(c, n) \/ PutsAll(c, n)
    PROVE  TypeInv'
<1>0. n \in 1 .. PlaylistCap /\ n \in Nat /\ accepted \in Nat
    BY ResolvedType, SizeAssumption DEF TypeInv, TrackTypes
<1>1. CASE PlaysFirst(c, n)
    <2>1. /\ accepted' = accepted + 1
          /\ current' = accepted + 1 /\ loaded' = accepted + 1
          /\ top' \in {accepted + 1, top}
          /\ UNCHANGED <<queue, past, node, player, autoplay, mode, advance, mixed>>
        BY <1>1 DEF PlaysFirst, Starts
    <2>2. /\ accepted' \in Nat /\ accepted + 1 \in Accepted'
          /\ MaybeTrack \subseteq MaybeTrack' /\ Jobs \subseteq Jobs'
          /\ \A s \in Seq(Accepted) : s \in Seq(Accepted')
        BY <1>0, <2>1, Grows DEF Accepted
    <2>3. TrackTypes'
        BY <2>1, <2>2 DEF TypeInv, TrackTypes, MaybeTrack
    <2>4. cut' \in BOOLEAN
        BY <1>1 DEF PlaysFirst, Starts
    <2>5. PlainTypes'
        BY <2>1, <2>4 DEF TypeInv, PlainTypes
    <2> DEFINE j == [job[c] EXCEPT !.first = accepted + 1, !.rest = n - 1]
    <2>6. /\ job \in [Commands -> Jobs] /\ pc \in [Commands -> Waits] /\ StartingHasTrack
          /\ job' = [job EXCEPT ![c] = j] /\ pc' = [pc EXCEPT ![c] = "starting"]
        BY <1>1 DEF PlaysFirst, Goes, TypeInv, CommandTypes
    <2>7. n - 1 \in 0 .. PlaylistCap - 1
        BY <1>0, SizeAssumption
    <2>8. j \in Jobs' /\ j.first = accepted + 1
        BY <2>2, <2>6, <2>7 DEF Jobs, MaybeTrack
    <2> HIDE DEF j
    <2>9. job' \in [Commands -> Jobs'] /\ pc' \in [Commands -> Waits]
        BY <2>2, <2>6, <2>8 DEF Waits
    <2>10. StartingHasTrack'
        BY <1>0, <2>6, <2>8 DEF StartingHasTrack, NoTrack
    <2> QED
        BY <2>3, <2>5, <2>9, <2>10 DEF TypeInv, CommandTypes
<1>2. CASE PutsAll(c, n)
    <2>1. /\ accepted' = accepted + n /\ queue' = queue \o Fresh(n) /\ End(c)
          /\ UNCHANGED <<node, player, autoplay, current, past, loaded, mode, advance,
                         top, mixed, cut>>
        BY <1>2 DEF PutsAll, historyVars
    <2>2. /\ accepted' \in Nat /\ accepted <= accepted'
          /\ MaybeTrack \subseteq MaybeTrack'
          /\ \A s \in Seq(Accepted) : s \in Seq(Accepted')
        BY <1>0, <2>1, Grows
    <2>3. Fresh(n) \in Seq(Accepted')
        BY <1>0, <2>1, FreshIsSeq DEF Accepted
    <2>4. queue' \in Seq(Accepted')
        BY <2>1, <2>2, <2>3, ConcatProperties DEF TypeInv, TrackTypes
    <2>5. TrackTypes'
        BY <2>1, <2>2, <2>4 DEF TypeInv, TrackTypes
    <2>6. PlainTypes' /\ CommandTypes'
        BY <2>1, <2>2, EndType DEF TypeInv, PlainTypes
    <2> QED
        BY <2>5, <2>6 DEF TypeInv
<1> QED
    BY <1>1, <1>2

LEMMA StartType ==
    ASSUME TypeInv, NEW c \in Commands, StartReturns(c) \/ StartFails(c)
    PROVE  TypeInv'
<1>0. /\ accepted \in Nat /\ job[c].rest \in Nat
      /\ pc[c] = "starting" => job[c].first \in Accepted
    BY SizeAssumption DEF TypeInv, TrackTypes, CommandTypes, Jobs, StartingHasTrack, MaybeTrack
<1>1. CASE StartReturns(c)
    <2>1. /\ At(c, "starting") /\ End(c)
          /\ UNCHANGED <<node, player, autoplay, current, loaded, mode, advance, top, mixed>>
        BY <1>1 DEF StartReturns
    <2>2. cut' \in BOOLEAN
        <3>1. CASE job[c].mine
            BY <1>1, <3>1 DEF StartReturns
        <3>2. CASE ~job[c].mine
            BY <1>1, <3>2 DEF StartReturns, TypeInv, PlainTypes
        <3> QED
            BY <3>1, <3>2
    <2>3. PlainTypes'
        BY <2>1, <2>2 DEF TypeInv, PlainTypes
    <2>4. \/ UNCHANGED <<queue, accepted, past>>
          \/ /\ accepted' = accepted + job[c].rest
             /\ queue' = queue \o Fresh(job[c].rest)
             /\ past' = Append(past, job[c].first)
        BY <1>1 DEF StartReturns, Rest
    <2>5. /\ accepted' \in Nat /\ accepted <= accepted'
          /\ MaybeTrack \subseteq MaybeTrack'
          /\ \A s \in Seq(Accepted) : s \in Seq(Accepted')
        BY <1>0, <2>4, Grows
    <2>6. CASE UNCHANGED <<queue, accepted, past>>
        BY <2>1, <2>3, <2>5, <2>6, EndType, SameTracks DEF TypeInv
    <2>7. CASE /\ accepted' = accepted + job[c].rest
               /\ queue' = queue \o Fresh(job[c].rest)
               /\ past' = Append(past, job[c].first)
        <3>1. Fresh(job[c].rest) \in Seq(Accepted')
            BY <1>0, <2>7, FreshIsSeq DEF Accepted
        <3>2. queue' \in Seq(Accepted')
            BY <2>5, <2>7, <3>1, ConcatProperties DEF TypeInv, TrackTypes
        <3>3. past' \in Seq(Accepted')
            BY <1>0, <2>1, <2>5, <2>7, AppendProperties DEF TypeInv, TrackTypes, At
        <3>4. TrackTypes'
            BY <2>1, <2>5, <3>2, <3>3 DEF TypeInv, TrackTypes
        <3> QED
            BY <2>1, <2>3, <2>5, <3>4, EndType DEF TypeInv
    <2> QED
        BY <2>4, <2>6, <2>7
<1>2. CASE StartFails(c)
    <2>1. /\ End(c) /\ current' \in {NoTrack, current}
          /\ UNCHANGED <<node, player, autoplay, queue, past, loaded, mode, advance,
                         accepted, top, mixed>>
        BY <1>2 DEF StartFails, queueVars
    <2>2. cut' \in BOOLEAN
        <3>1. CASE job[c].mine
            BY <1>2, <3>1 DEF StartFails
        <3>2. CASE ~job[c].mine
            BY <1>2, <3>2 DEF StartFails, TypeInv, PlainTypes
        <3> QED
            BY <3>1, <3>2
    <2>3. PlainTypes' /\ TrackTypes'
        BY <2>1, <2>2 DEF TypeInv, PlainTypes, TrackTypes, MaybeTrack, Accepted
    <2> QED
        BY <1>0, <2>1, <2>3, EndType DEF TypeInv
<1> QED
    BY <1>1, <1>2

LEMMA UsersType ==
    ASSUME TypeInv, Users
    PROVE  TypeInv'
<1>1. CASE Skip
    <2>1. PlainTypes'
        BY <1>1 DEF Skip, TypeInv, PlainTypes, historyVars
    <2>2. TrackTypes' /\ CommandTypes'
        BY <1>1, SameCommands DEF Skip, TypeInv, TrackTypes, MaybeTrack, Accepted,
           historyVars, commandVars
    <2> QED
        BY <2>1, <2>2 DEF TypeInv
<1>2. CASE StopAndDisconnect
    <2>1. PlainTypes' /\ TrackTypes'
        BY <1>2, DestroyedType DEF StopAndDisconnect
    <2>2. job' \in [Commands -> Jobs'] /\ \A c \in Commands : job'[c].first = job[c].first
        BY <1>2, HoldType DEF StopAndDisconnect
    <2>3. CommandTypes'
        BY <1>2, <2>2 DEF StopAndDisconnect, TypeInv, CommandTypes, StartingHasTrack
    <2> QED
        BY <2>1, <2>3 DEF TypeInv
<1>3. CASE ClearQueue
    <2>1. PlainTypes' /\ CommandTypes'
        BY <1>3, SameCommands DEF ClearQueue, TypeInv, PlainTypes, commandVars, historyVars
    <2>2. TrackTypes'
        BY <1>3, EmptySeq DEF ClearQueue, TypeInv, TrackTypes, MaybeTrack, Accepted, historyVars
    <2> QED
        BY <2>1, <2>2 DEF TypeInv
<1>4. CASE Shuffle
    <2>1. mixed' \in BOOLEAN
        BY <1>4 DEF Shuffle
    <2>2. PlainTypes' /\ CommandTypes'
        BY <1>4, <2>1, SameCommands DEF Shuffle, TypeInv, PlainTypes, commandVars
    <2>3. queue' \in Seq(Accepted)
        BY <1>4, ShuffledType DEF Shuffle, TypeInv, TrackTypes
    <2>4. TrackTypes'
        BY <1>4, <2>3 DEF Shuffle, TypeInv, TrackTypes, MaybeTrack, Accepted
    <2> QED
        BY <2>2, <2>4 DEF TypeInv
<1>5. CASE SetLoop
    <2>1. mixed' \in BOOLEAN
        BY <1>5 DEF SetLoop
    <2>2. PlainTypes' /\ CommandTypes' /\ TrackTypes'
        BY <1>5, <2>1, SameCommands, SameTracks DEF SetLoop, TypeInv, PlainTypes, commandVars
    <2> QED
        BY <2>2 DEF TypeInv
<1> QED
    BY <1>1, <1>2, <1>3, <1>4, <1>5 DEF Users

(* What is taken from the queue, or from the history that refills it.      *)
LEMMA UpcomingType ==
    ASSUME TypeInv, Upcoming # <<>>
    PROVE  /\ Head(Upcoming) \in Accepted /\ Tail(Upcoming) \in Seq(Accepted)
           /\ Append(Kept, Head(Upcoming)) \in Seq(Accepted)
<1>1. Upcoming \in Seq(Accepted) /\ Kept \in Seq(Accepted)
    BY EmptySeq DEF Upcoming, Kept, TypeInv, TrackTypes
<1>2. Head(Upcoming) \in Accepted /\ Tail(Upcoming) \in Seq(Accepted)
    BY <1>1, HeadTailProperties
<1> QED
    BY <1>1, <1>2, AppendProperties

LEMMA ExternalType ==
    ASSUME TypeInv, External
    PROVE  TypeInv'
<1>1. CASE NodeMoves
    BY <1>1, SameCommands, SameTracks DEF NodeMoves, TypeInv, PlainTypes,
       playerVars, queueVars, commandVars, historyVars
<1>2. CASE TrackEnds
    <2>1. PlainTypes'
        BY <1>2 DEF TrackEnds, TypeInv, PlainTypes, queueVars, historyVars
    <2>2. TrackTypes' /\ CommandTypes'
        BY <1>2, SameCommands DEF TrackEnds, TypeInv, TrackTypes, MaybeTrack, Accepted,
           queueVars, historyVars, commandVars
    <2> QED
        BY <2>1, <2>2 DEF TypeInv
<1>3. CASE Advances
    <2>1. /\ advance' = FALSE /\ cut' = FALSE
          /\ UNCHANGED <<node, player, autoplay, mode, pc, job, accepted, mixed>>
        BY <1>3 DEF Advances, Starts, commandVars
    <2>2. advance' \in BOOLEAN /\ cut' \in BOOLEAN
        BY <2>1
    <2>3. PlainTypes' /\ CommandTypes'
        BY <2>1, <2>2, SameCommands DEF TypeInv, PlainTypes
    <2>4. PICK t \in Accepted : Starts(t) /\ queue' \in Seq(Accepted) /\ past' \in Seq(Accepted)
        BY <1>3, UpcomingType DEF Advances, TypeInv, TrackTypes, MaybeTrack
    <2>5. TrackTypes'
        BY <2>1, <2>4 DEF TypeInv, TrackTypes, MaybeTrack, Accepted, Starts
    <2> QED
        BY <2>3, <2>5 DEF TypeInv
<1>4. CASE AdvanceEnds
    <2>1. /\ advance' = FALSE
          /\ UNCHANGED <<node, player, autoplay, current, past, loaded, mode, pc, job,
                         accepted, top, mixed>>
        BY <1>4 DEF AdvanceEnds, commandVars
    <2>2. advance' \in BOOLEAN /\ cut' \in BOOLEAN
        BY <1>4 DEF AdvanceEnds
    <2>3. PlainTypes' /\ CommandTypes'
        BY <2>1, <2>2, SameCommands DEF TypeInv, PlainTypes
    <2>4. queue' \in Seq(Accepted)
        BY <1>4, HeadTailProperties DEF AdvanceEnds, TypeInv, TrackTypes
    <2>5. TrackTypes'
        BY <2>1, <2>4 DEF TypeInv, TrackTypes, MaybeTrack, Accepted
    <2> QED
        BY <2>3, <2>5 DEF TypeInv
<1> QED
    BY <1>1, <1>2, <1>3, <1>4 DEF External

LEMMA TypeStep == TypeInv /\ [Next]_vars => TypeInv'
<1> SUFFICES ASSUME TypeInv, [Next]_vars PROVE TypeInv'
    OBVIOUS
<1>1. ASSUME NEW c \in Commands, PlayStep(c)
      PROVE  TypeInv'
    BY <1>1, QuietType, JoinType, FoundType, StartType DEF PlayStep, Quiet
<1>2. CASE UNCHANGED vars
    BY <1>2, SameCommands, SameTracks DEF TypeInv, PlainTypes, vars, playerVars, queueVars,
       commandVars, historyVars
<1> QED
    BY <1>1, <1>2, UsersType, ExternalType DEF Next

-----------------------------------------------------------------------------
(* Who holds the player, and whether it goes on by itself.                 *)
LEMMA JobTypes ==
    ASSUME TypeInv
    PROVE  /\ job \in [Commands -> Jobs] /\ pc \in [Commands -> Waits]
           /\ \A c \in Commands : job[c].mine \in BOOLEAN /\ job[c].rest \in Nat
BY SizeAssumption DEF TypeInv, CommandTypes, Jobs

LEMMA HeldStep ==
    ASSUME TypeInv, PlayerIsHeld, [Next]_vars
    PROVE  PlayerIsHeld'
<1> USE JobTypes DEF PlayerIsHeld
<1>1. ASSUME NEW c \in Commands, Quiet(c)
      PROVE  PlayerIsHeld'
    BY <1>1 DEF Quiet, Begin, NodeIsReady, NodeIsAbsent, EvictEnds, PoolConnects, PollEnds,
       Fails, PlaysToNobody, playerVars, End, NoJob
<1>2. ASSUME NEW c \in Commands, EvictBegins(c) \/ JoinFails(c)
      PROVE  PlayerIsHeld'
    BY <1>2 DEF EvictBegins, JoinFails, Destroyed, AllLetGo, playerVars, Jobs
<1>3. ASSUME NEW c \in Commands, JoinBegins(c) \/ FindsPlayer(c)
                             \/ MoveBegins(c) \/ Moves(c) \/ Joins(c)
      PROVE  PlayerIsHeld'
    BY <1>3 DEF JoinBegins, FindsPlayer, MoveBegins, Moves, Joins, playerVars
<1>4. ASSUME NEW c \in Commands, NEW n \in Resolved, PlaysFirst(c, n) \/ PutsAll(c, n)
      PROVE  PlayerIsHeld'
    BY <1>4 DEF PlaysFirst, PutsAll, Found
<1>5. ASSUME NEW c \in Commands, StartReturns(c) \/ StartFails(c)
      PROVE  PlayerIsHeld'
    BY <1>5 DEF StartReturns, StartFails, End, NoJob, queueVars
<1>6. CASE StopAndDisconnect
    BY <1>6 DEF StopAndDisconnect, Destroyed, AllLetGo, Jobs
<1>7. CASE Skip \/ ClearQueue \/ Shuffle \/ SetLoop
    BY <1>7 DEF Skip, Playing, ClearQueue, Shuffle, SetLoop, commandVars
<1>8. CASE External
    BY <1>8 DEF External, NodeMoves, TrackEnds, Advances, AdvanceEnds, playerVars, commandVars
<1>9. CASE UNCHANGED vars
    BY <1>9 DEF vars, playerVars, commandVars
<1> QED
    BY <1>1, <1>2, <1>3, <1>4, <1>5, <1>6, <1>7, <1>8, <1>9 DEF Next, PlayStep, Quiet, Users

LEMMA AutoplayStep ==
    ASSUME TypeInv, PlayerIsHeld, AutoplayIsSet, [Next]_vars
    PROVE  AutoplayIsSet'
<1> USE JobTypes DEF AutoplayIsSet
<1>1. ASSUME NEW c \in Commands, Quiet(c)
      PROVE  AutoplayIsSet'
    BY <1>1 DEF Quiet, Begin, NodeIsReady, NodeIsAbsent, EvictEnds, PoolConnects, PollEnds,
       Fails, PlaysToNobody, playerVars, End, NoJob, Goes
<1>2. ASSUME NEW c \in Commands, EvictBegins(c) \/ JoinFails(c)
      PROVE  AutoplayIsSet'
    BY <1>2 DEF EvictBegins, JoinFails, Destroyed, AllLetGo, playerVars, Jobs, Goes
<1>3. ASSUME NEW c \in Commands, JoinBegins(c) \/ FindsPlayer(c)
                             \/ MoveBegins(c) \/ Moves(c) \/ Joins(c)
      PROVE  AutoplayIsSet'
    BY <1>3 DEF JoinBegins, FindsPlayer, MoveBegins, Moves, Joins, Goes,
       SetsAutoplay, PlayerIsHeld, playerVars
<1>4. ASSUME NEW c \in Commands, NEW n \in Resolved, PlaysFirst(c, n) \/ PutsAll(c, n)
      PROVE  AutoplayIsSet'
    BY <1>4 DEF PlaysFirst, PutsAll, Found, At, Goes, End, NoJob
<1>5. ASSUME NEW c \in Commands, StartReturns(c) \/ StartFails(c)
      PROVE  AutoplayIsSet'
    BY <1>5 DEF StartReturns, StartFails, End, NoJob, Goes, queueVars
<1>6. CASE StopAndDisconnect
    BY <1>6 DEF StopAndDisconnect, Destroyed, AllLetGo, Jobs
<1>7. CASE Skip \/ ClearQueue \/ Shuffle \/ SetLoop
    BY <1>7 DEF Skip, Playing, ClearQueue, Shuffle, SetLoop, commandVars
<1>8. CASE External
    BY <1>8 DEF External, NodeMoves, TrackEnds, Advances, AdvanceEnds, playerVars, commandVars
<1>9. CASE UNCHANGED vars
    BY <1>9 DEF vars, playerVars, commandVars
<1> QED
    BY <1>1, <1>2, <1>3, <1>4, <1>5, <1>6, <1>7, <1>8, <1>9 DEF Next, PlayStep, Quiet, Users

-----------------------------------------------------------------------------
(* How a player with tracks in its queue becomes silent.                   *)
LEMMA FreshNone == ASSUME accepted \in Nat PROVE Fresh(0) = <<>>
BY FreshIsSeq, EmptySeq

LEMMA SilenceStep ==
    ASSUME TypeInv, AutoplayIsSet, SilenceIsCut, [Next]_vars
    PROVE  SilenceIsCut'
<1> USE JobTypes DEF SilenceIsCut
<1>0. queue \in Seq(Accepted) /\ accepted \in Nat
    BY DEF TypeInv, TrackTypes
<1>1. ASSUME NEW c \in Commands, Quiet(c)
      PROVE  SilenceIsCut'
    BY <1>1, QuietKeeps
<1>2. ASSUME NEW c \in Commands, EvictBegins(c) \/ JoinFails(c)
      PROVE  SilenceIsCut'
    BY <1>2 DEF EvictBegins, JoinFails, Destroyed, playerVars, queueVars, historyVars
<1>3. ASSUME NEW c \in Commands, JoinBegins(c) \/ FindsPlayer(c)
                             \/ MoveBegins(c) \/ Moves(c) \/ Joins(c)
      PROVE  SilenceIsCut'
    BY <1>3 DEF JoinBegins, FindsPlayer, MoveBegins, Moves, Joins, playerVars, queueVars,
       historyVars
<1>4. ASSUME NEW c \in Commands, NEW n \in Resolved, PlaysFirst(c, n)
      PROVE  SilenceIsCut'
    BY <1>4 DEF PlaysFirst, Found, Idle, Starts
<1>5. ASSUME NEW c \in Commands, NEW n \in Resolved, PutsAll(c, n)
      PROVE  SilenceIsCut'
    BY <1>5 DEF PutsAll, Idle, Playing, historyVars
<1>6. ASSUME NEW c \in Commands, StartReturns(c)
      PROVE  SilenceIsCut'
    <2>1. CASE ~job[c].mine
        BY <1>6, <2>1 DEF StartReturns
    <2>2. CASE job[c].mine /\ job[c].rest > 0
        BY <1>6, <2>2 DEF StartReturns
    <2>3. CASE job[c].mine /\ job[c].rest = 0
        <3>1. Rest(c) = <<>>
            BY <1>0, <2>3, FreshNone DEF Rest
        <3>2. queue' = queue /\ (cut => cut')
            BY <1>0, <1>6, <2>3, <3>1, ConcatEmptySeq DEF StartReturns
        <3> QED
            BY <1>6, <3>2 DEF StartReturns
    <2> QED
        BY <2>1, <2>2, <2>3
<1>7. ASSUME NEW c \in Commands, StartFails(c)
      PROVE  SilenceIsCut'
    BY <1>7 DEF StartFails, queueVars
<1>8. CASE Users
    BY <1>8 DEF Users, Skip, Playing, StopAndDisconnect, Destroyed, ClearQueue, Shuffle, SetLoop,
       AutoplayIsSet, historyVars
<1>9. CASE External
    <2>1. CASE Advances
        <3>1. NoTrack \notin Accepted
            BY <1>0 DEF NoTrack, Accepted
        <3>2. current' # NoTrack
            BY <2>1, <3>1, UpcomingType DEF Advances, Starts
        <3> QED
            BY <3>2
    <2>2. CASE NodeMoves \/ TrackEnds \/ AdvanceEnds
        BY <2>2, EmptySeq DEF NodeMoves, TrackEnds, AdvanceEnds, playerVars, queueVars,
           historyVars, AutoplayIsSet
    <2> QED
        BY <1>9, <2>1, <2>2 DEF External
<1>10. CASE UNCHANGED vars
    BY <1>10 DEF vars, playerVars, queueVars, historyVars
<1> QED
    BY <1>1, <1>2, <1>3, <1>4, <1>5, <1>6, <1>7, <1>8, <1>9, <1>10 DEF Next, PlayStep, Quiet

-----------------------------------------------------------------------------
(* The order of the queue.                                                 *)
LEMMA NormalStep ==
    ASSUME TypeInv, NormalUnlessMixed, [Next]_vars
    PROVE  NormalUnlessMixed'
<1> USE DEF NormalUnlessMixed
<1>1. ASSUME NEW c \in Commands, PlayStep(c)
      PROVE  NormalUnlessMixed'
    <2>1. ASSUME Quiet(c)
          PROVE  NormalUnlessMixed'
        BY <2>1, QuietKeeps
    <2>2. ASSUME EvictBegins(c) \/ JoinBegins(c) \/ FindsPlayer(c)
                 \/ MoveBegins(c) \/ Moves(c) \/ Joins(c) \/ JoinFails(c)
          PROVE  NormalUnlessMixed'
        BY <2>2 DEF EvictBegins, JoinBegins, FindsPlayer, MoveBegins, Moves, Joins, JoinFails,
           Destroyed, playerVars, queueVars, historyVars
    <2>3. ASSUME NEW n \in Resolved, PlaysFirst(c, n) \/ PutsAll(c, n)
          PROVE  NormalUnlessMixed'
        BY <2>3 DEF PlaysFirst, PutsAll, historyVars
    <2>4. ASSUME StartReturns(c) \/ StartFails(c)
          PROVE  NormalUnlessMixed'
        BY <2>4 DEF StartReturns, StartFails, queueVars
    <2> QED
        BY <1>1, <2>1, <2>2, <2>3, <2>4 DEF PlayStep, Quiet
<1>2. CASE Skip \/ StopAndDisconnect \/ ClearQueue \/ Shuffle
    BY <1>2 DEF Skip, StopAndDisconnect, Destroyed, ClearQueue, Shuffle, historyVars
<1>3. CASE SetLoop
    <2>1. mode' # "normal" => mixed'
        BY <1>3 DEF SetLoop
    <2> QED
        BY <2>1
<1>4. CASE External
    BY <1>4 DEF External, NodeMoves, TrackEnds, Advances, AdvanceEnds, playerVars, queueVars,
       historyVars
<1>5. CASE UNCHANGED vars
    BY <1>5 DEF vars, playerVars, queueVars, historyVars
<1> QED
    BY <1>1, <1>2, <1>3, <1>4, <1>5 DEF Next, Users

LEMMA SameOrder ==
    ASSUME QueueAscends, UNCHANGED <<queue, top, mixed>>
    PROVE  QueueAscends'
BY DEF QueueAscends, Ascending

LEMMA EmptyOrder ==
    ASSUME queue' = <<>>
    PROVE  QueueAscends'
<1>1. Ascending(top', <<>>)
    BY AscendingEmpty
<1> QED
    BY <1>1 DEF QueueAscends, Ascending

(* Tracks put behind the queue are younger than all that is in it.         *)
LEMMA PutOrder ==
    ASSUME TypeInv, QueueAscends, NEW n \in Nat, queue' = queue \o Fresh(n),
           UNCHANGED <<top, mixed>>
    PROVE  QueueAscends'
<1>1. accepted \in Nat /\ top \in 0 .. accepted /\ queue \in Seq(Accepted)
    BY DEF TypeInv, TrackTypes, MaybeTrack, Accepted, NoTrack
<1>2. Ascending(top, queue) => Ascending(top, queue')
    BY <1>1, AscendingFresh
<1> QED
    BY <1>2 DEF QueueAscends, Ascending

(* The head of the queue is started, or lost, and the rest moves up.       *)
LEMMA TakeOrder ==
    ASSUME TypeInv, QueueAscends, queue # <<>>, queue' = Tail(queue), UNCHANGED mixed,
           top' = top \/ top' = IF Head(queue) > top THEN Head(queue) ELSE top
    PROVE  QueueAscends'
<1>1. accepted \in Nat /\ top \in 0 .. accepted /\ queue \in Seq(Accepted)
    BY DEF TypeInv, TrackTypes, MaybeTrack, Accepted, NoTrack
<1>2. Head(queue) \in Nat
    BY <1>1, HeadTailProperties DEF Accepted
<1>3. Ascending(top, queue) => /\ top < Head(queue)
                               /\ Ascending(Head(queue), queue') /\ Ascending(top, queue')
    BY <1>1, AscendingTail
<1>4. Ascending(top, queue) => Ascending(top', queue')
    BY <1>1, <1>2, <1>3
<1> QED
    BY <1>4 DEF QueueAscends, Ascending

LEMMA OrderStep ==
    ASSUME TypeInv, NormalUnlessMixed, QueueAscends, [Next]_vars
    PROVE  QueueAscends'
<1> USE JobTypes
<1>1. ASSUME NEW c \in Commands, Quiet(c)
      PROVE  QueueAscends'
    BY <1>1, QuietKeeps, SameOrder
<1>2. ASSUME NEW c \in Commands,
             EvictBegins(c) \/ JoinBegins(c) \/ FindsPlayer(c)
             \/ MoveBegins(c) \/ Moves(c) \/ Joins(c) \/ JoinFails(c)
      PROVE  QueueAscends'
    <2>1. queue' = <<>> \/ UNCHANGED <<queue, top, mixed>>
        BY <1>2 DEF EvictBegins, JoinBegins, FindsPlayer, MoveBegins, Moves, Joins, JoinFails,
           Destroyed, playerVars, queueVars, historyVars
    <2> QED
        BY <2>1, EmptyOrder, SameOrder
<1>3. ASSUME NEW c \in Commands, NEW n \in Resolved, PlaysFirst(c, n)
      PROVE  QueueAscends'
    BY <1>3, EmptyOrder DEF PlaysFirst, Idle
<1>4. ASSUME NEW c \in Commands, NEW n \in Resolved, PutsAll(c, n)
      PROVE  QueueAscends'
    <2>1. n \in Nat
        BY ResolvedType, SizeAssumption
    <2> QED
        BY <1>4, <2>1, PutOrder DEF PutsAll, historyVars
<1>5. ASSUME NEW c \in Commands, StartReturns(c) \/ StartFails(c)
      PROVE  QueueAscends'
    <2>1. \/ UNCHANGED <<queue, top, mixed>>
          \/ queue' = queue \o Fresh(job[c].rest) /\ UNCHANGED <<top, mixed>>
        BY <1>5 DEF StartReturns, StartFails, Rest, queueVars
    <2> QED
        BY <2>1, PutOrder, SameOrder
<1>6. CASE Users
    <2>1. CASE Shuffle
        BY <2>1 DEF Shuffle, QueueAscends
    <2>2. CASE SetLoop
        <3>1. UNCHANGED <<queue, top>> /\ (mixed => mixed')
            BY <2>2 DEF SetLoop
        <3> QED
            BY <3>1 DEF QueueAscends, Ascending
    <2>3. CASE Skip \/ StopAndDisconnect \/ ClearQueue
        <3>1. queue' = <<>> \/ UNCHANGED <<queue, top, mixed>>
            BY <2>3 DEF Skip, StopAndDisconnect, Destroyed, ClearQueue, historyVars
        <3> QED
            BY <3>1, EmptyOrder, SameOrder
    <2> QED
        BY <1>6, <2>1, <2>2, <2>3 DEF Users
<1>7. CASE External
    <2>1. CASE NodeMoves \/ TrackEnds
        BY <2>1, SameOrder DEF NodeMoves, TrackEnds, playerVars, queueVars, historyVars
    <2>2. CASE AdvanceEnds
        <3>1. UNCHANGED <<top, mixed>> /\ (UNCHANGED queue \/ (queue # <<>> /\ queue' = Tail(queue)))
            BY <2>2 DEF AdvanceEnds
        <3> QED
            BY <3>1, SameOrder, TakeOrder
    <2>3. CASE Advances
        <3>1. CASE mixed
            BY <2>3, <3>1 DEF Advances, QueueAscends
        <3>2. CASE ~mixed
            <4>1. mode = "normal"
                BY <3>2 DEF NormalUnlessMixed
            <4>2. queue # <<>> /\ queue' = Tail(queue) /\ UNCHANGED mixed /\ Starts(Head(queue))
                BY <2>3, <4>1 DEF Advances, Upcoming
            <4> QED
                BY <4>2, TakeOrder DEF Starts
        <3> QED
            BY <3>1, <3>2
    <2> QED
        BY <1>7, <2>1, <2>2, <2>3 DEF External
<1>8. CASE UNCHANGED vars
    BY <1>8, SameOrder DEF vars, playerVars, queueVars, historyVars
<1> QED
    BY <1>1, <1>2, <1>3, <1>4, <1>5, <1>6, <1>7, <1>8 DEF Next, PlayStep, Quiet

-----------------------------------------------------------------------------
LEMMA InitIInv == Init => IInv
<1> SUFFICES ASSUME Init PROVE IInv
    OBVIOUS
<1> USE DEF Init
<1>1. PlainTypes
    BY DEF PlainTypes, Modes
<1>2. TrackTypes
    BY EmptySeq DEF TrackTypes, MaybeTrack
<1>3. NoJob \in Jobs /\ NoJob.mine = FALSE
    BY SizeAssumption DEF NoJob, Jobs, MaybeTrack
<1>4. CommandTypes
    BY <1>3 DEF CommandTypes, Waits, StartingHasTrack
<1>5. PlayerIsHeld /\ AutoplayIsSet /\ SilenceIsCut /\ NormalUnlessMixed
    BY <1>3 DEF PlayerIsHeld, AutoplayIsSet, SilenceIsCut, NormalUnlessMixed
<1>6. QueueAscends
    BY AscendingEmpty DEF QueueAscends
<1> QED
    BY <1>1, <1>2, <1>4, <1>5, <1>6 DEF IInv, TypeInv

LEMMA NextIInv == IInv /\ [Next]_vars => IInv'
BY TypeStep, HeldStep, AutoplayStep, SilenceStep, NormalStep, OrderStep DEF IInv

LEMMA SpecIInv == Spec => []IInv
BY InitIInv, NextIInv, PTL DEF Spec

(* Types, with no bound on the tracks ever accepted: nothing is current,   *)
(* queued, looped or remembered that no play command was accepted for.     *)
THEOREM TypeCorrect == Spec => []TypeOK
<1>1. IInv => TypeOK
    BY TypeParts DEF IInv
<1> QED
    BY <1>1, SpecIInv, PTL

LEMMA AscendsIsOrder == TypeInv /\ QueueAscends => InOrder
<1> SUFFICES ASSUME TypeInv, ~mixed, Ascending(top, queue),
                    NEW i \in 1 .. Len(queue)
             PROVE  (<<top>> \o queue)[i] < (<<top>> \o queue)[i + 1]
    BY DEF QueueAscends, InOrder
<1>1. queue \in Seq(Nat) /\ <<top>> \in Seq(Nat) /\ Len(<<top>>) = 1 /\ <<top>>[1] = top
    <2>1. Accepted \subseteq Nat /\ top \in Nat
        BY DEF Accepted, MaybeTrack, NoTrack, TypeInv, TrackTypes
    <2>2. queue \in Seq(Nat)
        BY <2>1, SeqMonotonic DEF TypeInv, TrackTypes
    <2>3. <<top>> \in Seq(Nat) /\ Len(<<top>>) = 1 /\ <<top>>[1] = top
        BY <2>1
    <2> QED
        BY <2>2, <2>3
<1>2. Len(queue) \in Nat
    BY <1>1, LenProperties
<1>3. \A k \in 1 .. 1 + Len(queue) :
          (<<top>> \o queue)[k] = IF k <= 1 THEN <<top>>[k] ELSE queue[k - 1]
    BY <1>1, ConcatProperties
<1>4. /\ (<<top>> \o queue)[i] = IF i = 1 THEN top ELSE queue[i - 1]
      /\ (<<top>> \o queue)[i + 1] = queue[i]
    BY <1>1, <1>2, <1>3
<1> QED
    BY <1>4 DEF Ascending

(* First come, first served (docs/prd.md:198-204): without shuffle or loop *)
(* no track is started before one that was accepted earlier and waits, nor *)
(* twice, however many play commands interleave and however many tracks    *)
(* they bring.                                                             *)
THEOREM Ordered == Spec => []InOrder
<1>1. IInv => InOrder
    BY AscendsIsOrder DEF IInv
<1> QED
    BY <1>1, SpecIInv, PTL

(* A silent player with tracks in its queue got there by one of the four   *)
(* ways that cut records (music.py:242, 304-313): every other end of a     *)
(* track moves the queue on.                                               *)
THEOREM StallsCut == Spec => []StallsAreCut
<1>1. IInv => StallsAreCut
    BY DEF IInv, SilenceIsCut, StallsAreCut, Stalled
<1> QED
    BY <1>1, SpecIInv, PTL

(* A play command takes a loaded track away.                               *)
Replaces == current # NoTrack /\ current' # current /\ accepted' > accepted

(* It does so only while the voice handshake is in flight: a track is      *)
(* started over another only by a player that does not count as playing    *)
(* (music.py:242, 304).                                                    *)
THEOREM JoiningReplaces == Spec => ReplacesOnlyWhileJoining
<1>1. ASSUME IInv, [Next]_vars
      PROVE  [Replaces => player = "joining"]_vars
    <2> SUFFICES ASSUME Replaces, Next
                 PROVE  player = "joining"
        BY <1>1
    <2>1. accepted \in Nat /\ PlayerIsHeld /\ player \in {"none", "joining", "joined"}
        BY <1>1 DEF IInv, TypeInv, PlainTypes, TrackTypes
    <2>2. ASSUME NEW c \in Commands, NEW n \in Resolved, PlaysFirst(c, n)
          PROVE  player = "joining"
        BY <2>1, <2>2 DEF PlaysFirst, Found, Idle, Playing, Replaces, PlayerIsHeld
    <2>3. ASSUME NEW c \in Commands, Quiet(c)
          PROVE  FALSE
        BY <2>1, <2>3, QuietKeeps DEF Replaces
    <2>4. ASSUME NEW c \in Commands,
                 \/ EvictBegins(c) \/ JoinBegins(c) \/ FindsPlayer(c)
                 \/ MoveBegins(c) \/ Moves(c) \/ Joins(c)
                 \/ JoinFails(c) \/ StartReturns(c) \/ StartFails(c)
                 \/ \E n \in Resolved : PutsAll(c, n)
          PROVE  FALSE
        BY <2>1, <2>4 DEF EvictBegins, JoinBegins, FindsPlayer, MoveBegins, Moves, Joins, JoinFails,
           playerVars, StartReturns, StartFails, PutsAll, Replaces
    <2>5. CASE Users \/ External
        BY <2>1, <2>5 DEF Users, Skip, StopAndDisconnect, ClearQueue, Shuffle, SetLoop,
           External, NodeMoves, TrackEnds, Advances, AdvanceEnds, Replaces
    <2> QED
        BY <2>2, <2>3, <2>4, <2>5 DEF Next, PlayStep, Quiet
<1> QED
    BY <1>1, SpecIInv, PTL DEF Spec, ReplacesOnlyWhileJoining, Replaces

==============================================================================
