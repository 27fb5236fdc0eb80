----------------------------- MODULE MusicQueue -----------------------------
(***************************************************************************)
(* /music play and the commands on the queue it fills, for one guild       *)
(* (bot/src/services/music.py, bot/src/cogs/music.py), await by await, over *)
(* the Lavalink node, the player and the queue of wavelink (external).     *)
(*                                                                         *)
(* A track is the number under which a play command handed it to the       *)
(* player: 1, 2, ... in the order in which they were accepted.             *)
(***************************************************************************)
EXTENDS Naturals, Sequences, FiniteSetsExt

CONSTANTS
    Commands,       \* the /music play commands in flight
    PlaylistCap,    \* PLAYLIST_TRACK_CAP
    MaxTracks       \* bound on the tracks ever accepted

ASSUME CommandsAssumption == IsFiniteSet(Commands)
ASSUME SizeAssumption == PlaylistCap \in Nat \ {0} /\ MaxTracks \in Nat

VARIABLES
    node,           \* the pool's entry: "none", "connecting", "connected"
    player,         \* guild.voice_client: "none", "joining", "joined"
    autoplay,       \* player.autoplay is partial; by default it is disabled
    current,        \* player.current, or NoTrack
    queue,          \* player.queue
    past,           \* player.queue.history
    loaded,         \* what loop mode repeats, or NoTrack
    mode,           \* player.queue.mode
    advance,        \* wavelink has the end of a track to handle
    pc,             \* what each play command awaits
    job,            \* its locals
    accepted,       \* tracks accepted so far
    top,            \* history: the last track started, of those accepted
    mixed,          \* history: this player was shuffled or looped
    cut             \* history: what last kept the player from advancing

queueVars == <<queue, past, loaded, mode>>
playerVars == <<player, autoplay, current, queueVars, advance>>
commandVars == <<pc, job>>
historyVars == <<top, mixed, cut>>
vars == <<node, playerVars, commandVars, accepted, historyVars>>

NoTrack == 0
Modes == {"normal", "loop", "loop_all"}

(* first: the track it starts; rest: how many of its playlist are still to *)
(* be put; mine: the player it holds is the guild's.                       *)
NoJob == [first |-> NoTrack, rest |-> 0, mine |-> FALSE]

Init ==
    /\ node = "none"
    /\ player = "none" /\ autoplay = FALSE
    /\ current = NoTrack /\ advance = FALSE
    /\ queue = <<>> /\ past = <<>> /\ loaded = NoTrack /\ mode = "normal"
    /\ pc = [c \in Commands |-> "idle"]
    /\ job = [c \in Commands |-> NoJob]
    /\ accepted = 0
    /\ top = NoTrack /\ mixed = FALSE /\ cut = FALSE

-----------------------------------------------------------------------------
At(c, where) == pc[c] = where
Goes(c, where) == pc' = [pc EXCEPT ![c] = where]

End(c) ==
    /\ Goes(c, "idle")
    /\ job' = [job EXCEPT ![c] = NoJob]

(* The guild's player is gone, and its queue with it; the commands that    *)
(* hold it do not notice.                                                  *)
Destroyed ==
    /\ player' = "none" /\ autoplay' = FALSE
    /\ current' = NoTrack /\ advance' = FALSE
    /\ queue' = <<>> /\ past' = <<>> /\ loaded' = NoTrack /\ mode' = "normal"
    /\ mixed' = FALSE /\ cut' = FALSE

AllLetGo == job' = [c \in Commands |-> [job[c] EXCEPT !.mine = FALSE]]

Playing == player = "joined" /\ current # NoTrack

(* player.play: the track is current before the request is answered.       *)
Starts(t) ==
    /\ current' = t
    /\ loaded' = t
    /\ top' = IF t > top THEN t ELSE top
    /\ cut' = FALSE

Fresh(n) == [i \in 1 .. n |-> accepted + i]     \* the next n numbers

Room(n) == accepted + n + MapThenSumSet(LAMBDA c : job[c].rest, Commands) <= MaxTracks

-----------------------------------------------------------------------------
(* connect_node.                                                           *)
Begin(c) ==
    /\ At(c, "idle")
    /\ Goes(c, "node")
    /\ UNCHANGED <<node, playerVars, job, accepted, historyVars>>

NodeIsReady(c) ==
    /\ At(c, "node")
    /\ node = "connected"
    /\ Goes(c, "join")
    /\ UNCHANGED <<node, playerVars, job, accepted, historyVars>>

NodeIsAbsent(c) ==
    /\ At(c, "node")
    /\ node = "none"
    /\ Goes(c, "connect")
    /\ UNCHANGED <<node, playerVars, job, accepted, historyVars>>

(* An entry that is not connected is evicted, be it another command's      *)
(* handshake or wavelink's own reconnection: close() disconnects the       *)
(* players of that node first.                                             *)
EvictBegins(c) ==
    /\ At(c, "node")
    /\ node = "connecting"
    /\ Goes(c, "evict")
    /\ \/ player # "none" /\ Destroyed /\ AllLetGo /\ UNCHANGED top
       \/ UNCHANGED <<playerVars, job, historyVars>>
    /\ UNCHANGED <<node, accepted>>

(* It ends by removing whatever has the identifier by then; a close that   *)
(* raises is ignored.                                                      *)
EvictEnds(c) ==
    /\ At(c, "evict")
    /\ node' \in {"none", node}
    /\ Goes(c, "connect")
    /\ UNCHANGED <<playerVars, job, accepted, historyVars>>

(* Pool.connect adds the new node unless the identifier is in use.         *)
PoolConnects(c) ==
    /\ At(c, "connect")
    /\ node' = IF node = "none" THEN "connecting" ELSE node
    /\ Goes(c, "poll")
    /\ UNCHANGED <<playerVars, job, accepted, historyVars>>

(* The poll looks at the pool's entry, at its own node if there is none.   *)
PollEnds(c) ==
    /\ At(c, "poll")
    /\ node \in {"connected", "none"}
    /\ Goes(c, "join")
    /\ UNCHANGED <<node, playerVars, job, accepted, historyVars>>

-----------------------------------------------------------------------------
(* play: join, set autoplay, search, and then start or enqueue.            *)
JoinBegins(c) ==
    /\ At(c, "join")
    /\ player = "none"
    /\ player' = "joining"
    /\ Goes(c, "joining")
    /\ job' = [job EXCEPT ![c].mine = TRUE]
    /\ UNCHANGED <<node, autoplay, current, queueVars, advance, accepted, historyVars>>

SetsNoAutoplay == UNCHANGED autoplay    \* mutant: wavelink's default stays

SetsAutoplay == autoplay' = TRUE

(* A voice client that exists is taken as it is, joined or not, if it is   *)
(* in the caller's channel.                                                *)
FindsPlayer(c) ==
    /\ At(c, "join")
    /\ player # "none"
    /\ SetsAutoplay
    /\ Goes(c, "search")
    /\ job' = [job EXCEPT ![c].mine = TRUE]
    /\ UNCHANGED <<node, player, current, queueVars, advance, accepted, historyVars>>

(* In another channel it is moved first, with its queue as it is, and      *)
(* autoplay is set when that has been answered.                            *)
MoveBegins(c) ==
    /\ At(c, "join")
    /\ player # "none"
    /\ Goes(c, "moving")
    /\ job' = [job EXCEPT ![c].mine = TRUE]
    /\ UNCHANGED <<node, playerVars, accepted, historyVars>>

Moves(c) ==
    /\ At(c, "moving")
    /\ IF job[c].mine THEN SetsAutoplay ELSE UNCHANGED autoplay
    /\ Goes(c, "search")
    /\ UNCHANGED <<node, player, current, queueVars, advance, job, accepted, historyVars>>

Joins(c) ==
    /\ At(c, "joining")
    /\ job[c].mine
    /\ player' = "joined"
    /\ SetsAutoplay
    /\ Goes(c, "search")
    /\ UNCHANGED <<node, current, queueVars, advance, job, accepted, historyVars>>

(* The handshake times out, and discord.py removes the voice client.       *)
JoinFails(c) ==
    /\ At(c, "joining")
    /\ job[c].mine
    /\ Destroyed
    /\ Goes(c, "idle")
    /\ AllLetGo
    /\ UNCHANGED <<node, accepted, top>>

(* Any other await raises or runs out, or the search finds nothing.        *)
Fails(c) ==
    /\ pc[c] \notin {"idle", "starting"}
    /\ At(c, "joining") => ~job[c].mine
    /\ End(c)
    /\ UNCHANGED <<node, playerVars, accepted, historyVars>>

IdleByPlaying == ~Playing       \* mutant: queue.is_empty is not asked
IdleByQueue == queue = <<>>     \* mutant: player.playing is not asked

Idle == ~Playing /\ queue = <<>>

NotTruncated(n) == n    \* mutant: the cap is not applied

Truncated(n) == IF n > PlaylistCap THEN PlaylistCap ELSE n

(* How many tracks of what a query resolves to are used: a single, or a    *)
(* playlist that may be longer than the cap.                               *)
Resolved == {Truncated(n) : n \in 1 .. PlaylistCap + 1}

(* The search has found n tracks.  _enqueue_single, _enqueue_playlist:     *)
(* nothing is awaited between the guard and its effect.                    *)
Found(c, n) ==
    /\ At(c, "search")
    /\ node = "connected"
    /\ job[c].mine
    /\ Room(n)

PlaysFirst(c, n) ==
    /\ Found(c, n)
    /\ Idle
    /\ Starts(accepted + 1)
    /\ accepted' = accepted + 1
    /\ Goes(c, "starting")
    /\ job' = [job EXCEPT ![c].first = accepted + 1, ![c].rest = n - 1]
    /\ UNCHANGED <<node, player, autoplay, queue, past, mode, advance, mixed>>

PutsAll(c, n) ==
    /\ Found(c, n)
    /\ ~Idle
    /\ queue' = queue \o Fresh(n)
    /\ accepted' = accepted + n
    /\ End(c)
    /\ UNCHANGED <<node, player, autoplay, current, past, loaded, mode, advance,
                   historyVars>>

(* The player was disconnected meanwhile: what it is given no one hears.   *)
PlaysToNobody(c) ==
    /\ At(c, "search")
    /\ ~job[c].mine
    /\ End(c)
    /\ UNCHANGED <<node, playerVars, accepted, historyVars>>

RestWithFirst(c) ==     \* mutant: the whole playlist is put after its first
    <<job[c].first>> \o Fresh(job[c].rest)

Rest(c) == Fresh(job[c].rest)

(* player.play returns: its track goes into the history, the rest of a     *)
(* playlist behind whatever is queued by then, whatever is playing.        *)
StartReturns(c) ==
    /\ At(c, "starting")
    /\ IF job[c].mine
       THEN /\ queue' = queue \o Rest(c)
            /\ accepted' = accepted + job[c].rest
            /\ past' = Append(past, job[c].first)
            /\ cut' = (cut \/ (current = NoTrack /\ ~advance /\ job[c].rest > 0))
       ELSE UNCHANGED <<queue, accepted, past, cut>>
    /\ End(c)
    /\ UNCHANGED <<node, player, autoplay, current, loaded, mode, advance, top, mixed>>

(* It raises, and leaves wavelink without a current track.                 *)
StartFails(c) ==
    /\ At(c, "starting")
    /\ IF job[c].mine
       THEN current' = NoTrack /\ cut' = (cut \/ queue # <<>>)
       ELSE UNCHANGED <<current, cut>>
    /\ End(c)
    /\ UNCHANGED <<node, player, autoplay, queueVars, advance, accepted, top, mixed>>

PlayStep(c) ==
    \/ Begin(c) \/ NodeIsReady(c) \/ NodeIsAbsent(c) \/ EvictBegins(c)
    \/ EvictEnds(c) \/ PoolConnects(c) \/ PollEnds(c)
    \/ JoinBegins(c) \/ FindsPlayer(c) \/ MoveBegins(c) \/ Moves(c)
    \/ Joins(c) \/ JoinFails(c) \/ Fails(c)
    \/ \E n \in Resolved : PlaysFirst(c, n) \/ PutsAll(c, n)
    \/ PlaysToNobody(c) \/ StartReturns(c) \/ StartFails(c)

-----------------------------------------------------------------------------
(* The commands on the queue.                                              *)

(* skip, and every other end of the current track.                         *)
Skip ==
    /\ Playing
    /\ current' = NoTrack
    /\ loaded' = NoTrack
    /\ advance' = autoplay
    /\ UNCHANGED <<node, player, autoplay, queue, past, mode, commandVars,
                   accepted, historyVars>>

StopAndDisconnect ==
    /\ player # "none"
    /\ Destroyed
    /\ AllLetGo
    /\ UNCHANGED <<node, pc, accepted, top>>

ClearQueue ==
    /\ player # "none"
    /\ queue' = <<>>
    /\ UNCHANGED <<node, player, autoplay, current, past, loaded, mode, advance,
                   commandVars, accepted, historyVars>>

Shuffle ==
    /\ player # "none"
    /\ \E p \in Bijection(1 .. Len(queue), 1 .. Len(queue)) :
          queue' = [i \in 1 .. Len(queue) |-> queue[p[i]]]
    /\ mixed' = TRUE
    /\ UNCHANGED <<node, player, autoplay, current, past, loaded, mode, advance,
                   commandVars, accepted, top, cut>>

SetLoop ==
    /\ player # "none"
    /\ mode' \in Modes
    /\ mixed' = (mixed \/ mode' # "normal")
    /\ UNCHANGED <<node, player, autoplay, current, queue, past, loaded, advance,
                   commandVars, accepted, top, cut>>

-----------------------------------------------------------------------------
(* wavelink and Lavalink (external).                                       *)

NodeMoves ==
    /\ \/ node = "connecting" /\ node' = "connected"
       \/ node = "connected" /\ node' = "connecting"
    /\ UNCHANGED <<playerVars, commandVars, accepted, historyVars>>

TrackEnds ==
    /\ player # "none"
    /\ current # NoTrack
    /\ current' = NoTrack
    /\ advance' = autoplay
    /\ UNCHANGED <<node, player, autoplay, queueVars, commandVars, accepted, historyVars>>

(* Queue.get: the loaded track again, or the head of the queue, which      *)
(* loop_all refills from the history.                                      *)
Upcoming == IF mode = "loop_all" /\ queue = <<>> THEN past ELSE queue

Kept == IF mode = "loop_all" /\ queue = <<>> THEN <<>> ELSE past

(* Not by an earlier start: only when nothing is current.                  *)
Advances ==
    /\ advance
    /\ current = NoTrack
    /\ node = "connected"
    /\ \/ /\ mode = "loop" /\ loaded # NoTrack
          /\ Starts(loaded)
          /\ UNCHANGED <<queue, past>>
       \/ /\ mode # "loop" \/ loaded = NoTrack
          /\ Upcoming # <<>>
          /\ Starts(Head(Upcoming))
          /\ queue' = Tail(Upcoming)
          /\ past' = Append(Kept, Head(Upcoming))
    /\ advance' = FALSE
    /\ UNCHANGED <<node, player, autoplay, mode, commandVars, accepted, mixed>>

(* There is nothing to do, or nothing is done: the node is not connected,  *)
(* three loads in a row have failed, or the request raises and its track   *)
(* is lost.                                                                *)
AdvanceEnds ==
    /\ advance
    /\ advance' = FALSE
    /\ \/ UNCHANGED queue
       \/ current = NoTrack /\ queue # <<>> /\ queue' = Tail(queue)
    /\ cut' = (cut \/ (current = NoTrack /\ queue # <<>>))
    /\ UNCHANGED <<node, player, autoplay, current, past, loaded, mode, commandVars,
                   accepted, top, mixed>>

Users == Skip \/ StopAndDisconnect \/ ClearQueue \/ Shuffle \/ SetLoop

External == NodeMoves \/ TrackEnds \/ Advances \/ AdvanceEnds

Next == (\E c \in Commands : PlayStep(c)) \/ Users \/ External

Spec == Init /\ [][Next]_vars

-----------------------------------------------------------------------------
Accepted == 1 .. accepted
MaybeTrack == {NoTrack} \cup Accepted

Waits == {"idle", "node", "evict", "connect", "poll", "join", "joining",
          "moving", "search", "starting"}

(* Types: there is no track but those that were accepted.                 *)
TypeOK ==
    /\ node \in {"none", "connecting", "connected"}
    /\ player \in {"none", "joining", "joined"}
    /\ autoplay \in BOOLEAN
    /\ current \in MaybeTrack
    /\ queue \in Seq(Accepted)
    /\ past \in Seq(Accepted)
    /\ loaded \in MaybeTrack
    /\ mode \in Modes
    /\ advance \in BOOLEAN
    /\ pc \in [Commands -> Waits]
    /\ job \in [Commands -> [first : MaybeTrack, rest : 0 .. PlaylistCap - 1,
                              mine : BOOLEAN]]
    /\ accepted \in Nat
    /\ top \in MaybeTrack
    /\ mixed \in BOOLEAN
    /\ cut \in BOOLEAN

(* First come, first served (docs/prd.md:198-204): without shuffle or      *)
(* loop, whatever play commands, playlists, ends and skips interleave, no  *)
(* track is started before one that was accepted earlier and still waits,  *)
(* and none is started twice.                                              *)
InOrder ==
    ~mixed => LET order == <<top>> \o queue
              IN  \A i \in 1 .. Len(queue) : order[i] < order[i + 1]

(* A play command takes a track that is loaded away only while the voice   *)
(* handshake of the player is in flight, when wavelink does not call it    *)
(* playing yet.                                                            *)
ReplacesOnlyWhileJoining ==
    [][ current # NoTrack /\ current' # current /\ accepted' > accepted
            => player = "joining" ]_vars

(* A player that is silent with tracks in its queue got there by one of    *)
(* four ways: its last track ended while a playlist was being put behind   *)
(* it, a start failed with tracks put behind it, the node was down when    *)
(* the track ended, or the next track did not load.  Every other end of a  *)
(* track moves the queue on.                                               *)
Stalled == player = "joined" /\ current = NoTrack /\ queue # <<>> /\ ~advance

StallsAreCut == Stalled => cut

(* docs/prd.md:198: the track is put, and if nothing is playing, played    *)
(* (music.py:181-182, start playback if nothing is playing).               *)
PlayEndsSilence ==
    [][ \A c \in Commands :
            At(c, "search") /\ accepted' > accepted
                => ~Stalled \/ current' # NoTrack ]_vars

==============================================================================
