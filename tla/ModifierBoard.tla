---------------------------- MODULE ModifierBoard ----------------------------
(***************************************************************************)
(* What /valheim modifier promises its users: a board of settings that     *)
(* stand next to each other.  A command announces one of them, changes it  *)
(* and no other, and the next boot puts the board as it stands into        *)
(* effect.  Only a board with nothing on it may be replaced by the one the *)
(* server was deployed with.                                               *)
(***************************************************************************)
CONSTANTS
    Slots,          \* the dials, the preset and the toggles
    Values,         \* what a slot may hold
    Unset,          \* ... of which: the game's own default
    Deployed        \* the board of a deployment no command has touched

VARIABLES
    setting,        \* the board as stored
    effect,         \* the board the next boot starts the server with
    said            \* the last setting announced, as a set of at most one

boardVars == <<setting, effect, said>>

Blank == [s \in Slots |-> Unset]

Effects(board) == {board} \cup IF board = Blank THEN {Deployed} ELSE {}

BoardInit ==
    /\ setting \in [Slots -> Values]
    /\ effect \in Effects(setting)
    /\ said = {}

Change(s, v) ==
    /\ said' = {<<s, v>>}
    /\ setting' = [setting EXCEPT ![s] = v]
    /\ effect' \in Effects(setting')

BoardNext == \E s \in Slots, v \in Values : Change(s, v)

BoardSpec == BoardInit /\ [][BoardNext]_boardVars

==============================================================================
