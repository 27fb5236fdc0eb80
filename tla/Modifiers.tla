------------------------------ MODULE Modifiers ------------------------------
(***************************************************************************)
(* The world modifiers as they are kept: a string of launch arguments in   *)
(* the instance metadata, which every /valheim modifier command parses,    *)
(* edits and formats anew (bot/src/services/modifiers.py), and which a     *)
(* boot hands to the server.  What the first command finds there may have  *)
(* been typed by hand.                                                     *)
(*                                                                         *)
(* A string is the sequence of its words.  What overlaps a command between *)
(* its reading and its writing is in ValheimControl.                       *)
(***************************************************************************)
EXTENDS Naturals, Sequences, SequencesExt

CONSTANTS
    Words,          \* words that people type, in commands and by hand
    Lower(_),       \* str.lower
    MaxPhrases      \* bound on a string typed by hand

VARIABLES
    text,           \* the world-modifiers key; absent reads as <<>>
    said            \* the last setting announced, as a set of at most one

vars == <<text, said>>

-----------------------------------------------------------------------------
MODIFIERS ==
    [combat       |-> {"veryeasy", "easy", "hard", "veryhard"},
     deathpenalty |-> {"casual", "veryeasy", "easy", "hard", "hardcore"},
     resources    |-> {"muchless", "less", "more", "muchmore", "most"},
     raids        |-> {"none", "muchless", "less", "more", "muchmore"},
     portals      |-> {"casual", "hard", "veryhard"}]

Menu == <<"combat", "deathpenalty", "resources", "raids", "portals">>

PRESETS == {"normal", "casual", "easy", "hard", "hardcore", "immersive", "hammer"}

GLOBAL_KEYS == <<"nobuildcost", "nomap", "noportals", "passivemobs", "playerevents">>

CLEAR_VALUE == "default"

Flags == {"-modifier", "-preset", "-setkey"}

Toggles == Range(GLOBAL_KEYS)

(* What the reading makes of the words that people type.                   *)
Lowered == {Lower(w) : w \in Words} \cup Flags

(* Lower case is lower case already; the words of the menu and the flags   *)
(* are.                                                                    *)
ASSUME WordsAssumption ==
    /\ Words \subseteq STRING /\ MaxPhrases \in Nat
    /\ \A w \in Words : Lower(Lower(w)) = Lower(w)
    /\ \A w \in DOMAIN MODIFIERS \cup Toggles \cup Flags : Lower(w) = w

(* ServerModifiers; no preset is the empty string, and the order of the    *)
(* keys plays no part.                                                     *)
Unmodified == [modifiers |-> <<>>, preset |-> "", keys |-> {}]

(* The dials d with k at v.                                                *)
Put(d, k, v) == [x \in DOMAIN d \cup {k} |-> IF x = k THEN v ELSE d[x]]

AnyDialBefore(k, v, m) ==   \* mutant: any name is a dial
    IF k \in DOMAIN m.modifiers THEN m ELSE [m EXCEPT !.modifiers = Put(@, k, v)]

(* m with what stands before it in the string: the later word wins.        *)
DialBefore(k, v, m) ==
    IF k \in DOMAIN MODIFIERS \ DOMAIN m.modifiers
    THEN [m EXCEPT !.modifiers = Put(@, k, v)] ELSE m

PresetBefore(p, m) == IF m.preset = "" THEN [m EXCEPT !.preset = p] ELSE m

KeyBefore(k, m) == [m EXCEPT !.keys = @ \cup {k}]

MoreThanEnough(s, i, n) == i + n < Len(s)   \* mutant: off by one at the end

Enough(s, i, n) == i + n <= Len(s)

(* parse_args: a flag takes the words after it whatever they are, if there *)
(* are enough of them; any other word is passed over.                      *)
ReadFrom(s, i, from) ==
    CASE i > Len(s) -> Unmodified
      [] s[i] = "-modifier" /\ Enough(s, i, 2) ->
             DialBefore(Lower(s[i + 1]), Lower(s[i + 2]), from[i + 3])
      [] s[i] = "-preset" /\ Enough(s, i, 1) ->
             PresetBefore(Lower(s[i + 1]), from[i + 2])
      [] s[i] = "-setkey" /\ Enough(s, i, 1) ->
             KeyBefore(Lower(s[i + 1]), from[i + 2])
      [] OTHER -> from[i + 1]

ParseArgs(s) ==
    LET from[i \in 1 .. Len(s) + 1] == ReadFrom(s, i, from)
    IN  from[1]

(* ServerModifiers.to_args, in the order of the menu.                      *)
WrittenPreset(m) ==
    IF m.preset \in {"", "normal"} THEN <<>> ELSE <<"-preset", m.preset>>

WrittenDial(m, k) ==
    IF k \in DOMAIN m.modifiers THEN <<"-modifier", k, m.modifiers[k]>> ELSE <<>>

WrittenKey(m, k) == IF k \in m.keys THEN <<"-setkey", k>> ELSE <<>>

ToArgs(m) ==
    WrittenPreset(m)
        \o FlattenSeq([i \in DOMAIN Menu |-> WrittenDial(m, Menu[i])])
        \o FlattenSeq([i \in DOMAIN GLOBAL_KEYS |-> WrittenKey(m, GLOBAL_KEYS[i])])

SetModifier(m, k, v) ==
    IF v = CLEAR_VALUE
    THEN [m EXCEPT !.modifiers = [d \in DOMAIN @ \ {k} |-> @[d]]]
    ELSE [m EXCEPT !.modifiers = Put(@, k, v)]

NormalIsKept(m, p) == [m EXCEPT !.preset = IF p = "normal" THEN @ ELSE p]   \* mutant: clears nothing

SetPreset(m, p) == [m EXCEPT !.preset = IF p = "normal" THEN "" ELSE p]

SetKey(m, k, enabled) == [m EXCEPT !.keys = IF enabled THEN @ \cup {k} ELSE @ \ {k}]

(* What /valheim modifier list shows of a string.                          *)
Slots == DOMAIN MODIFIERS \cup {"preset"} \cup Toggles

Listed(m) ==
    [slot \in Slots |->
       CASE slot \in DOMAIN m.modifiers -> m.modifiers[slot]
         [] slot = "preset" /\ m.preset \notin {"", "normal"} -> m.preset
         [] slot \in Toggles /\ slot \in m.keys -> "on"
         [] OTHER -> CLEAR_VALUE]

Shown(s) == Listed(ParseArgs(s))

-----------------------------------------------------------------------------
(* A string typed by hand is a few flags with what belongs to them, and    *)
(* words that belong to nothing; none of it need be right.                 *)
Phrases ==
    {<<"-modifier", k, v>> : k, v \in Words}
        \cup {<<flag, w>> : flag \in {"-preset", "-setkey"}, w \in Words}
        \cup {<<w>> : w \in Words \cup Flags}

HandWritten == {FlattenSeq(p) : p \in UNION {[1 .. n -> Phrases] : n \in 0 .. MaxPhrases}}

(* variables.tf's world_modifiers.                                         *)
DefaultArgs == <<"-modifier", "portals", "casual">>

(* The startup script: an absent or empty key is replaced by Terraform's   *)
(* default.                                                                *)
SERVER_ARGS == IF text = <<>> THEN DefaultArgs ELSE text

Init ==
    /\ text \in HandWritten
    /\ said = {}

(* The end of every modifier command: the metadata is written and the      *)
(* change announced, to take effect on the boot that follows.              *)
Applies(m, slot, value) ==
    /\ text' = ToArgs(m)
    /\ said' = {<<slot, value>>}

ModifierSet ==
    \E key, value \in {Lower(w) : w \in Words} :
       /\ key \in DOMAIN MODIFIERS
       /\ value = CLEAR_VALUE \/ value \in MODIFIERS[key]
       /\ Applies(SetModifier(ParseArgs(text), key, value), key, value)

ModifierPreset ==
    \E name \in {Lower(w) : w \in Words} :
       /\ name \in PRESETS
       /\ Applies(SetPreset(ParseArgs(text), name), "preset",
                  IF name = "normal" THEN CLEAR_VALUE ELSE name)

ModifierKey ==
    \E name \in {Lower(w) : w \in Words}, enabled \in BOOLEAN :
       /\ name \in Toggles
       /\ Applies(SetKey(ParseArgs(text), name, enabled), name,
                  IF enabled THEN "on" ELSE CLEAR_VALUE)

Next == ModifierSet \/ ModifierPreset \/ ModifierKey

Spec == Init /\ [][Next]_vars

-----------------------------------------------------------------------------
(* ServerModifiers, as the reading returns them.                           *)
Parsed ==
    [modifiers : UNION {[D -> Lowered] : D \in SUBSET DOMAIN MODIFIERS},
     preset    : Lowered \cup {""},
     keys      : SUBSET Lowered]

Tokens == Words \cup Lowered \cup DOMAIN MODIFIERS \cup Toggles

(* The string is made of what was typed and of the menu's names; what is   *)
(* read from it, whoever wrote it, has no dial that the menu does not have *)
(* (parse_args keeps those alone), and each of its words in lower case.    *)
TypeOK ==
    /\ text \in Seq(Tokens)
    /\ ParseArgs(text) \in Parsed

Values == Lowered \cup {"on", CLEAR_VALUE}

Board == INSTANCE ModifierBoard
         WITH Unset <- CLEAR_VALUE, Deployed <- Shown(DefaultArgs),
              setting <- Shown(text), effect <- Shown(SERVER_ARGS)

(* Whatever string it starts from, every command changes, in what          *)
(* modifier list shows and in what the next boot hands to the server, the  *)
(* one setting it announces and no other.  Only a string that sets nothing *)
(* may be replaced by the deployment's.                                    *)
ImplementsBoard == Board!BoardSpec

(* A string that a command wrote is read back as what was written: parsing *)
(* and formatting it again changes nothing (test_modifiers.py's            *)
(* TestToArgsRoundTrip), so edits do not accumulate words.                 *)
WrittenIsReadBack == said # {} => ToArgs(ParseArgs(text)) = text

(* valheim.py:360, "the new modifiers take effect on boot": what the list  *)
(* shows after a command is what the boot hands to the server.             *)
AppliedTakesEffect == said # {} => Shown(SERVER_ARGS) = Shown(text)

==============================================================================
