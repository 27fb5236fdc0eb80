---------------------------- MODULE MCModifiers ----------------------------
(***************************************************************************)
(* Modifiers with str.lower as it is on the words of the instances.        *)
(***************************************************************************)
EXTENDS Modifiers

MCLower(w) == CASE w = "Raids" -> "raids" [] w = "NoMap" -> "nomap" [] OTHER -> w

==============================================================================
