----------------------------- MODULE MCVoiceRoster -----------------------------
(****************************************************************************)
(* Small instances of VoiceRoster: one user, whose three connections come,   *)
(* go, clean up and join in any order (users meet only in ClearChannel).     *)
(****************************************************************************)
EXTENDS VoiceRoster, TLC

CONSTANTS ann, a1, a2, a3

MCOwner == [c \in Conn |-> ann]
================================================================================
