------------------------- MODULE MCConversationAudio -------------------------
(***************************************************************************)
(* One conversation for TLC, with its four tasks that write to the device. *)
(***************************************************************************)
EXTENDS ConversationAudio
==============================================================================
