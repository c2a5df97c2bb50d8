--------------------------- MODULE MCChatSession ---------------------------
(* The instances TLC checks of the chat session: two messages, a queue of   *)
(* one place so that it fills, a slot that two exchanges may fill.           *)
EXTENDS ChatSession
=============================================================================
