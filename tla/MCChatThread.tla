---------------------------- MODULE MCChatThread ----------------------------
(* Instances of ChatThread for TLC.                                          *)
EXTENDS ChatThread
=============================================================================
