----------------------------- MODULE MCChatTurn -----------------------------
(* Instances of ChatTurn for TLC.                                            *)
EXTENDS ChatTurn, TLC

\* Requests are interchangeable, and so are promotions.
Symmetric == Permutations(Requests) \cup Permutations(Promotions)
=============================================================================
