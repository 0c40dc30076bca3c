------------------------------ MODULE TurnLife -------------------------------
(* What the turns of one conversation promise to whoever looks at their rows *)
(* and follows their logs: they run one after the other, each runs once, and *)
(* a log says that its turn is over only when its row says so.  The server   *)
(* (ChatTurn) keeps this promise, and the page's model of it (ChatThread)    *)
(* supposes nothing more.                                                    *)
EXTENDS Naturals

CONSTANT Turns  \* the turns of the conversation, 1 .. n

VARIABLES
  row,    \* "none", "running" or "over", by turn
  closed  \* the turns whose log holds a terminal frame

vars == <<row, closed>>

Init ==
  /\ row = [t \in Turns |-> "none"]
  /\ closed = {}

\* The next turn begins, when none runs.
Begin(t) ==
  /\ row[t] = "none"
  /\ \A u \in Turns : row[u] # "running" /\ (u < t => row[u] = "over")
  /\ row' = [row EXCEPT ![t] = "running"]
  /\ UNCHANGED closed

\* A turn is over: done, failed, or gone with its conversation.
End(t) ==
  /\ row[t] = "running"
  /\ row' = [row EXCEPT ![t] = "over"]
  /\ UNCHANGED closed

\* Its log says so.
Tell(t) ==
  /\ row[t] = "over"
  /\ closed' = closed \cup {t}
  /\ UNCHANGED row

\* The log has expired.
Forget(t) ==
  /\ closed' = closed \ {t}
  /\ UNCHANGED row

Next == \E t \in Turns : Begin(t) \/ End(t) \/ Tell(t) \/ Forget(t)

Spec == Init /\ [][Next]_vars
=============================================================================
