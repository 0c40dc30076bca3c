----------------------------- MODULE FeedPromise ------------------------------
(* What the readers of a published feed see of it, however attempts, edits,  *)
(* deletes and retention interleave: one artifact at a time, that never      *)
(* comes back once it is off the air; a new one only under a binding that is *)
(* there, and in its present revision; and an edit takes down what it makes  *)
(* untrue in the commit that makes it so.                                    *)
EXTENDS Naturals

VARIABLES
  shown,    \* the artifact that is served, if there is one: its number and the
            \* revision it was made under
  last,     \* the number last given to an attempt
  revision  \* of the binding, 0 when there is none

vars == <<shown, last, revision>>

Init ==
  /\ shown = {}
  /\ last = 0
  /\ revision = 1

\* An artifact nobody has seen goes on the air, in place of whatever was there.
Publish ==
  /\ revision # 0
  /\ last' = last + 1
  /\ shown' = {[id |-> last', revision |-> revision]}
  /\ UNCHANGED revision

\* An attempt that does not publish is numbered too, and may retire what is shown.
Fail ==
  /\ last' = last + 1
  /\ shown' \in {shown, {}}
  /\ UNCHANGED revision

Edit ==
  /\ revision # 0
  /\ revision' \in Nat \ {0}
  /\ shown' = {}
  /\ UNCHANGED last

\* A binding that is deleted need not take its artifact with it.
Delete ==
  /\ revision' = 0
  /\ shown' \in {shown, {}}
  /\ UNCHANGED last

Create ==
  /\ revision = 0
  /\ revision' = 1
  /\ UNCHANGED <<shown, last>>

Next == Publish \/ Fail \/ Edit \/ Delete \/ Create

Spec == Init /\ [][Next]_vars
=============================================================================
