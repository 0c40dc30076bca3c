---------------------------- MODULE EditPromise -----------------------------
(* What applying a drafted dashboard edit promises, whatever calls are lost, *)
(* repeated or made from two tabs: the steps land in the order of the card,  *)
(* and what somebody else changed meanwhile is written over only while an    *)
(* apply the analyst asked to overwrite is running.                          *)
EXTENDS Integers

CONSTANT Steps  \* the steps of the edit, 1 .. n

VARIABLES
  landed,   \* steps whose effect the dashboard has had
  touched,  \* steps whose target somebody else changed, and the change stands
  gone,     \* steps whose target is not on the dashboard
  asked     \* an apply that overwrites is running

vars == <<landed, touched, gone, asked>>

Init ==
  /\ landed = {} /\ touched = {}
  /\ gone \subseteq Steps
  /\ asked \in BOOLEAN

Allowed(i) == i \in touched => asked

\* The next step takes effect: it may make its target, or take it away.
Land(i) ==
  /\ i \notin landed /\ 1 .. i - 1 \subseteq landed
  /\ Allowed(i)
  /\ landed' = landed \cup {i} /\ touched' = touched \ {i}
  /\ gone' \in {gone, gone \cup {i}, gone \ {i}}
  /\ UNCHANGED asked

\* A step that landed is written again, over what changed since.
Again(i) ==
  /\ i \in landed /\ asked
  /\ touched' = touched \ {i}
  /\ UNCHANGED <<landed, gone, asked>>

\* What a step made, and somebody took away, is made again.
Anew(i) ==
  /\ i \in landed /\ i \in gone
  /\ gone' = gone \ {i}
  /\ UNCHANGED <<landed, touched, asked>>

\* Somebody else changes a target, or takes it away with what was changed.
Touch(i) ==
  /\ i \notin gone
  /\ touched' = touched \cup {i}
  /\ UNCHANGED <<landed, gone, asked>>

Lose(i) ==
  /\ i \notin gone
  /\ gone' = gone \cup {i} /\ touched' = touched \ {i}
  /\ UNCHANGED <<landed, asked>>

Ask == asked' \in BOOLEAN /\ UNCHANGED <<landed, touched, gone>>

Next == Ask \/ \E i \in Steps : Land(i) \/ Again(i) \/ Anew(i) \/ Touch(i) \/ Lose(i)

Spec == Init /\ [][Next]_vars
=============================================================================
