----------------------------- MODULE RunPromise ------------------------------
(* What a page that runs a query is promised, whatever the locks of the node *)
(* name, lose and are swept of: it is given a job that works at that moment, *)
(* or the one it had enqueued since it asked.  It has one such job in hand   *)
(* at most, enqueues none while it has it, and lets go of it only where a    *)
(* job was found to be over.  Nobody but a page that asks enqueues a job.    *)
EXTENDS Naturals

CONSTANT Pages

VARIABLES
  begun,    \* how many jobs were enqueued: they are 1 .. begun
  working,  \* the jobs of which something new is to be had
  asking,   \* pages that have asked and were not given a job yet
  has       \* each page's job, 0 when it has none

vars == <<begun, working, asking, has>>

Init ==
  /\ begun = 0 /\ working = {}
  /\ asking = {} /\ has = [p \in Pages |-> 0]

\* An idle page's.
Ask(p) ==
  /\ has[p] = 0
  /\ asking' = asking \cup {p}
  /\ UNCHANGED <<begun, working, has>>

\* The next job is enqueued for a page that asks and has none.
Start(p) ==
  /\ has[p] = 0
  /\ begun' = begun + 1
  /\ working' = working \cup {begun'}
  /\ has' = [has EXCEPT ![p] = begun']
  /\ UNCHANGED asking

\* Its own job goes on without it.
LetGo(p) ==
  /\ has[p] # 0 /\ 1 .. begun # working
  /\ has' = [has EXCEPT ![p] = 0]
  /\ UNCHANGED <<begun, working, asking>>

\* It joins a job that works, or is given its own, which may be over by now, or an
\* error.
Give(p) ==
  /\ asking' = asking \ {p}
  /\ \E j \in working \cup {has[p], 0} : has' = [has EXCEPT ![p] = j]
  /\ UNCHANGED <<begun, working>>

\* A page that was given a job has its answer, or an error.
Leave(p) ==
  /\ has[p] # 0
  /\ has' = [has EXCEPT ![p] = 0]
  /\ UNCHANGED <<begun, working, asking>>

\* Finished, killed, cancelled or forgotten: nothing new is to be had of it.
End(j) ==
  /\ working' = working \ {j}
  /\ UNCHANGED <<begun, asking, has>>

Next ==
  \/ \E p \in asking : Start(p) \/ LetGo(p)
  \/ \E p \in asking \ asking' : Give(p)
  \/ \E p \in Pages \ asking : Ask(p) \/ Leave(p)
  \/ \E j \in working \ working' : End(j)

Spec == Init /\ [][Next]_vars
=============================================================================
