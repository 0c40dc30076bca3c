--------------------------- MODULE ChatTurnProofs ---------------------------
(* Theorems of ChatTurn, for any requests, streams, promotions and bounds.   *)
EXTENDS ChatTurn, FiniteSetTheorems, TLAPS

\* A record stays of its type when one field takes a value of its range.
LEMMA RunnerFields ==
    ASSUME NEW x \in Runner
    PROVE  /\ \A v \in RunnerPcs : [x EXCEPT !.pc = v] \in Runner
           /\ \A v \in BOOLEAN : [x EXCEPT !.ran = v] \in Runner
           /\ \A v \in Nat : [x EXCEPT !.seen = v] \in Runner
           /\ \A v \in {"none", "done", "failed"} : [x EXCEPT !.left = v] \in Runner
BY DEF Runner

\* The same for a call.
LEMMA CallFields ==
    ASSUME NEW x \in Call
    PROVE  /\ x.kind \in Kinds /\ x.turn \in 0 .. MaxTurns
           /\ x.applied \in SUBSET Applied
           /\ \A v \in CallPcs : [x EXCEPT !.pc = v] \in Call
BY DEF Call

\* What an idle call holds is of its type.
LEMMA Nothing == 0 \in 0 .. MaxTurns /\ {} \in SUBSET Applied
BY BoundAssumption

\* So does a row that is given a status.
LEMMA RowFields ==
    ASSUME NEW x \in TurnRow
    PROVE  /\ x.status \in Statuses /\ x.cutoff \in Nat /\ x.applied \in SUBSET Applied
           /\ \A v \in Statuses : [x EXCEPT !.status = v] \in TurnRow
BY DEF TurnRow

\* Rows stay typed when an end status is written, wherever it is.
LEMMA WroteTyped ==
    ASSUME turn \in [Turns -> TurnRow], NEW t, NEW v \in Statuses
    PROVE  Wrote(t, v) \in [Turns -> TurnRow]
<1>1. CASE t \in Turns
  <2>1. turn[t] \in TurnRow
      BY <1>1
  <2> QED
      BY <1>1, <2>1, RowFields DEF Wrote
<1>2. CASE t \notin Turns
    BY <1>2 DEF Wrote
<1> QED
    BY <1>1, <1>2

\* At, Takes and Ends keep the calls typed.
LEMMA CallAt ==
    ASSUME call \in [Callers -> Call], NEW c \in Callers, NEW v \in CallPcs,
           At(c, v)
    PROVE  call' \in [Callers -> Call]
BY CallFields DEF At

\* A call that is taken up is typed.
LEMMA CallTaken ==
    ASSUME call \in [Callers -> Call], NEW c \in Callers, NEW k \in Kinds,
           NEW v \in CallPcs, NEW t \in 0 .. MaxTurns, NEW a \in SUBSET Applied,
           Takes(c, v, k, t, a)
    PROVE  call' \in [Callers -> Call]
<1>1. [pc |-> v, kind |-> k, turn |-> t, applied |-> a] \in Call
    BY DEF Call
<1> QED
    BY <1>1 DEF Takes

\* A call that ends is typed.
LEMMA CallEnds ==
    ASSUME call \in [Callers -> Call], NEW c \in Callers, Ends(c)
    PROVE  call' \in [Callers -> Call]
<1>1. 0 \in 0 .. MaxTurns
    BY BoundAssumption
<1>2. NoCall \in Call
    BY <1>1 DEF NoCall, Call, CallPcs, Kinds
<1> QED
    BY <1>2 DEF Ends

\* Goes keeps the runners typed.
LEMMA RunnerAt ==
    ASSUME runner \in [Turns -> Runner], NEW t, NEW v \in RunnerPcs, Goes(t, v)
    PROVE  runner' \in [Turns -> Runner]
<1>1. CASE t \in Turns
    BY <1>1, RunnerFields DEF Goes
<1>2. CASE t \notin Turns
    BY <1>2 DEF Goes
<1> QED
    BY <1>1, <1>2

\* So does a runner leaving a write behind.
LEMMA RunnerLeaves ==
    ASSUME runner \in [Turns -> Runner], NEW t \in Turns, NEW v \in RunnerPcs,
           NEW w \in {"none", "done", "failed"}
    PROVE  [runner EXCEPT ![t].pc = v, ![t].left = w] \in [Turns -> Runner]
<1> DEFINE gone == [runner EXCEPT ![t].pc = v]
<1>1. gone \in [Turns -> Runner]
    BY RunnerFields
<1>2. [gone EXCEPT ![t].left = w] \in [Turns -> Runner]
    <2> HIDE DEF gone
    <2> QED
        BY <1>1, RunnerFields
<1> QED
    BY <1>2

\* A terminal frame is one of the two.
LEMMA EmittedTyped ==
    ASSUME frame \in [Turns -> {"none", "turn_done", "error"}], NEW t,
           NEW e \in {"turn_done", "error"}
    PROVE  Emitted(t, e) \in [Turns -> {"none", "turn_done", "error"}]
BY DEF Emitted

\* What was applied since the cursor is a set of stamped promotions.
LEMMA AppliedTyped ==
    ASSUME TypeOK
    PROVE  AppliedSince \in SUBSET Applied
BY DEF TypeOK, AppliedSince, Applied

-----------------------------------------------------------------------------
(* Every step keeps the types.                                               *)

\* Every action keeps every variable of its type.
LEMMA TypeStep == TypeOK /\ [Next]_vars => TypeOK'
<1> SUFFICES ASSUME TypeOK, [Next]_vars PROVE TypeOK'
    OBVIOUS
<1>0. Requests \subseteq Callers /\ Streams \subseteq Callers
    BY DEF Callers
<1>a. Turns \subseteq 0 .. MaxTurns
    BY BoundAssumption DEF Turns
<1> USE DEF TypeOK
<1>1. ASSUME NEW c \in Callers, CheckLease(c) PROVE TypeOK'
    BY <1>0, <1>1, CallAt, CallEnds
    DEF CheckLease, CallPcs
<1>2. ASSUME NEW c \in Callers, SettleRead(c) PROVE TypeOK'
    BY <1>0, <1>2, CallAt, CallEnds
    DEF SettleRead, Settled, CallPcs
<1>3. ASSUME NEW c \in Callers, SettleWrite(c) PROVE TypeOK'
    BY <1>0, <1>3, CallAt, CallEnds, WroteTyped
    DEF SettleWrite, CallPcs, Statuses
<1>4. ASSUME NEW c \in Callers, Announce(c) PROVE TypeOK'
    BY <1>0, <1>4, CallAt, CallEnds, EmittedTyped
    DEF Announce, Settled, CallPcs
<1>5. ASSUME NEW c \in Callers, RedisFailsCall(c) PROVE TypeOK'
    BY <1>0, <1>5, CallAt, CallEnds
    DEF RedisFailsCall, CallPcs
<1>6. ASSUME NEW r \in Requests, NEW kind \in {"post", "get"}, Look(r, kind) PROVE TypeOK'
  <2>1. kind \in Kinds /\ "opening" \in CallPcs /\ "checking" \in CallPcs
      BY DEF Kinds, CallPcs
  <2>2. call' \in [Callers -> Call]
    <3>1. ASSUME Takes(r, "opening", kind, 0, {}) PROVE call' \in [Callers -> Call]
        BY <1>0, <2>1, <3>1, CallTaken, Nothing
    <3>2. ASSUME NEW t \in Turns, Takes(r, "checking", kind, t, {})
          PROVE  call' \in [Callers -> Call]
        BY <1>0, <2>1, <3>2, CallTaken, Nothing, BoundAssumption DEF Turns
    <3> QED
        BY <1>6, <3>1, <3>2 DEF Look, Running
  <2> QED
      BY <1>6, <2>2 DEF Look
<1>7. ASSUME NEW r \in Requests, StartLock(r) PROVE TypeOK'
  <2>1. StarterKind(r) \in Kinds /\ "starting" \in CallPcs
    <3>1. call[r] \in Call
        BY <1>0
    <3> QED
        BY <3>1, CallFields DEF StarterKind, Kinds, CallPcs
  <2>2. Takes(r, "starting", StarterKind(r), 0, AppliedSince)
          => call' \in [Callers -> Call]
      BY <1>0, <2>1, CallTaken, AppliedTyped, Nothing
  <2> QED
      BY <1>0, <1>7, <2>2, CallEnds DEF StartLock
<1>8. ASSUME NEW r \in Requests, Stamp(r) PROVE TypeOK'
  <2>1. "promote" \in Kinds /\ "promoting" \in CallPcs
      BY DEF Kinds, CallPcs
  <2>2. PICK p \in Promotions : Takes(r, "promoting", "promote", 0, {<<p, clock + 1>>})
      BY <1>8 DEF Stamp
  <2>3. clock + 1 \in Nat /\ {<<p, clock + 1>>} \in SUBSET Applied
      BY DEF Applied
  <2>4. call' \in [Callers -> Call]
      BY <1>0, <2>1, <2>2, <2>3, CallTaken, Nothing
  <2> QED
      BY <1>0, <1>8, <2>3, <2>4 DEF Stamp
<1>9. ASSUME NEW r \in Requests, StartCommit(r) PROVE TypeOK'
  <2>1. call[r] \in Call /\ clock + 1 \in Nat
      BY <1>0
  <2>2. PICK t \in Turns :
           /\ turn' = [turn EXCEPT ![t] = [status |-> "running", cutoff |-> clock + 1,
                                           applied |-> call[r].applied]]
           /\ Takes(r, "leasing", call[r].kind, t, {})
      BY <1>9 DEF StartCommit
  <2>3. turn' \in [Turns -> TurnRow]
      BY <2>1, <2>2, CallFields DEF TurnRow, Statuses
  <2>4. "leasing" \in CallPcs /\ t \in 0 .. MaxTurns
      BY BoundAssumption DEF CallPcs, Turns
  <2>5. call' \in [Callers -> Call]
      BY <1>0, <2>1, <2>2, <2>4, CallTaken, CallFields, Nothing
  <2> QED
      BY <1>9, <2>1, <2>3, <2>5 DEF StartCommit
<1>10. ASSUME NEW r \in Requests, HoldLease(r) PROVE TypeOK'
    BY <1>0, <1>10, CallAt, CallEnds, CallFields, RunnerAt
    DEF HoldLease, CallPcs, RunnerPcs
<1>11. ASSUME NEW r \in Requests, FailUnleased(r) PROVE TypeOK'
    BY <1>0, <1>11, CallAt, CallEnds, WroteTyped
    DEF FailUnleased, CallPcs, Statuses
<1>12. ASSUME NEW r \in Requests, McpFinish(r) PROVE TypeOK'
    BY <1>0, <1>12, CallAt, WroteTyped
    DEF McpFinish, CallPcs, Statuses
<1>13. ASSUME NEW r \in Requests, McpFail(r) PROVE TypeOK'
    BY <1>0, <1>13, CallAt, WroteTyped
    DEF McpFail, CallPcs, Statuses
<1>14. ASSUME NEW r \in Requests, McpRelease(r) PROVE TypeOK'
    BY <1>0, <1>14, CallEnds
    DEF McpRelease
<1>15. ASSUME NEW r \in Requests, Promote(r) PROVE TypeOK'
    BY <1>0, <1>15, CallEnds, CallFields
    DEF Promote, Applied
<1>16. ASSUME NEW r \in Requests, RequestDies(r) PROVE TypeOK'
    BY <1>0, <1>16, CallEnds
    DEF RequestDies
<1>17. ASSUME NEW r \in Requests, DatabaseFailsCall(r) PROVE TypeOK'
    BY <1>0, <1>17, CallAt, CallEnds
    DEF DatabaseFailsCall, CallPcs
<1>18. ASSUME NEW s \in Streams, Open(s) PROVE TypeOK'
    BY <1>0, <1>18, CallTaken
    DEF Open, Stored, Turns, Kinds, CallPcs
<1>19. ASSUME NEW s \in Streams, Read(s) PROVE TypeOK'
    BY <1>0, <1>19, CallAt, CallEnds
    DEF Read, CallPcs
<1>20. ASSUME NEW s \in Streams, Conclude(s) PROVE TypeOK'
    BY <1>0, <1>20, CallAt, CallEnds
    DEF Conclude, CallPcs
<1>21. ASSUME NEW s \in Streams, Disconnect(s) PROVE TypeOK'
    BY <1>0, <1>21, CallEnds
    DEF Disconnect
<1>22. ASSUME NEW t \in Turns, RunnerBegins(t) PROVE TypeOK'
    BY <1>0, <1>a, <1>22, RunnerAt
    DEF RunnerBegins, RunnerPcs
<1>23. ASSUME NEW t \in Turns, ModelAnswers(t) PROVE TypeOK'
    BY <1>0, <1>23, RunnerFields, RowFields
    DEF ModelAnswers
<1>24. ASSUME NEW t \in Turns, FinishLoad(t) PROVE TypeOK'
    BY <1>0, <1>24, RunnerFields
    DEF FinishLoad, RunnerPcs
<1>25. ASSUME NEW t \in Turns, FinishWrite(t) PROVE TypeOK'
    BY <1>0, <1>25, RunnerAt, WroteTyped, RowFields
    DEF FinishWrite, Finishes, RunnerPcs, Statuses
<1>26. ASSUME NEW t \in Turns, EmitDone(t) PROVE TypeOK'
    BY <1>0, <1>26, RunnerAt, EmittedTyped
    DEF EmitDone, RunnerPcs
<1>27. ASSUME NEW t \in Turns, LoopFails(t) PROVE TypeOK'
    BY <1>0, <1>27, RunnerAt
    DEF LoopFails, RunnerPcs
<1>28. ASSUME NEW t \in Turns, FailWrite(t) PROVE TypeOK'
    BY <1>0, <1>28, RunnerAt, WroteTyped
    DEF FailWrite, RunnerPcs, Statuses
<1>29. ASSUME NEW t \in Turns, EmitError(t) PROVE TypeOK'
    BY <1>0, <1>29, RunnerAt, EmittedTyped
    DEF EmitError, RunnerPcs
<1>30. ASSUME NEW t \in Turns, Release(t) PROVE TypeOK'
    BY <1>0, <1>30, RunnerAt
    DEF Release, RunnerPcs
<1>31. ASSUME NEW t \in Turns, KeepLease(t) PROVE TypeOK'
    BY <1>0, <1>a, <1>31
    DEF KeepLease
<1>32. ASSUME NEW t \in Turns, LeftWrite(t) PROVE TypeOK'
    BY <1>0, <1>32, RunnerFields, WroteTyped, RowFields
    DEF LeftWrite, Finishes, Statuses
<1>33. ASSUME NEW t \in Turns, Expire(t) PROVE TypeOK'
    BY <1>0, <1>33
    DEF Expire
<1>34. ASSUME NEW t \in Turns, Lapse(t) PROVE TypeOK'
    BY <1>0, <1>34
    DEF Lapse
<1>35. ASSUME NEW t \in Turns, LogExpires(t) PROVE TypeOK'
    BY <1>0, <1>35
    DEF LogExpires
<1>36. ASSUME NEW t \in Turns, RedisFailsRunner(t) PROVE TypeOK'
    BY <1>0, <1>36, RunnerAt, EmittedTyped
    DEF RedisFailsRunner, RunnerPcs
<1>37. ASSUME NEW t \in Turns, DatabaseFails(t) PROVE TypeOK'
    BY <1>0, <1>37, RunnerAt
    DEF DatabaseFails, RunnerPcs
<1>38. ASSUME NEW t \in Turns, Shutdown(t) PROVE TypeOK'
  <2>1. runner' \in [Turns -> Runner]
    <3> USE DEF RunnerPcs
    <3>1. CASE Goes(t, "failing") \/ Goes(t, "gone")
        BY <3>1, RunnerAt
    <3>2. CASE runner' = [runner EXCEPT ![t].pc = "failing", ![t].left = "done"]
        BY <3>2, RunnerLeaves
    <3>3. CASE runner' = [runner EXCEPT ![t].pc = "releasing", ![t].left = "failed"]
        BY <3>3, RunnerLeaves
    <3> QED
        BY <1>38, <3>1, <3>2, <3>3 DEF Shutdown
  <2>2. frame' \in [Turns -> {"none", "turn_done", "error"}]
      BY <1>38, EmittedTyped DEF Shutdown
  <2> QED
      BY <1>38, <2>1, <2>2 DEF Shutdown
<1>39. ASSUME NEW t \in Turns, RunnerDies(t) PROVE TypeOK'
    BY <1>0, <1>39, RunnerLeaves
    DEF RunnerDies, RunnerPcs
<1>40. CASE DeleteThread
    BY <1>40, RowFields DEF DeleteThread, Stored, Statuses
<1>41. CASE UNCHANGED vars
    BY <1>41 DEF vars
<1> QED
    BY <1>0,
       <1>1, <1>2, <1>3, <1>4, <1>5, <1>6, <1>7, <1>8, <1>9, <1>10, <1>11,
       <1>12, <1>13, <1>14, <1>15, <1>16, <1>17, <1>18, <1>19, <1>20, <1>21,
       <1>22, <1>23, <1>24, <1>25, <1>26, <1>27, <1>28, <1>29, <1>30, <1>31,
       <1>32, <1>33, <1>34, <1>35, <1>36, <1>37, <1>38, <1>39, <1>40, <1>41
    DEF Next, Requesting, Streaming, Working

-----------------------------------------------------------------------------
(* The thread's lock, and what it is for.                                    *)

\* What the lock protects: one row at most is running.
Serial == LockIsHeld /\ StartsAlone /\ OneRunningRow

\* A row that was not running before a write of an end status is not after it.
LEMMA WroteStops ==
    ASSUME turn \in [Turns -> TurnRow], NEW u, NEW v \in {"done", "failed"},
           turn' = Wrote(u, v)
    PROVE  Running' \subseteq Running
BY DEF Running, Wrote

\* What At, Ends and Takes make of the calls.
LEMMA AtIs ==
    ASSUME call \in [Callers -> Call], NEW c \in Callers, NEW v, At(c, v)
    PROVE  /\ call'[c].pc = v /\ call'[c].kind = call[c].kind
           /\ call'[c].turn = call[c].turn /\ call'[c].applied = call[c].applied
           /\ \A x \in Callers \ {c} : call'[x] = call[x]
BY DEF At, Call

\* A call that ends is idle, and the others stay.
LEMMA EndsIs ==
    ASSUME call \in [Callers -> Call], NEW c \in Callers, Ends(c)
    PROVE  /\ call'[c].pc = "idle" /\ call'[c].turn = 0 /\ call'[c].applied = {}
           /\ \A x \in Callers \ {c} : call'[x] = call[x]
BY DEF Ends, NoCall

\* A call that is taken up holds what it was given, and the others stay.
LEMMA TakesIs ==
    ASSUME call \in [Callers -> Call], NEW c \in Callers, NEW v, NEW k, NEW t,
           NEW a, Takes(c, v, k, t, a)
    PROVE  /\ call'[c].pc = v /\ call'[c].kind = k
           /\ call'[c].turn = t /\ call'[c].applied = a
           /\ \A x \in Callers \ {c} : call'[x] = call[x]
BY DEF Takes

\* Every action keeps the lock, and the running row, to one.
LEMMA SerialStep == TypeOK /\ Serial /\ [Next]_vars => Serial'
<1> SUFFICES ASSUME TypeOK, Serial, [Next]_vars PROVE Serial'
    OBVIOUS
<1>0. /\ Requests \subseteq Callers /\ Streams \subseteq Callers
      /\ Callers = Requests \cup Streams /\ Nobody \notin Requests
      /\ \A s \in Streams : s \notin Requests
      /\ call \in [Callers -> Call] /\ turn \in [Turns -> TurnRow]
      /\ turn' = turn => Running' = Running
    BY NobodyIsNoCaller, CallersAreApart DEF Callers, TypeOK, Running
<1> USE DEF Serial, LockIsHeld, StartsAlone, OneRunningRow
<1>1. ASSUME NEW c \in Callers, CheckLease(c) PROVE Serial'
    BY <1>0, <1>1, AtIs, EndsIs
    DEF CheckLease
<1>2. ASSUME NEW c \in Callers, SettleRead(c) PROVE Serial'
    BY <1>0, <1>2, AtIs, EndsIs
    DEF SettleRead, Settled
<1>3. ASSUME NEW c \in Callers, SettleWrite(c) PROVE Serial'
    BY <1>0, <1>3, WroteStops, AtIs, EndsIs
    DEF SettleWrite
<1>4. ASSUME NEW c \in Callers, Announce(c) PROVE Serial'
    BY <1>0, <1>4, AtIs, EndsIs
    DEF Announce, Settled
<1>5. ASSUME NEW c \in Callers, RedisFailsCall(c) PROVE Serial'
    BY <1>0, <1>5, AtIs, EndsIs
    DEF RedisFailsCall
<1>6. ASSUME NEW r \in Requests, NEW kind \in {"post", "get"}, Look(r, kind) PROVE Serial'
    BY <1>0, <1>6, TakesIs
    DEF Look
<1>7. ASSUME NEW r \in Requests, StartLock(r) PROVE Serial'
    BY <1>0, <1>7, EndsIs, TakesIs
    DEF StartLock
<1>8. ASSUME NEW r \in Requests, Stamp(r) PROVE Serial'
    BY <1>0, <1>8, TakesIs
    DEF Stamp
<1>9. ASSUME NEW r \in Requests, StartCommit(r) PROVE Serial'
  <2>1. PICK t \in Turns :
           /\ turn' = [turn EXCEPT ![t] = [status |-> "running", cutoff |-> clock + 1,
                                           applied |-> call[r].applied]]
           /\ Takes(r, "leasing", call[r].kind, t, {})
      BY <1>9 DEF StartCommit
  <2>2. Running = {} /\ lock = r
      BY <1>0, <1>9 DEF StartCommit
  <2>3. Running' = {t}
      BY <1>0, <2>1, <2>2 DEF Running
  <2>4. \A q \in Requests : call'[q].pc \notin {"starting", "promoting"}
      BY <1>0, <2>1, <2>2, TakesIs
  <2>5. \A s \in Streams : call'[s] = call[s]
      BY <1>0, <2>1, TakesIs
  <2> QED
      BY <1>0, <1>9, <2>3, <2>4, <2>5 DEF StartCommit
<1>10. ASSUME NEW r \in Requests, HoldLease(r) PROVE Serial'
    BY <1>0, <1>10, AtIs, EndsIs
    DEF HoldLease
<1>11. ASSUME NEW r \in Requests, FailUnleased(r) PROVE Serial'
    BY <1>0, <1>11, WroteStops, AtIs, EndsIs
    DEF FailUnleased
<1>12. ASSUME NEW r \in Requests, McpFinish(r) PROVE Serial'
    BY <1>0, <1>12, WroteStops, AtIs
    DEF McpFinish
<1>13. ASSUME NEW r \in Requests, McpFail(r) PROVE Serial'
    BY <1>0, <1>13, WroteStops, AtIs
    DEF McpFail
<1>14. ASSUME NEW r \in Requests, McpRelease(r) PROVE Serial'
    BY <1>0, <1>14, EndsIs
    DEF McpRelease
<1>15. ASSUME NEW r \in Requests, Promote(r) PROVE Serial'
    BY <1>0, <1>15, EndsIs
    DEF Promote
<1>16. ASSUME NEW r \in Requests, RequestDies(r) PROVE Serial'
    BY <1>0, <1>16, EndsIs
    DEF RequestDies
<1>17. ASSUME NEW r \in Requests, DatabaseFailsCall(r) PROVE Serial'
    BY <1>0, <1>17, AtIs, EndsIs
    DEF DatabaseFailsCall
<1>18. ASSUME NEW s \in Streams, Open(s) PROVE Serial'
    BY <1>0, <1>18, TakesIs
    DEF Open
<1>19. ASSUME NEW s \in Streams, Read(s) PROVE Serial'
    BY <1>0, <1>19, AtIs, EndsIs
    DEF Read
<1>20. ASSUME NEW s \in Streams, Conclude(s) PROVE Serial'
    BY <1>0, <1>20, AtIs, EndsIs
    DEF Conclude
<1>21. ASSUME NEW s \in Streams, Disconnect(s) PROVE Serial'
    BY <1>0, <1>21, EndsIs
    DEF Disconnect
<1>22. ASSUME NEW t \in Turns, FinishWrite(t) PROVE Serial'
    BY <1>0, <1>22, WroteStops
    DEF FinishWrite, Finishes, Running
<1>23. ASSUME NEW t \in Turns, FailWrite(t) PROVE Serial'
    BY <1>0, <1>23, WroteStops
    DEF FailWrite, Wrote
<1>24. ASSUME NEW t \in Turns, LeftWrite(t) PROVE Serial'
    BY <1>0, <1>24, WroteStops
    DEF LeftWrite, Finishes, Running
<1>25. ASSUME NEW t \in Turns,
             \/ RunnerBegins(t) \/ ModelAnswers(t) \/ FinishLoad(t) \/ EmitDone(t)
             \/ LoopFails(t) \/ EmitError(t) \/ Release(t) \/ KeepLease(t)
             \/ Expire(t) \/ Lapse(t) \/ LogExpires(t) \/ RedisFailsRunner(t)
             \/ DatabaseFails(t) \/ Shutdown(t) \/ RunnerDies(t)
      PROVE  Serial'
    BY <1>25 DEF Running,
       RunnerBegins, ModelAnswers, FinishLoad, EmitDone, LoopFails, EmitError,
       Release, KeepLease, Expire, Lapse, LogExpires, RedisFailsRunner,
       DatabaseFails, Shutdown, RunnerDies
<1>26. CASE DeleteThread
    BY <1>0, <1>26 DEF DeleteThread, Stored, Running
<1>27. CASE UNCHANGED vars
    BY <1>27 DEF vars, Running
<1> QED
    BY <1>0,
       <1>1, <1>2, <1>3, <1>4, <1>5, <1>6, <1>7, <1>8, <1>9, <1>10, <1>11,
       <1>12, <1>13, <1>14, <1>15, <1>16, <1>17, <1>18, <1>19, <1>20, <1>21,
       <1>22, <1>23, <1>24, <1>25, <1>26, <1>27
    DEF Next, Requesting, Streaming, Working

-----------------------------------------------------------------------------
(* Rows, frames, and who works on which.                                     *)

\* Rows are stored before anything works on them, and over before anyone says.
Ordered == RowsInOrder /\ OnlyStoredTurns /\ SeenOver /\ OverWhenToldSo

\* What Goes makes of the runners.
LEMMA GoesIs ==
    ASSUME runner \in [Turns -> Runner], NEW t \in Turns, NEW v, Goes(t, v)
    PROVE  /\ runner'[t].pc = v /\ runner'[t].ran = runner[t].ran
           /\ runner'[t].seen = runner[t].seen /\ runner'[t].left = runner[t].left
           /\ \A u \in Turns \ {t} : runner'[u] = runner[u]
BY DEF Goes, Runner

\* What Wrote makes of the rows.
LEMMA WroteIs ==
    ASSUME turn \in [Turns -> TurnRow], NEW t \in Stored,
           NEW v \in {"done", "failed"}, turn' = Wrote(t, v)
    PROVE  /\ turn'[t].status = IF turn[t].status = "deleted" THEN "deleted" ELSE v
           /\ turn'[t].cutoff = turn[t].cutoff /\ turn'[t].applied = turn[t].applied
           /\ \A u \in Turns \ {t} : turn'[u] = turn[u]
           /\ Stored' = Stored
<1>1. t \in Turns /\ turn[t] \in TurnRow /\ turn[t].status # "none"
    BY DEF Stored
<1>2. turn' = [turn EXCEPT ![t] = [turn[t] EXCEPT !.status =
                 IF turn[t].status = "deleted" THEN "deleted" ELSE v]]
    BY DEF Wrote
<1>3. /\ turn'[t] = [turn[t] EXCEPT !.status =
                       IF turn[t].status = "deleted" THEN "deleted" ELSE v]
      /\ \A u \in Turns \ {t} : turn'[u] = turn[u]
    BY <1>1, <1>2
<1>4. /\ turn'[t].status = IF turn[t].status = "deleted" THEN "deleted" ELSE v
      /\ turn'[t].cutoff = turn[t].cutoff /\ turn'[t].applied = turn[t].applied
    BY <1>1, <1>3 DEF TurnRow
<1>5. \A u \in Turns : turn'[u].status # "none" <=> turn[u].status # "none"
    BY <1>1, <1>3, <1>4
<1> QED
    BY <1>3, <1>4, <1>5 DEF Stored

\* A step of one call that changes nothing else, and tells nobody.
LEMMA OnlyCallEnds ==
    ASSUME TypeOK, Ordered, UNCHANGED <<deleted, turn, frame, runner>>,
           NEW c \in Callers, Ends(c)
    PROVE  Ordered'
<1>1. Stored' = Stored
    BY DEF Stored
<1>2. /\ call'[c].pc = "idle" /\ call'[c].turn = 0
      /\ \A x \in Callers \ {c} : call'[x] = call[x]
    BY EndsIs DEF TypeOK
<1> QED
    BY <1>1, <1>2 DEF Ordered, RowsInOrder, OnlyStoredTurns, SeenOver, OverWhenToldSo

\* Neither does one that goes on without being about to announce.
LEMMA OnlyCallGoes ==
    ASSUME TypeOK, Ordered, UNCHANGED <<deleted, turn, frame, runner>>,
           NEW c \in Callers, call[c].turn # 0, NEW v, v # "announcing", At(c, v)
    PROVE  Ordered'
<1>1. Stored' = Stored
    BY DEF Stored
<1>2. /\ call'[c].pc = v /\ call'[c].turn = call[c].turn
      /\ \A x \in Callers \ {c} : call'[x] = call[x]
    BY AtIs DEF TypeOK
<1> QED
    BY <1>1, <1>2 DEF Ordered, RowsInOrder, OnlyStoredTurns, SeenOver, OverWhenToldSo

\* The row a new turn takes is the next one.
LEMMA StartCommitStores ==
    ASSUME TypeOK, RowsInOrder, NEW t \in Turns, NEW v, v.status = "running",
           t = Cardinality(Stored) + 1, turn' = [turn EXCEPT ![t] = v]
    PROVE  /\ t \notin Stored
           /\ Stored' = Stored \cup {t}
           /\ \E n \in Nat : Stored = 1 .. n /\ t = n + 1
<1>1. PICK n \in 0 .. MaxTurns : Stored = 1 .. n
    BY DEF RowsInOrder
<1>2. n \in Nat
    BY BoundAssumption
<1>3. Cardinality(1 .. n) = n
  <2>1. 1 \in Int /\ n \in Int
      BY <1>2
  <2>2. Cardinality(1 .. n) = IF 1 > n THEN 0 ELSE n - 1 + 1
      BY <2>1, FS_Interval
  <2> QED
      BY <1>2, <2>2
<1>4. t = n + 1
    BY <1>1, <1>3
<1>5. ASSUME NEW u \in Turns
      PROVE  turn'[u].status # "none" <=> u = t \/ turn[u].status # "none"
    BY DEF TypeOK
<1>6. Stored' = {u \in Turns : turn'[u].status # "none"}
    BY DEF Stored
<1>7. Stored = {u \in Turns : turn[u].status # "none"}
    BY DEF Stored
<1>8. Stored' = Stored \cup {t}
    BY <1>5, <1>6, <1>7
<1> QED
    BY <1>1, <1>2, <1>4, <1>8

\* Every action keeps rows, frames and workers in order.
LEMMA OrderedStep == TypeOK /\ Serial /\ Ordered /\ [Next]_vars => Ordered'
<1> SUFFICES ASSUME TypeOK, Serial, Ordered, [Next]_vars PROVE Ordered'
    OBVIOUS
<1>a. /\ Requests \subseteq Callers /\ Streams \subseteq Callers
      /\ call \in [Callers -> Call] /\ turn \in [Turns -> TurnRow]
      /\ runner \in [Turns -> Runner]
      /\ frame \in [Turns -> {"none", "turn_done", "error"}]
    BY DEF Callers, TypeOK
<1>b. turn' = turn => Running' = Running /\ Stored' = Stored
    BY DEF Running, Stored
<1>c. Stored \subseteq Turns
    BY DEF Stored
<1>d. 0 \notin Turns
    BY BoundAssumption DEF Turns
<1>0. /\ Requests \subseteq Callers /\ Streams \subseteq Callers
      /\ call \in [Callers -> Call] /\ turn \in [Turns -> TurnRow]
      /\ runner \in [Turns -> Runner]
      /\ frame \in [Turns -> {"none", "turn_done", "error"}]
      /\ turn' = turn => Running' = Running /\ Stored' = Stored
      /\ Stored \subseteq Turns /\ 0 \notin Turns
    BY <1>a, <1>b, <1>c, <1>d
<1> USE DEF Ordered, RowsInOrder, OnlyStoredTurns, SeenOver, OverWhenToldSo
<1>1. ASSUME NEW c \in Callers, CheckLease(c) PROVE Ordered'
  <2>1. CASE Ends(c)
      BY <1>0, <1>1, <2>1, EndsIs, OnlyCallEnds DEF CheckLease
  <2>2. ASSUME NEW v \in {"settling", "reading"}, At(c, v) PROVE Ordered'
      BY <1>0, <1>1, <2>2, AtIs, OnlyCallGoes DEF CheckLease
  <2> QED
      BY <1>1, <2>1, <2>2 DEF CheckLease
<1>2. ASSUME NEW c \in Callers, SettleRead(c) PROVE Ordered'
  <2>1. CASE Ends(c)
      BY <1>0, <1>2, <2>1, EndsIs, OnlyCallEnds DEF SettleRead
  <2>2. ASSUME NEW v \in {"failing", "opening", "concluding"}, At(c, v) PROVE Ordered'
      BY <1>0, <1>2, <2>2, AtIs, OnlyCallGoes DEF SettleRead
  <2> QED
      BY <1>2, <2>1, <2>2 DEF SettleRead, Settled
<1>3. ASSUME NEW c \in Callers, SettleWrite(c) PROVE Ordered'
    BY <1>0, <1>3, AtIs, EndsIs, WroteIs
    DEF SettleWrite
<1>4. ASSUME NEW c \in Callers, Announce(c) PROVE Ordered'
    BY <1>0, <1>4, AtIs, EndsIs
    DEF Announce, Settled, Emitted
<1>5. ASSUME NEW c \in Callers, RedisFailsCall(c) PROVE Ordered'
    BY <1>0, <1>5, AtIs, EndsIs
    DEF RedisFailsCall
<1>6. ASSUME NEW r \in Requests, NEW kind \in {"post", "get"}, Look(r, kind) PROVE Ordered'
    BY <1>0, <1>6, TakesIs
    DEF Look, Running, Stored
<1>7. ASSUME NEW r \in Requests, StartLock(r) PROVE Ordered'
    BY <1>0, <1>7, EndsIs, TakesIs
    DEF StartLock
<1>8. ASSUME NEW r \in Requests, Stamp(r) PROVE Ordered'
    BY <1>0, <1>8, TakesIs
    DEF Stamp
<1>9. ASSUME NEW r \in Requests, StartCommit(r) PROVE Ordered'
  <2>1. PICK t \in Turns :
           /\ t = Cardinality(Stored) + 1
           /\ turn' = [turn EXCEPT ![t] = [status |-> "running", cutoff |-> clock + 1,
                                           applied |-> call[r].applied]]
           /\ Takes(r, "leasing", call[r].kind, t, {})
      BY <1>9 DEF StartCommit
  <2>2. t \notin Stored /\ Stored' = Stored \cup {t}
      BY <2>1, StartCommitStores
  <2>3. PICK n \in Nat : Stored = 1 .. n /\ t = n + 1
      BY <2>1, StartCommitStores
  <2>4. t \notin Stored /\ n + 1 \in 0 .. MaxTurns
      BY <2>1, <2>3, <2>2, BoundAssumption DEF Turns
  <2>5. /\ turn'[t].status = "running"
        /\ \A u \in Turns \ {t} : turn'[u] = turn[u]
      BY <1>0, <2>1
  <2>6. Stored' = 1 .. (n + 1)
      BY <2>3, <2>2
  <2>7. ~deleted'
      BY <1>0, <1>9 DEF StartCommit, Serial, StartsAlone
  <2>8. RowsInOrder'
      BY <2>4, <2>6, <2>7
  <2>9. /\ call'[r].pc = "leasing" /\ call'[r].turn = t
         /\ \A x \in Callers \ {r} : call'[x] = call[x]
      BY <1>0, <2>1, TakesIs
  <2>10. UNCHANGED <<frame, runner>>
      BY <1>9 DEF StartCommit
  <2>11. OnlyStoredTurns'
    <3>1. \A u \in Turns \ Stored' : /\ frame'[u] = "none"
                                     /\ runner'[u].pc = "none"
                                     /\ runner'[u].left = "none"
        BY <2>2, <2>10
    <3>2. t \in Turns /\ t # 0
        BY <1>d, <2>1
    <3>3. \A c \in Callers : call'[c].turn # 0 => call'[c].turn \in Stored'
        BY <2>2, <2>9
    <3>4. ASSUME NEW c \in Callers, call'[c].pc \in
                   {"checking", "settling", "failing", "announcing", "leasing",
                    "unleased", "proposing", "releasing", "reading", "concluding"}
          PROVE  call'[c].turn # 0
        BY <2>9, <3>2, <3>4
    <3> QED
        BY <3>1, <3>3, <3>4
  <2>12. SeenOver'
    <3>1. \A u \in Turns : runner'[u].pc \in {"emitting", "complaining"} =>
                              turn'[u].status # "running"
        BY <1>0, <2>1, <2>4, <2>5, <2>10
    <3>2. ASSUME NEW c \in Callers, call'[c].pc = "announcing"
          PROVE  turn'[call'[c].turn].status # "running"
        BY <1>0, <2>1, <2>4, <2>5, <2>9, <3>2
    <3> QED
        BY <3>1, <3>2
  <2>13. OverWhenToldSo'
      BY <1>0, <2>1, <2>4, <2>5, <2>10
  <2> QED
      BY <2>8, <2>11, <2>12, <2>13
<1>10. ASSUME NEW r \in Requests, HoldLease(r) PROVE Ordered'
    BY <1>0, <1>10, AtIs, EndsIs, GoesIs
    DEF HoldLease
<1>11. ASSUME NEW r \in Requests, FailUnleased(r) PROVE Ordered'
    BY <1>0, <1>11, AtIs, EndsIs, WroteIs
    DEF FailUnleased
<1>12. ASSUME NEW r \in Requests, McpFinish(r) PROVE Ordered'
    BY <1>0, <1>12, AtIs, WroteIs
    DEF McpFinish
<1>13. ASSUME NEW r \in Requests, McpFail(r) PROVE Ordered'
    BY <1>0, <1>13, AtIs, WroteIs
    DEF McpFail
<1>14. ASSUME NEW r \in Requests, McpRelease(r) PROVE Ordered'
    BY <1>0, <1>14, EndsIs
    DEF McpRelease
<1>15. ASSUME NEW r \in Requests, Promote(r) PROVE Ordered'
    BY <1>0, <1>15, EndsIs
    DEF Promote
<1>16. ASSUME NEW r \in Requests, RequestDies(r) PROVE Ordered'
    BY <1>0, <1>16, EndsIs
    DEF RequestDies
<1>17. ASSUME NEW r \in Requests, DatabaseFailsCall(r) PROVE Ordered'
    BY <1>0, <1>17, AtIs, EndsIs
    DEF DatabaseFailsCall
<1>18. ASSUME NEW s \in Streams, Open(s) PROVE Ordered'
    BY <1>0, <1>18, TakesIs
    DEF Open
<1>19. ASSUME NEW s \in Streams, Read(s) PROVE Ordered'
    BY <1>0, <1>19, AtIs, EndsIs
    DEF Read
<1>20. ASSUME NEW s \in Streams, Conclude(s) PROVE Ordered'
    BY <1>0, <1>20, AtIs, EndsIs
    DEF Conclude
<1>21. ASSUME NEW s \in Streams, Disconnect(s) PROVE Ordered'
    BY <1>0, <1>21, EndsIs
    DEF Disconnect
<1>22. ASSUME NEW t \in Turns, RunnerBegins(t) PROVE Ordered'
    BY <1>0, <1>22, GoesIs
    DEF RunnerBegins
<1>23. ASSUME NEW t \in Turns, ModelAnswers(t) PROVE Ordered'
    BY <1>0, <1>23
    DEF ModelAnswers
<1>24. ASSUME NEW t \in Turns, FinishLoad(t) PROVE Ordered'
    BY <1>0, <1>24
    DEF FinishLoad
<1>25. ASSUME NEW t \in Turns, FinishWrite(t) PROVE Ordered'
    BY <1>0, <1>25, GoesIs, WroteIs
    DEF FinishWrite, Finishes
<1>26. ASSUME NEW t \in Turns, EmitDone(t) PROVE Ordered'
    BY <1>0, <1>26, GoesIs
    DEF EmitDone, Emitted
<1>27. ASSUME NEW t \in Turns, LoopFails(t) PROVE Ordered'
    BY <1>0, <1>27, GoesIs
    DEF LoopFails
<1>28. ASSUME NEW t \in Turns, FailWrite(t) PROVE Ordered'
    BY <1>0, <1>28, GoesIs, WroteIs
    DEF FailWrite
<1>29. ASSUME NEW t \in Turns, EmitError(t) PROVE Ordered'
    BY <1>0, <1>29, GoesIs
    DEF EmitError, Emitted
<1>30. ASSUME NEW t \in Turns, Release(t) PROVE Ordered'
    BY <1>0, <1>30, GoesIs
    DEF Release
<1>31. ASSUME NEW t \in Turns, LeftWrite(t) PROVE Ordered'
    BY <1>0, <1>31, WroteIs
    DEF LeftWrite, Finishes
<1>32. ASSUME NEW t \in Turns, LogExpires(t) PROVE Ordered'
    BY <1>0, <1>32
    DEF LogExpires
<1>33. ASSUME NEW t \in Turns, RedisFailsRunner(t) PROVE Ordered'
    BY <1>0, <1>33, GoesIs
    DEF RedisFailsRunner, Emitted
<1>34. ASSUME NEW t \in Turns, DatabaseFails(t) PROVE Ordered'
    BY <1>0, <1>34, GoesIs
    DEF DatabaseFails
<1>35. ASSUME NEW t \in Turns, Shutdown(t) PROVE Ordered'
  <2>1. UNCHANGED <<deleted, turn, call>>
      BY <1>35 DEF Shutdown
  <2>2. t \in Stored
      BY <1>0, <1>35 DEF Shutdown
  <2>3. /\ \A u \in Turns \ {t} : runner'[u] = runner[u]
        /\ runner'[t].pc \in {"failing", "releasing", "gone"}
      BY <1>0, <1>35, GoesIs DEF Shutdown, Runner
  <2>4. /\ \A u \in Turns \ {t} : frame'[u] = frame[u]
        /\ frame'[t] # frame[t] => turn[t].status # "running"
      BY <1>0, <1>35 DEF Shutdown, Emitted
  <2> QED
      BY <1>0, <2>1, <2>2, <2>3, <2>4
<1>36. ASSUME NEW t \in Turns, RunnerDies(t) PROVE Ordered'
    BY <1>0, <1>36
    DEF RunnerDies, Live
<1>37. ASSUME NEW t \in Turns, KeepLease(t) \/ Expire(t) \/ Lapse(t) PROVE Ordered'
    BY <1>0, <1>37 DEF KeepLease, Expire, Lapse
<1>38. CASE DeleteThread
    BY <1>0, <1>38 DEF DeleteThread, Stored
<1>39. CASE UNCHANGED vars
    BY <1>0, <1>39 DEF vars
<1> QED
    BY <1>0,
       <1>1, <1>2, <1>3, <1>4, <1>5, <1>6, <1>7, <1>8, <1>9, <1>10, <1>11,
       <1>12, <1>13, <1>14, <1>15, <1>16, <1>17, <1>18, <1>19, <1>20, <1>21,
       <1>22, <1>23, <1>24, <1>25, <1>26, <1>27, <1>28, <1>29, <1>30, <1>31,
       <1>32, <1>33, <1>34, <1>35, <1>36, <1>37, <1>38, <1>39
    DEF Next, Requesting, Streaming, Working


-----------------------------------------------------------------------------
(* The theorems.                                                             *)

\* What start_turn, the settlements, the runners and their frames keep true
\* together, for any requests, streams and faults.
THEOREM ConsistentAlways == Spec => []Consistent
<1>1. Init => Consistent
  <2> SUFFICES ASSUME Init PROVE Consistent
      OBVIOUS
  <2>1. TypeOK
    <3>1. /\ NoRow \in TurnRow /\ NoRunner \in Runner /\ NoCall \in Call
        BY Nothing DEF NoRow, TurnRow, Statuses, NoRunner, Runner, RunnerPcs,
           NoCall, Call, CallPcs, Kinds
    <3>2. turn \in [Turns -> TurnRow] /\ runner \in [Turns -> Runner]
        BY <3>1 DEF Init
    <3>3. call \in [Callers -> Call]
        BY <3>1 DEF Init
    <3>4. frame \in [Turns -> {"none", "turn_done", "error"}]
        BY DEF Init
    <3>5. promoted \in [Promotions -> Nat]
        BY DEF Init
    <3>6. deleted \in BOOLEAN
        BY Zenon DEF Init
    <3>9. clock \in Nat /\ cursor \in Nat
      <4>1. clock = 1 /\ cursor \in {0, 1}
          BY CursorAssumption, Zenon DEF Init
      <4> QED
          BY <4>1
    <3>7. lock \in Callers \cup {Nobody}
        BY DEF Init
    <3>8. lease \in SUBSET (0 .. MaxTurns) /\ told \in SUBSET Applied
        BY DEF Init
    <3> QED
        BY <3>2, <3>3, <3>4, <3>5, <3>6, <3>7, <3>8, <3>9, Zenon DEF TypeOK
  <2>2. Running = {} /\ Stored = {}
      BY DEF Init, Running, Stored, NoRow
  <2>3. LockIsHeld /\ StartsAlone /\ OneRunningRow
      BY <2>2, NobodyIsNoCaller
      DEF Init, LockIsHeld, StartsAlone, OneRunningRow, Callers, NoCall
  <2>4. RowsInOrder
    <3>1. 0 \in 0 .. MaxTurns /\ 1 .. 0 = {}
        BY BoundAssumption
    <3> QED
        BY <2>2, <3>1 DEF Init, RowsInOrder
  <2>5. OnlyStoredTurns /\ SeenOver /\ OverWhenToldSo
      BY <2>2 DEF Init, OnlyStoredTurns, SeenOver, OverWhenToldSo, NoRunner, NoCall
  <2> QED
      BY <2>1, <2>3, <2>4, <2>5 DEF Consistent
<1>2. Consistent /\ [Next]_vars => Consistent'
    BY TypeStep, SerialStep, OrderedStep DEF Consistent, Serial, Ordered
<1> QED
    BY <1>1, <1>2, PTL DEF Spec

\* Every variable keeps its type.
THEOREM TypeCorrect == Spec => []TypeOK
<1>1. Consistent => TypeOK
    BY DEF Consistent
<1> QED
    BY <1>1, ConsistentAlways, PTL

\* start_turn's row lock and its look at the running turn keep a conversation
\* at one running row, however turns are started and settled.
THEOREM AtMostOneRunningRow == Spec => []OneRunningRow
<1>1. Consistent => OneRunningRow
    BY DEF Consistent
<1> QED
    BY <1>1, ConsistentAlways, PTL

\* A client that reads a terminal frame may send its next message: the row has
\* left "running", whoever wrote the frame.
THEOREM TerminalFramesAreTrue == Spec => []OverWhenToldSo
<1>1. Consistent => OverWhenToldSo
    BY DEF Consistent
<1> QED
    BY <1>1, ConsistentAlways, PTL

-----------------------------------------------------------------------------
(* What is promoted and what the models are told.                            *)

\* The rows, the runners and the transactions under the lock, as far as what
\* they report goes, are as before a step.
SameRows ==
    /\ Stored' = Stored
    /\ \A t \in Stored : turn'[t].cutoff = turn[t].cutoff /\ turn'[t].applied = turn[t].applied
NobodyAnswers == \A t \in Turns : runner'[t].ran => runner[t].ran
LockedAsBefore ==
    \A r \in Requests : call'[r].pc \in {"starting", "promoting"} => call'[r] = call[r]

\* Most steps report nothing and promote nothing.
LEMMA Quiet ==
    ASSUME ReportsEverything, UNCHANGED <<clock, cursor, promoted, told>>,
           SameRows, NobodyAnswers, LockedAsBefore
    PROVE  ReportsEverything'
<1>1. CutoffsAreCovered'
    BY DEF ReportsEverything, CutoffsAreCovered, SameRows, NobodyAnswers
<1>2. LockedWritesAreCovered'
    BY DEF ReportsEverything, LockedWritesAreCovered, SameRows, LockedAsBefore
<1> QED
    BY <1>1, <1>2 DEF ReportsEverything, PromotionsAreTold

\* Rows that are unchanged report what they reported.
LEMMA SameRowsIfUnchanged == turn' = turn => SameRows
BY DEF SameRows, Stored

\* So do rows that got an end status.
LEMMA SameRowsIfWrote ==
    ASSUME turn \in [Turns -> TurnRow], NEW t \in Stored,
           NEW v \in {"done", "failed"}, turn' = Wrote(t, v)
    PROVE  SameRows
<1>1. Stored \subseteq Turns
    BY DEF Stored
<1> QED
    BY <1>1, WroteIs DEF SameRows

\* The cursor moves to the cutoff of a turn whose model has answered.
LEMMA CursorMoves ==
    ASSUME TypeOK, Serial, ReportsEverything, NEW t \in Stored, runner[t].ran,
           runner[t].seen < turn[t].cutoff, cursor' = turn[t].cutoff,
           UNCHANGED <<clock, promoted, told, call>>, lock = Nobody,
           SameRows, NobodyAnswers
    PROVE  ReportsEverything'
<1>1. t \in Turns /\ runner[t].seen \in Nat /\ turn[t].cutoff \in Nat
    BY DEF TypeOK, Stored, Runner, TurnRow
<1>2. cursor' \in 1 .. clock'
    BY <1>1 DEF ReportsEverything, CutoffsAreCovered, TypeOK
<1>3. PromotionsAreTold'
    BY <1>1 DEF ReportsEverything, CutoffsAreCovered, PromotionsAreTold
<1>4. CutoffsAreCovered'
    BY DEF ReportsEverything, CutoffsAreCovered, SameRows, NobodyAnswers
<1>5. \A r \in Requests : call[r].pc # "starting" /\ call[r].pc # "promoting"
    BY NobodyIsNoCaller DEF Serial, LockIsHeld
<1>6. LockedWritesAreCovered'
    BY <1>5 DEF LockedWritesAreCovered
<1> QED
    BY <1>2, <1>3, <1>4, <1>6 DEF ReportsEverything

\* finish_turn, in the runner or in the thread its cancelled await left behind.
LEMMA FinishesReports ==
    ASSUME TypeOK, Serial, ReportsEverything, NEW t \in Stored, Finishes(t),
           UNCHANGED <<clock, promoted, told, call>>,
           NobodyAnswers, LockedAsBefore
    PROVE  ReportsEverything'
<1>1. SameRows
    BY SameRowsIfWrote DEF TypeOK, Finishes
<1>2. CASE Advances(t)
    BY <1>1, <1>2, CursorMoves DEF Finishes, Advances
<1>3. CASE ~Advances(t)
    BY <1>1, <1>3, Quiet DEF Finishes
<1> QED
    BY <1>2, <1>3

\* Every action keeps what is promoted, read and told together.
LEMMA ReportsStep ==
    TypeOK /\ Serial /\ Ordered /\ ReportsEverything /\ [Next]_vars => ReportsEverything'
<1> SUFFICES ASSUME TypeOK, Serial, Ordered, ReportsEverything, [Next]_vars
             PROVE  ReportsEverything'
    OBVIOUS
<1>0. /\ Requests \subseteq Callers /\ Streams \subseteq Callers
      /\ call \in [Callers -> Call] /\ turn \in [Turns -> TurnRow]
      /\ runner \in [Turns -> Runner]
      /\ \A s \in Streams : s \notin Requests
    BY CallersAreApart DEF Callers, TypeOK
<1>a. /\ \A t \in Turns \ Stored : runner[t].pc = "none" /\ runner[t].left = "none"
      /\ \A c \in Callers : call[c].pc \in {"failing", "unleased", "proposing", "leasing"} =>
                                call[c].turn \in Stored
    BY DEF Ordered, OnlyStoredTurns
<1>b. Stored \subseteq Turns
    BY DEF Stored
<1>1. ASSUME NEW c \in Callers, CheckLease(c) PROVE ReportsEverything'
  <2>1. SameRows
      BY <1>0, <1>a, <1>1, SameRowsIfUnchanged DEF CheckLease
  <2>2. NobodyAnswers
      BY <1>0, <1>a, <1>1 DEF NobodyAnswers, CheckLease
  <2>3. LockedAsBefore
      BY <1>0, <1>1, AtIs, EndsIs DEF LockedAsBefore, CheckLease
  <2>4. UNCHANGED <<clock, cursor, promoted, told>>
      BY <1>1 DEF CheckLease
  <2> QED
      BY <2>1, <2>2, <2>3, <2>4, Quiet
<1>2. ASSUME NEW c \in Callers, SettleRead(c) PROVE ReportsEverything'
  <2>1. SameRows
      BY <1>0, <1>a, <1>2, SameRowsIfUnchanged DEF SettleRead, Settled
  <2>2. NobodyAnswers
      BY <1>0, <1>a, <1>2 DEF NobodyAnswers, SettleRead, Settled
  <2>3. LockedAsBefore
      BY <1>0, <1>2, AtIs, EndsIs DEF LockedAsBefore, SettleRead, Settled
  <2>4. UNCHANGED <<clock, cursor, promoted, told>>
      BY <1>2 DEF SettleRead, Settled
  <2> QED
      BY <2>1, <2>2, <2>3, <2>4, Quiet
<1>3. ASSUME NEW c \in Callers, SettleWrite(c) PROVE ReportsEverything'
  <2>1. SameRows
      BY <1>0, <1>a, <1>3, SameRowsIfWrote DEF SettleWrite
  <2>2. NobodyAnswers
      BY <1>0, <1>a, <1>3 DEF NobodyAnswers, SettleWrite
  <2>3. LockedAsBefore
      BY <1>0, <1>3, AtIs, EndsIs DEF LockedAsBefore, SettleWrite
  <2>4. UNCHANGED <<clock, cursor, promoted, told>>
      BY <1>3 DEF SettleWrite
  <2> QED
      BY <2>1, <2>2, <2>3, <2>4, Quiet
<1>4. ASSUME NEW c \in Callers, Announce(c) PROVE ReportsEverything'
  <2>1. SameRows
      BY <1>0, <1>a, <1>4, SameRowsIfUnchanged DEF Announce, Settled
  <2>2. NobodyAnswers
      BY <1>0, <1>a, <1>4 DEF NobodyAnswers, Announce, Settled
  <2>3. LockedAsBefore
      BY <1>0, <1>4, AtIs, EndsIs DEF LockedAsBefore, Announce, Settled
  <2>4. UNCHANGED <<clock, cursor, promoted, told>>
      BY <1>4 DEF Announce, Settled
  <2> QED
      BY <2>1, <2>2, <2>3, <2>4, Quiet
<1>5. ASSUME NEW c \in Callers, RedisFailsCall(c) PROVE ReportsEverything'
  <2>1. SameRows
      BY <1>0, <1>a, <1>5, SameRowsIfUnchanged DEF RedisFailsCall
  <2>2. NobodyAnswers
      BY <1>0, <1>a, <1>5 DEF NobodyAnswers, RedisFailsCall
  <2>3. LockedAsBefore
      BY <1>0, <1>5, AtIs, EndsIs DEF LockedAsBefore, RedisFailsCall
  <2>4. UNCHANGED <<clock, cursor, promoted, told>>
      BY <1>5 DEF RedisFailsCall
  <2> QED
      BY <2>1, <2>2, <2>3, <2>4, Quiet
<1>6. ASSUME NEW r \in Requests, NEW kind, Look(r, kind) PROVE ReportsEverything'
  <2>1. SameRows
      BY <1>0, <1>a, <1>6, SameRowsIfUnchanged DEF Look
  <2>2. NobodyAnswers
      BY <1>0, <1>a, <1>6 DEF NobodyAnswers, Look
  <2>3. LockedAsBefore
      BY <1>0, <1>6, TakesIs DEF LockedAsBefore, Look
  <2>4. UNCHANGED <<clock, cursor, promoted, told>>
      BY <1>6 DEF Look
  <2> QED
      BY <2>1, <2>2, <2>3, <2>4, Quiet
<1>7. ASSUME NEW r \in Requests, HoldLease(r) PROVE ReportsEverything'
  <2>1. SameRows
      BY <1>0, <1>a, <1>7, SameRowsIfUnchanged DEF HoldLease
  <2>2. NobodyAnswers
      BY <1>0, <1>a, <1>7, GoesIs, <1>b DEF NobodyAnswers, HoldLease
  <2>3. LockedAsBefore
      BY <1>0, <1>7, AtIs, EndsIs DEF LockedAsBefore, HoldLease
  <2>4. UNCHANGED <<clock, cursor, promoted, told>>
      BY <1>7 DEF HoldLease
  <2> QED
      BY <2>1, <2>2, <2>3, <2>4, Quiet
<1>8. ASSUME NEW r \in Requests, FailUnleased(r) PROVE ReportsEverything'
  <2>1. SameRows
      BY <1>0, <1>a, <1>8, SameRowsIfWrote DEF FailUnleased
  <2>2. NobodyAnswers
      BY <1>0, <1>a, <1>8 DEF NobodyAnswers, FailUnleased
  <2>3. LockedAsBefore
      BY <1>0, <1>8, AtIs, EndsIs DEF LockedAsBefore, FailUnleased
  <2>4. UNCHANGED <<clock, cursor, promoted, told>>
      BY <1>8 DEF FailUnleased
  <2> QED
      BY <2>1, <2>2, <2>3, <2>4, Quiet
<1>9. ASSUME NEW r \in Requests, McpFinish(r) PROVE ReportsEverything'
  <2>1. SameRows
      BY <1>0, <1>a, <1>9, SameRowsIfWrote DEF McpFinish
  <2>2. NobodyAnswers
      BY <1>0, <1>a, <1>9 DEF NobodyAnswers, McpFinish
  <2>3. LockedAsBefore
      BY <1>0, <1>9, AtIs DEF LockedAsBefore, McpFinish
  <2>4. UNCHANGED <<clock, cursor, promoted, told>>
      BY <1>9 DEF McpFinish
  <2> QED
      BY <2>1, <2>2, <2>3, <2>4, Quiet
<1>10. ASSUME NEW r \in Requests, McpFail(r) PROVE ReportsEverything'
  <2>1. SameRows
      BY <1>0, <1>a, <1>10, SameRowsIfWrote DEF McpFail
  <2>2. NobodyAnswers
      BY <1>0, <1>a, <1>10 DEF NobodyAnswers, McpFail
  <2>3. LockedAsBefore
      BY <1>0, <1>10, AtIs DEF LockedAsBefore, McpFail
  <2>4. UNCHANGED <<clock, cursor, promoted, told>>
      BY <1>10 DEF McpFail
  <2> QED
      BY <2>1, <2>2, <2>3, <2>4, Quiet
<1>11. ASSUME NEW r \in Requests, McpRelease(r) PROVE ReportsEverything'
  <2>1. SameRows
      BY <1>0, <1>a, <1>11, SameRowsIfUnchanged DEF McpRelease
  <2>2. NobodyAnswers
      BY <1>0, <1>a, <1>11 DEF NobodyAnswers, McpRelease
  <2>3. LockedAsBefore
      BY <1>0, <1>11, EndsIs DEF LockedAsBefore, McpRelease
  <2>4. UNCHANGED <<clock, cursor, promoted, told>>
      BY <1>11 DEF McpRelease
  <2> QED
      BY <2>1, <2>2, <2>3, <2>4, Quiet
<1>12. ASSUME NEW r \in Requests, RequestDies(r) PROVE ReportsEverything'
  <2>1. SameRows
      BY <1>0, <1>a, <1>12, SameRowsIfUnchanged DEF RequestDies
  <2>2. NobodyAnswers
      BY <1>0, <1>a, <1>12 DEF NobodyAnswers, RequestDies
  <2>3. LockedAsBefore
      BY <1>0, <1>12, EndsIs DEF LockedAsBefore, RequestDies
  <2>4. UNCHANGED <<clock, cursor, promoted, told>>
      BY <1>12 DEF RequestDies
  <2> QED
      BY <2>1, <2>2, <2>3, <2>4, Quiet
<1>13. ASSUME NEW r \in Requests, DatabaseFailsCall(r) PROVE ReportsEverything'
  <2>1. SameRows
      BY <1>0, <1>a, <1>13, SameRowsIfUnchanged DEF DatabaseFailsCall
  <2>2. NobodyAnswers
      BY <1>0, <1>a, <1>13 DEF NobodyAnswers, DatabaseFailsCall
  <2>3. LockedAsBefore
      BY <1>0, <1>13, AtIs, EndsIs DEF LockedAsBefore, DatabaseFailsCall
  <2>4. UNCHANGED <<clock, cursor, promoted, told>>
      BY <1>13 DEF DatabaseFailsCall
  <2> QED
      BY <2>1, <2>2, <2>3, <2>4, Quiet
<1>14. ASSUME NEW s \in Streams, Open(s) PROVE ReportsEverything'
  <2>1. SameRows
      BY <1>0, <1>a, <1>14, SameRowsIfUnchanged DEF Open
  <2>2. NobodyAnswers
      BY <1>0, <1>a, <1>14 DEF NobodyAnswers, Open
  <2>3. LockedAsBefore
      BY <1>0, <1>14, TakesIs DEF LockedAsBefore, Open
  <2>4. UNCHANGED <<clock, cursor, promoted, told>>
      BY <1>14 DEF Open
  <2> QED
      BY <2>1, <2>2, <2>3, <2>4, Quiet
<1>15. ASSUME NEW s \in Streams, Read(s) PROVE ReportsEverything'
  <2>1. SameRows
      BY <1>0, <1>a, <1>15, SameRowsIfUnchanged DEF Read
  <2>2. NobodyAnswers
      BY <1>0, <1>a, <1>15 DEF NobodyAnswers, Read
  <2>3. LockedAsBefore
      BY <1>0, <1>15, AtIs, EndsIs DEF LockedAsBefore, Read
  <2>4. UNCHANGED <<clock, cursor, promoted, told>>
      BY <1>15 DEF Read
  <2> QED
      BY <2>1, <2>2, <2>3, <2>4, Quiet
<1>16. ASSUME NEW s \in Streams, Conclude(s) PROVE ReportsEverything'
  <2>1. SameRows
      BY <1>0, <1>a, <1>16, SameRowsIfUnchanged DEF Conclude
  <2>2. NobodyAnswers
      BY <1>0, <1>a, <1>16 DEF NobodyAnswers, Conclude
  <2>3. LockedAsBefore
      BY <1>0, <1>16, AtIs, EndsIs DEF LockedAsBefore, Conclude
  <2>4. UNCHANGED <<clock, cursor, promoted, told>>
      BY <1>16 DEF Conclude
  <2> QED
      BY <2>1, <2>2, <2>3, <2>4, Quiet
<1>17. ASSUME NEW s \in Streams, Disconnect(s) PROVE ReportsEverything'
  <2>1. SameRows
      BY <1>0, <1>a, <1>17, SameRowsIfUnchanged DEF Disconnect
  <2>2. NobodyAnswers
      BY <1>0, <1>a, <1>17 DEF NobodyAnswers, Disconnect
  <2>3. LockedAsBefore
      BY <1>0, <1>17, EndsIs DEF LockedAsBefore, Disconnect
  <2>4. UNCHANGED <<clock, cursor, promoted, told>>
      BY <1>17 DEF Disconnect
  <2> QED
      BY <2>1, <2>2, <2>3, <2>4, Quiet
<1>18. ASSUME NEW t \in Turns, RunnerBegins(t) PROVE ReportsEverything'
  <2>1. SameRows
      BY <1>0, <1>a, <1>18, SameRowsIfUnchanged DEF RunnerBegins
  <2>2. NobodyAnswers
      BY <1>0, <1>a, <1>18, GoesIs DEF NobodyAnswers, RunnerBegins
  <2>3. LockedAsBefore
      BY <1>0, <1>18 DEF LockedAsBefore, RunnerBegins
  <2>4. UNCHANGED <<clock, cursor, promoted, told>>
      BY <1>18 DEF RunnerBegins
  <2> QED
      BY <2>1, <2>2, <2>3, <2>4, Quiet
<1>19. ASSUME NEW t \in Turns, FinishLoad(t) PROVE ReportsEverything'
  <2>1. SameRows
      BY <1>0, <1>a, <1>19, SameRowsIfUnchanged DEF FinishLoad
  <2>2. NobodyAnswers
      BY <1>0, <1>a, <1>19 DEF NobodyAnswers, FinishLoad
  <2>3. LockedAsBefore
      BY <1>0, <1>19 DEF LockedAsBefore, FinishLoad
  <2>4. UNCHANGED <<clock, cursor, promoted, told>>
      BY <1>19 DEF FinishLoad
  <2> QED
      BY <2>1, <2>2, <2>3, <2>4, Quiet
<1>20. ASSUME NEW t \in Turns, EmitDone(t) PROVE ReportsEverything'
  <2>1. SameRows
      BY <1>0, <1>a, <1>20, SameRowsIfUnchanged DEF EmitDone
  <2>2. NobodyAnswers
      BY <1>0, <1>a, <1>20, GoesIs DEF NobodyAnswers, EmitDone
  <2>3. LockedAsBefore
      BY <1>0, <1>20 DEF LockedAsBefore, EmitDone
  <2>4. UNCHANGED <<clock, cursor, promoted, told>>
      BY <1>20 DEF EmitDone
  <2> QED
      BY <2>1, <2>2, <2>3, <2>4, Quiet
<1>21. ASSUME NEW t \in Turns, LoopFails(t) PROVE ReportsEverything'
  <2>1. SameRows
      BY <1>0, <1>a, <1>21, SameRowsIfUnchanged DEF LoopFails
  <2>2. NobodyAnswers
      BY <1>0, <1>a, <1>21, GoesIs DEF NobodyAnswers, LoopFails
  <2>3. LockedAsBefore
      BY <1>0, <1>21 DEF LockedAsBefore, LoopFails
  <2>4. UNCHANGED <<clock, cursor, promoted, told>>
      BY <1>21 DEF LoopFails
  <2> QED
      BY <2>1, <2>2, <2>3, <2>4, Quiet
<1>22. ASSUME NEW t \in Turns, FailWrite(t) PROVE ReportsEverything'
  <2>1. SameRows
      BY <1>0, <1>a, <1>22, SameRowsIfWrote DEF FailWrite
  <2>2. NobodyAnswers
      BY <1>0, <1>a, <1>22, GoesIs DEF NobodyAnswers, FailWrite
  <2>3. LockedAsBefore
      BY <1>0, <1>22 DEF LockedAsBefore, FailWrite
  <2>4. UNCHANGED <<clock, cursor, promoted, told>>
      BY <1>22 DEF FailWrite
  <2> QED
      BY <2>1, <2>2, <2>3, <2>4, Quiet
<1>23. ASSUME NEW t \in Turns, EmitError(t) PROVE ReportsEverything'
  <2>1. SameRows
      BY <1>0, <1>a, <1>23, SameRowsIfUnchanged DEF EmitError
  <2>2. NobodyAnswers
      BY <1>0, <1>a, <1>23, GoesIs DEF NobodyAnswers, EmitError
  <2>3. LockedAsBefore
      BY <1>0, <1>23 DEF LockedAsBefore, EmitError
  <2>4. UNCHANGED <<clock, cursor, promoted, told>>
      BY <1>23 DEF EmitError
  <2> QED
      BY <2>1, <2>2, <2>3, <2>4, Quiet
<1>24. ASSUME NEW t \in Turns, Release(t) PROVE ReportsEverything'
  <2>1. SameRows
      BY <1>0, <1>a, <1>24, SameRowsIfUnchanged DEF Release
  <2>2. NobodyAnswers
      BY <1>0, <1>a, <1>24, GoesIs DEF NobodyAnswers, Release
  <2>3. LockedAsBefore
      BY <1>0, <1>24 DEF LockedAsBefore, Release
  <2>4. UNCHANGED <<clock, cursor, promoted, told>>
      BY <1>24 DEF Release
  <2> QED
      BY <2>1, <2>2, <2>3, <2>4, Quiet
<1>25. ASSUME NEW t \in Turns, LogExpires(t) PROVE ReportsEverything'
  <2>1. SameRows
      BY <1>0, <1>a, <1>25, SameRowsIfUnchanged DEF LogExpires
  <2>2. NobodyAnswers
      BY <1>0, <1>a, <1>25 DEF NobodyAnswers, LogExpires
  <2>3. LockedAsBefore
      BY <1>0, <1>25 DEF LockedAsBefore, LogExpires
  <2>4. UNCHANGED <<clock, cursor, promoted, told>>
      BY <1>25 DEF LogExpires
  <2> QED
      BY <2>1, <2>2, <2>3, <2>4, Quiet
<1>26. ASSUME NEW t \in Turns, RedisFailsRunner(t) PROVE ReportsEverything'
  <2>1. SameRows
      BY <1>0, <1>a, <1>26, SameRowsIfUnchanged DEF RedisFailsRunner
  <2>2. NobodyAnswers
      BY <1>0, <1>a, <1>26, GoesIs DEF NobodyAnswers, RedisFailsRunner
  <2>3. LockedAsBefore
      BY <1>0, <1>26 DEF LockedAsBefore, RedisFailsRunner
  <2>4. UNCHANGED <<clock, cursor, promoted, told>>
      BY <1>26 DEF RedisFailsRunner
  <2> QED
      BY <2>1, <2>2, <2>3, <2>4, Quiet
<1>27. ASSUME NEW t \in Turns, DatabaseFails(t) PROVE ReportsEverything'
  <2>1. SameRows
      BY <1>0, <1>a, <1>27, SameRowsIfUnchanged DEF DatabaseFails
  <2>2. NobodyAnswers
      BY <1>0, <1>a, <1>27, GoesIs DEF NobodyAnswers, DatabaseFails
  <2>3. LockedAsBefore
      BY <1>0, <1>27 DEF LockedAsBefore, DatabaseFails
  <2>4. UNCHANGED <<clock, cursor, promoted, told>>
      BY <1>27 DEF DatabaseFails
  <2> QED
      BY <2>1, <2>2, <2>3, <2>4, Quiet
<1>28. ASSUME NEW t \in Turns, Shutdown(t) PROVE ReportsEverything'
  <2>1. SameRows
      BY <1>0, <1>a, <1>28, SameRowsIfUnchanged DEF Shutdown
  <2>2. NobodyAnswers
    <3>1. CASE \E v : Goes(t, v)
        BY <1>0, <3>1, GoesIs DEF NobodyAnswers
    <3>2. ASSUME NEW v, NEW w, runner' = [runner EXCEPT ![t].pc = v, ![t].left = w]
          PROVE  NobodyAnswers
      <4>1. \A u \in Turns : runner'[u].ran = runner[u].ran
          BY <1>0, <3>2 DEF Runner
      <4> QED
          BY <4>1 DEF NobodyAnswers
    <3> QED
        BY <1>28, <3>1, <3>2 DEF Shutdown
  <2>3. LockedAsBefore
      BY <1>0, <1>28 DEF LockedAsBefore, Shutdown
  <2>4. UNCHANGED <<clock, cursor, promoted, told>>
      BY <1>28 DEF Shutdown
  <2> QED
      BY <2>1, <2>2, <2>3, <2>4, Quiet
<1>29. ASSUME NEW t \in Turns, RunnerDies(t) PROVE ReportsEverything'
  <2>1. SameRows
      BY <1>0, <1>a, <1>29, SameRowsIfUnchanged DEF RunnerDies
  <2>2. NobodyAnswers
      BY <1>0, <1>a, <1>29 DEF NobodyAnswers, RunnerDies
  <2>3. LockedAsBefore
      BY <1>0, <1>29 DEF LockedAsBefore, RunnerDies
  <2>4. UNCHANGED <<clock, cursor, promoted, told>>
      BY <1>29 DEF RunnerDies
  <2> QED
      BY <2>1, <2>2, <2>3, <2>4, Quiet
<1>30. ASSUME NEW t \in Turns, KeepLease(t) \/ Expire(t) \/ Lapse(t) PROVE ReportsEverything'
  <2>1. SameRows
      BY <1>0, <1>a, <1>30, SameRowsIfUnchanged DEF KeepLease, Expire, Lapse
  <2>2. NobodyAnswers
      BY <1>0, <1>a, <1>30 DEF NobodyAnswers, KeepLease, Expire, Lapse
  <2>3. LockedAsBefore
      BY <1>0, <1>30 DEF LockedAsBefore, KeepLease, Expire, Lapse
  <2>4. UNCHANGED <<clock, cursor, promoted, told>>
      BY <1>30 DEF KeepLease, Expire, Lapse
  <2> QED
      BY <2>1, <2>2, <2>3, <2>4, Quiet
<1>31. ASSUME NEW r \in Requests, StartLock(r) PROVE ReportsEverything'
  <2>1. UNCHANGED <<clock, cursor, promoted, told, turn, runner>>
      BY <1>31 DEF StartLock
  <2>2. SameRows /\ NobodyAnswers
      BY <2>1, SameRowsIfUnchanged DEF NobodyAnswers
  <2>3. CASE Ends(r)
    <3>1. LockedAsBefore
        BY <1>0, <2>3, EndsIs DEF LockedAsBefore
    <3> QED
        BY <2>1, <2>2, <3>1, Quiet
  <2>4. CASE Takes(r, "starting", StarterKind(r), 0, AppliedSince)
    <3>1. /\ call'[r].pc = "starting" /\ call'[r].applied = AppliedSince
          /\ \A x \in Callers \ {r} : call'[x] = call[x]
        BY <1>0, <2>4, TakesIs
    <3>2. ASSUME NEW p \in Promotions, promoted[p] # 0
          PROVE  <<p, promoted[p]>> \in AppliedSince \cup told
      <4>1. promoted[p] \in Nat /\ cursor \in Nat /\ cursor # 0
          BY DEF TypeOK, ReportsEverything
      <4>2. CASE promoted[p] > cursor
          BY <4>1, <4>2 DEF AppliedSince
      <4>3. CASE promoted[p] =< cursor
          BY <3>2, <4>1, <4>3 DEF ReportsEverything, PromotionsAreTold
      <4> QED
          BY <4>1, <4>2, <4>3
    <3>3. LockedWritesAreCovered'
        BY <1>0, <2>1, <2>2, <3>1, <3>2
        DEF ReportsEverything, LockedWritesAreCovered, SameRows
    <3>4. CutoffsAreCovered'
        BY <2>1, <2>2 DEF ReportsEverything, CutoffsAreCovered, SameRows, NobodyAnswers
    <3> QED
        BY <2>1, <3>3, <3>4 DEF ReportsEverything, PromotionsAreTold
  <2> QED
      BY <1>31, <2>3, <2>4 DEF StartLock
<1>32. ASSUME NEW r \in Requests, StartCommit(r) PROVE ReportsEverything'
  <2>1. PICK t \in Turns :
           /\ t = Cardinality(Stored) + 1
           /\ turn' = [turn EXCEPT ![t] = [status |-> "running", cutoff |-> clock + 1,
                                           applied |-> call[r].applied]]
           /\ Takes(r, "leasing", call[r].kind, t, {})
      BY <1>32 DEF StartCommit
  <2>2. /\ call'[r].pc = "leasing"
        /\ \A x \in Callers \ {r} : call'[x] = call[x]
      BY <1>0, <2>1, TakesIs
  <2>3. /\ clock' = clock + 1 /\ UNCHANGED <<cursor, promoted, told, runner>>
        /\ call[r].pc = "starting"
      BY <1>32 DEF StartCommit
  <2>4. \A x \in Requests : call'[x].pc \notin {"starting", "promoting"}
      BY <1>0, <2>2, <2>3 DEF Serial, LockIsHeld
  <2>5. t \notin Stored /\ Stored' = Stored \cup {t}
      BY <2>1, StartCommitStores DEF Ordered
  <2>6. /\ turn'[t].cutoff = clock + 1 /\ turn'[t].applied = call[r].applied
        /\ \A u \in Stored : turn'[u] = turn[u]
      BY <1>0, <1>b, <2>1, <2>5
  <2>7. clock \in Nat
      BY DEF TypeOK
  <2>8. ~runner[t].ran
      BY <2>5 DEF ReportsEverything, CutoffsAreCovered
  <2>9. CutoffsAreCovered'
    <3>1. ASSUME NEW u \in Stored'
          PROVE  /\ turn'[u].cutoff =< clock'
                 /\ \A p \in Promotions : promoted'[p] \in 1 .. turn'[u].cutoff =>
                      <<p, promoted'[p]>> \in turn'[u].applied \cup told'
      <4>1. CASE u = t
          BY <1>0, <2>3, <2>6, <2>7, <4>1 DEF ReportsEverything, LockedWritesAreCovered
      <4>2. CASE u \in Stored
        <5>1. turn[u].cutoff \in Nat /\ turn[u].cutoff =< clock
            BY <1>0, <1>b, <4>2 DEF ReportsEverything, CutoffsAreCovered, TurnRow
        <5> QED
            BY <2>3, <2>6, <2>7, <4>2, <5>1 DEF ReportsEverything, CutoffsAreCovered
      <4> QED
          BY <2>5, <4>1, <4>2
    <3>2. ASSUME NEW u \in Turns, runner'[u].ran
          PROVE  u \in Stored' /\ turn'[u].applied \subseteq told'
      <4>1. u \in Stored /\ turn[u].applied \subseteq told
          BY <2>3, <3>2 DEF ReportsEverything, CutoffsAreCovered
      <4> QED
          BY <2>3, <2>5, <2>6, <4>1
    <3> QED
        BY <3>1, <3>2 DEF CutoffsAreCovered
  <2>10. LockedWritesAreCovered'
      BY <2>4 DEF LockedWritesAreCovered
  <2>11. /\ cursor' \in 1 .. clock'
         /\ \A p \in Promotions : promoted'[p] =< clock'
      BY <2>3, <2>7 DEF ReportsEverything, TypeOK
  <2>12. PromotionsAreTold'
      BY <2>3 DEF ReportsEverything, PromotionsAreTold
  <2> QED
      BY <2>9, <2>10, <2>11, <2>12 DEF ReportsEverything
<1>33. ASSUME NEW r \in Requests, Stamp(r) PROVE ReportsEverything'
  <2>1. PICK p \in Promotions :
           Takes(r, "promoting", "promote", 0, {<<p, clock + 1>>})
      BY <1>33 DEF Stamp
  <2>2. /\ call'[r].pc = "promoting" /\ call'[r].applied = {<<p, clock + 1>>}
        /\ \A x \in Callers \ {r} : call'[x] = call[x]
      BY <1>0, <2>1, TakesIs
  <2>3. /\ clock' = clock + 1 /\ UNCHANGED <<cursor, promoted, told, turn, runner>>
        /\ lock = Nobody
      BY <1>33 DEF Stamp
  <2>4. \A x \in Requests : call[x].pc # "starting" /\ call[x].pc # "promoting"
      BY <2>3, NobodyIsNoCaller DEF Serial, LockIsHeld
  <2>5. SameRows
      BY <2>3, SameRowsIfUnchanged
  <2>6. clock \in Nat /\ cursor \in Nat /\ promoted \in [Promotions -> Nat]
        /\ \A u \in Stored : turn[u].cutoff \in Nat
      BY <1>b DEF TypeOK, TurnRow
  <2>7. CutoffsAreCovered'
    <3>1. \A u \in Stored : turn'[u].cutoff =< clock'
        BY <2>3, <2>5, <2>6 DEF ReportsEverything, CutoffsAreCovered, SameRows
    <3> QED
        BY <2>3, <2>5, <3>1 DEF ReportsEverything, CutoffsAreCovered, SameRows
  <2>8. LockedWritesAreCovered'
    <3> SUFFICES ASSUME NEW x \in Requests, call'[x].pc \in {"starting", "promoting"}
                 PROVE  /\ x = r
                        /\ clock + 1 > cursor'
                        /\ \A u \in Stored' : turn'[u].cutoff < clock + 1
        BY <2>2, <2>3, <2>6 DEF LockedWritesAreCovered
    <3>1. x = r
        BY <1>0, <2>2, <2>4
    <3>2. clock + 1 > cursor'
        BY <2>3, <2>6 DEF ReportsEverything
    <3>3. \A u \in Stored' : turn'[u].cutoff < clock + 1
        BY <2>3, <2>5, <2>6 DEF ReportsEverything, CutoffsAreCovered, SameRows
    <3> QED
        BY <3>1, <3>2, <3>3
  <2>9. /\ cursor' \in 1 .. clock'
        /\ \A q \in Promotions : promoted'[q] =< clock'
      BY <2>3, <2>6 DEF ReportsEverything
  <2>10. PromotionsAreTold'
      BY <2>3 DEF ReportsEverything, PromotionsAreTold
  <2> QED
      BY <2>7, <2>8, <2>9, <2>10 DEF ReportsEverything
<1>34. ASSUME NEW r \in Requests, Promote(r) PROVE ReportsEverything'
  <2>1. PICK a \in call[r].applied : promoted' = [promoted EXCEPT ![a[1]] = a[2]]
      BY <1>34 DEF Promote
  <2>2. /\ UNCHANGED <<clock, cursor, told, turn, runner>>
        /\ call[r].pc = "promoting" /\ Ends(r)
      BY <1>34 DEF Promote
  <2>3. /\ call'[r].pc = "idle"
        /\ \A x \in Callers \ {r} : call'[x] = call[x]
      BY <1>0, <2>2, EndsIs
  <2>4. \A x \in Requests : call'[x].pc \notin {"starting", "promoting"}
      BY <1>0, <2>2, <2>3 DEF Serial, LockIsHeld
  <2>5. /\ a[2] > cursor /\ a[2] =< clock
        /\ \A u \in Stored : turn[u].cutoff < a[2]
      BY <2>2 DEF ReportsEverything, LockedWritesAreCovered
  <2>6. a \in Promotions \X Nat
      BY <1>0, CallFields DEF Applied
  <2>7. ASSUME NEW q \in Promotions
        PROVE  promoted'[q] = promoted[q] \/ promoted'[q] = a[2]
      BY <2>1, <2>6 DEF TypeOK
  <2>8. /\ clock \in Nat /\ cursor \in Nat /\ a[2] \in Nat
        /\ \A u \in Stored : turn[u].cutoff \in Nat
      BY <1>b, <2>6 DEF TypeOK, TurnRow
  <2>9. SameRows
      BY <2>2, SameRowsIfUnchanged
  <2>10. CutoffsAreCovered'
    <3>1. ASSUME NEW u \in Stored, NEW q \in Promotions,
                 promoted'[q] \in 1 .. turn[u].cutoff
          PROVE  <<q, promoted'[q]>> \in turn[u].applied \cup told
      <4>1. promoted'[q] # a[2]
          BY <2>5, <2>8, <3>1
      <4> QED
          BY <2>7, <3>1, <4>1 DEF ReportsEverything, CutoffsAreCovered
    <3> QED
        BY <2>2, <2>9, <3>1 DEF ReportsEverything, CutoffsAreCovered, SameRows
  <2>11. LockedWritesAreCovered'
      BY <2>4 DEF LockedWritesAreCovered
  <2>12. /\ cursor' \in 1 .. clock'
         /\ \A q \in Promotions : promoted'[q] =< clock'
      BY <2>2, <2>5, <2>7 DEF ReportsEverything
  <2>13. ASSUME NEW q \in Promotions, promoted'[q] \in 1 .. cursor
         PROVE  <<q, promoted'[q]>> \in told
    <3>1. promoted'[q] # a[2]
        BY <2>5, <2>8, <2>13
    <3> QED
        BY <2>7, <2>13, <3>1 DEF ReportsEverything, PromotionsAreTold
  <2>14. PromotionsAreTold'
      BY <2>2, <2>13 DEF PromotionsAreTold
  <2> QED
      BY <2>10, <2>11, <2>12, <2>14 DEF ReportsEverything
<1>35. ASSUME NEW t \in Turns, ModelAnswers(t) PROVE ReportsEverything'
  <2>1. /\ UNCHANGED <<clock, cursor, promoted, call, turn>>
        /\ told' = told \cup turn[t].applied
        /\ runner' = [runner EXCEPT ![t].ran = TRUE]
        /\ runner[t].pc = "looping"
      BY <1>35 DEF ModelAnswers
  <2>2. t \in Stored /\ SameRows
      BY <1>a, <2>1, SameRowsIfUnchanged
  <2>3. \A u \in Turns \ {t} : runner'[u] = runner[u]
      BY <1>0, <2>1
  <2>4. CutoffsAreCovered'
    <3>1. ASSUME NEW u \in Turns, runner'[u].ran
          PROVE  u \in Stored /\ turn[u].applied \subseteq told'
        BY <2>1, <2>2, <2>3, <3>1 DEF ReportsEverything, CutoffsAreCovered
    <3> QED
        BY <2>1, <2>2, <3>1 DEF ReportsEverything, CutoffsAreCovered, SameRows
  <2>5. LockedWritesAreCovered'
      BY <2>1, <2>2 DEF ReportsEverything, LockedWritesAreCovered, SameRows
  <2> QED
      BY <2>1, <2>4, <2>5 DEF ReportsEverything, PromotionsAreTold
<1>36. ASSUME NEW t \in Turns, FinishWrite(t) PROVE ReportsEverything'
  <2>1. /\ t \in Stored /\ UNCHANGED <<clock, promoted, told, call>>
        /\ NobodyAnswers /\ LockedAsBefore
      BY <1>0, <1>a, <1>36, GoesIs DEF FinishWrite, NobodyAnswers, LockedAsBefore
  <2>2. CASE Finishes(t)
      BY <1>0, <2>1, <2>2, FinishesReports
  <2>3. CASE UNCHANGED <<turn, cursor>>
      BY <2>1, <2>3, SameRowsIfUnchanged, Quiet
  <2> QED
      BY <1>36, <2>2, <2>3 DEF FinishWrite
<1>37. ASSUME NEW t \in Turns, LeftWrite(t) PROVE ReportsEverything'
  <2>1. /\ t \in Stored /\ UNCHANGED <<clock, promoted, told, call>>
        /\ NobodyAnswers /\ LockedAsBefore
    <3>1. \A u \in Turns : runner'[u].ran = runner[u].ran
        BY <1>0, <1>37 DEF LeftWrite, Runner
    <3> QED
        BY <1>0, <1>a, <1>37, <3>1 DEF LeftWrite, NobodyAnswers, LockedAsBefore
  <2>2. CASE Finishes(t)
      BY <1>0, <2>1, <2>2, FinishesReports
  <2>3. CASE UNCHANGED <<turn, cursor>>
      BY <2>1, <2>3, SameRowsIfUnchanged, Quiet
  <2>4. CASE turn' = Wrote(t, "failed") /\ UNCHANGED cursor
      BY <1>0, <2>1, <2>4, SameRowsIfWrote, Quiet
  <2> QED
      BY <1>37, <2>2, <2>3, <2>4 DEF LeftWrite
<1>38. CASE DeleteThread
  <2>1. /\ UNCHANGED <<clock, cursor, told, runner, call>>
        /\ promoted' = [p \in Promotions |-> 0]
        /\ lock = Nobody
        /\ turn' = [t \in Turns |-> IF t \in Stored
                                    THEN [turn[t] EXCEPT !.status = "deleted"]
                                    ELSE turn[t]]
      BY <1>38 DEF DeleteThread
  <2>2. \A t \in Turns : /\ turn'[t].status # "none" <=> turn[t].status # "none"
                         /\ turn'[t].cutoff = turn[t].cutoff
                         /\ turn'[t].applied = turn[t].applied
    <3> SUFFICES ASSUME NEW t \in Turns
                 PROVE  /\ turn'[t].status # "none" <=> turn[t].status # "none"
                        /\ turn'[t].cutoff = turn[t].cutoff
                        /\ turn'[t].applied = turn[t].applied
        OBVIOUS
    <3>1. turn[t] \in TurnRow
        BY <1>0
    <3>2. CASE t \in Stored
        BY <2>1, <3>1, <3>2 DEF Stored, TurnRow
    <3>3. CASE t \notin Stored
        BY <2>1, <3>3
    <3> QED
        BY <3>2, <3>3
  <2>3. SameRows
      BY <1>b, <2>2 DEF SameRows, Stored
  <2>4. \A p \in Promotions : promoted'[p] = 0
      BY <2>1
  <2>5. CutoffsAreCovered'
      BY <2>1, <2>3, <2>4 DEF ReportsEverything, CutoffsAreCovered, SameRows
  <2>6. \A r \in Requests : call[r].pc # "starting" /\ call[r].pc # "promoting"
      BY <2>1, NobodyIsNoCaller DEF Serial, LockIsHeld
  <2>7. LockedWritesAreCovered'
      BY <2>1, <2>6 DEF LockedWritesAreCovered
  <2> QED
      BY <2>1, <2>4, <2>5, <2>7 DEF ReportsEverything, PromotionsAreTold, TypeOK
<1>39. CASE UNCHANGED vars
    BY <1>39, SameRowsIfUnchanged, Quiet DEF vars, NobodyAnswers, LockedAsBefore
<1> QED
    BY <1>0,
       <1>1, <1>2, <1>3, <1>4, <1>5, <1>6, <1>7, <1>8, <1>9, <1>10, <1>11,
       <1>12, <1>13, <1>14, <1>15, <1>16, <1>17, <1>18, <1>19, <1>20, <1>21,
       <1>22, <1>23, <1>24, <1>25, <1>26, <1>27, <1>28, <1>29, <1>30, <1>31,
       <1>32, <1>33, <1>34, <1>35, <1>36, <1>37, <1>38, <1>39
    DEF Next, Requesting, Streaming, Working

\* No promotion falls behind the cursor without a model having been told of it,
\* in a conversation whose cursor has been set: one that has no cursor reports
\* nothing by design.
THEOREM EveryPromotionIsTold ==
    ASSUME FirstCursors = {1}
    PROVE  Spec => []PromotionsAreTold
<1>1. Init => ReportsEverything
  <2> SUFFICES ASSUME Init PROVE ReportsEverything
      OBVIOUS
  <2>1. Stored = {} /\ cursor = 1 /\ clock = 1
      BY DEF Init, Stored, NoRow
  <2>2. \A p \in Promotions : promoted[p] = 0
      BY DEF Init
  <2>3. \A t \in Turns : ~runner[t].ran
      BY DEF Init, NoRunner
  <2>4. \A r \in Requests : call[r].pc = "idle"
      BY DEF Init, NoCall, Callers
  <2> QED
      BY <2>1, <2>2, <2>3, <2>4
      DEF ReportsEverything, CutoffsAreCovered, LockedWritesAreCovered, PromotionsAreTold
<1>2. Consistent /\ ReportsEverything /\ [Next]_vars => ReportsEverything'
    BY ReportsStep DEF Consistent, Serial, Ordered
<1>3. ReportsEverything => PromotionsAreTold
    BY DEF ReportsEverything
<1> QED
    BY <1>1, <1>2, <1>3, ConsistentAlways, PTL DEF Spec

-----------------------------------------------------------------------------
(* What the conversation promises to those who watch it: TurnLife.            *)

LifeRow == [t \in Turns |-> Lives(turn[t].status)]
Told == {t \in Turns : frame[t] # "none"}
LifeVars == <<LifeRow, Told>>

\* A step that leaves rows and frames alone is none of the promise's.
LEMMA LifeGoesOn ==
    ASSUME UNCHANGED <<turn, frame>>
    PROVE  UNCHANGED LifeVars
BY DEF LifeVars, LifeRow, Told

\* A row that is given an end is over, and stays so if it was.
LEMMA LifeEnds ==
    ASSUME TypeOK, NEW t \in Stored, NEW v \in {"done", "failed"},
           turn' = Wrote(t, v), frame' = frame
    PROVE  [Life!Next]_LifeVars
<1>1. /\ turn'[t].status = IF turn[t].status = "deleted" THEN "deleted" ELSE v
      /\ \A u \in Turns \ {t} : turn'[u] = turn[u]
    BY WroteIs DEF TypeOK
<1>2. t \in Turns /\ turn[t].status # "none"
    BY DEF Stored
<1>3. /\ LifeRow' = [LifeRow EXCEPT ![t] = "over"] /\ Told' = Told
      /\ LifeRow[t] \in {"running", "over"}
    BY <1>1, <1>2 DEF LifeRow, Lives, Told
<1>4. CASE LifeRow[t] = "running"
    BY <1>2, <1>3, <1>4 DEF Life!Next, Life!End, LifeRow, Told
<1>5. CASE LifeRow[t] = "over"
    BY <1>3, <1>5 DEF LifeVars, LifeRow
<1> QED
    BY <1>3, <1>4, <1>5

\* A frame is told of a row that is over.
LEMMA LifeTells ==
    ASSUME TypeOK, NEW t \in Stored, turn[t].status # "running", turn' = turn,
           NEW v \in {"turn_done", "error"}, frame' \in {frame, Emitted(t, v)}
    PROVE  [Life!Next]_LifeVars
<1>1. t \in Turns /\ turn[t].status # "none"
    BY DEF Stored
<1>2. LifeRow' = LifeRow /\ LifeRow[t] = "over"
    BY <1>1 DEF LifeRow, Lives
<1>3. CASE frame' = frame
    BY <1>3, LifeGoesOn
<1>4. CASE frame' = Emitted(t, v)
  <2>1. Told' = Told \cup {t}
      BY <1>1, <1>4 DEF Told, Emitted, TypeOK
  <2> QED
      BY <1>1, <1>2, <2>1 DEF Life!Next, Life!Tell, LifeRow, Told
<1> QED
    BY <1>3, <1>4

\* A new turn begins after all the others.
LEMMA LifeBegins ==
    ASSUME TypeOK, Serial, Ordered, NEW r \in Requests, StartCommit(r)
    PROVE  [Life!Next]_LifeVars
<1>1. PICK t \in Turns :
         /\ t = Cardinality(Stored) + 1
         /\ turn' = [turn EXCEPT ![t] = [status |-> "running", cutoff |-> clock + 1,
                                         applied |-> call[r].applied]]
    BY DEF StartCommit
<1>2. t \notin Stored
    BY <1>1, StartCommitStores DEF Ordered
<1>3. PICK n \in Nat : Stored = 1 .. n /\ t = n + 1
    BY <1>1, StartCommitStores DEF Ordered
<1>4. Running = {} /\ frame' = frame
    BY DEF StartCommit, Serial, StartsAlone
<1>5. ASSUME NEW u \in Turns
      PROVE  /\ LifeRow[u] # "running"
             /\ u < t => LifeRow[u] = "over"
  <2>1. turn[u].status # "running"
      BY <1>4 DEF Running
  <2>2. u < t => turn[u].status # "none"
      BY <1>3 DEF Stored, Turns
  <2> QED
      BY <2>1, <2>2 DEF LifeRow, Lives
<1>6. LifeRow[t] = "none"
    BY <1>2 DEF LifeRow, Lives, Stored
<1>7. LifeRow' = [LifeRow EXCEPT ![t] = "running"] /\ Told' = Told
    BY <1>1, <1>4 DEF LifeRow, Lives, Told, TypeOK
<1> QED
    BY <1>5, <1>6, <1>7 DEF Life!Next, Life!Begin, LifeRow, Told

\* A conversation that is deleted ends the turn that ran, if one did.
LEMMA LifeDeleted ==
    ASSUME TypeOK, OneRunningRow, DeleteThread
    PROVE  [Life!Next]_LifeVars
<1>1. /\ turn' = [t \in Turns |-> IF t \in Stored
                                  THEN [turn[t] EXCEPT !.status = "deleted"]
                                  ELSE turn[t]]
      /\ Told' = Told
    BY DEF DeleteThread, Told
<1>2. ASSUME NEW t \in Turns
      PROVE  LifeRow'[t] = IF t \in Running THEN "over" ELSE LifeRow[t]
    BY <1>1 DEF LifeRow, Lives, Running, Stored, TypeOK, TurnRow
<1>3. CASE Running = {}
  <2>1. LifeRow' = LifeRow
      BY <1>2, <1>3 DEF LifeRow
  <2> QED
      BY <1>1, <2>1 DEF LifeVars
<1>4. CASE Running # {}
  <2>1. PICK t \in Turns : Running = {t}
      BY <1>4 DEF Running, OneRunningRow
  <2>2. LifeRow' = [LifeRow EXCEPT ![t] = "over"] /\ LifeRow[t] = "running"
      BY <1>2, <2>1 DEF LifeRow, Lives, Running
  <2> QED
      BY <1>1, <2>1, <2>2 DEF Life!Next, Life!End, LifeRow, Told
<1> QED
    BY <1>3, <1>4

\* Every step is one of the promise's, or none.
LEMMA LifeStep ==
    ASSUME TypeOK, Serial, Ordered, [Next]_vars
    PROVE  [Life!Next]_LifeVars
<1>0. /\ Requests \subseteq Callers /\ Streams \subseteq Callers
      /\ call \in [Callers -> Call] /\ runner \in [Turns -> Runner]
    BY DEF Callers, TypeOK
<1>1. ASSUME NEW c \in Callers,
             call[c].pc \in {"failing", "announcing", "unleased", "proposing"}
      PROVE  call[c].turn \in Stored
    BY <1>1 DEF Ordered, OnlyStoredTurns
<1>2. ASSUME NEW t \in Turns, runner[t].pc # "none" \/ runner[t].left # "none"
      PROVE  t \in Stored
    BY <1>2 DEF Ordered, OnlyStoredTurns
<1>3. ASSUME NEW c \in Callers, SettleWrite(c) PROVE [Life!Next]_LifeVars
    BY <1>1, <1>3, LifeEnds DEF SettleWrite
<1>4. ASSUME NEW c \in Callers, Announce(c) PROVE [Life!Next]_LifeVars
    BY <1>1, <1>4, LifeTells DEF Announce, Ordered, SeenOver
<1>5. ASSUME NEW r \in Requests, FailUnleased(r) \/ McpFinish(r) \/ McpFail(r)
      PROVE  [Life!Next]_LifeVars
    BY <1>0, <1>1, <1>5, LifeEnds DEF FailUnleased, McpFinish, McpFail
<1>6. ASSUME NEW r \in Requests, StartCommit(r) PROVE [Life!Next]_LifeVars
    BY <1>6, LifeBegins
<1>7. ASSUME NEW t \in Turns, FinishWrite(t) \/ FailWrite(t) \/ LeftWrite(t)
      PROVE  [Life!Next]_LifeVars
  <2>1. t \in Stored /\ frame' = frame
      BY <1>2, <1>7 DEF FinishWrite, FailWrite, LeftWrite
  <2>2. turn' = turn \/ \E v \in {"done", "failed"} : turn' = Wrote(t, v)
      BY <1>7 DEF FinishWrite, FailWrite, LeftWrite, Finishes
  <2> QED
      BY <2>1, <2>2, LifeEnds, LifeGoesOn
<1>8. ASSUME NEW t \in Turns,
             \/ EmitDone(t) \/ EmitError(t)
             \/ (RedisFailsRunner(t) \/ Shutdown(t)) /\ frame' # frame
      PROVE  [Life!Next]_LifeVars
  <2>1. runner[t].pc \in {"emitting", "complaining"} /\ turn' = turn
      BY <1>8 DEF EmitDone, EmitError, RedisFailsRunner, Shutdown
  <2>2. \E v \in {"turn_done", "error"} : frame' \in {frame, Emitted(t, v)}
      BY <1>8 DEF EmitDone, EmitError, RedisFailsRunner, Shutdown
  <2>3. t \in Stored /\ turn[t].status # "running"
      BY <1>2, <2>1 DEF Ordered, SeenOver
  <2> QED
      BY <2>1, <2>2, <2>3, LifeTells
<1>9. ASSUME NEW t \in Turns, LogExpires(t) PROVE [Life!Next]_LifeVars
  <2>1. LifeRow' = LifeRow /\ Told' = Told \ {t}
      BY <1>9 DEF LogExpires, LifeRow, Told, TypeOK
  <2> QED
      BY <2>1 DEF Life!Next, Life!Forget, LifeRow, Told
<1>10. CASE DeleteThread
    BY <1>10, LifeDeleted DEF Serial
<1>11. CASE UNCHANGED <<turn, frame>>
    BY <1>11, LifeGoesOn
<1>12. ASSUME NEW c \in Callers, CheckLease(c) \/ SettleRead(c) \/ RedisFailsCall(c)
       PROVE  UNCHANGED <<turn, frame>>
    BY <1>12 DEF CheckLease, SettleRead, RedisFailsCall
<1>13. ASSUME NEW r \in Requests,
              \/ Look(r, "post") \/ Look(r, "get") \/ StartLock(r) \/ Stamp(r)
              \/ HoldLease(r) \/ McpRelease(r) \/ Promote(r) \/ RequestDies(r)
              \/ DatabaseFailsCall(r)
       PROVE  UNCHANGED <<turn, frame>>
    BY <1>13 DEF Look, StartLock, Stamp, HoldLease, McpRelease, Promote, RequestDies,
       DatabaseFailsCall
<1>14. ASSUME NEW s \in Streams, Open(s) \/ Read(s) \/ Conclude(s) \/ Disconnect(s)
       PROVE  UNCHANGED <<turn, frame>>
    BY <1>14 DEF Open, Read, Conclude, Disconnect
<1>15. ASSUME NEW t \in Turns,
              \/ RunnerBegins(t) \/ ModelAnswers(t) \/ FinishLoad(t) \/ LoopFails(t)
              \/ Release(t) \/ KeepLease(t) \/ Expire(t) \/ Lapse(t) \/ DatabaseFails(t)
              \/ RunnerDies(t)
              \/ (RedisFailsRunner(t) \/ Shutdown(t)) /\ frame' = frame
       PROVE  UNCHANGED <<turn, frame>>
    BY <1>15 DEF RunnerBegins, ModelAnswers, FinishLoad, LoopFails, Release, KeepLease,
       Expire, Lapse, DatabaseFails, RunnerDies, RedisFailsRunner, Shutdown
<1>16. CASE UNCHANGED vars
    BY <1>16, <1>11 DEF vars
<1> QED
    BY <1>0, <1>3, <1>4, <1>5, <1>6, <1>7, <1>8, <1>9, <1>10, <1>11, <1>12, <1>13,
       <1>14, <1>15, <1>16
    DEF Next, Requesting, Streaming, Working

\* ChatTurn implements TurnLife: whoever settles, repeats, fails or deletes, turns
\* run one after the other and once, and logs say that they are over when they are.
THEOREM LifeIsKept == Spec => LifeKept
<1>1. Init => Life!Init
    BY DEF Init, Life!Init, NoRow, Lives
<1>2. Consistent /\ [Next]_vars => [Life!Next]_Life!vars
    BY LifeStep DEF Consistent, Serial, Ordered, Life!vars, LifeVars, LifeRow, Told
<1> QED
    BY <1>1, <1>2, ConsistentAlways, PTL DEF Spec, LifeKept, Life!Spec
=============================================================================
