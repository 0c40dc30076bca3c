------------------------------ MODULE ChatTurn ------------------------------
(***************************************************************************)
(* One conversation of veodyn-api's chat: its thread row and the turns in   *)
(* PostgreSQL (services/chat/store), each turn's lease and frame log in     *)
(* Redis (services/chat/bus), the runner task of each turn                  *)
(* (services/chat/runner), the requests that start, look at and propose     *)
(* turns (routers/ai_chat, services/chat/mcp_calls), the event streams that *)
(* follow a turn, and the promotions whose outcome the next turn is told.   *)
(*                                                                          *)
(* A step is one statement or one Redis call whose result is used later, or *)
(* the tail of a transaction up to its commit.  The row lock of the thread, *)
(* which start_turn and the promotions take, outlives a step: `lock'.       *)
(***************************************************************************)
EXTENDS Naturals, FiniteSets

CONSTANTS
    Requests,        \* HTTP requests that can be in flight at once
    Streams,         \* event streams that can be open at once
    Nobody,          \* holds the thread's row lock when no transaction does
    Promotions,      \* draft promotions of this conversation
    Operations,      \* what requests do: post, get, mcp, promote, delete
    Faults,          \* what may go wrong: lapse, crash, redis, db, shutdown
    FirstCursors,    \* what applied_reported_at may be at first: 0 is NULL
    MaxTurns,        \* MAX_TURNS_PER_THREAD, scaled down
    MaxPromoting     \* bound: promotions are recorded only up to this time

ASSUME NobodyIsNoCaller == Nobody \notin Requests \cup Streams
ASSUME CallersAreApart == Requests \cap Streams = {}
ASSUME CursorAssumption == FirstCursors \subseteq {0, 1}
ASSUME BoundAssumption == MaxTurns \in Nat /\ MaxPromoting \in Nat

VARIABLES
    deleted,    \* the thread's row is gone, and its turns with it
    lock,       \* who holds the thread's row lock
    clock,      \* the last timestamp anyone took
    cursor,     \* thread.applied_reported_at
    turn,       \* the rows of ai_chat_turn by seq
    lease,      \* the turns whose lease is in Redis
    frame,      \* the first terminal frame in each turn's log
    runner,     \* the task that runs each turn
    promoted,   \* promotion.updated_at, 0 while there is no row
    told,       \* history: the promotions a model call has been told of
    call        \* the requests and streams in flight

vars == <<deleted, lock, clock, cursor, turn, lease, frame, runner, promoted,
          told, call>>

Turns == 1 .. MaxTurns
Callers == Requests \cup Streams
Applied == Promotions \X Nat

Statuses == {"none", "running", "done", "failed", "deleted"}
TurnRow == [status : Statuses, cutoff : Nat, applied : SUBSET Applied]

RunnerPcs == {"none", "starting", "looping", "finishing", "emitting",
              "failing", "complaining", "releasing", "gone"}
Runner == [pc : RunnerPcs,
           ran : BOOLEAN,      \* blocks is not empty: the model has answered
           seen : Nat,         \* the cursor finish_turn has read
           left : {"none", "done", "failed"}]  \* a cancelled write's thread

CallPcs == {"idle", "checking", "settling", "failing", "announcing",
            "opening", "starting", "leasing", "unleased", "proposing",
            "releasing", "promoting", "reading", "concluding"}
Kinds == {"none", "post", "get", "mcp", "promote", "stream"}
Call == [pc : CallPcs, kind : Kinds, turn : 0 .. MaxTurns,
         applied : SUBSET Applied]

NoRow == [status |-> "none", cutoff |-> 0, applied |-> {}]
NoRunner == [pc |-> "none", ran |-> FALSE, seen |-> 0, left |-> "none"]
NoCall == [pc |-> "idle", kind |-> "none", turn |-> 0, applied |-> {}]

TypeOK ==
    /\ deleted \in BOOLEAN
    /\ lock \in Callers \cup {Nobody}
    /\ clock \in Nat
    /\ cursor \in Nat
    /\ turn \in [Turns -> TurnRow]
    /\ lease \in SUBSET (0 .. MaxTurns)
    /\ frame \in [Turns -> {"none", "turn_done", "error"}]
    /\ runner \in [Turns -> Runner]
    /\ promoted \in [Promotions -> Nat]
    /\ told \in SUBSET Applied
    /\ call \in [Callers -> Call]

-----------------------------------------------------------------------------
(* What the code reads.                                                      *)

Running == {t \in Turns : turn[t].status = "running"}
Stored == {t \in Turns : turn[t].status # "none"}

\* applied_since the cursor; a NULL cursor reports nothing.
AppliedSince ==
    IF cursor = 0 THEN {}
    ELSE {<<p, promoted[p]>> : p \in {q \in Promotions : promoted[q] > cursor}}

\* The runner is inside the try of run: its lease is being refreshed.
Live(t) == runner[t].pc \in {"looping", "finishing", "emitting", "failing",
                             "complaining"}

\* The status a row has after a write: a row that is gone is not written.
Wrote(t, status) == [turn EXCEPT ![t].status = IF @ = "deleted" THEN @ ELSE status]

\* The log keeps its first terminal frame: a stream reads no further.
Emitted(t, event) == [frame EXCEPT ![t] = IF @ = "none" THEN event ELSE @]

Goes(t, pc) == runner' = [runner EXCEPT ![t].pc = pc]
At(c, pc) == call' = [call EXCEPT ![c].pc = pc]
Ends(c) == call' = [call EXCEPT ![c] = NoCall]
Takes(c, pc, kind, t, applied) ==
    call' = [call EXCEPT ![c] = [pc |-> pc, kind |-> kind, turn |-> t,
                                 applied |-> applied]]

-----------------------------------------------------------------------------
(* A request looks for a running turn, and settles it when its lease is gone.*)

\* post_turn and get_thread read the running turn, if there is one.
Look(r, kind) ==
    /\ call[r].pc = "idle"
    /\ kind \in Operations
    /\ ~deleted
    /\ \/ /\ Running = {}
          /\ kind = "post"
          /\ Takes(r, "opening", kind, 0, {})
       \/ \E t \in Running : Takes(r, "checking", kind, t, {})
    /\ UNCHANGED <<deleted, lock, clock, cursor, turn, lease, frame, runner,
                   promoted, told>>

\* lease_alive: a post is refused, a get answers, a stream keeps reading; when
\* the lease is gone the turn is taken for lost.
CheckLease(c) ==
    /\ call[c].pc = "checking"
    /\ IF call[c].turn \notin lease THEN At(c, "settling")
       ELSE IF call[c].kind = "stream" THEN At(c, "reading") ELSE Ends(c)
    /\ UNCHANGED <<deleted, lock, clock, cursor, turn, lease, frame, runner,
                   promoted, told>>

\* Where _settle_lost returns to.
Settled(c) ==
    \/ call[c].kind = "post" /\ At(c, "opening")
    \/ call[c].kind = "stream" /\ At(c, "concluding")
    \/ call[c].kind \notin {"post", "stream"} /\ Ends(c)

\* fail_turn reads the row in a transaction of its own, with no lock ...
SettleRead(c) ==
    /\ call[c].pc = "settling"
    /\ IF turn[call[c].turn].status = "running" THEN At(c, "failing")
       ELSE Settled(c)
    /\ UNCHANGED <<deleted, lock, clock, cursor, turn, lease, frame, runner,
                   promoted, told>>

\* Slip: a status no reader of the row knows.
SettleAsLost(c) ==
    /\ call[c].pc = "failing"
    /\ turn' = Wrote(call[c].turn, "lost")
    /\ IF deleted THEN Ends(c) ELSE At(c, "announcing")
    /\ UNCHANGED <<deleted, lock, clock, cursor, lease, frame, runner,
                   promoted, told>>

\* ... and writes it, whatever it has become; a row that is gone raises.
SettleWrite(c) ==
    /\ call[c].pc = "failing"
    /\ turn' = Wrote(call[c].turn, "failed")
    /\ IF deleted THEN Ends(c) ELSE At(c, "announcing")
    /\ UNCHANGED <<deleted, lock, clock, cursor, lease, frame, runner,
                   promoted, told>>

Announce(c) ==
    /\ call[c].pc = "announcing"
    /\ frame' = Emitted(call[c].turn, "error")
    /\ Settled(c)
    /\ UNCHANGED <<deleted, lock, clock, cursor, turn, lease, runner, promoted,
                   told>>

-----------------------------------------------------------------------------
(* A request starts a turn: start_turn, hold_lease, spawn_turn.              *)

\* An MCP call opens its turn at once, a post after it has looked.
StarterKind(r) == IF call[r].pc = "idle" THEN "mcp" ELSE call[r].kind

\* Slip: the thread's row is read without FOR UPDATE.
StartUnlocked(r) ==
    /\ \/ call[r].pc = "opening"
       \/ call[r].pc = "idle" /\ "mcp" \in Operations /\ ~deleted
    /\ lock' = lock
    /\ IF Running # {} \/ deleted \/ Stored = Turns THEN Ends(r)
       ELSE Takes(r, "starting", StarterKind(r), 0, AppliedSince)
    /\ UNCHANGED <<deleted, clock, cursor, turn, lease, frame, runner,
                   promoted, told>>

\* Under the thread's lock: refused while a turn runs or the thread is full;
\* otherwise what was applied since the cursor is read.
StartLock(r) ==
    /\ \/ call[r].pc = "opening"
       \/ call[r].pc = "idle" /\ "mcp" \in Operations /\ ~deleted
    /\ lock = Nobody
    /\ IF Running # {} \/ deleted \/ Stored = Turns
       THEN /\ Ends(r)
            /\ UNCHANGED lock
       ELSE /\ lock' = r
            /\ Takes(r, "starting", StarterKind(r), 0, AppliedSince)
    /\ UNCHANGED <<deleted, clock, cursor, turn, lease, frame, runner,
                   promoted, told>>

\* The row is committed, with the time it was started at as its cutoff.
StartCommit(r) ==
    /\ call[r].pc = "starting"
    /\ \E t \in Turns :
         /\ t = Cardinality(Stored) + 1
         /\ turn' = [turn EXCEPT ![t] = [status |-> "running",
                                         cutoff |-> clock + 1,
                                         applied |-> call[r].applied]]
         /\ Takes(r, "leasing", call[r].kind, t, {})
    /\ clock' = clock + 1
    /\ lock' = Nobody
    /\ UNCHANGED <<deleted, cursor, lease, frame, runner, promoted, told>>

\* The lease is taken only now; a post then hands the turn to its runner.
HoldLease(r) ==
    /\ call[r].pc = "leasing"
    /\ lease' = lease \cup {call[r].turn}
    /\ IF call[r].kind = "mcp"
       THEN /\ At(r, "proposing")
            /\ UNCHANGED runner
       ELSE /\ Goes(call[r].turn, "starting")
            /\ Ends(r)
    /\ UNCHANGED <<deleted, lock, clock, cursor, turn, frame, promoted, told>>

\* Without Redis the turn is failed: the session still holds it as running,
\* so fail_turn's look at the status does not see what others have written.
FailUnleased(r) ==
    /\ call[r].pc = "unleased"
    /\ turn' = Wrote(call[r].turn, "failed")
    /\ IF call[r].kind = "mcp" THEN At(r, "releasing") ELSE Ends(r)
    /\ UNCHANGED <<deleted, lock, clock, cursor, lease, frame, runner,
                   promoted, told>>

\* An MCP call that has opened a turn finishes it in the request itself ...
McpFinish(r) ==
    /\ call[r].pc = "proposing"
    /\ turn' = Wrote(call[r].turn, "done")
    /\ At(r, "releasing")
    /\ UNCHANGED <<deleted, lock, clock, cursor, lease, frame, runner,
                   promoted, told>>

\* ... or fails it ...
McpFail(r) ==
    /\ call[r].pc = "proposing"
    /\ turn' = Wrote(call[r].turn, "failed")
    /\ At(r, "releasing")
    /\ UNCHANGED <<deleted, lock, clock, cursor, lease, frame, runner,
                   promoted, told>>

\* ... and emits nothing: its streams end on the row.
McpRelease(r) ==
    /\ call[r].pc = "releasing"
    /\ lease' = lease \ {call[r].turn}
    /\ Ends(r)
    /\ UNCHANGED <<deleted, lock, clock, cursor, turn, frame, runner, promoted,
                   told>>

-----------------------------------------------------------------------------
(* Promotions, and the end of a conversation.                                *)

\* Slip: the promotion's time is taken before the thread's lock.
StampUnlocked(r) ==
    /\ call[r].pc = "idle"
    /\ "promote" \in Operations
    /\ ~deleted
    /\ clock < MaxPromoting
    /\ \E p \in Promotions :
         Takes(r, "promoting", "promote", 0, {<<p, clock + 1>>})
    /\ clock' = clock + 1
    /\ UNCHANGED <<deleted, lock, cursor, turn, lease, frame, runner, promoted,
                   told>>

\* record_promotion, or update_promotion of one that is there: the time is
\* taken under the thread's lock ...
Stamp(r) ==
    /\ call[r].pc = "idle"
    /\ "promote" \in Operations
    /\ ~deleted
    /\ clock < MaxPromoting
    /\ lock = Nobody
    /\ lock' = r
    /\ \E p \in Promotions :
         Takes(r, "promoting", "promote", 0, {<<p, clock + 1>>})
    /\ clock' = clock + 1
    /\ UNCHANGED <<deleted, cursor, turn, lease, frame, runner, promoted, told>>

\* ... which is held until the commit.
Promote(r) ==
    /\ call[r].pc = "promoting"
    /\ \E a \in call[r].applied :
         promoted' = [promoted EXCEPT ![a[1]] = a[2]]
    /\ lock' = IF lock = r THEN Nobody ELSE lock
    /\ Ends(r)
    /\ UNCHANGED <<deleted, clock, cursor, turn, lease, frame, runner, told>>

\* delete_thread: the turns, the drafts and the promotions go with the row.
DeleteThread ==
    /\ "delete" \in Operations
    /\ ~deleted
    /\ lock = Nobody
    /\ deleted' = TRUE
    /\ turn' = [t \in Turns |-> IF t \in Stored
                                THEN [turn[t] EXCEPT !.status = "deleted"]
                                ELSE turn[t]]
    /\ promoted' = [p \in Promotions |-> 0]
    /\ UNCHANGED <<lock, clock, cursor, lease, frame, runner, told, call>>

-----------------------------------------------------------------------------
(* The runner of turn t: TurnRunner.run.                                     *)

\* Slip: the runner marks its turn as running, which may have been settled.
RunnerMarks(t) ==
    /\ runner[t].pc = "starting"
    /\ turn' = Wrote(t, "running")
    /\ lease' = lease \cup {t}
    /\ Goes(t, "looping")
    /\ UNCHANGED <<deleted, lock, clock, cursor, frame, promoted, told, call>>

\* The runner holds the lease itself and keeps it until it is done.
RunnerBegins(t) ==
    /\ runner[t].pc = "starting"
    /\ lease' = lease \cup {t}
    /\ Goes(t, "looping")
    /\ UNCHANGED <<deleted, lock, clock, cursor, turn, frame, promoted, told,
                   call>>

\* The model's first answer: the system prompt told it what was applied.
ModelAnswers(t) ==
    /\ runner[t].pc = "looping"
    /\ ~runner[t].ran
    /\ runner' = [runner EXCEPT ![t].ran = TRUE]
    /\ told' = told \cup turn[t].applied
    /\ UNCHANGED <<deleted, lock, clock, cursor, turn, lease, frame, promoted,
                   call>>

\* Slip: the frame goes out before the turn is recorded.
EmitFirst(t) ==
    /\ runner[t].pc = "looping"
    /\ frame' = Emitted(t, "turn_done")
    /\ runner' = [runner EXCEPT ![t].pc = "finishing", ![t].seen = cursor]
    /\ UNCHANGED <<deleted, lock, clock, cursor, turn, lease, promoted, told,
                   call>>

\* The loop has a stop reason (with no answer at all when it was cancelled
\* first), and finish_turn reads the rows, which may be gone ...
FinishLoad(t) ==
    /\ runner[t].pc = "looping"
    /\ runner' = [runner EXCEPT ![t].pc = IF deleted THEN "emitting" ELSE "finishing",
                                ![t].seen = cursor]
    /\ UNCHANGED <<deleted, lock, clock, cursor, turn, lease, frame, promoted,
                   told, call>>

\* The cursor moves with a turn that delivered, past what finish_turn read.
Advances(t) == runner[t].ran /\ runner[t].seen < turn[t].cutoff

\* The thread's row is written only when the cursor moves: it is waited for.
Finishes(t) ==
    /\ ~deleted
    /\ turn' = Wrote(t, "done")
    /\ IF Advances(t)
       THEN /\ lock = Nobody
            /\ cursor' = turn[t].cutoff
       ELSE UNCHANGED cursor

\* ... and writes them, whatever they have become, before the frame goes out;
\* a row deleted in between raises.
FinishWrite(t) ==
    /\ runner[t].pc = "finishing"
    /\ \/ /\ Finishes(t)
          /\ Goes(t, "emitting")
       \/ /\ deleted
          /\ Goes(t, "failing")
          /\ UNCHANGED <<turn, cursor>>
    /\ UNCHANGED <<deleted, lock, clock, lease, frame, promoted, told, call>>

EmitDone(t) ==
    /\ runner[t].pc = "emitting"
    /\ frame' = Emitted(t, "turn_done")
    /\ Goes(t, "releasing")
    /\ UNCHANGED <<deleted, lock, clock, cursor, turn, lease, promoted, told,
                   call>>

\* The provider fails, a tool raises, the turn takes too long.
LoopFails(t) ==
    /\ runner[t].pc = "looping"
    /\ Goes(t, "failing")
    /\ UNCHANGED <<deleted, lock, clock, cursor, turn, lease, frame, promoted,
                   told, call>>

\* _fail records the turn as failed, whatever the row has become ...
FailWrite(t) ==
    /\ runner[t].pc = "failing"
    /\ turn' = Wrote(t, "failed")
    /\ Goes(t, "complaining")
    /\ UNCHANGED <<deleted, lock, clock, cursor, lease, frame, promoted, told,
                   call>>

EmitError(t) ==
    /\ runner[t].pc = "complaining"
    /\ frame' = Emitted(t, "error")
    /\ Goes(t, "releasing")
    /\ UNCHANGED <<deleted, lock, clock, cursor, turn, lease, promoted, told,
                   call>>

\* The finally block: the lease is given back.
Release(t) ==
    /\ runner[t].pc = "releasing"
    /\ lease' = lease \ {t}
    /\ Goes(t, "gone")
    /\ UNCHANGED <<deleted, lock, clock, cursor, turn, frame, promoted, told,
                   call>>

\* _keep_lease, every few seconds.
KeepLease(t) ==
    /\ Live(t)
    /\ t \notin lease
    /\ lease' = lease \cup {t}
    /\ UNCHANGED <<deleted, lock, clock, cursor, turn, frame, runner, promoted,
                   told, call>>

\* A write whose await was cancelled goes on in its thread and is committed
\* after all: the cancellation does not reach the database.
LeftWrite(t) ==
    /\ \/ /\ runner[t].left = "done"
          /\ \/ Finishes(t)
             \/ deleted /\ UNCHANGED <<turn, cursor>>
       \/ /\ runner[t].left = "failed"
          /\ turn' = Wrote(t, "failed")
          /\ UNCHANGED cursor
    /\ runner' = [runner EXCEPT ![t].left = "none"]
    /\ UNCHANGED <<deleted, lock, clock, lease, frame, promoted, told, call>>

-----------------------------------------------------------------------------
(* A stream follows a turn: stream_turn.                                     *)

Open(s) ==
    /\ call[s].pc = "idle"
    /\ ~deleted
    /\ \E t \in Stored : Takes(s, "reading", "stream", t, {})
    /\ UNCHANGED <<deleted, lock, clock, cursor, turn, lease, frame, runner,
                   promoted, told>>

\* A terminal frame ends it; without one the lease is looked at.
Read(s) ==
    /\ call[s].pc = "reading"
    /\ IF frame[call[s].turn] # "none" THEN Ends(s) ELSE At(s, "checking")
    /\ UNCHANGED <<deleted, lock, clock, cursor, turn, lease, frame, runner,
                   promoted, told>>

\* After the settling: it ends on the row's own status, unless the log has
\* something yet to read.
Conclude(s) ==
    /\ call[s].pc = "concluding"
    /\ IF /\ turn[call[s].turn].status \in {"done", "failed"}
          /\ frame[call[s].turn] = "none"
       THEN Ends(s)
       ELSE At(s, "reading")
    /\ UNCHANGED <<deleted, lock, clock, cursor, turn, lease, frame, runner,
                   promoted, told>>

Disconnect(s) ==
    /\ call[s].pc # "idle"
    /\ Ends(s)
    /\ UNCHANGED <<deleted, lock, clock, cursor, turn, lease, frame, runner,
                   promoted, told>>

-----------------------------------------------------------------------------
(* Time and faults.                                                          *)

\* Someone is at work on the turn who holds its lease.
Held(t) ==
    \/ runner[t].pc \in {"starting", "releasing"} \/ Live(t)
    \/ \E r \in Requests : call[r].turn = t /\ call[r].pc \in {"proposing", "releasing"}

\* Slip: the key is set without a time to live.
NeverExpires(t) ==
    /\ t \in lease
    /\ t \notin Turns
    /\ UNCHANGED vars

\* A lease nobody refreshes runs out.
Expire(t) ==
    /\ t \in lease
    /\ ~Held(t)
    /\ lease' = lease \ {t}
    /\ UNCHANGED <<deleted, lock, clock, cursor, turn, frame, runner, promoted,
                   told, call>>

\* So does one that could not be refreshed in time, while its turn goes on.
Lapse(t) ==
    /\ "lapse" \in Faults
    /\ t \in lease
    /\ Held(t)
    /\ lease' = lease \ {t}
    /\ UNCHANGED <<deleted, lock, clock, cursor, turn, frame, runner, promoted,
                   told, call>>

\* The frame log of a turn that is over expires.
LogExpires(t) ==
    /\ runner[t].pc \in {"none", "gone"}
    /\ frame[t] # "none"
    /\ frame' = [frame EXCEPT ![t] = "none"]
    /\ UNCHANGED <<deleted, lock, clock, cursor, turn, lease, runner, promoted,
                   told, call>>

\* A Redis call of a request fails: the request answers 503 and a stream
\* closes.  Holding the lease of a new turn is the one that is made good.
RedisFailsCall(c) ==
    /\ "redis" \in Faults
    /\ \/ call[c].pc \in {"checking", "announcing", "reading", "releasing"} /\ Ends(c)
       \/ call[c].pc = "leasing" /\ At(c, "unleased")
    /\ UNCHANGED <<deleted, lock, clock, cursor, turn, lease, frame, runner,
                   promoted, told>>

\* A Redis call of the runner fails, whether or not Redis has done it: before
\* the try it ends the task, in it the turn fails, after it nothing happens.
RedisFailsRunner(t) ==
    /\ "redis" \in Faults
    /\ \/ /\ runner[t].pc = "starting"
          /\ Goes(t, "gone")
          /\ UNCHANGED frame
       \/ /\ runner[t].pc = "emitting"
          /\ Goes(t, "failing")
          /\ frame' \in {frame, Emitted(t, "turn_done")}
       \/ /\ runner[t].pc = "complaining"
          /\ Goes(t, "releasing")
          /\ UNCHANGED frame
       \/ /\ runner[t].pc = "releasing"
          /\ Goes(t, "gone")
          /\ UNCHANGED frame
    /\ UNCHANGED <<deleted, lock, clock, cursor, turn, lease, promoted, told,
                   call>>

\* A write of the runner, or of an MCP call, is refused by the database.
DatabaseFails(t) ==
    /\ "db" \in Faults
    /\ \/ runner[t].pc = "finishing" /\ Goes(t, "failing")
       \/ runner[t].pc = "failing" /\ Goes(t, "releasing")
    /\ UNCHANGED <<deleted, lock, clock, cursor, turn, lease, frame, promoted,
                   told, call>>

DatabaseFailsCall(r) ==
    /\ "db" \in Faults
    /\ \/ call[r].pc = "proposing" /\ At(r, "releasing") /\ UNCHANGED lock
       \/ /\ call[r].pc \in {"failing", "unleased", "starting", "promoting"}
          /\ Ends(r)
          /\ lock' = IF lock = r THEN Nobody ELSE lock
    /\ UNCHANGED <<deleted, clock, cursor, turn, lease, frame, runner, promoted,
                   told>>

\* cancel_running_turns: the task is cancelled at the await it is in, and a
\* write under way is left to its thread.
Shutdown(t) ==
    /\ "shutdown" \in Faults
    /\ \/ /\ runner[t].pc = "finishing"
          /\ runner' = [runner EXCEPT ![t].pc = "failing", ![t].left = "done"]
          /\ UNCHANGED frame
       \/ /\ runner[t].pc = "emitting"
          /\ Goes(t, "failing")
          /\ frame' \in {frame, Emitted(t, "turn_done")}
       \/ /\ runner[t].pc = "failing"
          /\ runner[t].left = "none"
          /\ runner' = [runner EXCEPT ![t].pc = "releasing", ![t].left = "failed"]
          /\ UNCHANGED frame
       \/ /\ runner[t].pc \in {"starting", "complaining", "releasing"}
          /\ Goes(t, "gone")
          /\ UNCHANGED frame
    /\ UNCHANGED <<deleted, lock, clock, cursor, turn, lease, promoted, told,
                   call>>

\* The process dies: nothing is cleaned up, and the lease runs out.
RunnerDies(t) ==
    /\ "crash" \in Faults
    /\ runner[t].pc = "starting" \/ Live(t)
    /\ runner' = [runner EXCEPT ![t].pc = "gone", ![t].left = "none"]
    /\ UNCHANGED <<deleted, lock, clock, cursor, turn, lease, frame, promoted,
                   told, call>>

RequestDies(r) ==
    /\ "crash" \in Faults
    /\ call[r].pc # "idle"
    /\ lock' = IF lock = r THEN Nobody ELSE lock
    /\ Ends(r)
    /\ UNCHANGED <<deleted, clock, cursor, turn, lease, frame, runner, promoted,
                   told>>

-----------------------------------------------------------------------------
Init ==
    /\ deleted = FALSE
    /\ lock = Nobody
    /\ clock = 1
    /\ cursor \in FirstCursors
    /\ turn = [t \in Turns |-> NoRow]
    /\ lease = {}
    /\ frame = [t \in Turns |-> "none"]
    /\ runner = [t \in Turns |-> NoRunner]
    /\ promoted = [p \in Promotions |-> 0]
    /\ told = {}
    /\ call = [c \in Callers |-> NoCall]

\* What a request does once it has been taken up.
Requesting(r) ==
    \/ CheckLease(r) \/ SettleRead(r) \/ SettleWrite(r) \/ Announce(r)
    \/ (call[r].pc = "opening" /\ StartLock(r))
    \/ StartCommit(r) \/ HoldLease(r) \/ FailUnleased(r)
    \/ McpFinish(r) \/ McpFail(r) \/ McpRelease(r) \/ Promote(r)

\* What a stream does while its client stays.
Streaming(s) ==
    \/ Read(s) \/ CheckLease(s) \/ SettleRead(s) \/ SettleWrite(s)
    \/ Announce(s) \/ Conclude(s)

\* What a runner does until its task is over.
Working(t) ==
    \/ RunnerBegins(t) \/ ModelAnswers(t) \/ FinishLoad(t) \/ FinishWrite(t)
    \/ EmitDone(t) \/ LoopFails(t) \/ FailWrite(t) \/ EmitError(t) \/ Release(t)

Next ==
    \/ \E r \in Requests :
         \/ Look(r, "post") \/ Look(r, "get") \/ StartLock(r) \/ Stamp(r)
         \/ Requesting(r) \/ RequestDies(r)
         \/ RedisFailsCall(r) \/ DatabaseFailsCall(r)
    \/ \E s \in Streams :
         Open(s) \/ Streaming(s) \/ Disconnect(s) \/ RedisFailsCall(s)
    \/ \E t \in Turns :
         \/ Working(t) \/ KeepLease(t) \/ LeftWrite(t) \/ Expire(t) \/ Lapse(t)
         \/ LogExpires(t) \/ RedisFailsRunner(t) \/ DatabaseFails(t)
         \/ Shutdown(t) \/ RunnerDies(t)
    \/ DeleteThread

Spec == Init /\ [][Next]_vars

-----------------------------------------------------------------------------
(* Fairness.  A request and a runner go on until they are through, each with *)
(* a time limit (TURN_SECONDS), and PostgreSQL queues the waiters for the    *)
(* thread's row: strong fairness, per task.  A stream loops on its own, and  *)
(* Redis expires a lease.  Nobody has to post, look, fail or stay connected. *)
Fairness ==
    /\ \A r \in Requests : SF_vars(Requesting(r))
    /\ \A s \in Streams : WF_vars(Streaming(s))
    /\ \A t \in Turns : SF_vars(Working(t)) /\ WF_vars(Expire(t))

FairSpec == Spec /\ Fairness

-----------------------------------------------------------------------------
(* Properties.                                                               *)

\* start_turn: whatever posts and MCP calls start turns at the same time, and
\* however turns are settled meanwhile, one row at most is running.
OneRunningRow == \A t, u \in Running : t = u

\* applied_reported_at: no promotion falls behind the cursor without a model
\* having been told of it, however its commit, the turns that report it, their
\* failures and the promotions made again interleave.
PromotionsAreTold ==
    \A p \in Promotions :
        promoted[p] \in 1 .. cursor => <<p, promoted[p]>> \in told

\* A terminal frame tells the client that the next message can be sent: the
\* row has left "running" before it (run, _fail and _settle_lost write first).
OverWhenToldSo == \A t \in Turns : frame[t] # "none" => turn[t].status # "running"

\* Every stream ends, whatever became of the runner, its lease and its frames,
\* as long as the conversation is there (stream_turn settles and concludes).
EveryStreamEnds ==
    \A s \in Streams : call[s].pc # "idle" ~> (call[s].pc = "idle" \/ deleted)

\* A turn runs once, after all that were started before it, and no log says that
\* it is over before its row does, whoever settles, finishes, fails, repeats or
\* deletes: the rows and logs keep the promise of TurnLife.
Lives(status) == IF status \in {"none", "running"} THEN status ELSE "over"
Life == INSTANCE TurnLife WITH
            row <- [t \in Turns |-> Lives(turn[t].status)],
            closed <- {t \in Turns : frame[t] # "none"}
LifeKept == Life!Spec

\* A second turn is refused while the first runs.
OneRunnerAtATime == \A t, u \in Turns : Live(t) /\ Live(u) => t = u

-----------------------------------------------------------------------------
(* The inductive invariant.                                                  *)

\* The thread's lock is with the transaction that took it; a stream takes none.
LockIsHeld ==
    /\ \A r \in Requests : call[r].pc \in {"starting", "promoting"} <=> lock = r
    /\ lock \in Requests \cup {Nobody}
    /\ \A s \in Streams :
         /\ call[s].pc \in {"idle", "checking", "settling", "failing",
                           "announcing", "reading", "concluding"}
         /\ call[s].pc # "idle" => call[s].kind = "stream"

\* Between the lock and the commit of a new turn nothing runs, and the thread is
\* there.
StartsAlone ==
    \A r \in Requests : call[r].pc = "starting" =>
        Running = {} /\ ~deleted

\* Rows are numbered without a gap, and those of a deleted thread are gone.
RowsInOrder ==
    /\ \E n \in 0 .. MaxTurns : Stored = 1 .. n
    /\ deleted => \A t \in Stored : turn[t].status = "deleted"

\* Whatever works on a turn works on one that has been stored.
OnlyStoredTurns ==
    /\ \A t \in Turns \ Stored : /\ frame[t] = "none"
                                 /\ runner[t].pc = "none"
                                 /\ runner[t].left = "none"
    /\ \A c \in Callers : call[c].turn # 0 => call[c].turn \in Stored
    /\ \A c \in Callers :
         call[c].pc \in {"checking", "settling", "failing", "announcing",
                        "leasing", "unleased", "proposing", "releasing",
                        "reading", "concluding"} => call[c].turn # 0

\* Who is about to tell the client that a turn is over has seen it be over.
SeenOver ==
    /\ \A t \in Turns : runner[t].pc \in {"emitting", "complaining"} =>
                            turn[t].status # "running"
    /\ \A c \in Callers : call[c].pc = "announcing" =>
                              turn[call[c].turn].status # "running"

Consistent ==
    /\ TypeOK
    /\ LockIsHeld
    /\ StartsAlone
    /\ OneRunningRow
    /\ RowsInOrder
    /\ OnlyStoredTurns
    /\ SeenOver
    /\ OverWhenToldSo

\* What a turn will tell its model covers all that its cutoff passes.
CutoffsAreCovered ==
    /\ \A t \in Stored :
         /\ turn[t].cutoff =< clock
         /\ \A p \in Promotions : promoted[p] \in 1 .. turn[t].cutoff =>
              <<p, promoted[p]>> \in turn[t].applied \cup told
    /\ \A t \in Turns : runner[t].ran => t \in Stored /\ turn[t].applied \subseteq told

\* So does what a turn about to be committed has read; and a promotion about
\* to be committed is later than every cutoff and the cursor.
LockedWritesAreCovered ==
    \A r \in Requests :
        /\ call[r].pc = "starting" =>
             \A p \in Promotions : promoted[p] # 0 =>
                 <<p, promoted[p]>> \in call[r].applied \cup told
        /\ call[r].pc = "promoting" =>
             \A a \in call[r].applied :
                 /\ a[2] > cursor /\ a[2] =< clock
                 /\ \A t \in Stored : turn[t].cutoff < a[2]

ReportsEverything ==
    /\ cursor \in 1 .. clock
    /\ \A p \in Promotions : promoted[p] =< clock
    /\ CutoffsAreCovered
    /\ LockedWritesAreCovered
    /\ PromotionsAreTold

=============================================================================
