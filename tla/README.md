# Verification of Veodyn CE

TLA+ models of the concurrent parts of Veodyn CE, the TLC runs that check them and the
TLAPS proofs about them. Paths are relative to the repository, `src/` in `PROJECT.json`.

    tlc -workers 2 -config PubOrdering.cfg MCPublishEngine   # a run
    tlapm PublishEngineProofs.tla                            # the proofs of a module

## 1. The system

Veodyn CE is a data platform for public transport. Its parts:

| Part | What it is | State it keeps |
|---|---|---|
| `api/veodyn_api` | the FastAPI service: published feeds, chat, captures, datasets | PostgreSQL (its own tables), Redis (leases, frame logs, result queues), memory of a process (runner tasks, caches) |
| `node/redash` | a Redash fork: queries, jobs, alerts, historical capture, public execution | PostgreSQL, Redis (RQ queues, query locks, windows), an archive cache on disk |
| `app` | the React client | the chat thread it shows, folded from frames; the flows that save drafts on the node |
| `validator` | a wrapper around an external feed validator | none |

### Components

**Published feeds (publish engine).** A binding (`published_feed`) says what a public
address serves: a query, a column map, a mode, whether a failure takes the feed down.
`services/publish_engine.run_attempt` turns one query result into an artifact: it reads
the served artifact, refuses a result that is not newer than any published one
(ordering guard), produces and validates the bytes, takes the binding's row lock and
compares revisions, moves the *served pointer* (`publish_attempt.is_current`, unique per
feed), records the attempt and prunes old rows. Requests of administrators create, edit
(`revision += 1`, and the feed goes off the air) and delete bindings. Everything meets in
two tables, with no in-process synchronisation: threads of one process and several
workers run the same code.
*Hard*: the binding changes while bytes are made; attempts overlap and end out of order;
locks are taken in different orders; retention deletes what the guard reads.
*Correct when*: one artifact at most is on the air; it answers for the binding's present
declaration; within a revision it only gets newer; a failure takes down only what it may;
every attempt returns.

**Chat turns.** `POST` on a conversation creates a *turn* row (`running`), takes a lease
in Redis and spawns a runner task in the process, which calls a language model and its
tools, writes frames to a log in Redis, records the turn as `done` or `failed` and gives
the lease back. Event streams follow the log. A running row whose lease is gone is *lost*
and is settled by whoever looks: the next post, a get, or a stream. MCP calls use a turn
row of their own without a runner. Drafts of a conversation are promoted to queries; the
next turn tells the model what was promoted since `applied_reported_at`.
*Hard*: a request settles what a runner still works on; a promotion gets its time and
becomes visible at different moments; processes die; Redis refuses; a shutdown cancels a
task but not the thread with its database write; streams must end.
*Correct when*: one row at most is running; a client told of an end finds it ended; no
promotion is skipped over; every stream ends.

**Chat page (client).** A page of a conversation holds one event stream at most, folds
its frames into the turns it shows, runs the tool calls (`tool_request`) it is asked for
and posts their results, and has requests in flight whose closures remember what was on
the screen when they were sent. A stream ends in three ways: the terminal frame, an
upstream that answers without one (the page reads the thread and reconnects), an upstream
that breaks.
*Hard*: answers overtake frames and one another; the place the page attaches to and the
place it has reached are different things; a call must be taken once.
*Correct when*: nothing is shown twice, nothing is missing, no running turn is left to
itself, the composer is free again.

**Drafted queries (client and node).** *Save as query* records a promotion row at the
api, creates the query on the node under an idempotency key, draws its chart, reads it
back and patches the row; *Update* writes over a saved query guarded by the version last
seen. A patch the api did not take is held by the page until a retry lands. The same save
is made by a dashboard that contains the draft.
*Hard*: any call may be carried out and its answer lost; two cards or tabs make the same
save; the page is reloaded in between; a late patch meets a newer row; the
conversation is read before a save and shown after it.
*Correct when*: one version makes one query; "saved" is true; a save is not lost between
page and api.

**Drafted dashboard edits (client and node).** *Apply* runs a list of steps on the node,
in order, each with a receipt, and resumes after a failure from the receipts of the run
before; a step whose target changed is a conflict until *Overwrite*.
*Hard*: a create may still be at work when its answer is given up, and meets the next one;
two tabs apply from different receipts; the dashboard moves on meanwhile.
*Correct when*: steps land in order, an add makes one widget, other people's changes are
overwritten only on request, receipts are true, applying again finishes.

**Query jobs (node, with the page that runs a query).** `enqueue_query` keeps one job per
query hash with a Redis key and `WATCH`; the executor removes the key;
`remove_ghost_locks` sweeps keys of vanished jobs; a worker stops jobs that were cancelled
or ran out of time.
*Hard*: the job is enqueued outside of the transaction; the key is removed by whoever
looks, whatever it names by then.
*Correct when*: a refresh is fresh; identical queries share a job.

**Not modelled** (see 6): the chat's tools and prompt, public execution, historical
capture, the archive and profile caches, capture alerts, the serving side of feeds, query
runners, transit naming, HTTP handlers and serializers, settings, pages, deployment.
`PROJECT.json` lists every component with its status and the reason, and under `hazards`
the places, by line, where this code can go wrong in ways a test would hardly reach.

### How they interact

    administrator --HTTP--> routers/published_feeds --rows, row locks--> publish_attempt
    query result  --------> publish_engine.run_attempt ---------^            |
    public reader <------------------- the row that is current --------------+

    client --post--> start_turn (row) --> lease (Redis) --> runner task --> frames (Redis)
    client <--events-- stream_turn <------------------------------------------+
      ^                    |  settles a lost turn: fail_turn, then a frame
      +--- promote --> record_promotion --applied_since--> the next turn's prompt
      +--- save, apply --> the node's queries, dashboards (idempotency keys, versions)
      +--- run, refresh --> enqueue_query --> RQ --> worker

A published feed starts from a stored query result, which a query job of the node
produces; the two share no transaction. `ChatTurn` is the api's side of a conversation and
`ChatThread` the page's: the first has the rows, leases and streams and no place in the
log, the second the places and what is done at each. Both implement `TurnLife`, which is
what they share: turns run one after the other, each once, and a log says over only when
the row does. What the page's model supposes of its server is thereby no more than what
the api's model is proved to do. `TurnLife` says *over*; which end a row shows, and that
`ChatTurn` can overwrite one end with the other (5), is below it, and `ChatThread` takes
an end as final.

## 2. Modules

| Module | Models | Source |
|---|---|---|
| `PublishEngine` | one published feed: publishers, administrators, the two tables, the row locks, deadlocks, crashes | `services/publish_*.py`, `published_feed_lifecycle.py`, `routers/published_feed*.py`, `db.py` |
| `ChatTurn` | one conversation at the api: requests, runners, streams, leases, frames, promotions, faults | `services/chat/{store,runner,bus,mcp_calls}.py`, `routers/ai_chat*.py` |
| `ChatThread` | the page of one conversation: its turns, its stream, its requests, its tool calls | `app`: `hooks/use-chat-thread.ts`, `use-turn-stream.ts`, `use-tool-executor.ts`, `lib/chat/thread-*.ts` |
| `DraftPromotion` | saving, updating and charting one drafted query | `app`: `hooks/use-promote-draft.ts`, `promote-query-draft.ts`; `node`: `handlers/idempotency.py`, `preconditions.py` |
| `DashboardApply` | applying one drafted dashboard edit | `app`: `lib/chat/dashboard-edit-apply.ts`, `hooks/use-apply-dashboard-edit.ts`; `node`: `handlers/widgets.py` |
| `FeedPromise` | what the readers of a feed see; `PublishEngine` implements it | abstract |
| `RunPromise` | which job a page that runs a query is given; `QueryRun` implements it | abstract |
| `TurnLife` | what turns and their logs do; `ChatTurn` and `ChatThread` implement it | abstract |
| `EditPromise` | what applying a dashboard edit promises; `DashboardApply` implements it | abstract |
| `QueryRun` | the jobs of one query hash, the pages that run it, the sweeper | `node`: `tasks/queries/{execution,maintenance}.py`; `app`: `services/redash/{execution,jobs}.ts` |
| `MC...` | instances and symmetry for TLC | |
| `...Proofs` | theorems and proofs, for `PublishEngine`, `ChatTurn`, `ChatThread`, `QueryRun`, `DashboardApply`, `DraftPromotion` | |

Operators introduced by a comment "Slip:" are mistakes the code could have made; nothing
uses them. Each is the body a definition is replaced by (`mutants` in `PROJECT.json`) to
see that a property notices.

### PublishEngine

*State.* `feed` is the committed binding row (revision 0: no row); `attempts` the
committed rows of `publish_attempt`, with the declaration their bytes were made under
(`built`) standing for the bytes; `lock` the holder of the binding's row lock; `pub` and
`adm` where each publisher and each administrator's request is, with what it has read.
A version is the order of query results (`source_version`).

*Granularity.* PostgreSQL runs READ COMMITTED and the session loads rows once, so a step
is one statement whose result is used later, or the tail of a transaction up to its
commit. `run_attempt` is `Begin` (the binding loaded), `ReadServed`, `CheckOrder`,
`Produce`, then either `LockBinding` and `MovePointer` or `Superseded` (the unique index
refused, ROLLBACK) and `RecordSuperseded`, or `ChooseRetirement` and `Record`; then
`Prune`/`PruneRefused`, and `Answer` (what `publish_now` reads back). An edit is
`EditLoad`, the calls to Redash, `EditWrite` (autoflush before the pointer is read, which
takes the row lock) and `EditCommit`. A delete is `DeleteLoad` (nothing to flush, so
nothing is locked), `DeleteClear` (locks the attempt row it clears) and `DeleteCommit`
(waits for the binding). Row locks that outlive a step are `lock` and `RowLocked`;
`DeadlockVictim` and `DeadlockedRequest` are PostgreSQL's detector. `Die` is a process
that ends at any point.

*Abstracted.* Reading the source, serializing, validating: a choice of outcome
(`Produce`, `CannotBuild`). Which rows retention's window and count reach: any subset of
the rows it may delete (`Prunable`), so what is checked holds for every setting. The
reads of public clients: they return the current row.

*FeedPromise* is what those clients see: `shown`, the current row's id and revision,
`last`, the number last given to an attempt, and the binding's `revision`. An artifact
that goes off the air never comes back; a new one belongs to the present revision of a
binding that is there; an edit takes it down in its own commit, a delete need not (5).
`PublishEngine` implements it (`Promise`): the pointer moves in one commit, so every
step of the engine is one step of it or none.

### ChatTurn

*State.* `turn` is the turn rows by `seq` (with the cutoff and what was applied, both
read when the turn starts), `lock` the thread's row lock, `clock` the timestamps handed
out, `cursor` is `applied_reported_at` (0: NULL), `lease` and `frame` what Redis holds,
`runner` and `call` where each task and each request or stream is, `promoted` the
promotions' `updated_at`. `told` is a history variable: the promotions that were in the
prompt of a model call that answered.

*Actions.* `Look`, `CheckLease`, `SettleRead`, `SettleWrite`, `Announce` are the settling
of a lost turn (`_settle_lost`, `fail_turn`), which posts, gets and streams share;
`StartLock`, `StartCommit`, `HoldLease`, `FailUnleased` a post; `McpFinish`, `McpFail`,
`McpRelease` an MCP call after its start; `Stamp` and `Promote` a promotion under the
thread's lock; `RunnerBegins` to `Release` a runner, with finish_turn's read and write
apart (`FinishLoad`, `FinishWrite`); `Open`, `Read`, `Conclude`, `Disconnect` a stream.
*Time and faults:* `Expire` (a lease nobody holds), `Lapse` (a holder too late to
refresh it), `LogExpires`, Redis refusing a call with or without having done it, the
database refusing a write, `Shutdown` (a task cancelled at an await, whose write goes on
in its thread: `LeftWrite`), a process that dies. Each is enabled by a member of `Faults`.

*Worth knowing.* A NULL cursor reports nothing, by design
(`tests/test_chat_applied_block.py`, `test_applied_null_cursor_reports_nothing`). MCP turns emit no
terminal frame and do not move the cursor. `McpFinish`, `McpFail` and `FailUnleased` act
on the status their session has loaded (`expire_on_commit=False`), not the row's. The
frame log of a live runner does not expire: `FRAME_LOG_TTL` is 3600 s, `TURN_SECONDS`
300 s. Leases last 20 s and are refreshed every 5 s.

*Left out.* The tool round trip and the places of frames (`ChatThread`), draft versions
and `spend_mcp_call`; they change no variable of this module.

*TurnLife* is what is left when requests, leases, promotions and kinds of end are taken
away: the rows, as none, running or over, and which logs hold a terminal frame. `Life`
maps `done`, `failed` and the rows of a deleted conversation to *over*.

### ChatThread

*State.* The server's side is what the page can tell apart of it: each turn's row
(`status`), what its runner wrote (`log`: a *card*, text or a draft or a link, or an
*ask*, a `tool_request`), whether the terminal frame follows (`closed`), which ask the
runner waits on. A frame is its place in the log. The page's side is `view` (the turns
shown: status, `lastEventId`, the frames their items come from), `source` (the
EventSource), `started` (`useToolExecutor`), the requests in flight with what their
closures remember, `sending`, `loading`.

*Actions.* `Emit`, `TimeOut`, `Settle`, `Close` the runner; `Send`, `PostServed`,
`PostAnswered`, `PostFailed` a post; `Deliver`, `DeliverEnd`, `Disconnected`, `Broken`,
`Invalid` the stream and the ways it ends; `ReadServed` and what its answer does,
`Loaded`, `Retried`, `Reconnected`, `ReadFailed`; `Retry`, `Reload`, `Reopen` the user;
`Answer` a result the runner waits for. A request is three steps, sent, served, handled,
and anything may come between.

*Abstracted.* The items a frame makes; which blocks a stored turn has (all, once done);
what a failed turn keeps. *Left out.* Stop (a settled row to everything here), more than
one conversation, the executor's results themselves. The rows and logs implement
`TurnLife`, as those of `ChatTurn` do (`Life`).

### DraftPromotion

*State.* The node's `queries` with the client operation that made each (`ops`), a clock
(`writes`) that stamps them, creates still running after their answer was lost
(`orphans`); the api's promotion `rows`; each `page`'s draft (the promotions it shows, the
patch it `held`, the one it is `sending`); each `card`'s flow. A card is a place that can
save the draft: its own buttons or a dashboard that contains it. A page's `answer` is a
reading of the conversation that the api has served and the page not yet shown. `had` is
the versions written to a query, `wrote` that a save or update of the page has ended:
history.

*Actions.* One per call of the three flows, with its three outcomes (answered, refused,
carried out with the answer lost) as disjuncts: `SaveClicked` to `SaveAbandoned`,
`UpdateClicked` to `ChartFailureTold`, `Redrawn` and `RedrawTold`. `CreateLooked` and
`Inserted` are apart, as `replay_or_none` and `commit_or_winner` are: another create fits
in between. `RetrySyncClicked` to `RetrySyncFailed` retry a held patch. `Reread` is
`getThread`, served; `Resynced` installs its answer, however old by then, and keeps of the
page what `carryQueryDraftSync` keeps. `Proposed`, `Reloaded`, `EditedOutside` are what
else happens meanwhile.

*Abstracted.* Payload, SQL, chart: a version is its number; a chart is drawn or not.
*Left out.* A create with the same key and another payload: the key contains the version.
Two readings of one page on their way at once: one is shown after the other anyway.

### DashboardApply and EditPromise

*State.* `steps`, the edit (chosen, then constant); `target`, the node's widgets and
dashboard, one per step, as the api admits one step per widget (`copies`: how many
widgets were made for an *add*; `fresh`: `updated_at` is the snapshot's; `theirs`: somebody
else's change stands; of an *add* `keyed`, the record of its key, `shows`, the chart its
widget was made with, `drawn`, the chart its drafted query has by now, `late`, creates
that outlive their answer); the api's `rows` with their receipts; each `page`'s card (`at`,
`seen` the fresh read, `carried` receipts, `over`: overwrites); `landed`, a history
variable, the steps that took effect.

*Actions.* `Recorded`, `StepCarried`, `Read`, `Added`, `Edited`, `Removed`, `Abandoned`,
`Finished` are a run; `ApplyClicked`, `OverwriteClicked`, `KeepClicked`, `Reloaded` the
analyst; `Changed` and `Redrawn` somebody else. An add is two steps of the node: `AddLooked`
(`replay_or_none`, which deletes a record whose widget is gone) and `Inserted` (the insert,
or the winner that `commit_or_winner` found); between them other creates fit in, of other
tabs or late ones (`AddLost`, `LateInserted`). A key used for a widget with another chart
is refused (`Replayed`). Rows no reader can tell apart any more are dropped
(`Kept`), so that retrying is finite.

*EditPromise* says the same without calls, rows, receipts or tabs: steps land in order, a
change of somebody else's is written over only while an overwrite runs, a widget that was
added and taken away may be made again. `DashboardApply` implements it by the refinement
mapping in `Promise`.

*Abstracted.* A move and a text edit are one kind of step; rename and tags are the step
that comes first. Every add may be of a drafted query; it has two charts at most, the one
saved with it and another that comes first once it is drawn. Saving the draft is
`DraftPromotion`'s.

### QueryRun

*State.* `lock`, the Redis key of one query hash, naming a job; the jobs, numbered as
enqueued; each page's request (`tries`, `found`, `holds` are `enqueue_query`'s locals,
`dirty` is WATCH, `past` the jobs that were over at the click: history); what the sweeper
has read; `contended`, history: a transaction was refused, or somebody else removed the
lock of a job at work.

*Actions.* `Watch`, `Fetch`, `Unlock`, `Enqueue`, `Exec` are the calls of a try, with
`RequestFails` at any of them; `Start`, `Release`, `Finish`, `Kill`, `Cancel` a job;
`SweepReads`, `SweepLists` (twice: started registries, then queues), `SweepRemoves` the
sweeper. `Answered` ends a poll for whatever reason.

*RunPromise* is what pages see, without the key, its WATCH and the sweeper: how many jobs
were enqueued, which of them still work, which pages ask and which job each has. A page is
given a job that works at that moment, or the one it enqueued since its click (which may be
over by then), or an error. It has one job in hand at most; while it has one it enqueues
no other, and it lets go of it (the job runs on, unread) only where it found a job that was
over. So the key decides who shares a job, never what a page may be given.

*Abstracted.* An expired record reads as a job that is over. *Left out.* The key's own
expiry (`JOB_EXPIRY_TIME`, twelve hours). The client's cancel is wired to no button
(`useCancelQuery`); `Cancel` is the node's handler, whoever calls it.

## 3. Runs

Passing runs.

| Run | Instance | What it shows |
|---|---|---|
| `PubOrdering` | 2 publishers, 1 editing administrator, 2 declarations, nothing retires on failure, 2 versions, 2 revisions, 3 attempts | `ServesTheDeclaredBinding`: no bytes are served that were not validated under the present declaration; `PointerNeverRegresses` |
| `PubAdmins` | 2 publishers, 2 administrators who create, edit and delete, 1 declaration, 2 of everything else | `Consistent` (the inductive invariant of the proofs), `WatermarkNeverFalls`, `FailureRetiresOnlyItsOwn`, `PromiseKept` (the refinement of `FeedPromise`) |
| `PubReturns` | 2 publishers, 1 administrator who edits and deletes, 2 versions, 2 revisions, 2 attempts, with fairness | `EveryAttemptReturns`, deadlocks included |
| `ChatPromotions` | 2 requests that post, leases that lapse, 1 promotion made, and made again, before, between and during 2 turns, until time 4 | `OneRunningRow`, `PromotionsAreTold`, `LifeKept` (the refinement of `TurnLife`) |
| `ChatStreams` | 2 requests, 1 stream, deletion, every fault, NULL cursor, 1 turn, with fairness | `OverWhenToldSo`, `EveryStreamEnds` |
| `ThreadFollows` | 2 turns with 2 frames between them, 2 requests in flight, 1 read of the thread beyond the first, everything that can go wrong, with fairness | `NothingTwice`, `NothingMissing`, `SomeoneFollows`, `LifeKept`, `BusyEnds` |
| `DraftSaves` | 2 cards on one page (the draft's own and a dashboard's) or on two pages, 2 versions, 2 rows, 1 edit from outside, 1 fault, 1 reload or reading of the conversation | `OneQueryPerVersion`, `WrittenIsKept`, `SavedIsWritten` |
| `DashApplies` | 2 tabs, 3 edits of two steps (rename and edit, edit and add, remove and add), 1 change from outside (of the dashboard or of an added query's chart), 1 fault, 1 reload, with fairness | `OneWidgetPerAdd`, `ReceiptsAreTrue`, `PromiseKept` (the refinement), `KeepsItsWord` |
| `QueryRuns` | 2 pages, 3 jobs, 3 tries, 1 kill or cancellation, the sweeper | `RefreshIsFresh`, `SharesUnlessContended`, `PromiseKept` (the refinement of `RunPromise`) |

Runs that TLC must find violated: what a comment, a test or the interface says, and the
code does not keep to.

| Run | Property | The interleaving |
|---|---|---|
| `ChatTwoRunners` | `OneRunnerAtATime` | no fault: a request that looks between the commit of a turn and its lease takes it for lost, settles it and starts another; both runners work |
| `ThreadSkips` | `NothingSkipped` | a frame written between the end of a stream and the answer of the reconnect is never shown, and a call among them never made: `reconnect` attaches after the last frame of the server's log, not after the last one the page received |
| `DashStuck` | `ApplyAgainFinishes` | the answer of a removal is lost; every further try asks to delete a widget that is gone and stops there, while the card says "Apply again to finish the rest" |

**Bounds.** The publish and chat counters (`MaxVersion`, `MaxRevision`, `MaxAttempts`,
`MaxTurns`, `MaxPromoting`) are guards of `EditLoad`, `Begin`, `StartLock` and `Stamp`,
where behaviour begins, and never cut one that has begun. `Stamp` and `StartCommit` share a
clock: with `MaxPromoting` 4 the promotion is made up to three times before the first turn
starts, twice between the starts, and once after both. Two publishers and three
attempts are the least in which an attempt can be overtaken, lose its artifact and
collide; a third publisher adds only one more that waits. Two turns and two requests are
the least in which a settled turn and its successor both work; a stream follows one turn,
so one turn is enough for it. `MaxTurns` also stands for `MAX_TURNS_PER_THREAD`, which the
code enforces. What an instance leaves out is proved for all: shutdowns multiply the
states of `ChatPromotions` past what is worth waiting for, and the theorem
`EveryPromotionIsTold` covers them.

In `ThreadFollows` two turns are the least in which an answer about one meets the other,
two frames the least with an order, two requests the least that overtake each other.
`DraftSaves` needs a card of each kind or two tabs for two creates to meet, two versions
for an update, one fault to leave a patch held; a retry that fails is no part of
`MaxFaults`, so a held patch can be retried for ever. `DashApplies` has each kind of step
beside another, one fault and one change to cross it; a create whose answer is lost meets
the other tab's and its own next one. Three steps, as in an edit whose middle one fails,
are left to the proofs.
`QueryRuns` has three tries where the code has five: with three jobs the last try, the one
that returns a job without a lock, can be reached.

`CHECK_DEADLOCK FALSE` is set where a system comes to rest: a deleted conversation, a page
with nothing left to click at the bounds, an edit applied. A feed that has come to rest
stutters (`Quiet`). Publishers, administrators, requests, promotions and the pages of
`QueryRun` are interchangeable, so safety runs use symmetry and liveness runs do not.

**Fairness.** *Publish*: strong, per publisher (its next step or its being the victim of
a deadlock) and per request taken up. A thread at one point of its code waits for one
lock, and PostgreSQL queues waiters, so a lock that is freed again and again is got.
Nobody has to begin, die or give up. *Chat*: strong per request and per runner (each has a
time limit: `TURN_SECONDS`, the client's), weak per stream (a loop with a timeout on its
read) and for `Expire` (Redis). Nobody has to post, look, fail or stay connected: that a
stream ends is not owed to another request's settling, nor to its client's leaving.
*Thread*: weak for the end of a turn that runs (its deadline) and its frame, for the
answer of every request (handled or failed) and for the delivery of what a stream holds. Nobody
has to send, retry, reload or disconnect. *Dashboard*: weak for a run that was started (the
browser carries on) and for Apply, strong for Overwrite: `KeepsItsWord` says what applying
again does, so the analyst must be one who does it. A keep or a reload may come in
between, as a prompt answered with "Keep" is enabled again and again but not always.

## 4. Theorems

For all values of the constants that satisfy the named assumptions (actors are disjoint,
`Nobody` and `Nothing` are none of them, bounds are naturals).

| Theorem | Statement | Argument |
|---|---|---|
| `PublishEngineProofs!TypeCorrect` | `Spec => []TypeOK` | with `Underway`: an attempt under way has a version and a failed one a decision |
| `OneArtifactOnTheAir` | `Spec => []OnePointer` | ids are keys, handed out in order; a pointer moves only past the collision test, which leaves no current row but the one cleared |
| `WatermarkHolds` | `Spec => WatermarkNeverFalls` | of each revision a newest published row exists (a bounded set of versions has a largest) and retention keeps it |
| `OnlyEntitledRetirement` | `Spec => FailureRetiresOnlyItsOwn` | a chosen retirement names a row by id; rows keep their revision and version, so entitlement cannot be lost before the commit |
| `ConsistentAlways` | `Spec => []Consistent` | all of the above with `LockIsOwned`: a publisher about to move the pointer holds the lock on the revision it loaded |
| `EditsNeverServeStale` | `OneEditor => (Spec => []ServesTheDeclaredBinding)` | with one administrator who only edits, every publisher of the present revision has the present declaration (`InStep`); an edit holds the lock from its write to its commit |
| `PointerOnlyAdvances` | `OneEditor`, `NothingRetires` give `Spec => PointerNeverRegresses` | the guard is read long before the commit, and the unique index stands in for a second look: an attempt past the guard is still newer than all that was published under its revision, or the pointer is on a row it will not clear (`InOrder`), since without retirement the pointer leaves a row only for a newer id; after an edit no attempt under way has the new revision |
| `PromiseIsKept` | `Spec => PromiseKept` | the refinement of `FeedPromise`, from `Consistent`: who clears the pointer shows nothing (`ClearedShows`), what is inserted has the id just handed out and, under the binding's lock, its revision |
| `ChatTurnProofs!ConsistentAlways`, `TypeCorrect` | the inductive invariant, `Spec => []TypeOK` | |
| `AtMostOneRunningRow` | `Spec => []OneRunningRow` | a turn becomes running only by the transaction that holds the thread's lock and saw none running under it (`StartsAlone`); no write makes a row running again |
| `TerminalFramesAreTrue` | `Spec => []OverWhenToldSo` | whoever emits has seen the row leave `running` (`SeenOver`), rows do not return |
| `EveryPromotionIsTold` | `FirstCursors = {1} => (Spec => []PromotionsAreTold)` | stamps and cutoffs are taken under one lock: a promotion about to be committed is later than every cutoff and the cursor (`LockedWritesAreCovered`), and a cutoff covers what was read with it (`CutoffsAreCovered`); a cursor moves only to the cutoff of a turn whose model has answered |
| `LifeIsKept` | `Spec => LifeKept` | the refinement of `TurnLife`, from `Consistent`: a committed turn follows rows that are all over, an end overwritten by the other end is a stutter, a frame follows what its writer has seen |
| `ChatThreadProofs!TypeAlways` | `Spec => []TypeOK` | with `InvAlways`, the inductive invariant of the page: answers on their way are true of logs that only grow and rows that do not return (`DetailOK`), so they stay true while anything else happens |
| `ShownInOrder` | `Spec => []NothingTwice` | a view's frames are in order and none is past its place, whoever replaces the thread, also after a Retry; a frame is applied only if it is after the place |
| `NoneMissing` | `Spec => []NothingMissing` | a turn that was not resumed from a stored place has a view complete up to its place, and its stream is never ahead of that (`Followed`): whatever a stream delivers is the next frame or one the view has |
| `AlwaysFollowed` | `Spec => []SomeoneFollows` | until Retry the page does one thing at a time: one request waits, or one stream is open on the one running turn, or nothing runs (`Calm`) |
| `LifeIsKept` | `Spec => LifeKept` | the refinement of `TurnLife` by the page's server |
| `QueryRunProofs!TypeAlways` | `Spec => []TypeOK` | inductive as it stands: locks, pages and the sweeper name jobs that were enqueued |
| `EveryRefreshIsFresh` | `Spec => RefreshIsFresh` | what was over stays over (`PastIsOver`): a found job is joined only while relevant, and a job in hand was enqueued after the click |
| `ReadersShare` | `Spec => []SharesUnlessContended` | an untouched WATCH saw the lock as it is (`CleanReads`), and while nothing was contended a job at work that somebody polls is the one the lock names (`LockedJobs`) |
| `PromiseIsKept` | `Spec => PromiseKept` | the refinement of `RunPromise`, from `TypeOK` and `EmptyHands`: a page about to enqueue has no job in hand, since an irrelevant lock makes it let go of one; what works only ends (`WorkEnds`), and steps on the key alone are stutters |
| `DashboardApplyProofs!ToldAlways` | `Spec => []Inv` | the inductive invariant: what cards and rows call done landed, in the order of the steps (`Told`), and each target tells by its record what has happened to it (`TargetsTell`) |
| `AddsOnce` | `Spec => []OneWidgetPerAdd` | a step's widget exists only under the step's key, and a create puts both or neither: whoever looked before the winner, or goes on after its answer was lost, finds the key taken at its commit |
| `ReceiptsAlwaysTrue` | `Spec => []ReceiptsAreTrue` | receipts are a beginning of the edit, and each was landed before it was written |
| `TypeAlways` | `Spec => []TypeOK` | with `Owns`: a page past its first answer has one row, and `Kept` drops rows nobody owns |
| `PromiseIsKept` | `Spec => PromiseKept` | the refinement: every step maps to a step of `EditPromise` or to a stutter; `Inv` says that whatever comes before the step at hand has landed |
| `DraftPromotionProofs!InvAlways` | `Spec => []Inv` | the inductive invariant: what rows, pages, held patches and flows say of a query is true of it (`Honest`, `Fits`); a flow that recorded a row is alone in patching it (`Owning`); a key leads to a query of its version (`Keys`). Each step of the servers only adds (`Grows`), so what others know stays true |
| `OneQueryAlways` | `Spec => []OneQueryPerVersion` | a create inserts only if its key is free at the commit |
| `SavedAlways` | `Spec => []SavedIsWritten` | a patch that says *saved* is sent only after an answer that names the query, or by the page that holds it; it is true whenever it lands, as a query keeps the versions it was written with |
| `KeptAlways` | `Spec => []WrittenIsKept` | a held patch is dropped, by an answer as by a reading of any age, only where the api said that the draft is saved; rows that say so never stop saying so |
| `TypeAlways` | `Spec => []TypeOK` | conjunct by conjunct from `Inv` |

Why a strengthening is needed: few of the properties are inductive. `OnePointer`, for
example, says nothing of a state in which an id is handed out twice, and the step that
clears by id then leaves two current rows; `OneWidgetPerAdd` says nothing of a widget made
without its key, which the next try would make again. Each `Step`/`Next` lemma has one
case per action.

*Assumptions that matter.* `OneEditor` is needed: two edits at once, or a delete beside a
publish, serve what the binding does not declare (5). So is `NothingRetires`: a retirement,
like a second administrator, frees the pointer between an attempt's guard and its commit
(5). Both are states of a deployment: no binding declares `retire_on_failure`, one person
administers a feed. `PromiseIsKept` needs neither. `FirstCursors = {1}` is: with a NULL
cursor promotions before the first finished turn are not reported, as designed.

*Only model-checked.* `EveryAttemptReturns`, `EveryStreamEnds`, `BusyEnds` and
`KeepsItsWord` (liveness under fairness is out of the prover's reach), and the violated properties. Every invariant and every
action property of a passing run, and each of the five refinements, is also proved.

## 5. Behaviours worth knowing that no run keeps

Seen while modelling, in states the models reach or can be made to reach by the constants
named:

*Published feeds.*

- `delete_feed` reads the pointer with no lock on the binding; a publish commits; the
  DELETE waits for it and removes the binding: the new artifact stays current
  (`published_feed_lifecycle.py:34`; the comment at `:31` says delete clears it for this
  very reason). `PubAdmins` reaches it: a current attempt and no binding.
- Two edits that loaded revision *n* both write *n+1* (`published_feeds.py:262`); an attempt
  begun between them publishes the first one's bytes under the second one's declaration,
  though `:260` says no artifact can be mistaken for one of another edit
  (`ServesTheDeclaredBinding` with two administrators).
- An older attempt passes the ordering guard; a newer one publishes; a failed third takes
  it down (`retire_on_failure`, `publish_engine.py:131`); the older one is then served. The
  guard is not read again under the lock (`PointerNeverRegresses` with a retiring
  declaration and three publishers).
- A slug deleted and created again is at revision 1 again (`published_feeds.py:174`), and
  the locked re-read compares revisions only, so an attempt of the dead binding can publish
  under the new one (`Operations = {"create", "delete"}` with `ServesTheDeclaredBinding`).
- Two requests that publish one query result: the earlier can be answered with the later
  one's row, the newest of that revision and result (`published_feed_attempts.py:135`;
  `Answer` with two rows in `ReadBack`).
- After the index refused it an attempt is recorded under the revision the binding has by
  then, an edit's though it never loaded that declaration, and raises when the binding is
  gone (`publish_engine.py:212`; `RecordSuperseded`).
- A publish and a delete can deadlock; when the publisher is the victim its
  OperationalError is neither recorded nor caught (`publish_engine.py:204` catches
  IntegrityError only; `DeadlockVictim`, state `raised`).

*Chat turns.*

- Redis refuses `turn_done` after the turn and the cursor are committed; `_fail` overwrites
  the row with `failed` (`runner.py:128`; faults `redis`).
- `fail_turn` looks at the status and writes it later without a lock or a condition, so a
  turn that finishes in between is overwritten with `failed` (`store.py:194`; `SettleRead`,
  `FinishWrite`, `SettleWrite`). Two turns that end together can move the cursor back
  (`store.py:186`; `FinishLoad` twice, then `FinishWrite` twice).
- A stream of a deleted conversation whose runner died reads an empty log until its client
  leaves: `_finished_frame` finds no row. `EveryStreamEnds` leaves deleted conversations out.

*Chat page.*

- Retry remembers the turn and the render it was clicked in. Its answer may arrive when
  another turn runs: the thread is replaced and a turn shown as running may be one whose
  stream was closed; it stays so until the page is loaded again. The invariants hold
  `~retried` for this reason.
- A reconnect that finds its turn over replaces the thread and attaches to nothing: if
  another tab's turn runs by then, it is shown as running and is not followed.
- A lost upstream makes the relay answer with its own error frame
  (`INVALID_STREAM_FRAME`, `stream-relay.ts:100`), and the page shows a turn as failed that
  still runs. A Redis failure in the api ends the stream normally, and the browser
  reconnects by itself.

*Drafts.*

- After a save whose chart failed the partial row has no stamp, so the next update asks
  about changes nobody made (`use-promote-draft.ts:149`, `draft-actions.tsx:14`).
- An edit made by somebody between the create and the read-back is adopted as the base:
  the next update overwrites it without asking.
- `resync` and `reconnect` install the answer of `getThread` whatever was settled since it
  was served (`use-chat-thread.ts:119`, `:142`). The page then shows the rows from before a
  save, holds no patch, and offers *Save as query* again until it reads the conversation
  once more. The same version meets its key; a newer one makes a second query.
  `WrittenIsKept` is about the page and the api together for this reason.
- The query is created and its chart or the read-back fails (`promote-query-draft.ts:47`):
  when the read-back throws the row stays pending and the page forgets the query; *Save as
  query* is offered again, and finds it by its key while the version is the same.
- A held patch is dropped when another row's applied promotion is shown, an earlier row's
  too (`thread-sync.ts:51`); its own row may then stay pending. A browser reload loses a
  held patch.
- A held partial patch, retried after the chart was redrawn from a dashboard, downgrades
  the row that was done.
- A widget an edit added and somebody removed is made again by a later Apply (`Anew` in
  `EditPromise` allows it). A rename whose answer was lost meets its own change as a
  conflict.
- An added drafted query that gets another chart between a lost answer and the next Apply
  is asked for under its key with that chart, and refused with a 409 (`widgets.py:51`); the
  card takes it for a conflict, and *Overwrite* meets the same refusal
  (`resolve-draft-chart.ts:76`; `Redrawn`, `Replayed`). `KeepsItsWord` leaves such edits
  out. A create that finds its winner's widget gone answers 500 (`idempotency.py:71`).

*Query jobs.*

- `enqueue_query` removes an irrelevant lock over another connection (`redis_connection`,
  not the pipeline): its own WATCH then fails, the job it has enqueued is kept for the next
  try and returned without a lock, so identical queries meanwhile enqueue others.
  `query_results.py:442` says that "enqueue_query reuses an in-flight job for an identical
  query"; `SharesUnlessContended` says when it does.
- An executor that was cancelled, the sweeper, and a late `Unlock` remove the lock whatever
  it names by then, a newer job's too.
- `rq_job_ids` reads the started registries before the queues (`monitor.py:64`), so a job
  that starts in between is in neither, and `remove_ghost_locks` takes the lock of a job
  that is at work; its docstring (`maintenance.py:145`) speaks of jobs that do not exist.

## 6. Not modelled

The modules above are the places where several actors work on one piece of state and the
outcome depends on their order. What is left, and what a model of it would take:

- *Draft versions and MCP keys* (`store.py:269`, `mcp_calls.py:212`): two proposals of one
  draft both take the highest version plus one, and the unique index refuses the second; a
  key is spent once by the deletion of a Redis key. Each is a single test of an index or of
  a return value; a model needs two concurrent turns of one conversation, which
  `OneRunningRow` excludes except in the state that `ChatTwoRunners` shows.
- *Public execution* (`public_execution.py`): the admission script is one atomic step of
  Redis; what is of interest is the lease between admission and the job's end, which needs
  time to pass (a lease that expires while its job runs) beside `QueryRun`'s jobs, that is
  a composition with a clock.
- *Historical capture* (`tasks/queries/historical`): captures of one table that widen its
  columns, with a shape cache per process and a table lock that times out. The states are
  shapes of tables, data more than control; a model would have two processes, a lattice of
  three column types and the lock's timeout.
- *Archive cache* (a `flock`, two files replaced one after the other), *profile cache* (a
  bounded dictionary, threads), *capture alerts* (arming in two steps against another
  service): small, each with one thing that can go wrong, named under `hazards`.
- *Serving side*: reads the current row; `OnePointer` is what it relies on.
- *Tools, prompt and grounding, transit naming, serializers, query runners*: functions of
  text and data, whose reference definition would be the code again.
- *Schedules, mails, authentication, settings, metrics, deployment, pages*: no state that
  several actors dispute.

Most of the repository's lines are of the last two kinds (pages, adapters, handlers,
fixtures), so the part of it that is modelled is small by lines; it is the part that
cannot be tested by calling one function.

What could be done next with the modules as they are: rows of `ChatThread` whose end is
overwritten, as `ChatTurn` lets it be; an abstract specification for `DraftPromotion` (what
becomes of a save).
