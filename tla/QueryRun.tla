------------------------------ MODULE QueryRun ------------------------------
(***************************************************************************)
(* Running one query text on the Redash node from several pages at once.    *)
(*   hooks/use-query-execution.ts       Run and Refresh                      *)
(*   services/redash/execution.ts, jobs.ts   the call, the job it is polled   *)
(*   node: tasks/queries/execution.py   enqueue_query, QueryExecutor.run      *)
(*   node: tasks/queries/maintenance.py remove_ghost_locks                    *)
(*   node: handlers/query_results.py    run_query, JobResource                *)
(* One query hash is modelled, with the Redis key that names the job which    *)
(* runs it.  Jobs are numbered in the order they are enqueued; a result is    *)
(* the number of the job that made it.  Left out: the key's own expiry after  *)
(* JOB_EXPIRY_TIME (twelve hours), and the page's cancel, which no button of  *)
(* the client calls.                                                          *)
(***************************************************************************)
EXTENDS Naturals, FiniteSets

CONSTANTS
    Pages,       \* pages that run the query
    MaxTries,    \* enqueue_query's tries: 5
    MaxJobs,     \* bound: jobs ever enqueued
    MaxMishaps   \* bound: work horses killed and jobs cancelled

ASSUME BoundsAssumption ==
    /\ MaxTries \in Nat \ {0}
    /\ {MaxJobs, MaxMishaps} \subseteq Nat

VARIABLES
    lock,       \* query_hash_job: the job it names, 0 when there is no key
    enqueued,   \* how many jobs were enqueued
    job,        \* the jobs, by number
    page,       \* each page, and the request it has on the node
    sweep,      \* remove_ghost_locks: what it has read
    contended,  \* history: a transaction was refused, or somebody removed the
                \* lock of a job that was still at work
    mishaps

vars == <<lock, enqueued, job, page, sweep, contended, mishaps>>

Jobs == 1 .. MaxJobs

-----------------------------------------------------------------------------
(* What is read of a job.                                                    *)

\* A job waits, runs the SQL, has removed the lock ("released") and has ended:
\* finished, failed, killed, cancelled, or its record has expired.  Whoever reads
\* it does the same in each of these cases.
Job == [pc : {"none", "queued", "started", "released", "ended"},
        cancelled : BOOLEAN]

InQueue(j) == job[j].pc = "queued"

\* RQ takes a cancelled job off its registry, whatever its work horse still does.
InRegistry(j) == job[j].pc \in {"started", "released"} /\ ~job[j].cancelled

\* Slip: a job that was cancelled is joined like any other.
RelevantThoughCancelled(j) == job[j].pc \in {"queued", "started", "released"}

\* Found and not irrelevant: neither complete, nor cancelled, nor expired.
Relevant(j) == InQueue(j) \/ InRegistry(j)

\* Its result cannot change any more, or nobody will be given it.
Over(j) == ~InQueue(j) /\ ~InRegistry(j)

-----------------------------------------------------------------------------
(* Pages.                                                                    *)

\* tries, dirty and found are enqueue_query's: its try, whether the watched key
\* was touched, the job the key named.  holds is the job it has in hand, which is
\* then the one the page polls; past are the jobs that were over at the click.
Page == [pc : {"idle", "watch", "fetch", "unlock", "enqueue", "exec", "polling"},
         tries : 0 .. MaxTries, dirty : BOOLEAN, found : 0 .. MaxJobs,
         holds : 0 .. MaxJobs, past : SUBSET Jobs]

Idle == [pc |-> "idle", tries |-> 0, dirty |-> FALSE, found |-> 0, holds |-> 0,
         past |-> {}]

\* serialize_job answers the page, which polls the job.
Polling(j) == [Idle EXCEPT !.pc = "polling", !.holds = j]

\* Every write of the key is seen by those who watch it; the removal of a key
\* that is not there is no write.
Touch(pages) ==
    [q \in Pages |->
        IF pages[q].pc \in {"fetch", "unlock", "enqueue", "exec"}
        THEN [pages[q] EXCEPT !.dirty = TRUE] ELSE pages[q]]

Removed(pages) == IF lock = 0 THEN pages ELSE Touch(pages)

\* The key is deleted, by the executor of job j or, with 0, by somebody else.
Deletes(j) ==
    /\ lock' = 0
    /\ contended' = (contended \/ lock \in {k \in Jobs \ {j} : ~Over(k)})

\* run_query, max_age 0: no stored result will do.
Run(p) ==
    /\ page[p].pc = "idle"
    /\ page' = [page EXCEPT ![p].pc = "watch", ![p].tries = 1,
                            ![p].past = {j \in 1 .. enqueued : Over(j)}]
    /\ UNCHANGED <<lock, enqueued, job, sweep, contended, mishaps>>

\* WATCH and GET.  With no key, a job left over from the try before is enough.
Watch(p) ==
    /\ page[p].pc = "watch"
    /\ page' = [page EXCEPT
                   ![p] = IF lock = 0 /\ @.holds # 0 THEN Polling(@.holds)
                          ELSE [@ EXCEPT !.dirty = FALSE, !.found = lock,
                                         !.pc = IF lock = 0 THEN "enqueue" ELSE "fetch"]]
    /\ UNCHANGED <<lock, enqueued, job, sweep, contended, mishaps>>

\* Slip: the job in hand is kept, whatever was found.
FetchedInVain(p) ==
    /\ page[p].pc = "fetch"
    /\ page' = [page EXCEPT
                   ![p] = IF Relevant(@.found) THEN Polling(@.holds)
                          ELSE [@ EXCEPT !.pc = "unlock", !.holds = 0]]
    /\ UNCHANGED <<lock, enqueued, job, sweep, contended, mishaps>>

\* Slip: the job in hand is not let go when the lock is found irrelevant.
FetchedInHand(p) ==
    /\ page[p].pc = "fetch"
    /\ page' = [page EXCEPT
                   ![p] = IF Relevant(@.found) THEN Polling(@.found)
                          ELSE [@ EXCEPT !.pc = "unlock"]]
    /\ UNCHANGED <<lock, enqueued, job, sweep, contended, mishaps>>

\* Job.fetch and its status: the job is joined, or its lock is irrelevant.
Fetch(p) ==
    /\ page[p].pc = "fetch"
    /\ page' = [page EXCEPT
                   ![p] = IF Relevant(@.found) THEN Polling(@.found)
                          ELSE [@ EXCEPT !.pc = "unlock", !.holds = 0]]
    /\ UNCHANGED <<lock, enqueued, job, sweep, contended, mishaps>>

\* The irrelevant lock is removed, over another connection and whatever it names
\* by now: the page's own WATCH sees it too.
Unlock(p) ==
    /\ page[p].pc = "unlock"
    /\ Deletes(0)
    /\ page' = [Removed(page) EXCEPT ![p].pc = "enqueue", ![p].found = 0]
    /\ UNCHANGED <<enqueued, job, sweep, mishaps>>

\* queue.enqueue, which is not part of the transaction.
Enqueue(p) ==
    /\ page[p].pc = "enqueue"
    /\ enqueued < MaxJobs
    /\ enqueued' = enqueued + 1
    /\ job' = [job EXCEPT ![enqueued + 1].pc = "queued"]
    /\ page' = [page EXCEPT ![p].pc = "exec", ![p].holds = enqueued + 1]
    /\ UNCHANGED <<lock, sweep, contended, mishaps>>

\* Redis does not answer: nothing but a WatchError is caught and the page's call
\* fails, leaving the lock as it is by now and a job that was enqueued to run.
RequestFails(p) ==
    /\ page[p].pc \notin {"idle", "polling"}
    /\ page' = [page EXCEPT ![p] = Idle]
    /\ UNCHANGED <<lock, enqueued, job, sweep, contended, mishaps>>

\* Slip: the lock is set without WATCH.
ExecUnwatched(p) ==
    /\ page[p].pc = "exec"
    /\ lock' = page[p].holds
    /\ page' = [Touch(page) EXCEPT ![p] = Polling(@.holds)]
    /\ UNCHANGED <<enqueued, job, sweep, contended, mishaps>>

\* EXEC: the lock is set, unless the key was touched; then the job that was
\* enqueued is kept for the next try, and returned after the last.
Exec(p) ==
    /\ page[p].pc = "exec"
    /\ IF page[p].dirty
       THEN /\ contended' = TRUE
            /\ page' = IF page[p].tries < MaxTries
                       THEN [page EXCEPT ![p].pc = "watch", ![p].tries = @ + 1]
                       ELSE [page EXCEPT ![p] = Polling(@.holds)]
            /\ UNCHANGED lock
       ELSE /\ lock' = page[p].holds
            /\ page' = [Touch(page) EXCEPT ![p] = Polling(@.holds)]
            /\ UNCHANGED contended
    /\ UNCHANGED <<enqueued, job, sweep, mishaps>>

\* pollJob returns and getResult brings the rows; or it throws: the job has an
\* error, was cancelled or is gone, a call failed, or MAX_POLL_TIME is over,
\* whatever the job is doing.
Answered(p) ==
    /\ page[p].pc = "polling"
    /\ page' = [page EXCEPT ![p] = Idle]
    /\ UNCHANGED <<lock, enqueued, job, sweep, contended, mishaps>>

-----------------------------------------------------------------------------
(* The worker: QueryExecutor.run.                                            *)

Moves(j, from, to) ==
    /\ job[j].pc = from
    /\ job' = [job EXCEPT ![j].pc = to]

Start(j) ==
    /\ Moves(j, "queued", "started")
    /\ UNCHANGED <<lock, enqueued, page, sweep, contended, mishaps>>

\* run_query has returned rows, or an error (a time limit and the interrupt of a
\* cancelled job are errors too), and _unlock removes the lock of the hash.
Release(j) ==
    /\ Moves(j, "started", "released")
    /\ Deletes(j)
    /\ page' = Removed(page)
    /\ UNCHANGED <<enqueued, sweep, mishaps>>

\* The result is stored, or the error returned: either way RQ calls the job
\* finished, but for one that was cancelled.
Finish(j) ==
    /\ job[j].pc = "released"
    /\ job' = [job EXCEPT ![j].pc = "ended", ![j].cancelled = FALSE]
    /\ UNCHANGED <<lock, enqueued, page, sweep, contended, mishaps>>

\* enforce_hard_limit, or a work horse that dies: the lock stays.
Kill(j) ==
    /\ job[j].pc \in {"started", "released"}
    /\ mishaps < MaxMishaps
    /\ mishaps' = mishaps + 1
    /\ job' = [job EXCEPT ![j].pc = "ended", ![j].cancelled = FALSE]
    /\ UNCHANGED <<lock, enqueued, page, sweep, contended>>

\* JobResource.delete: a queued job leaves its queue, a running one is told.
Cancel(j) ==
    /\ Relevant(j)
    /\ mishaps < MaxMishaps
    /\ mishaps' = mishaps + 1
    /\ job' = [job EXCEPT ![j] =
                   IF @.pc = "queued" THEN [@ EXCEPT !.pc = "ended"]
                                      ELSE [@ EXCEPT !.cancelled = TRUE]]
    /\ UNCHANGED <<lock, enqueued, page, sweep, contended>>

-----------------------------------------------------------------------------
(* remove_ghost_locks: the locks are read, then the registries of started     *)
(* jobs, then the queues (a job that starts in between is in neither), then   *)
(* the locks whose job was not found removed, whatever they name by then.     *)

Asleep == [pc |-> "idle", seen |-> 0]

\* It removes the key, whose name is that of the hash and not of a job.
Ghost == [pc |-> "ghost", seen |-> 0]

SweepReads ==
    /\ sweep.pc = "idle"
    /\ lock # 0
    /\ sweep' = [pc |-> "read", seen |-> lock]
    /\ UNCHANGED <<lock, enqueued, job, page, contended, mishaps>>

SweepLists ==
    /\ \/ /\ sweep.pc = "read"
          /\ sweep' = IF InRegistry(sweep.seen) THEN Asleep
                      ELSE [sweep EXCEPT !.pc = "started"]
       \/ /\ sweep.pc = "started"
          /\ sweep' = IF InQueue(sweep.seen) THEN Asleep
                      ELSE Ghost
    /\ UNCHANGED <<lock, enqueued, job, page, contended, mishaps>>

SweepRemoves ==
    /\ sweep.pc = "ghost"
    /\ Deletes(0)
    /\ page' = Removed(page)
    /\ sweep' = Asleep
    /\ UNCHANGED <<enqueued, job, mishaps>>

-----------------------------------------------------------------------------
Init ==
    /\ lock = 0
    /\ enqueued = 0
    /\ job = [j \in Jobs |-> [pc |-> "none", cancelled |-> FALSE]]
    /\ page = [p \in Pages |-> Idle]
    /\ sweep = Asleep
    /\ contended = FALSE
    /\ mishaps = 0

Request(p) ==
    \/ Watch(p) \/ Fetch(p) \/ Unlock(p) \/ Enqueue(p) \/ Exec(p)
    \/ RequestFails(p) \/ Answered(p)

Work(j) == Start(j) \/ Release(j) \/ Finish(j)

Sweep == SweepReads \/ SweepLists \/ SweepRemoves

Next ==
    \/ \E p \in Pages : Run(p) \/ Request(p)
    \/ \E j \in Jobs : Work(j) \/ Kill(j) \/ Cancel(j)
    \/ Sweep

Spec == Init /\ [][Next]_vars

-----------------------------------------------------------------------------
\* Every variable is of its kind, jobs are numbered without a gap, and what a
\* lock, a page or the sweeper names was enqueued.
TypeOK ==
    /\ lock \in 0 .. enqueued
    /\ enqueued \in 0 .. MaxJobs
    /\ job \in [Jobs -> Job]
    /\ \A j \in Jobs : job[j].pc = "none" <=> j > enqueued
    /\ page \in [Pages -> Page]
    /\ \A p \in Pages :
         /\ page[p].found =< enqueued /\ page[p].holds =< enqueued
         /\ page[p].pc \in {"fetch", "unlock"} => page[p].found # 0
         /\ page[p].pc \in {"exec", "polling"} => page[p].holds # 0
    /\ sweep \in [pc : {"idle", "read", "started", "ghost"}, seen : 0 .. enqueued]
    /\ sweep.pc \in {"read", "started"} <=> sweep.seen # 0
    /\ contended \in BOOLEAN
    /\ mishaps \in 0 .. MaxMishaps

\* A Refresh never returns what it was pressed to replace, nor waits for a job
\* that can bring nothing: whatever locks are stale, the job a page polls was not
\* over (finished, killed, cancelled, expired) when the button was clicked.
RefreshIsFresh ==
    [][\A p \in Pages :
          page[p].pc # "polling" /\ page'[p].pc = "polling" =>
              page'[p].holds \notin page[p].past]_vars

\* Pages that are answered with a job that runs share it (JobResource relies on
\* it to let the second reader poll), until a transaction is refused, or the lock of
\* a job that is still at work is removed by the sweeper or by another executor.
SharesUnlessContended ==
    ~contended =>
        \A p, q \in Pages :
            (/\ page[p].pc = "polling" /\ page[q].pc = "polling"
             /\ \A j \in {page[p].holds, page[q].holds} :
                   job[j].pc \in {"queued", "started"} /\ ~job[j].cancelled)
                => page[p].holds = page[q].holds

\* What is to be seen of jobs and pages without the calls and the key.
Working == {j \in Jobs : InQueue(j) \/ InRegistry(j)}

Asking == {p \in Pages : page[p].pc # "idle" /\ page[p].pc # "polling"}

\* Whatever the key names, loses or is swept of, a page is given a job that works
\* at that moment or the one it enqueued since its click, has one in hand at most,
\* and makes no second one without having found one that was over: RunPromise.
Promise == INSTANCE RunPromise WITH
               begun <- enqueued, working <- Working, asking <- Asking,
               has <- [p \in Pages |-> page[p].holds]

PromiseKept == Promise!Spec
=============================================================================
