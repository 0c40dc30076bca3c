--------------------------- MODULE QueryRunProofs ---------------------------
(***************************************************************************)
(* What holds of QueryRun for every set of pages and every bound.           *)
(***************************************************************************)
EXTENDS QueryRun, TLAPS

\* A page's record, with what its program counter promises about it, when n jobs
\* have been enqueued.
PageOK(x, n) ==
    /\ x \in Page
    /\ x.found =< n /\ x.holds =< n
    /\ x.pc \in {"fetch", "unlock"} => x.found # 0
    /\ x.pc \in {"exec", "polling"} => x.holds # 0

\* A write of the key marks the pages that watch it and changes nothing else.
LEMMA TouchMarks ==
    ASSUME page \in [Pages -> Page]
    PROVE  \A pages \in {Touch(page), Removed(page)} :
             /\ pages \in [Pages -> Page]
             /\ \A q \in Pages :
                  /\ pages[q].pc = page[q].pc /\ pages[q].tries = page[q].tries
                  /\ pages[q].found = page[q].found
                  /\ pages[q].holds = page[q].holds
                  /\ pages[q].past = page[q].past
<1>1. \A q \in Pages :
        /\ [page[q] EXCEPT !.dirty = TRUE] \in Page
        /\ [page[q] EXCEPT !.dirty = TRUE].pc = page[q].pc
        /\ [page[q] EXCEPT !.dirty = TRUE].tries = page[q].tries
        /\ [page[q] EXCEPT !.dirty = TRUE].found = page[q].found
        /\ [page[q] EXCEPT !.dirty = TRUE].holds = page[q].holds
        /\ [page[q] EXCEPT !.dirty = TRUE].past = page[q].past
    BY DEF Page
<1>2. /\ Touch(page) \in [Pages -> Page]
      /\ \A q \in Pages : Touch(page)[q] \in {page[q], [page[q] EXCEPT !.dirty = TRUE]}
    BY <1>1 DEF Touch
<1> QED
    BY <1>1, <1>2 DEF Removed

\* An idle page holds nothing.
LEMMA IdlePage ==
    /\ Idle \in Page /\ Idle.pc = "idle" /\ Idle.past = {}
    /\ Idle.found = 0 /\ Idle.holds = 0
BY BoundsAssumption DEF Page, Idle

\* A page that is answered with a job polls it.
LEMMA PollingPage ==
    ASSUME NEW j \in 0 .. MaxJobs
    PROVE  /\ Polling(j) \in Page /\ Polling(j).pc = "polling" /\ Polling(j).past = {}
           /\ Polling(j).found = 0 /\ Polling(j).holds = j
<1>1. "polling" \in {"idle", "watch", "fetch", "unlock", "enqueue", "exec", "polling"}
    OBVIOUS
<1> QED
    BY <1>1, IdlePage DEF Page, Idle, Polling

\* The records the steps of a request make of a page's.
LEMMA PageSteps ==
    ASSUME NEW n \in 0 .. MaxJobs, NEW x, PageOK(x, n)
    PROVE  /\ \A s \in SUBSET Jobs :
                PageOK([x EXCEPT !.pc = "watch", !.tries = 1, !.past = s], n)
           /\ \A k \in 0 .. n :
                PageOK([x EXCEPT !.dirty = FALSE, !.found = k,
                                 !.pc = IF k = 0 THEN "enqueue" ELSE "fetch"], n)
           /\ x.found # 0 => PageOK([x EXCEPT !.pc = "unlock", !.holds = 0], n)
           /\ PageOK([x EXCEPT !.pc = "enqueue", !.found = 0], n)
           /\ \A k \in Jobs : k = n + 1 =>
                PageOK([x EXCEPT !.pc = "exec", !.holds = k], k)
           /\ x.tries < MaxTries =>
                PageOK([x EXCEPT !.pc = "watch", !.tries = x.tries + 1], n)
<1>a. x \in Page /\ x.found \in 0 .. n /\ x.holds \in 0 .. n /\ n \in Nat
    BY DEF PageOK, Page
<1>b. x.found \in 0 .. MaxJobs /\ x.holds \in 0 .. MaxJobs /\ x.tries \in 0 .. MaxTries
    BY <1>a DEF Page
<1>c. 1 \in 0 .. MaxTries /\ 0 \in 0 .. MaxJobs /\ \A k \in 0 .. n : k \in 0 .. MaxJobs
    BY BoundsAssumption
<1>d. \A k \in Jobs : k \in 0 .. MaxJobs
    BY BoundsAssumption DEF Jobs
<1>1. ASSUME NEW s \in SUBSET Jobs
      PROVE  PageOK([x EXCEPT !.pc = "watch", !.tries = 1, !.past = s], n)
  <2> DEFINE y == [x EXCEPT !.pc = "watch", !.tries = 1, !.past = s]
  <2>1. /\ y \in Page /\ y.pc = "watch" /\ y.found = x.found /\ y.holds = x.holds
      BY <1>a, <1>c DEF Page
  <2> QED
      BY <1>a, <2>1 DEF PageOK
<1>2. ASSUME NEW k \in 0 .. n
      PROVE  PageOK([x EXCEPT !.dirty = FALSE, !.found = k,
                              !.pc = IF k = 0 THEN "enqueue" ELSE "fetch"], n)
  <2> DEFINE to == IF k = 0 THEN "enqueue" ELSE "fetch"
             y == [x EXCEPT !.dirty = FALSE, !.found = k, !.pc = to]
  <2>1. to \in {"enqueue", "fetch"} /\ (to = "fetch" => k # 0)
      OBVIOUS
  <2> HIDE DEF to
  <2>2. /\ y \in Page /\ y.pc = to /\ y.found = k /\ y.holds = x.holds
      BY <1>a, <1>c, <2>1 DEF Page
  <2>3. PageOK(y, n)
      BY <1>a, <2>1, <2>2 DEF PageOK
  <2> QED
      BY <2>3 DEF to
<1>3. ASSUME x.found # 0 PROVE PageOK([x EXCEPT !.pc = "unlock", !.holds = 0], n)
  <2> DEFINE y == [x EXCEPT !.pc = "unlock", !.holds = 0]
  <2>1. /\ y \in Page /\ y.pc = "unlock" /\ y.found = x.found /\ y.holds = 0
      BY <1>a, <1>c DEF Page
  <2> QED
      BY <1>a, <1>3, <2>1 DEF PageOK
<1>4. PageOK([x EXCEPT !.pc = "enqueue", !.found = 0], n)
  <2> DEFINE y == [x EXCEPT !.pc = "enqueue", !.found = 0]
  <2>1. /\ y \in Page /\ y.pc = "enqueue" /\ y.found = 0 /\ y.holds = x.holds
      BY <1>a, <1>c DEF Page
  <2> QED
      BY <1>a, <2>1 DEF PageOK
<1>5. ASSUME NEW k \in Jobs, k = n + 1 PROVE PageOK([x EXCEPT !.pc = "exec", !.holds = k], k)
  <2> DEFINE y == [x EXCEPT !.pc = "exec", !.holds = k]
  <2>1. /\ y \in Page /\ y.pc = "exec" /\ y.found = x.found /\ y.holds = k
      BY <1>a, <1>d DEF Page
  <2> QED
      BY <1>a, <1>5, <2>1 DEF PageOK
<1>6. ASSUME x.tries < MaxTries
      PROVE  PageOK([x EXCEPT !.pc = "watch", !.tries = x.tries + 1], n)
  <2> DEFINE k == x.tries + 1
             y == [x EXCEPT !.pc = "watch", !.tries = k]
  <2>1. k \in 0 .. MaxTries
      BY <1>b, <1>6, BoundsAssumption
  <2> HIDE DEF k
  <2>2. /\ y \in Page /\ y.pc = "watch" /\ y.found = x.found /\ y.holds = x.holds
      BY <1>a, <2>1, BoundsAssumption DEF Page
  <2>3. PageOK(y, n)
      BY <1>a, <2>2 DEF PageOK
  <2> QED
      BY <2>3 DEF k
<1> QED
    BY <1>1, <1>2, <1>3, <1>4, <1>5, <1>6

\* What a page knows stays true when more jobs are enqueued.
LEMMA PageStays ==
    ASSUME NEW x, NEW n \in Nat, NEW k \in Nat, n =< k, PageOK(x, n)
    PROVE  PageOK(x, k)
BY DEF PageOK, Page

-----------------------------------------------------------------------------
(* Type correctness.                                                         *)

Typed ==
    /\ lock \in 0 .. enqueued
    /\ enqueued \in 0 .. MaxJobs
    /\ job \in [Jobs -> Job]
    /\ \A j \in Jobs : job[j].pc = "none" <=> j > enqueued

PagesTyped ==
    /\ page \in [Pages -> Page]
    /\ \A p \in Pages : PageOK(page[p], enqueued)

RestTyped ==
    /\ sweep \in [pc : {"idle", "read", "started", "ghost"}, seen : 0 .. enqueued]
    /\ sweep.pc \in {"read", "started"} <=> sweep.seen # 0
    /\ contended \in BOOLEAN
    /\ mishaps \in 0 .. MaxMishaps

\* TypeOK, by what it is about.
LEMMA TypeOKParts == TypeOK <=> Typed /\ PagesTyped /\ RestTyped
BY DEF TypeOK, Typed, PagesTyped, RestTyped, PageOK

\* A page that takes a step by itself leaves the pages typed when its own record is.
LEMMA OnePage ==
    ASSUME PagesTyped, NEW p \in Pages, NEW x, PageOK(x, enqueued),
           enqueued' = enqueued, page' = [page EXCEPT ![p] = x]
    PROVE  PagesTyped'
BY DEF PagesTyped, PageOK

\* So do pages that were marked, with or without a step of one of them.
LEMMA MarkedPages ==
    ASSUME PagesTyped, NEW pages \in {Touch(page), Removed(page)}
    PROVE  /\ pages \in [Pages -> Page]
           /\ \A q \in Pages : PageOK(pages[q], enqueued)
<1>1. page \in [Pages -> Page]
    BY DEF PagesTyped
<1> QED
    BY <1>1, TouchMarks DEF PagesTyped, PageOK

\* One job moves and the others stay.
LEMMA OneJob ==
    ASSUME Typed, NEW j \in Jobs, NEW x \in Job, x.pc # "none", j =< enqueued,
           job' = [job EXCEPT ![j] = x], enqueued' = enqueued,
           lock' \in {0, lock}
    PROVE  Typed'
BY BoundsAssumption DEF Typed, Jobs

\* Nothing has been asked for at first.
LEMMA TypeInit == Init => TypeOK
<1> SUFFICES ASSUME Init PROVE TypeOK
    OBVIOUS
<1>1. Typed
    BY BoundsAssumption DEF Init, Typed, Jobs, Job
<1>2. PagesTyped
    BY IdlePage DEF Init, PagesTyped, PageOK
<1>3. RestTyped
  <2>1. MaxMishaps \in Nat
      BY BoundsAssumption
  <2>2. /\ sweep = [pc |-> "idle", seen |-> 0] /\ enqueued = 0
        /\ contended = FALSE /\ mishaps = 0
      BY DEF Init, Asleep
  <2>3. 0 \in 0 .. enqueued /\ 0 \in 0 .. MaxMishaps
      BY <2>1, <2>2
  <2>4. /\ sweep \in [pc : {"idle", "read", "started", "ghost"}, seen : 0 .. enqueued]
        /\ sweep.pc = "idle" /\ sweep.seen = 0
      BY <2>2, <2>3
  <2> QED
      BY <2>2, <2>3, <2>4 DEF RestTyped
<1> QED
    BY <1>1, <1>2, <1>3, TypeOKParts

\* Every step of a page, a worker or the sweeper keeps the types.
LEMMA TypeNext == TypeOK /\ [Next]_vars => TypeOK'
<1> SUFFICES ASSUME Typed, PagesTyped, RestTyped, [Next]_vars
             PROVE  Typed' /\ PagesTyped' /\ RestTyped'
    BY TypeOKParts DEF TypeOK, Typed, PagesTyped, RestTyped, PageOK
<1>a. /\ page \in [Pages -> Page] /\ job \in [Jobs -> Job]
      /\ enqueued \in Nat /\ MaxJobs \in Nat /\ enqueued =< MaxJobs
      /\ lock \in 0 .. enqueued /\ enqueued \in 0 .. MaxJobs
      /\ \A p \in Pages : PageOK(page[p], enqueued)
    BY BoundsAssumption DEF Typed, PagesTyped
<1>0. CASE UNCHANGED vars
    BY <1>0 DEF vars, Typed, PagesTyped, RestTyped, PageOK
<1>1. ASSUME NEW p \in Pages, Run(p) PROVE Typed' /\ PagesTyped' /\ RestTyped'
  <2> DEFINE now == [page[p] EXCEPT !.pc = "watch", !.tries = 1,
                                    !.past = {j \in 1 .. enqueued : Over(j)}]
  <2>1. {j \in 1 .. enqueued : Over(j)} \in SUBSET Jobs
      BY <1>a DEF Jobs
  <2>2. PageOK(now, enqueued)
      BY <1>a, <2>1, PageSteps
  <2>3. page' = [page EXCEPT ![p] = now]
      BY <1>1, <1>a DEF Run
  <2> QED
      BY <1>1, <2>2, <2>3, OnePage DEF Run, Typed, RestTyped
<1>2. ASSUME NEW p \in Pages, Watch(p) PROVE Typed' /\ PagesTyped' /\ RestTyped'
  <2> DEFINE x == page[p]
             now == [x EXCEPT !.dirty = FALSE, !.found = lock,
                              !.pc = IF lock = 0 THEN "enqueue" ELSE "fetch"]
  <2>1. PageOK(now, enqueued)
      BY <1>a, PageSteps
  <2>2. x.holds # 0 => PageOK(Polling(x.holds), enqueued)
      BY <1>a, PollingPage DEF PageOK, Page
  <2>3. CASE lock = 0 /\ x.holds # 0
      BY <1>2, <2>2, <2>3, OnePage DEF Watch, Typed, RestTyped
  <2>4. CASE ~(lock = 0 /\ x.holds # 0)
    <3>1. page' = [page EXCEPT ![p] = now]
        BY <1>2, <1>a, <2>4 DEF Watch
    <3> QED
        BY <1>2, <2>1, <3>1, OnePage DEF Watch, Typed, RestTyped
  <2> QED
      BY <2>3, <2>4
<1>3. ASSUME NEW p \in Pages, Fetch(p) PROVE Typed' /\ PagesTyped' /\ RestTyped'
  <2> DEFINE x == page[p]
             now == [x EXCEPT !.pc = "unlock", !.holds = 0]
  <2>1. PageOK(now, enqueued)
      BY <1>3, <1>a, PageSteps DEF PageOK, Fetch
  <2>2. PageOK(Polling(x.found), enqueued)
      BY <1>3, <1>a, PollingPage DEF PageOK, Page, Fetch
  <2>3. page' = [page EXCEPT ![p] = Polling(x.found)] \/ page' = [page EXCEPT ![p] = now]
      BY <1>3, <1>a DEF Fetch
  <2> QED
      BY <1>3, <2>1, <2>2, <2>3, OnePage DEF Fetch, Typed, RestTyped
<1>4. ASSUME NEW p \in Pages, Unlock(p) PROVE Typed' /\ PagesTyped' /\ RestTyped'
  <2>1. /\ Removed(page) \in [Pages -> Page]
        /\ \A q \in Pages : PageOK(Removed(page)[q], enqueued)
      BY MarkedPages
  <2> DEFINE x == Removed(page)[p]
             now == [x EXCEPT !.pc = "enqueue", !.found = 0]
  <2>2. PageOK(now, enqueued)
      BY <1>a, <2>1, PageSteps
  <2>3. page' = [Removed(page) EXCEPT ![p] = now]
      BY <1>4, <2>1 DEF Unlock
  <2>4. PagesTyped'
      BY <1>4, <2>1, <2>2, <2>3 DEF Unlock, PagesTyped, PageOK
  <2> QED
      BY <1>4, <1>a, <2>4 DEF Unlock, Deletes, Typed, RestTyped
<1>5. ASSUME NEW p \in Pages, Enqueue(p) PROVE Typed' /\ PagesTyped' /\ RestTyped'
  <2>1. /\ enqueued' = enqueued + 1 /\ enqueued + 1 \in Jobs
        /\ enqueued' \in Nat /\ enqueued =< enqueued'
      BY <1>5, <1>a DEF Enqueue, Jobs
  <2>2. /\ job' \in [Jobs -> Job]
        /\ job'[enqueued + 1].pc = "queued"
        /\ \A j \in Jobs : j # enqueued + 1 => job'[j] = job[j]
      BY <1>5, <1>a, <2>1 DEF Enqueue, Job
  <2>3. \A j \in Jobs : job'[j].pc = "none" <=> j > enqueued'
      BY <1>a, <2>1, <2>2 DEF Typed, Jobs
  <2>4. Typed'
      BY <1>5, <1>a, <2>1, <2>2, <2>3 DEF Enqueue, Typed, Jobs
  <2> DEFINE x == page[p]
             now == [x EXCEPT !.pc = "exec", !.holds = enqueued + 1]
  <2>5. PageOK(now, enqueued')
      BY <1>a, <2>1, PageSteps
  <2>6. page' = [page EXCEPT ![p] = now]
      BY <1>5, <1>a DEF Enqueue
  <2>7. \A q \in Pages : PageOK(page[q], enqueued')
      BY <1>a, <2>1, PageStays
  <2>8. PagesTyped'
      BY <1>a, <2>5, <2>6, <2>7 DEF PagesTyped, PageOK
  <2> QED
      BY <1>5, <1>a, <2>1, <2>4, <2>8 DEF Enqueue, RestTyped
<1>6. ASSUME NEW p \in Pages, RequestFails(p) \/ Answered(p)
      PROVE  Typed' /\ PagesTyped' /\ RestTyped'
  <2>1. PageOK(Idle, enqueued)
      BY <1>a, IdlePage DEF PageOK
  <2> QED
      BY <1>6, <2>1, OnePage DEF RequestFails, Answered, Typed, RestTyped
<1>7. ASSUME NEW p \in Pages, Exec(p) PROVE Typed' /\ PagesTyped' /\ RestTyped'
  <2> DEFINE x == page[p]
             now == [x EXCEPT !.pc = "watch", !.tries = x.tries + 1]
  <2>1. PageOK(Polling(x.holds), enqueued)
      BY <1>7, <1>a, PollingPage DEF PageOK, Page, Exec
  <2>2. CASE x.dirty
    <3>1. x.tries < MaxTries => PageOK(now, enqueued)
        BY <1>a, PageSteps
    <3>2. \/ x.tries < MaxTries /\ page' = [page EXCEPT ![p] = now]
          \/ page' = [page EXCEPT ![p] = Polling(x.holds)]
        BY <1>7, <1>a, <2>2 DEF Exec
    <3> QED
        BY <1>7, <2>1, <2>2, <3>1, <3>2, OnePage DEF Exec, Typed, RestTyped
  <2>3. CASE ~x.dirty
    <3>1. /\ Touch(page) \in [Pages -> Page]
          /\ \A q \in Pages : PageOK(Touch(page)[q], enqueued)
        BY MarkedPages
    <3>2. Touch(page)[p].holds = x.holds
        BY <1>a, TouchMarks
    <3>3. page' = [Touch(page) EXCEPT ![p] = Polling(x.holds)]
        BY <1>7, <1>a, <2>3, <3>1, <3>2 DEF Exec
    <3>4. PagesTyped'
        BY <1>7, <2>1, <3>1, <3>3 DEF Exec, PagesTyped, PageOK
    <3>5. x.holds \in 0 .. enqueued
        BY <1>a DEF PageOK, Page
    <3> QED
        BY <1>7, <2>3, <3>4, <3>5 DEF Exec, Typed, RestTyped
  <2> QED
      BY <2>2, <2>3
<1>8. ASSUME NEW j \in Jobs, Work(j) \/ Kill(j) \/ Cancel(j)
      PROVE  Typed' /\ PagesTyped' /\ RestTyped'
  <2>1. Start(j) \/ Release(j) \/ Finish(j) \/ Kill(j) \/ Cancel(j)
      BY <1>8 DEF Work
  <2>2. /\ job[j] \in Job /\ job[j].pc # "none"
        /\ \E x \in Job : x.pc # "none" /\ job' = [job EXCEPT ![j] = x]
    <3> DEFINE o == job[j]
    <3>1. o \in Job
        BY <1>a
    <3>2. \A pc \in {"started", "released", "ended"} :
            /\ [o EXCEPT !.pc = pc] \in Job /\ [o EXCEPT !.pc = pc].pc # "none"
            /\ [o EXCEPT !.pc = pc, !.cancelled = FALSE] \in Job
            /\ [o EXCEPT !.pc = pc, !.cancelled = FALSE].pc # "none"
        BY <3>1 DEF Job
    <3>3. [o EXCEPT !.cancelled = TRUE] \in Job /\ [o EXCEPT !.cancelled = TRUE].pc = o.pc
        BY <3>1 DEF Job
    <3>4. CASE Start(j)
        BY <1>a, <3>1, <3>2, <3>4 DEF Start, Moves
    <3>5. CASE Release(j)
        BY <1>a, <3>1, <3>2, <3>5 DEF Release, Moves
    <3>6. CASE Finish(j)
        BY <1>a, <3>1, <3>2, <3>6 DEF Finish
    <3>7. CASE Kill(j)
        BY <1>a, <3>1, <3>2, <3>7 DEF Kill
    <3>8. CASE Cancel(j)
      <4>1. job' \in {[job EXCEPT ![j] = [o EXCEPT !.pc = "ended"]],
                      [job EXCEPT ![j] = [o EXCEPT !.cancelled = TRUE]]}
          BY <1>a, <3>8 DEF Cancel
      <4>2. o.pc # "none"
          BY <3>8 DEF Cancel, Relevant, InQueue, InRegistry
      <4> QED
          BY <3>1, <3>2, <3>3, <4>1, <4>2
    <3> QED
        BY <2>1, <3>4, <3>5, <3>6, <3>7, <3>8
  <2>3. j =< enqueued
      BY <1>a, <2>2 DEF Typed, Jobs
  <2>4. /\ enqueued' = enqueued /\ sweep' = sweep
        /\ lock' \in {0, lock}
        /\ contended' \in BOOLEAN
        /\ page' \in {page, Removed(page)}
        /\ mishaps' = mishaps \/ (mishaps < MaxMishaps /\ mishaps' = mishaps + 1)
      BY <2>1 DEF Start, Release, Finish, Kill, Cancel, Deletes, RestTyped
  <2>5. Typed'
      BY <2>2, <2>3, <2>4, OneJob
  <2>6. PagesTyped'
      BY <2>4, MarkedPages DEF PagesTyped, PageOK
  <2>7. RestTyped'
      BY <2>4, BoundsAssumption DEF RestTyped
  <2> QED
      BY <2>5, <2>6, <2>7
<1>9. CASE Sweep
  <2>1. /\ enqueued' = enqueued /\ job' = job /\ mishaps' = mishaps
        /\ lock' \in {0, lock}
        /\ contended' \in BOOLEAN
        /\ page' \in {page, Removed(page)}
      BY <1>9 DEF Sweep, SweepReads, SweepLists, SweepRemoves, Deletes, RestTyped
  <2>2. Typed'
      BY <1>a, <2>1 DEF Typed
  <2>3. PagesTyped'
      BY <2>1, MarkedPages DEF PagesTyped, PageOK
  <2>4. /\ sweep' \in [pc : {"idle", "read", "started", "ghost"}, seen : 0 .. enqueued]
        /\ sweep'.pc \in {"read", "started"} <=> sweep'.seen # 0
      BY <1>9, <1>a DEF Sweep, SweepReads, SweepLists, SweepRemoves, RestTyped, Asleep,
             Ghost
  <2> QED
      BY <2>1, <2>2, <2>3, <2>4 DEF RestTyped
<1> QED
    BY <1>0, <1>1, <1>2, <1>3, <1>4, <1>5, <1>6, <1>7, <1>8, <1>9 DEF Next, Request

\* Every variable is of its kind, and what a lock, a page or the sweeper names was
\* enqueued, whatever the number of pages, jobs and tries.
THEOREM TypeAlways == Spec => []TypeOK
BY TypeInit, TypeNext, PTL DEF Spec

-----------------------------------------------------------------------------
(* What a step does to the pages.                                            *)

Watching == {"fetch", "unlock", "enqueue", "exec"}

\* A page that another actor's step leaves as it was, unless the key it watches
\* was written: then it is marked.
Kept(q) ==
    /\ page'[q].pc = page[q].pc /\ page'[q].found = page[q].found
    /\ page'[q].holds = page[q].holds /\ page'[q].past = page[q].past
    /\ page[q].pc \in Watching /\ ~page'[q].dirty => ~page[q].dirty /\ lock' = lock

\* Touch marks every page that watches the key.
LEMMA TouchIsSeen ==
    ASSUME page \in [Pages -> Page], NEW q \in Pages
    PROVE  /\ page[q].pc \in Watching => Touch(page)[q].dirty
           /\ page[q].pc \in Watching /\ ~Removed(page)[q].dirty =>
                  ~page[q].dirty /\ lock = 0
<1>1. [page[q] EXCEPT !.dirty = TRUE].dirty
    BY DEF Page
<1>2. page[q].pc \in Watching => Touch(page)[q] = [page[q] EXCEPT !.dirty = TRUE]
    BY DEF Touch, Watching
<1>3. page[q].pc \in Watching => Touch(page)[q].dirty
    BY <1>1, <1>2
<1> QED
    BY <1>3 DEF Removed

\* A page whose own record, and nothing else, is replaced: the others are kept.
LEMMA OthersAreKept ==
    ASSUME TypeOK, NEW p \in Pages, Run(p) \/ Request(p)
    PROVE  \A q \in Pages \ {p} : Kept(q)
<1>a. page \in [Pages -> Page]
    BY DEF TypeOK
<1>1. CASE Run(p) \/ Watch(p) \/ Fetch(p) \/ Enqueue(p) \/ RequestFails(p) \/ Answered(p)
  <2>1. lock' = lock /\ \A q \in Pages \ {p} : page'[q] = page[q]
      BY <1>a, <1>1 DEF Run, Watch, Fetch, Enqueue, RequestFails, Answered
  <2> QED
      BY <2>1 DEF Kept
<1>2. CASE Unlock(p)
  <2>1. lock' = 0 /\ \A q \in Pages \ {p} : page'[q] = Removed(page)[q]
      BY <1>a, <1>2, TouchMarks DEF Unlock, Deletes
  <2> QED
      BY <1>a, <2>1, TouchMarks, TouchIsSeen DEF Kept
<1>3. CASE Exec(p) /\ page[p].dirty
  <2>1. lock' = lock /\ \A q \in Pages \ {p} : page'[q] = page[q]
      BY <1>a, <1>3 DEF Exec
  <2> QED
      BY <2>1 DEF Kept
<1>4. CASE Exec(p) /\ ~page[p].dirty
  <2>1. \A q \in Pages \ {p} : page'[q] = Touch(page)[q]
      BY <1>a, <1>4, TouchMarks DEF Exec
  <2> QED
      BY <1>a, <2>1, TouchMarks, TouchIsSeen DEF Kept
<1> QED
    BY <1>1, <1>2, <1>3, <1>4 DEF Request

\* The worker, who cancels and the sweeper keep every page.
LEMMA PagesAreKept ==
    ASSUME TypeOK, \/ \E j \in Jobs : Work(j) \/ Kill(j) \/ Cancel(j)
                   \/ Sweep
                   \/ UNCHANGED vars
    PROVE  \A q \in Pages : Kept(q)
<1>a. page \in [Pages -> Page]
    BY DEF TypeOK
<1>1. \/ page' = page /\ lock' = lock
      \/ page' = Removed(page) /\ lock' = 0
    BY DEF Work, Start, Release, Finish, Kill, Cancel, Sweep, SweepReads, SweepLists,
           SweepRemoves, Deletes, vars
<1>2. CASE page' = page /\ lock' = lock
    BY <1>2 DEF Kept
<1>3. CASE page' = Removed(page) /\ lock' = 0
    BY <1>a, <1>3, TouchMarks, TouchIsSeen DEF Kept
<1> QED
    BY <1>1, <1>2, <1>3

\* The record an actor makes of its own page, field by field.
LEMMA OwnSteps ==
    ASSUME TypeOK, NEW p \in Pages
    PROVE  /\ Run(p) =>
                /\ page'[p].pc = "watch" /\ page'[p].holds = page[p].holds
                /\ page'[p].past = {j \in 1 .. enqueued : Over(j)}
           /\ Watch(p) =>
                \/ lock = 0 /\ page[p].holds # 0 /\ page'[p] = Polling(page[p].holds)
                \/ /\ page'[p].pc = IF lock = 0 THEN "enqueue" ELSE "fetch"
                   /\ page'[p].found = lock /\ page'[p].holds = page[p].holds
                   /\ page'[p].past = page[p].past
           /\ Fetch(p) =>
                \/ Relevant(page[p].found) /\ page'[p] = Polling(page[p].found)
                \/ /\ page'[p].pc = "unlock" /\ page'[p].holds = 0
                   /\ page'[p].found = page[p].found /\ page'[p].past = page[p].past
                   /\ page'[p].dirty = page[p].dirty
           /\ Unlock(p) =>
                /\ page'[p].pc = "enqueue" /\ page'[p].found = 0
                /\ page'[p].holds = page[p].holds /\ page'[p].past = page[p].past
           /\ Enqueue(p) =>
                /\ page'[p].pc = "exec" /\ page'[p].holds = enqueued + 1
                /\ page'[p].found = page[p].found /\ page'[p].past = page[p].past
                /\ page'[p].dirty = page[p].dirty
           /\ RequestFails(p) \/ Answered(p) => page'[p] = Idle
           /\ Exec(p) =>
                \/ /\ page[p].dirty /\ page'[p].pc = "watch"
                   /\ page'[p].holds = page[p].holds /\ page'[p].past = page[p].past
                \/ page'[p] = Polling(page[p].holds)
<1>a. page \in [Pages -> Page] /\ page[p] \in Page
    BY DEF TypeOK
<1>1. ASSUME Run(p)
      PROVE  /\ page'[p].pc = "watch" /\ page'[p].holds = page[p].holds
             /\ page'[p].past = {j \in 1 .. enqueued : Over(j)}
  <2> DEFINE s == {j \in 1 .. enqueued : Over(j)}
  <2> HIDE DEF s
  <2>1. page'[p] = [page[p] EXCEPT !.pc = "watch", !.tries = 1, !.past = s]
      BY <1>a, <1>1 DEF Run, s
  <2>2. page'[p].pc = "watch" /\ page'[p].holds = page[p].holds /\ page'[p].past = s
      BY <1>a, <2>1 DEF Page
  <2> QED
      BY <2>2 DEF s
<1>2. ASSUME Watch(p)
      PROVE  \/ lock = 0 /\ page[p].holds # 0 /\ page'[p] = Polling(page[p].holds)
             \/ /\ page'[p].pc = IF lock = 0 THEN "enqueue" ELSE "fetch"
                /\ page'[p].found = lock /\ page'[p].holds = page[p].holds
                /\ page'[p].past = page[p].past
  <2>1. CASE lock = 0 /\ page[p].holds # 0
      BY <1>a, <1>2, <2>1 DEF Watch
  <2>2. CASE ~(lock = 0 /\ page[p].holds # 0)
    <3> DEFINE to == IF lock = 0 THEN "enqueue" ELSE "fetch"
    <3>1. page'[p] = [page[p] EXCEPT !.dirty = FALSE, !.found = lock, !.pc = to]
        BY <1>a, <1>2, <2>2 DEF Watch
    <3> HIDE DEF to
    <3>2. /\ page'[p].pc = to /\ page'[p].found = lock /\ page'[p].holds = page[p].holds
          /\ page'[p].past = page[p].past
        BY <1>a, <3>1 DEF Page
    <3> QED
        BY <3>2 DEF to
  <2> QED
      BY <2>1, <2>2
<1>3. ASSUME Fetch(p)
      PROVE  \/ Relevant(page[p].found) /\ page'[p] = Polling(page[p].found)
             \/ /\ page'[p].pc = "unlock" /\ page'[p].holds = 0
                /\ page'[p].found = page[p].found /\ page'[p].past = page[p].past
                /\ page'[p].dirty = page[p].dirty
  <2>1. CASE Relevant(page[p].found)
      BY <1>a, <1>3, <2>1 DEF Fetch
  <2>2. CASE ~Relevant(page[p].found)
    <3>1. page'[p] = [page[p] EXCEPT !.pc = "unlock", !.holds = 0]
        BY <1>a, <1>3, <2>2 DEF Fetch
    <3> QED
        BY <1>a, <3>1 DEF Page
  <2> QED
      BY <2>1, <2>2
<1>4. ASSUME Unlock(p)
      PROVE  /\ page'[p].pc = "enqueue" /\ page'[p].found = 0
             /\ page'[p].holds = page[p].holds /\ page'[p].past = page[p].past
  <2> DEFINE x == Removed(page)[p]
  <2>1. x \in Page /\ x.holds = page[p].holds /\ x.past = page[p].past
      BY <1>a, TouchMarks
  <2>2. page'[p] = [x EXCEPT !.pc = "enqueue", !.found = 0]
      BY <1>a, <1>4, TouchMarks DEF Unlock
  <2> HIDE DEF x
  <2> QED
      BY <2>1, <2>2 DEF Page
<1>5. ASSUME Enqueue(p)
      PROVE  /\ page'[p].pc = "exec" /\ page'[p].holds = enqueued + 1
             /\ page'[p].found = page[p].found /\ page'[p].past = page[p].past
             /\ page'[p].dirty = page[p].dirty
  <2> DEFINE k == enqueued + 1
  <2> HIDE DEF k
  <2>1. page'[p] = [page[p] EXCEPT !.pc = "exec", !.holds = k]
      BY <1>a, <1>5 DEF Enqueue, k
  <2>2. /\ page'[p].pc = "exec" /\ page'[p].holds = k
        /\ page'[p].found = page[p].found /\ page'[p].past = page[p].past
        /\ page'[p].dirty = page[p].dirty
      BY <1>a, <2>1 DEF Page
  <2> QED
      BY <2>2 DEF k
<1>6. RequestFails(p) \/ Answered(p) => page'[p] = Idle
    BY <1>a DEF RequestFails, Answered
<1>7. ASSUME Exec(p)
      PROVE  \/ /\ page[p].dirty /\ page'[p].pc = "watch"
                /\ page'[p].holds = page[p].holds /\ page'[p].past = page[p].past
             \/ page'[p] = Polling(page[p].holds)
  <2>1. CASE page[p].dirty /\ page[p].tries < MaxTries
    <3> DEFINE k == page[p].tries + 1
    <3> HIDE DEF k
    <3>1. page'[p] = [page[p] EXCEPT !.pc = "watch", !.tries = k]
        BY <1>a, <1>7, <2>1 DEF Exec, k
    <3> QED
        BY <1>a, <2>1, <3>1 DEF Page
  <2>2. CASE page[p].dirty /\ ~(page[p].tries < MaxTries)
      BY <1>a, <1>7, <2>2 DEF Exec
  <2>3. CASE ~page[p].dirty
      BY <1>a, <1>7, <2>3, TouchMarks DEF Exec
  <2> QED
      BY <2>1, <2>2, <2>3
<1> QED
    BY <1>1, <1>2, <1>3, <1>4, <1>5, <1>6, <1>7

-----------------------------------------------------------------------------
(* A refresh is fresh.                                                       *)

\* What was over when a page clicked is over still, and the job it has enqueued
\* meanwhile is not among it.
PastIsOver ==
    \A p \in Pages :
        /\ \A j \in page[p].past : j \in 1 .. enqueued /\ Over(j)
        /\ page[p].pc # "polling" => page[p].holds \notin page[p].past
        /\ page[p].pc = "idle" => page[p].holds = 0

\* A job that is over stays over.
LEMMA OverForGood ==
    ASSUME TypeOK, [Next]_vars
    PROVE  /\ enqueued \in Nat /\ enqueued' \in Nat /\ enqueued =< enqueued'
           /\ \A j \in 1 .. enqueued : Over(j) => Over(j)'
<1>a. /\ enqueued \in 0 .. MaxJobs /\ MaxJobs \in Nat
      /\ job \in [Jobs -> Job]
      /\ \A j \in Jobs : job[j].pc = "none" <=> j > enqueued
    BY BoundsAssumption DEF TypeOK
<1>1. enqueued' = enqueued \/ \E p \in Pages : Enqueue(p)
    BY DEF Next, Request, Run, Watch, Fetch, Unlock, Exec, RequestFails, Answered, Work,
           Start, Release, Finish, Kill, Cancel, Sweep, SweepReads, SweepLists,
           SweepRemoves, vars
<1>2. enqueued \in Nat /\ enqueued' \in Nat /\ enqueued =< enqueued'
  <2>1. enqueued \in Nat
      BY <1>a
  <2>2. enqueued' \in {enqueued, enqueued + 1}
      BY <1>1 DEF Enqueue
  <2> QED
      BY <2>1, <2>2
<1>3. ASSUME NEW j \in 1 .. enqueued, Over(j) PROVE Over(j)'
  <2>a. /\ j \in Jobs /\ job[j] \in Job
        /\ job[j].pc \in {"started", "released", "ended"}
    <3>1. j \in Jobs
        BY <1>a DEF Jobs
    <3>2. job[j] \in Job /\ ~(j > enqueued)
        BY <1>a, <3>1
    <3>3. job[j].pc # "none"
        BY <1>a, <3>1, <3>2
    <3> QED
        BY <1>3, <3>1, <3>2, <3>3 DEF Over, InQueue, InRegistry, Job
  <2>b. job[j].pc \in {"started", "released"} => job[j].cancelled
      BY <1>3 DEF Over, InQueue, InRegistry
  <2>1. CASE job'[j] = job[j]
      BY <1>3, <2>1 DEF Over, InQueue, InRegistry
  <2>2. CASE \E p \in Pages : Enqueue(p)
    <3>1. job'[j] = job[j]
        BY <1>a, <1>3, <2>2 DEF Enqueue
    <3> QED
        BY <2>1, <3>1
  <2>3. ASSUME NEW k \in Jobs, Work(k) \/ Kill(k) \/ Cancel(k) PROVE Over(j)'
    <3>1. CASE k # j
      <4>1. \E x : job' = [job EXCEPT ![k] = x]
        <5>1. CASE Start(k) \/ Release(k)
            BY <5>1 DEF Start, Release, Moves
        <5>2. CASE Finish(k)
            BY <5>2 DEF Finish
        <5>3. CASE Kill(k)
            BY <5>3 DEF Kill
        <5>4. CASE Cancel(k)
            BY <5>4 DEF Cancel
        <5> QED
            BY <2>3, <5>1, <5>2, <5>3, <5>4 DEF Work
      <4>2. job'[j] = job[j]
          BY <1>a, <2>a, <3>1, <4>1
      <4> QED
          BY <2>1, <4>2
    <3>2. CASE k = j
      <4> DEFINE o == job[j]
      <4>1. \A pc \in {"released", "ended"} :
              /\ [o EXCEPT !.pc = pc].pc = pc
              /\ [o EXCEPT !.pc = pc].cancelled = o.cancelled
              /\ [o EXCEPT !.pc = pc, !.cancelled = FALSE].pc = pc
          BY <2>a DEF Job
      <4>2. ~Start(j) /\ ~Cancel(j)
          BY <2>a, <1>3 DEF Start, Moves, Cancel, Relevant, Over, InQueue, InRegistry
      <4>3. CASE Release(j)
        <5>1. job'[j] = [o EXCEPT !.pc = "released"] /\ o.pc = "started"
            BY <1>a, <2>a, <4>3 DEF Release, Moves
        <5> QED
            BY <2>b, <4>1, <5>1 DEF Over, InQueue, InRegistry
      <4>4. CASE Finish(j) \/ Kill(j)
        <5>1. job'[j].pc = "ended"
            BY <1>a, <2>a, <4>1, <4>4 DEF Finish, Kill
        <5> QED
            BY <5>1 DEF Over, InQueue, InRegistry
      <4> QED
          BY <2>3, <3>2, <4>2, <4>3, <4>4 DEF Work
    <3> QED
        BY <3>1, <3>2
  <2>4. \/ job' = job
        \/ \E p \in Pages : Enqueue(p)
        \/ \E k \in Jobs : Work(k) \/ Kill(k) \/ Cancel(k)
      BY DEF Next, Request, Run, Watch, Fetch, Unlock, Exec, RequestFails, Answered,
             Sweep, SweepReads, SweepLists, SweepRemoves, vars
  <2> QED
      BY <2>1, <2>2, <2>3, <2>4
<1> QED
    BY <1>2, <1>3

\* A step of a page keeps what it knows of the past, and answers it with a job
\* that is not part of it.
LEMMA PastOfOne ==
    ASSUME TypeOK, PastIsOver, NEW p \in Pages, Run(p) \/ Request(p)
    PROVE  /\ \A j \in page'[p].past : j \in 1 .. enqueued /\ Over(j)
           /\ page'[p].pc # "polling" => page'[p].holds \notin page'[p].past
           /\ page'[p].pc = "idle" => page'[p].holds = 0
           /\ page[p].pc # "polling" /\ page'[p].pc = "polling" =>
                  page'[p].holds \notin page[p].past
<1>a. /\ \A j \in page[p].past : j \in 1 .. enqueued /\ Over(j)
      /\ page[p].pc # "polling" => page[p].holds \notin page[p].past
      /\ page[p].pc = "idle" => page[p].holds = 0
    BY DEF PastIsOver
<1>b. page[p].holds \in 0 .. MaxJobs /\ page[p].found \in 0 .. MaxJobs /\ enqueued \in Nat
    BY BoundsAssumption DEF TypeOK, Page
<1>c. 0 \notin page[p].past /\ enqueued + 1 \notin page[p].past
    BY <1>a, <1>b
<1>1. CASE Run(p)
  <2>1. /\ page'[p].pc = "watch" /\ page'[p].holds = 0 /\ page[p].pc = "idle"
        /\ page'[p].past = {j \in 1 .. enqueued : Over(j)}
      BY <1>a, <1>1, OwnSteps DEF Run
  <2>2. 0 \notin 1 .. enqueued
      BY <1>b
  <2> QED
      BY <2>1, <2>2
<1>2. CASE Watch(p)
  <2>1. page[p].pc = "watch"
      BY <1>2 DEF Watch
  <2>2. CASE page'[p] = Polling(page[p].holds)
    <3>1. /\ page'[p].pc = "polling" /\ page'[p].past = {}
          /\ page'[p].holds = page[p].holds
        BY <1>b, <2>2, PollingPage
    <3> QED
        BY <1>a, <2>1, <3>1
  <2>3. CASE page'[p] # Polling(page[p].holds)
    <3>1. /\ page'[p].pc \notin {"polling", "idle"} /\ page'[p].past = page[p].past
          /\ page'[p].holds = page[p].holds
        BY <1>2, <2>3, OwnSteps
    <3> QED
        BY <1>a, <2>1, <3>1
  <2> QED
      BY <2>2, <2>3
<1>3. CASE Fetch(p)
  <2>1. Relevant(page[p].found) => page[p].found \notin page[p].past
      BY <1>a DEF Relevant, Over
  <2> QED
      BY <1>a, <1>b, <1>c, <1>3, <2>1, OwnSteps, PollingPage DEF Fetch
<1>4. CASE Unlock(p)
    BY <1>a, <1>4, OwnSteps DEF Unlock
<1>5. CASE Enqueue(p)
    BY <1>a, <1>c, <1>5, OwnSteps DEF Enqueue
<1>6. CASE RequestFails(p) \/ Answered(p)
    BY <1>6, OwnSteps, IdlePage
<1>7. CASE Exec(p)
    BY <1>a, <1>b, <1>7, OwnSteps, PollingPage DEF Exec
<1> QED
    BY <1>1, <1>2, <1>3, <1>4, <1>5, <1>6, <1>7 DEF Request

\* No step brings the past back.
LEMMA PastStep ==
    ASSUME TypeOK, PastIsOver, [Next]_vars
    PROVE  /\ PastIsOver'
           /\ \A q \in Pages : page[q].pc # "polling" /\ page'[q].pc = "polling" =>
                  page'[q].holds \notin page[q].past
<1>1. ASSUME NEW q \in Pages
      PROVE  /\ \A j \in page'[q].past : j \in 1 .. enqueued /\ Over(j)
             /\ page'[q].pc # "polling" => page'[q].holds \notin page'[q].past
             /\ page'[q].pc = "idle" => page'[q].holds = 0
             /\ page[q].pc # "polling" /\ page'[q].pc = "polling" =>
                    page'[q].holds \notin page[q].past
  <2>1. CASE Kept(q)
      BY <2>1 DEF Kept, PastIsOver
  <2>2. CASE \E p \in Pages : Run(p) \/ Request(p)
      BY <2>1, <2>2, OthersAreKept, PastOfOne
  <2>3. CASE ~\E p \in Pages : Run(p) \/ Request(p)
      BY <2>1, <2>3, PagesAreKept DEF Next
  <2> QED
      BY <2>2, <2>3
<1>2. \A j \in 1 .. enqueued : Over(j) => j \in 1 .. enqueued' /\ Over(j)'
    BY OverForGood
<1>3. PastIsOver'
    BY <1>1, <1>2 DEF PastIsOver
<1> QED
    BY <1>1, <1>3

\* At first there is no past.
LEMMA PastInit == Init => PastIsOver
BY IdlePage DEF Init, PastIsOver

\* A Refresh is never answered with a job that was over when it was clicked,
\* whatever the locks name, for any number of pages and jobs.
THEOREM EveryRefreshIsFresh == Spec => RefreshIsFresh
<1>1. TypeOK /\ PastIsOver /\ [Next]_vars => PastIsOver'
    BY PastStep
<1>2. TypeOK /\ PastIsOver /\ [Next]_vars =>
        [\A p \in Pages :
            page[p].pc # "polling" /\ page'[p].pc = "polling" =>
                page'[p].holds \notin page[p].past]_vars
    BY PastStep
<1> QED
    BY <1>1, <1>2, PastInit, TypeAlways, PTL DEF Spec, RefreshIsFresh

-----------------------------------------------------------------------------
(* Readers share.                                                            *)

\* A page whose key was not touched since it read it knows the lock.
CleanReads ==
    \A p \in Pages :
        /\ page[p].pc \in Watching /\ ~page[p].dirty => lock = page[p].found
        /\ page[p].pc \in {"enqueue", "exec"} => page[p].found = 0

\* The job runs or will, and nobody has cancelled it.
AtWork(jobs, j) == jobs[j].pc \in {"queued", "started"} /\ ~jobs[j].cancelled

\* Unless something has gone wrong, a page tries once, and a job that is at work
\* and that some page was or is about to be answered with has the lock.
LockedJobs ==
    ~contended =>
        \A p \in Pages :
            /\ page[p].pc = "watch" => page[p].holds = 0
            /\ page[p].pc = "polling" /\ AtWork(job, page[p].holds) => lock = page[p].holds
            /\ page[p].pc = "fetch" /\ AtWork(job, page[p].found) => lock = page[p].found

\* A job that is at work once it is known was at work before.
LEMMA WorkedBefore ==
    ASSUME TypeOK, [Next]_vars, NEW j \in 1 .. enqueued, AtWork(job', j)
    PROVE  AtWork(job, j) /\ ~Over(j)
<1>a. /\ enqueued \in 0 .. MaxJobs /\ MaxJobs \in Nat
      /\ job \in [Jobs -> Job] /\ j \in Jobs
    BY BoundsAssumption DEF TypeOK, Jobs
<1>1. AtWork(job, j)
  <2>1. CASE job'[j] = job[j]
      BY <2>1 DEF AtWork
  <2>2. CASE job'[j] # job[j]
    <3>1. \/ job' = job
          \/ \E p \in Pages : Enqueue(p)
          \/ \E k \in Jobs : Work(k) \/ Kill(k) \/ Cancel(k)
        BY DEF Next, Request, Run, Watch, Fetch, Unlock, Exec, RequestFails, Answered,
               Sweep, SweepReads, SweepLists, SweepRemoves, vars
    <3>2. ASSUME NEW p \in Pages, Enqueue(p) PROVE FALSE
      <4>1. \E x : job' = [job EXCEPT ![enqueued + 1] = x]
          BY <3>2 DEF Enqueue
      <4>2. enqueued + 1 # j
          BY <1>a
      <4> QED
          BY <1>a, <2>2, <4>1, <4>2
    <3>3. PICK k \in Jobs : Work(k) \/ Kill(k) \/ Cancel(k)
        BY <2>2, <3>1, <3>2
    <3>4. \E x : job' = [job EXCEPT ![k] = x]
      <4>1. CASE Start(k) \/ Release(k)
          BY <4>1 DEF Start, Release, Moves
      <4>2. CASE Finish(k)
          BY <4>2 DEF Finish
      <4>3. CASE Kill(k)
          BY <4>3 DEF Kill
      <4>4. CASE Cancel(k)
          BY <4>4 DEF Cancel
      <4> QED
          BY <3>3, <4>1, <4>2, <4>3, <4>4 DEF Work
    <3>5. k = j
        BY <1>a, <2>2, <3>4
    <3> DEFINE o == job[j]
    <3>6. /\ o \in Job
          /\ \A pc \in {"started", "released", "ended"} :
               /\ [o EXCEPT !.pc = pc].pc = pc
               /\ [o EXCEPT !.pc = pc].cancelled = o.cancelled
               /\ [o EXCEPT !.pc = pc, !.cancelled = FALSE].pc = pc
          /\ [o EXCEPT !.cancelled = TRUE].cancelled
      <4>1. o \in Job
          BY <1>a
      <4> QED
          BY <4>1 DEF Job
    <3>7. CASE Start(j)
      <4>1. job'[j] = [o EXCEPT !.pc = "started"] /\ o.pc = "queued"
          BY <1>a, <3>7 DEF Start, Moves
      <4> QED
          BY <3>6, <4>1 DEF AtWork
    <3>8. CASE Release(j)
      <4>1. job'[j] = [o EXCEPT !.pc = "released"]
          BY <1>a, <3>8 DEF Release, Moves
      <4> QED
          BY <3>6, <4>1 DEF AtWork
    <3>9. CASE Finish(j)
      <4>1. job'[j] = [o EXCEPT !.pc = "ended", !.cancelled = FALSE]
          BY <1>a, <3>9 DEF Finish
      <4> QED
          BY <3>6, <4>1 DEF AtWork
    <3>10. CASE Kill(j)
      <4>1. job'[j] = [o EXCEPT !.pc = "ended", !.cancelled = FALSE]
          BY <1>a, <3>10 DEF Kill
      <4> QED
          BY <3>6, <4>1 DEF AtWork
    <3>11. CASE Cancel(j)
      <4>1. job'[j] \in {[o EXCEPT !.pc = "ended"], [o EXCEPT !.cancelled = TRUE]}
          BY <1>a, <3>11 DEF Cancel
      <4> QED
          BY <3>6, <4>1 DEF AtWork
    <3> QED
        BY <3>3, <3>5, <3>7, <3>8, <3>9, <3>10, <3>11 DEF Work
  <2> QED
      BY <2>1, <2>2
<1>2. ~Over(j)
    BY <1>1 DEF AtWork, Over, InQueue, InRegistry
<1> QED
    BY <1>1, <1>2

\* A step after which nothing has gone wrong takes no lock from a job at work.
LEMMA LockStays ==
    ASSUME TypeOK, CleanReads, [Next]_vars, ~contended', NEW j \in 1 .. enqueued,
           lock = j, AtWork(job', j)
    PROVE  ~contended /\ lock' = j
<1>a. ~Over(j) /\ j \in Jobs /\ j # 0
  <2>1. enqueued \in 0 .. MaxJobs /\ MaxJobs \in Nat
      BY BoundsAssumption DEF TypeOK
  <2>2. j \in Jobs /\ j # 0
      BY <2>1 DEF Jobs
  <2> QED
      BY <2>2, WorkedBefore
<1>b. job \in [Jobs -> Job] /\ contended \in BOOLEAN
    BY DEF TypeOK
<1>1. ~contended
    BY <1>b DEF Next, Request, Run, Watch, Fetch, Unlock, Enqueue, Exec, RequestFails,
           Answered, Work, Start, Release, Finish, Kill, Cancel, Deletes, Sweep,
           SweepReads, SweepLists, SweepRemoves, vars
<1>2. ASSUME Deletes(0) PROVE FALSE
    BY <1>2, <1>a DEF Deletes
<1>3. ASSUME NEW p \in Pages, Exec(p) PROVE lock' = j
  <2>1. ~(page[p].pc = "exec" /\ ~page[p].dirty)
      BY <1>a DEF CleanReads, Watching
  <2> QED
      BY <1>3, <2>1 DEF Exec
<1>4. ASSUME NEW k \in Jobs, Release(k) PROVE FALSE
  <2>1. CASE k = j
    <3>1. job'[j].pc = "released"
        BY <1>4, <1>b, <2>1 DEF Release, Moves, Job
    <3> QED
        BY <3>1 DEF AtWork
  <2>2. CASE k # j
      BY <1>4, <1>a, <2>2 DEF Release, Deletes
  <2> QED
      BY <2>1, <2>2
<1>5. \/ lock' = lock \/ Deletes(0)
      \/ \E p \in Pages : Exec(p)
      \/ \E k \in Jobs : Release(k)
    BY DEF Next, Request, Run, Watch, Fetch, Unlock, Enqueue, RequestFails, Answered,
           Work, Start, Finish, Kill, Cancel, Sweep, SweepReads, SweepLists,
           SweepRemoves, vars
<1> QED
    BY <1>1, <1>2, <1>3, <1>4, <1>5

\* A step keeps what a page knows of the key it watches.
LEMMA CleanStep == TypeOK /\ CleanReads /\ [Next]_vars => CleanReads'
<1> SUFFICES ASSUME TypeOK, CleanReads, [Next]_vars, NEW q \in Pages
             PROVE  /\ page'[q].pc \in Watching /\ ~page'[q].dirty => lock' = page'[q].found
                    /\ page'[q].pc \in {"enqueue", "exec"} => page'[q].found = 0
    BY DEF CleanReads
<1>a. /\ page[q].pc \in Watching /\ ~page[q].dirty => lock = page[q].found
      /\ page[q].pc \in {"enqueue", "exec"} => page[q].found = 0
    BY DEF CleanReads
<1>b. /\ page \in [Pages -> Page] /\ page[q] \in Page
      /\ page[q].found \in 0 .. MaxJobs /\ page[q].holds \in 0 .. MaxJobs
    BY DEF TypeOK, Page
<1>0. CASE Kept(q)
    BY <1>a, <1>0 DEF Kept
<1>1. CASE Run(q)
    BY <1>1, OwnSteps DEF Watching
<1>2. CASE Watch(q)
  <2>1. CASE page'[q] = Polling(page[q].holds)
      BY <1>b, <2>1, PollingPage DEF Watching
  <2>2. CASE page'[q] # Polling(page[q].holds)
    <3>1. /\ page'[q].pc = IF lock = 0 THEN "enqueue" ELSE "fetch"
          /\ page'[q].found = lock /\ lock' = lock
        BY <1>2, <2>2, OwnSteps DEF Watch
    <3> QED
        BY <3>1
  <2> QED
      BY <2>1, <2>2
<1>3. CASE Fetch(q)
  <2>1. page[q].pc = "fetch" /\ lock' = lock
      BY <1>3 DEF Fetch
  <2>2. CASE page'[q] = Polling(page[q].found)
      BY <1>b, <2>2, PollingPage DEF Watching
  <2>3. CASE page'[q] # Polling(page[q].found)
      BY <1>a, <1>3, <2>1, <2>3, OwnSteps DEF Watching
  <2> QED
      BY <2>2, <2>3
<1>4. CASE Unlock(q)
    BY <1>4, OwnSteps DEF Unlock, Deletes
<1>5. CASE Enqueue(q)
    BY <1>a, <1>5, OwnSteps DEF Enqueue, Watching
<1>6. CASE RequestFails(q) \/ Answered(q)
    BY <1>6, OwnSteps, IdlePage DEF Watching
<1>7. CASE Exec(q)
    BY <1>b, <1>7, OwnSteps, PollingPage DEF Watching
<1>8. CASE ~(Run(q) \/ Request(q))
    BY <1>0, <1>8, OthersAreKept, PagesAreKept DEF Next
<1> QED
    BY <1>1, <1>2, <1>3, <1>4, <1>5, <1>6, <1>7, <1>8 DEF Request

\* A step keeps the locks of the jobs that pages wait for.
LEMMA LockedStep ==
    TypeOK /\ PastIsOver /\ CleanReads /\ LockedJobs /\ [Next]_vars => LockedJobs'
<1> SUFFICES ASSUME TypeOK, PastIsOver, CleanReads, LockedJobs, [Next]_vars, ~contended',
                    NEW q \in Pages
             PROVE  /\ page'[q].pc = "watch" => page'[q].holds = 0
                    /\ page'[q].pc = "polling" /\ AtWork(job', page'[q].holds) =>
                           lock' = page'[q].holds
                    /\ page'[q].pc = "fetch" /\ AtWork(job', page'[q].found) =>
                           lock' = page'[q].found
    BY DEF LockedJobs
<1>a. ~contended
    BY DEF TypeOK, Next, Request, Run, Watch, Fetch, Unlock, Enqueue, Exec, RequestFails,
           Answered, Work, Start, Release, Finish, Kill, Cancel, Deletes, Sweep,
           SweepReads, SweepLists, SweepRemoves, vars
<1>b. /\ page[q].pc = "watch" => page[q].holds = 0
      /\ page[q].pc = "polling" /\ AtWork(job, page[q].holds) => lock = page[q].holds
      /\ page[q].pc = "fetch" /\ AtWork(job, page[q].found) => lock = page[q].found
    BY <1>a DEF LockedJobs
<1>c. /\ page[q] \in Page /\ lock \in 0 .. enqueued /\ enqueued \in 0 .. MaxJobs
      /\ page[q].found \in 0 .. enqueued /\ page[q].holds \in 0 .. enqueued
      /\ page[q].found \in 0 .. MaxJobs /\ page[q].holds \in 0 .. MaxJobs
      /\ page[q].pc = "fetch" => page[q].found # 0
      /\ page[q].pc = "polling" => page[q].holds # 0
  <2>1. page[q].found \in 0 .. MaxJobs /\ page[q].holds \in 0 .. MaxJobs
      BY DEF TypeOK, Page
  <2> QED
      BY <2>1, BoundsAssumption DEF TypeOK
<1>d. \A j \in 1 .. enqueued : AtWork(job', j) => AtWork(job, j) /\ (lock = j => lock' = j)
    BY WorkedBefore, LockStays
<1>e. ASSUME NEW j, j \in 0 .. enqueued, j # 0 PROVE j \in 1 .. enqueued
    BY <1>c, <1>e, BoundsAssumption
<1>0. CASE Kept(q)
    BY <1>b, <1>c, <1>d, <1>e, <1>0 DEF Kept
<1>1. CASE Run(q)
    BY <1>1, OwnSteps DEF Run, PastIsOver
<1>2. CASE Watch(q)
  <2>1. page[q].holds = 0 /\ lock' = lock
      BY <1>b, <1>2 DEF Watch
  <2>2. /\ page'[q].pc = IF lock = 0 THEN "enqueue" ELSE "fetch"
        /\ page'[q].found = lock
      BY <1>2, <2>1, OwnSteps
  <2> QED
      BY <2>1, <2>2
<1>3. CASE Fetch(q)
  <2>1. page[q].pc = "fetch" /\ lock' = lock
      BY <1>3 DEF Fetch
  <2>2. CASE page'[q] = Polling(page[q].found)
    <3>1. page'[q].pc = "polling" /\ page'[q].holds = page[q].found
        BY <1>c, <2>2, PollingPage
    <3> QED
        BY <1>b, <1>c, <1>d, <1>e, <2>1, <3>1
  <2>3. CASE page'[q] # Polling(page[q].found)
      BY <1>3, <2>3, OwnSteps
  <2> QED
      BY <2>2, <2>3
<1>4. CASE Unlock(q) \/ Enqueue(q)
    BY <1>4, OwnSteps
<1>5. CASE RequestFails(q) \/ Answered(q)
    BY <1>5, OwnSteps, IdlePage
<1>6. CASE Exec(q)
  <2>1. ~page[q].dirty
      BY <1>6 DEF Exec
  <2>2. page'[q] = Polling(page[q].holds) /\ lock' = page[q].holds
      BY <1>6, <2>1, OwnSteps DEF Exec
  <2>3. page'[q].pc = "polling" /\ page'[q].holds = page[q].holds
      BY <1>c, <2>2, PollingPage
  <2> QED
      BY <2>2, <2>3
<1>7. CASE ~(Run(q) \/ Request(q))
    BY <1>0, <1>7, OthersAreKept, PagesAreKept DEF Next
<1> QED
    BY <1>1, <1>2, <1>3, <1>4, <1>5, <1>6, <1>7 DEF Request

\* At first nobody waits.
LEMMA SharingInit == Init => CleanReads /\ LockedJobs
BY IdlePage DEF Init, CleanReads, LockedJobs, Watching

\* Pages that wait for a job at work wait for the same one, unless a transaction
\* was refused or the lock of a job at work was removed by somebody else, for any
\* number of pages, jobs and tries.
THEOREM ReadersShare == Spec => []SharesUnlessContended
<1>1. LockedJobs => SharesUnlessContended
    BY DEF LockedJobs, SharesUnlessContended, AtWork
<1>2. TypeOK /\ PastIsOver /\ [Next]_vars => PastIsOver'
    BY PastStep
<1> QED
    BY <1>1, <1>2, PastInit, TypeAlways, CleanStep, LockedStep, SharingInit, PTL DEF Spec

-----------------------------------------------------------------------------
(* What a page is promised: RunPromise.                                      *)

Has == [p \in Pages |-> page[p].holds]
SeenVars == <<enqueued, Working, Asking, Has>>

\* A page that has not clicked has no job, nor has one about to enqueue one.
EmptyHands == \A p \in Pages : page[p].pc \in {"idle", "unlock", "enqueue"} =>
                                   page[p].holds = 0

\* The job in hand is let go before another is enqueued.
LEMMA HandsStep == TypeOK /\ EmptyHands /\ [Next]_vars => EmptyHands'
<1> SUFFICES ASSUME TypeOK, EmptyHands, [Next]_vars, NEW q \in Pages
             PROVE  page'[q].pc \in {"idle", "unlock", "enqueue"} => page'[q].holds = 0
    BY DEF EmptyHands
<1>a. /\ page[q].pc \in {"idle", "unlock", "enqueue"} => page[q].holds = 0
      /\ page[q].holds \in 0 .. MaxJobs /\ page[q].found \in 0 .. MaxJobs
    BY DEF EmptyHands, TypeOK, Page
<1>1. CASE Kept(q)
    BY <1>1, <1>a DEF Kept
<1>2. CASE Run(q) \/ Request(q)
  <2>1. CASE Run(q) \/ Fetch(q) \/ Enqueue(q)
      BY <1>a, <2>1, OwnSteps, PollingPage
  <2>2. CASE Watch(q)
    <3>1. \/ page'[q] = Polling(page[q].holds)
          \/ /\ page'[q].pc = IF lock = 0 THEN "enqueue" ELSE "fetch"
             /\ page'[q].holds = page[q].holds
        BY <2>2, OwnSteps
    <3>2. CASE page'[q] = Polling(page[q].holds)
        BY <3>2, <1>a, PollingPage
    <3>3. CASE lock # 0 \/ page[q].holds = 0
        BY <3>1, <3>2, <3>3
    <3>4. CASE lock = 0 /\ page[q].holds # 0
      <4>1. page'[q] = Polling(page[q].holds)
          BY <2>2, <3>4 DEF TypeOK, Watch
      <4> QED
          BY <3>2, <4>1
    <3> QED
        BY <3>3, <3>4
  <2>3. CASE RequestFails(q) \/ Answered(q) \/ Exec(q)
      BY <1>a, <2>3, OwnSteps, PollingPage, IdlePage
  <2>4. CASE Unlock(q)
    <3>1. page[q].pc = "unlock"
        BY <2>4 DEF Unlock
    <3>2. page'[q].holds = page[q].holds
        BY <2>4, OwnSteps
    <3> QED
        BY <1>a, <3>1, <3>2
  <2> QED
      BY <1>2, <2>1, <2>2, <2>3, <2>4 DEF Request
<1>3. CASE \E p \in Pages \ {q} : Run(p) \/ Request(p)
    BY <1>1, <1>3, OthersAreKept
<1>4. CASE ~\E p \in Pages : Run(p) \/ Request(p)
    BY <1>1, <1>4, PagesAreKept DEF Next
<1> QED
    BY <1>2, <1>3, <1>4

\* What is seen of a page that takes a step, and of the others.
LEMMA PageIsSeen ==
    ASSUME TypeOK, NEW p \in Pages, Run(p) \/ Request(p)
    PROVE  /\ Asking' = IF page'[p].pc # "idle" /\ page'[p].pc # "polling"
                        THEN Asking \cup {p} ELSE Asking \ {p}
           /\ Has' = [Has EXCEPT ![p] = page'[p].holds]
<1>1. \A q \in Pages \ {p} : page'[q].pc = page[q].pc /\ page'[q].holds = page[q].holds
    BY OthersAreKept DEF Kept
<1> QED
    BY <1>1 DEF Asking, Has

\* What is seen of pages that others leave as they were.
LEMMA PagesAreSeen ==
    ASSUME \A q \in Pages : Kept(q)
    PROVE  Asking' = Asking /\ Has' = Has
BY DEF Kept, Asking, Has

\* What works is enqueued, and ends for good.
LEMMA WorkEnds ==
    ASSUME TypeOK, TypeOK', [Next]_vars, enqueued' = enqueued
    PROVE  Working' \subseteq Working
<1> SUFFICES ASSUME NEW j \in Working' PROVE j \in Working
    OBVIOUS
<1>1. j \in Jobs /\ job'[j].pc # "none" /\ ~Over(j)'
    BY DEF Working, Over, InQueue, InRegistry
<1>2. j \in 1 .. enqueued
    BY <1>1, BoundsAssumption DEF TypeOK, Jobs
<1>3. ~Over(j)
    BY <1>1, <1>2, OverForGood
<1> QED
    BY <1>1, <1>3 DEF Working, Over

\* A step of the promise that is none: nothing of what is seen has changed.
LEMMA NothingSeen ==
    ASSUME enqueued' = enqueued, job' = job, Asking' = Asking, Has' = Has
    PROVE  [Promise!Next]_SeenVars
BY DEF SeenVars, Working, InQueue, InRegistry

\* A page is given a job: one that works, its own, or none with an error.
LEMMA Given ==
    ASSUME NEW p \in Asking, NEW j \in Working \cup {Has[p], 0},
           enqueued' = enqueued, job' = job,
           Asking' = Asking \ {p}, Has' = [Has EXCEPT ![p] = j]
    PROVE  [Promise!Next]_SeenVars
<1>1. Working' = Working
    BY DEF Working, InQueue, InRegistry
<1>2. Promise!Give(p)
    BY <1>1 DEF Promise!Give, Has
<1> QED
    BY <1>2 DEF Promise!Next

\* The job a page enqueues works.
LEMMA EnqueuedWorks ==
    ASSUME TypeOK, enqueued < MaxJobs, enqueued' = enqueued + 1,
           job' = [job EXCEPT ![enqueued + 1].pc = "queued"]
    PROVE  Working' = Working \cup {enqueued'}
<1>1. enqueued + 1 \in Jobs /\ job \in [Jobs -> Job]
    BY BoundsAssumption DEF TypeOK, Jobs
<1>2. /\ job'[enqueued + 1].pc = "queued"
      /\ \A j \in Jobs \ {enqueued + 1} : job'[j] = job[j]
    BY <1>1 DEF Job
<1> QED
    BY <1>1, <1>2 DEF Working, InQueue, InRegistry

\* The job the key names is joined, or the page is left with none.
LEMMA FetchedIs ==
    ASSUME TypeOK, NEW p \in Pages, Fetch(p)
    PROVE  \/ Relevant(page[p].found) /\ page'[p] = Polling(page[p].found)
           \/ /\ ~Relevant(page[p].found)
              /\ page'[p].pc = "unlock" /\ page'[p].holds = 0
<1>1. CASE Relevant(page[p].found)
    BY <1>1 DEF Fetch, TypeOK
<1>2. CASE ~Relevant(page[p].found)
  <2>1. \/ Relevant(page[p].found)
        \/ page'[p].pc = "unlock" /\ page'[p].holds = 0
      BY OwnSteps
  <2> QED
      BY <1>2, <2>1
<1> QED
    BY <1>1, <1>2

\* A step of a page that asks or has asked is a step of the promise or none.
LEMMA PageKeepsPromise ==
    ASSUME TypeOK, EmptyHands, NEW p \in Pages, Run(p) \/ Request(p)
    PROVE  [Promise!Next]_SeenVars
<1>a. /\ Asking' = IF page'[p].pc # "idle" /\ page'[p].pc # "polling"
                   THEN Asking \cup {p} ELSE Asking \ {p}
      /\ Has' = [Has EXCEPT ![p] = page'[p].holds]
    BY PageIsSeen
<1>b. /\ Has \in [Pages -> Nat] /\ Has[p] = page[p].holds
      /\ page[p].holds \in 0 .. MaxJobs /\ page[p].found \in 0 .. MaxJobs
      /\ page[p].pc \in {"idle", "unlock", "enqueue"} => Has[p] = 0
      /\ page[p].pc \notin {"idle", "polling"} <=> p \in Asking
    BY BoundsAssumption DEF TypeOK, Page, Has, Asking, EmptyHands
<1>c. page'[p].holds = page[p].holds => Has' = Has
    BY <1>a, <1>b
<1>d. ASSUME page[p].pc \notin {"idle", "polling"}, NEW j \in Working \cup {Has[p], 0},
             j \in 0 .. MaxJobs, page'[p] = Polling(j), enqueued' = enqueued, job' = job
      PROVE  [Promise!Next]_SeenVars
  <2>1. page'[p].pc = "polling" /\ page'[p].holds = j
      BY <1>d, PollingPage
  <2> QED
      BY <1>a, <1>b, <1>d, <2>1, Given
<1>e. ASSUME page[p].pc \notin {"idle", "polling"},
             page'[p].pc \notin {"idle", "polling"}, page'[p].holds = page[p].holds,
             enqueued' = enqueued, job' = job
      PROVE  [Promise!Next]_SeenVars
    BY <1>a, <1>b, <1>c, <1>e, NothingSeen
<1>1. CASE Run(p)
  <2>1. page[p].pc = "idle" /\ enqueued' = enqueued /\ job' = job
      BY <1>1 DEF Run
  <2>2. page'[p].pc = "watch" /\ page'[p].holds = page[p].holds
      BY <1>1, OwnSteps
  <2>3. /\ Has' = Has /\ Has[p] = 0
        /\ Asking' = Asking \cup {p} /\ p \notin Asking
      BY <1>a, <1>b, <1>c, <2>1, <2>2
  <2>4. Working' = Working
      BY <2>1 DEF Working, InQueue, InRegistry
  <2>5. Promise!Ask(p)
      BY <2>1, <2>3, <2>4 DEF Promise!Ask, Has
  <2> QED
      BY <2>3, <2>5 DEF Promise!Next
<1>2. CASE Watch(p)
  <2>1. page[p].pc = "watch" /\ enqueued' = enqueued /\ job' = job
      BY <1>2 DEF Watch
  <2>2. \/ page'[p] = Polling(page[p].holds)
        \/ page'[p].pc \in {"enqueue", "fetch"} /\ page'[p].holds = page[p].holds
      BY <1>2, OwnSteps
  <2> QED
      BY <1>b, <1>d, <1>e, <2>1, <2>2
<1>3. CASE Fetch(p)
  <2>1. /\ page[p].pc = "fetch" /\ page[p].found # 0 /\ page[p].found =< enqueued
        /\ enqueued \in 0 .. MaxJobs /\ enqueued' = enqueued /\ job' = job
      BY <1>3 DEF Fetch, TypeOK
  <2>2. page[p].found \in Jobs /\ page[p].found \in 1 .. enqueued
      BY <1>b, <2>1, BoundsAssumption DEF Jobs
  <2>3. CASE Relevant(page[p].found) /\ page'[p] = Polling(page[p].found)
    <3>1. page[p].found \in Working
        BY <2>2, <2>3 DEF Relevant, Working
    <3> QED
        BY <1>b, <1>d, <2>1, <2>3, <3>1
  <2>4. CASE ~Relevant(page[p].found) /\ page'[p].pc = "unlock" /\ page'[p].holds = 0
    <3>1. page[p].found \notin Working
        BY <2>4 DEF Relevant, Working
    <3>2. 1 .. enqueued # Working
        BY <2>2, <3>1
    <3>3. Asking' = Asking /\ p \in Asking /\ Has' = [Has EXCEPT ![p] = 0]
        BY <1>a, <1>b, <2>1, <2>4
    <3>4. CASE Has[p] = 0
        BY <1>b, <1>e, <2>1, <2>4, <3>4
    <3>5. CASE Has[p] # 0
      <4>1. Working' = Working
          BY <2>1 DEF Working, InQueue, InRegistry
      <4>2. Promise!LetGo(p)
          BY <2>1, <3>2, <3>3, <3>5, <4>1 DEF Promise!LetGo, Has
      <4> QED
          BY <3>3, <4>2 DEF Promise!Next
    <3> QED
        BY <3>4, <3>5
  <2> QED
      BY <1>3, <2>3, <2>4, FetchedIs
<1>4. CASE Unlock(p)
  <2>1. page[p].pc = "unlock" /\ enqueued' = enqueued /\ job' = job
      BY <1>4 DEF Unlock
  <2>2. page'[p].pc = "enqueue" /\ page'[p].holds = page[p].holds
      BY <1>4, OwnSteps
  <2> QED
      BY <1>e, <2>1, <2>2
<1>5. CASE Enqueue(p)
  <2>1. /\ page[p].pc = "enqueue" /\ enqueued < MaxJobs /\ enqueued' = enqueued + 1
        /\ job' = [job EXCEPT ![enqueued + 1].pc = "queued"]
      BY <1>5 DEF Enqueue
  <2>2. page'[p].pc = "exec" /\ page'[p].holds = enqueued + 1
      BY <1>5, OwnSteps
  <2>3. Asking' = Asking /\ p \in Asking /\ Has[p] = 0
      BY <1>a, <1>b, <2>1, <2>2
  <2>4. Has' = [Has EXCEPT ![p] = enqueued']
      BY <1>a, <2>1, <2>2
  <2>5. Working' = Working \cup {enqueued'}
      BY <2>1, EnqueuedWorks
  <2>6. Promise!Start(p)
      BY <2>1, <2>3, <2>4, <2>5 DEF Promise!Start, Has
  <2> QED
      BY <2>3, <2>6 DEF Promise!Next
<1>6. CASE RequestFails(p)
  <2>1. /\ page[p].pc \notin {"idle", "polling"} /\ enqueued' = enqueued /\ job' = job
        /\ page'[p].pc = "idle" /\ page'[p].holds = 0
      BY <1>6, OwnSteps, IdlePage DEF RequestFails
  <2> QED
      BY <1>a, <1>b, <2>1, Given
<1>7. CASE Answered(p)
  <2>1. /\ page[p].pc = "polling" /\ enqueued' = enqueued /\ job' = job
        /\ page'[p].pc = "idle" /\ page'[p].holds = 0 /\ page[p].holds # 0
      BY <1>7, OwnSteps, IdlePage DEF Answered, TypeOK
  <2>2. Working' = Working
      BY <2>1 DEF Working, InQueue, InRegistry
  <2>3. /\ p \notin Asking /\ Asking' = Asking
        /\ Has[p] # 0 /\ Has' = [Has EXCEPT ![p] = 0]
      BY <1>a, <1>b, <2>1
  <2>4. Promise!Leave(p)
      BY <2>1, <2>2, <2>3 DEF Promise!Leave, Has
  <2> QED
      BY <2>3, <2>4 DEF Promise!Next
<1>8. CASE Exec(p)
  <2>1. page[p].pc = "exec" /\ enqueued' = enqueued /\ job' = job
      BY <1>8 DEF Exec
  <2>2. \/ page'[p] = Polling(page[p].holds)
        \/ page'[p].pc = "watch" /\ page'[p].holds = page[p].holds
      BY <1>8, OwnSteps
  <2> QED
      BY <1>b, <1>d, <1>e, <2>1, <2>2
<1> QED
    BY <1>1, <1>2, <1>3, <1>4, <1>5, <1>6, <1>7, <1>8 DEF Request

\* Jobs end, one at a time; nobody is told.
LEMMA JobsKeepPromise ==
    ASSUME TypeOK, TypeOK', [Next]_vars,
           ~\E p \in Pages : Run(p) \/ Request(p)
    PROVE  [Promise!Next]_SeenVars
<1>1. Asking' = Asking /\ Has' = Has
    BY PagesAreKept, PagesAreSeen DEF Next
<1>2. CASE \E k \in Jobs : Work(k) \/ Kill(k) \/ Cancel(k)
  <2>1. PICK k \in Jobs : Work(k) \/ Kill(k) \/ Cancel(k)
      BY <1>2
  <2>2. enqueued' = enqueued /\ \A j \in Jobs \ {k} : job'[j] = job[j]
      BY <2>1 DEF TypeOK, Work, Start, Moves, Release, Finish, Kill, Cancel
  <2>3. Working' \subseteq Working
      BY <2>2, WorkEnds
  <2>4. Working \ {k} \subseteq Working'
      BY <2>2 DEF Working, InQueue, InRegistry
  <2>5. CASE k \in Working'
      BY <1>1, <2>2, <2>3, <2>4, <2>5 DEF SeenVars
  <2>6. CASE k \in Working /\ k \notin Working'
    <3>1. Promise!End(k)
        BY <1>1, <2>2, <2>3, <2>4, <2>6 DEF Promise!End, Has
    <3> QED
        BY <2>6, <3>1 DEF Promise!Next
  <2>7. CASE k \notin Working
      BY <1>1, <2>2, <2>3, <2>4, <2>7 DEF SeenVars
  <2> QED
      BY <2>5, <2>6, <2>7
<1>3. CASE Sweep \/ UNCHANGED vars
    BY <1>1, <1>3, NothingSeen DEF Sweep, SweepReads, SweepLists, SweepRemoves, vars
<1> QED
    BY <1>2, <1>3 DEF Next

\* QueryRun implements RunPromise: whatever is killed, cancelled or swept and
\* whichever requests fail, a page is given a job that works at that moment or the
\* one it enqueued since its click.
THEOREM PromiseIsKept == Spec => PromiseKept
<1>1. Init => Promise!Init
  <2>1. Init => Working = {} /\ Asking = {}
      BY DEF Init, Working, Asking, InQueue, InRegistry, Idle
  <2>2. Init => [p \in Pages |-> page[p].holds] = [p \in Pages |-> 0]
      BY IdlePage DEF Init
  <2> QED
      BY <2>1, <2>2 DEF Init, Promise!Init
<1>2. Init => EmptyHands
    BY IdlePage DEF Init, EmptyHands
<1>3. TypeOK /\ EmptyHands /\ TypeOK' /\ [Next]_vars => [Promise!Next]_Promise!vars
    BY PageKeepsPromise, JobsKeepPromise DEF SeenVars, Has, Promise!vars
<1> QED
    BY <1>1, <1>2, <1>3, HandsStep, TypeAlways, PTL DEF Spec, PromiseKept, Promise!Spec
=============================================================================
