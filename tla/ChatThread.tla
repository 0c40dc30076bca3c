----------------------------- MODULE ChatThread -----------------------------
(***************************************************************************)
(* The page of one conversation: the turns it shows                         *)
(* (lib/chat/thread-model, thread-stored), the one event stream it holds    *)
(* (hooks/use-turn-stream, lib/chat/stream-relay), the requests it has in   *)
(* flight (hooks/use-chat-thread, services/ai/chat-client) and the tool     *)
(* calls it runs for a turn (hooks/use-tool-executor, lib/chat/post-result).*)
(*                                                                          *)
(* The other side is the log that a turn's runner writes.  Every frame that *)
(* the page tells apart is a position of the log: a card (text, a draft, a  *)
(* help link) or an ask (tool_request), whose call is named by its place.   *)
(***************************************************************************)
EXTENDS Naturals, Sequences, FiniteSets

CONSTANTS
    MaxTurns,     \* bound: turns of the conversation
    MaxFrames,    \* bound: frames of all turns, terminal ones aside
    MaxRequests,  \* bound: requests of the page in flight at once
    MaxReads,     \* bound: reads of the thread the page starts
    Nothing,      \* no stream, no request
    Events        \* what may happen: retry and reopen are the user's,
                  \* refused, broken, invalid, read and post go wrong

ASSUME BoundsAssumption ==
    {MaxTurns, MaxFrames, MaxRequests, MaxReads} \subseteq Nat \ {0}

VARIABLES
    status,    \* the turns' rows
    log,       \* what each turn's runner has written: "card" or "ask"
    closed,    \* the turns whose log holds the terminal frame
    waiting,   \* the place of the ask each runner waits on, 0 for none
    view,      \* ThreadState.turns: what the page shows of each turn
    source,    \* the EventSource: the turn and the place it has reached
    started,   \* useToolExecutor.started: the calls this page has taken
    sending,   \* the page says that it is sending
    request,   \* the postTurns and getThreads in flight
    reads,     \* how many getThreads were started
    loading,   \* the page is loading, loaded, or failed to
    resumed,   \* history: turns attached to where the server's log ended
    retried    \* history: Retry was clicked

server == <<status, log, closed, waiting>>
screen == <<view, source>>
history == <<resumed, retried>>
page == <<screen, started, sending, request, reads, loading, history>>
vars == <<server, page>>

Turns == 1 .. MaxTurns
Places == 1 .. MaxFrames
Slots == 1 .. MaxRequests
Calls == Turns \X Places

\* A TurnView: last is lastEventId (0 for null), shown the frames its items
\* come from, lost says that errorMessage is LOST_TURN_MESSAGE.
TurnView == [status : {"absent", "running", "done", "failed"},
             last : 0 .. MaxFrames + 1,
             shown : Seq(Places),
             lost : BOOLEAN]
NoView == [status |-> "absent", last |-> 0, shown |-> <<>>, lost |-> FALSE]

\* What getThread answers of a turn: its status, lastEventId and blocks.
Stored == [status : {"none", "running", "done", "failed"},
           last : 0 .. MaxFrames + 1, size : 0 .. MaxFrames]
Detail == [Turns -> Stored]

\* A request and the closure that waits for it: a retry knows the turn it was
\* clicked on, whether that was lost, and whether the page was busy then.
Request == [kind : {"post", "load", "retry", "reconnect"}, turn : 0 .. MaxTurns,
            busy : BOOLEAN, lost : BOOLEAN,
            pc : {"asked", "answered", "failed"}, detail : Detail \cup {Nothing}]

ASSUME NothingAssumption == Nothing \notin [turn : Nat, at : Nat] \cup Request

TypeOK ==
    /\ status \in [Turns -> {"none", "running", "done", "failed"}]
    /\ log \in [Turns -> Seq({"card", "ask"})]
    /\ \A t \in Turns : Len(log[t]) <= MaxFrames
    /\ closed \in SUBSET Turns
    /\ waiting \in [Turns -> 0 .. MaxFrames]
    /\ view \in [Turns -> TurnView]
    /\ source \in [turn : Turns, at : 0 .. MaxFrames] \cup {Nothing}
    /\ started \in SUBSET Calls
    /\ sending \in BOOLEAN
    /\ request \in [Slots -> Request \cup {Nothing}]
    /\ reads \in 0 .. MaxReads
    /\ loading \in {"loading", "loaded", "failed"}
    /\ resumed \in SUBSET Turns
    /\ retried \in BOOLEAN

-----------------------------------------------------------------------------
(* What the page computes.                                                   *)

Shown == {t \in Turns : view[t].status # "absent"}
RunningViews == {t \in Turns : view[t].status = "running"}
LastShown == CHOOSE t \in Shown : \A u \in Shown : u <= t
Busy == sending \/ RunningViews # {}

\* Slip: every frame that arrives is applied.
IsAfterUnchecked(place, turn) == place > 0

\* isAfter: an id the turn has passed is not applied again.
IsAfter(place, turn) == place > turn.last

\* applyFrame on a card or an ask; a turn that is not shown is left alone.
Applied(t, place) ==
    IF view[t].status # "absent" /\ IsAfter(place, view[t])
    THEN [view EXCEPT ![t].last = place, ![t].shown = Append(@, place)]
    ELSE view

\* applyFrame on turn_done or error, which ends the turn as its row ended.
Ended(t, outcome) ==
    IF view[t].status # "absent" /\ IsAfter(Len(log[t]) + 1, view[t])
    THEN [view EXCEPT ![t].last = Len(log[t]) + 1,
                      ![t].status = outcome, ![t].lost = FALSE]
    ELSE view

\* failTurn with LOST_TURN_MESSAGE.
Lost(t) ==
    IF view[t].status = "running"
    THEN [view EXCEPT ![t].status = "failed", ![t].lost = TRUE] ELSE view

\* An error frame the relay made itself: it has no id.
Condemned(t) ==
    IF view[t].status = "absent" THEN view
    ELSE [view EXCEPT ![t].status = "failed", ![t].lost = FALSE]

\* storedTurn: a turn that runs has no blocks yet, whatever it has written.
FromDetail(detail) ==
    [t \in Turns |->
        IF detail[t].status = "none" THEN NoView
        ELSE [status |-> detail[t].status, last |-> detail[t].last,
              shown |-> [i \in 1 .. detail[t].size |-> i], lost |-> FALSE]]

\* startTurn: a turn already shown stays as it is.
Started(t) ==
    IF view[t].status # "absent" THEN view
    ELSE [view EXCEPT ![t] = [NoView EXCEPT !.status = "running"]]

\* Slip: the stream is opened at the end of the log, whatever the page has.
AttachedAtEnd(t, after) == [turn |-> t, at |-> Len(log[t])]

\* Slip: the place is counted from one more than the log counts it from.
AttachedPast(t, after) == [turn |-> t, at |-> after + 1]

\* attach closes the stream there is and opens one after that place.
Attached(t, after) == [turn |-> t, at |-> after]

RunningIn(detail) == {t \in Turns : detail[t].status = "running"}

\* execute: a call the page has taken is not taken again.
Takes(t, place) ==
    IF log[t][place] = "ask" /\ <<t, place>> \notin started
    THEN started' = started \cup {<<t, place>>}
    ELSE UNCHANGED started

-----------------------------------------------------------------------------
(* The server.                                                               *)

RunningRows == {t \in Turns : status[t] = "running"}
Written == {c \in Calls : c[2] <= Len(log[c[1]])}
Fresh == {t \in Turns : status[t] = "none"}

\* Slip: nobody looks for a running turn.
OpensBeside(t) ==
    /\ t \in Fresh
    /\ \A u \in Fresh : t <= u
    /\ status' = [status EXCEPT ![t] = "running"]

\* The next turn's row, when none runs.
Opens(t) ==
    /\ RunningRows = {}
    /\ t \in Fresh
    /\ \A u \in Fresh : t <= u
    /\ status' = [status EXCEPT ![t] = "running"]

\* The runner emits a frame; after a tool_request it waits for the result.
Emit(t) ==
    /\ status[t] = "running"
    /\ waiting[t] = 0
    /\ Cardinality(Written) < MaxFrames
    /\ \E frame \in {"card", "ask"} :
          /\ log' = [log EXCEPT ![t] = Append(@, frame)]
          /\ waiting' = [waiting EXCEPT
                            ![t] = IF frame = "ask" THEN Len(log[t]) + 1 ELSE 0]
    /\ UNCHANGED <<status, closed, page>>

\* _await_result gives the call up at its deadline.
TimeOut(t) ==
    /\ waiting[t] # 0
    /\ waiting' = [waiting EXCEPT ![t] = 0]
    /\ UNCHANGED <<status, log, closed, page>>

\* finish_turn or fail_turn: a cancel, a crash and a failure end a turn at any
\* point.
Settle(t, outcome) ==
    /\ status[t] = "running"
    /\ outcome = "done" => waiting[t] = 0
    /\ status' = [status EXCEPT ![t] = outcome]
    /\ waiting' = [waiting EXCEPT ![t] = 0]
    /\ UNCHANGED <<log, closed, page>>

\* The terminal frame follows its row.
Close(t) ==
    /\ status[t] \in {"done", "failed"}
    /\ t \notin closed
    /\ closed' = closed \cup {t}
    /\ UNCHANGED <<status, log, waiting, page>>

-----------------------------------------------------------------------------
(* Requests.                                                                 *)

Asking(kind, t, busy, lost) ==
    [kind |-> kind, turn |-> t, busy |-> busy, lost |-> lost, pc |-> "asked",
     detail |-> Nothing]

\* Slots have no meaning of their own: a request takes the first free one.
Free(s) == request[s] = Nothing /\ \A u \in 1 .. s - 1 : request[u] # Nothing

\* getThread, for one of the page's reasons.
Reads(s, kind, t, lost) ==
    /\ Free(s)
    /\ reads < MaxReads
    /\ request' = [request EXCEPT ![s] = Asking(kind, t, Busy, lost)]
    /\ reads' = reads + 1

\* The answer to a request of that kind is handled.
Handles(s, kind, pc) ==
    /\ request[s] # Nothing
    /\ request[s].kind = kind
    /\ request[s].pc = pc

Forgets(s) == request' = [request EXCEPT ![s] = Nothing]

-----------------------------------------------------------------------------
(* Sending.                                                                  *)

\* send, from the composer: it is disabled while the page is busy or loading.
Send(s) ==
    /\ loading = "loaded"
    /\ ~Busy
    /\ Fresh # {}
    /\ Free(s)
    /\ request' = [request EXCEPT ![s] = Asking("post", 0, FALSE, FALSE)]
    /\ sending' = TRUE
    /\ UNCHANGED <<server, screen, started, reads, loading, history>>

\* post_turn: a row, or 409 while a turn runs; the answer may be lost.
PostServed(s) ==
    /\ Handles(s, "post", "asked")
    /\ \/ /\ RunningRows # {} \/ Fresh = {} \/ "post" \in Events
          /\ request' = [request EXCEPT ![s].pc = "failed"]
          /\ UNCHANGED status
       \/ \E t \in Turns :
             /\ Opens(t)
             /\ \/ request' = [request EXCEPT ![s].pc = "answered", ![s].turn = t]
                \/ /\ "post" \in Events
                   /\ request' = [request EXCEPT ![s].pc = "failed"]
    /\ UNCHANGED <<log, closed, waiting, screen, started, sending, reads, loading,
                   history>>

\* The then of send: startTurn, and attach from the first frame.
PostAnswered(s) ==
    /\ Handles(s, "post", "answered")
    /\ view' = Started(request[s].turn)
    /\ source' = Attached(request[s].turn, 0)
    /\ sending' = FALSE
    /\ Forgets(s)
    /\ UNCHANGED <<server, started, reads, loading, history>>

\* The catch of send: a notice, and the composer is free again.
PostFailed(s) ==
    /\ Handles(s, "post", "failed")
    /\ sending' = FALSE
    /\ Forgets(s)
    /\ UNCHANGED <<server, screen, started, reads, loading, history>>

-----------------------------------------------------------------------------
(* The stream.                                                               *)

\* onFrame with the next frame of the log.
Deliver ==
    /\ source # Nothing
    /\ source.at < Len(log[source.turn])
    /\ LET next == source.at + 1
       IN  /\ view' = Applied(source.turn, next)
           /\ Takes(source.turn, next)
           /\ source' = [source EXCEPT !.at = next]
    /\ UNCHANGED <<server, sending, request, reads, loading, history>>

\* onFrame with the terminal frame, after which the page closes the stream.
DeliverEnd ==
    /\ source # Nothing
    /\ source.at = Len(log[source.turn])
    /\ source.turn \in closed
    /\ view' = Ended(source.turn, status[source.turn])
    /\ source' = Nothing
    /\ UNCHANGED <<server, started, sending, request, reads, loading, history>>

\* The connection ends for good without a terminal frame: onDisconnected, which
\* asks the server.  (A drop the browser heals itself resumes at Last-Event-ID.)
Disconnected(s) ==
    /\ "refused" \in Events
    /\ source # Nothing
    /\ Reads(s, "reconnect", source.turn, FALSE)
    /\ source' = Nothing
    /\ UNCHANGED <<server, view, started, sending, loading, history>>

\* The relay cannot read its upstream any more, or reads what the schema
\* refuses: it ends the stream with an error frame of its own.
Broken ==
    /\ "broken" \in Events
    /\ source # Nothing
    /\ view' = Condemned(source.turn)
    /\ source' = Nothing
    /\ UNCHANGED <<server, started, sending, request, reads, loading, history>>

\* The page cannot parse a frame: onInvalid.
Invalid ==
    /\ "invalid" \in Events
    /\ source # Nothing
    /\ view' = Lost(source.turn)
    /\ source' = Nothing
    /\ UNCHANGED <<server, started, sending, request, reads, loading, history>>

-----------------------------------------------------------------------------
(* Reading the thread.                                                       *)

\* get_thread: lastEventId is the end of the log of the turn that runs, and a
\* row has its blocks once it is done.  (What blocks a failed turn keeps is left
\* out: nothing here looks at what a failed turn shows.)
DetailNow ==
    [t \in Turns |->
        [status |-> status[t],
         size |-> IF status[t] = "done" THEN Len(log[t]) ELSE 0,
         last |-> IF status[t] = "running" THEN Len(log[t]) ELSE 0]]

ReadServed(s) ==
    /\ request[s] # Nothing
    /\ request[s].kind # "post"
    /\ request[s].pc = "asked"
    /\ \/ request' = [request EXCEPT ![s].pc = "answered", ![s].detail = DetailNow]
       \/ "read" \in Events /\ request' = [request EXCEPT ![s].pc = "failed"]
    /\ UNCHANGED <<server, screen, started, sending, reads, loading, history>>

\* The then of resync: the state is replaced, and the turn that runs followed.
Resynced(detail) ==
    /\ view' = FromDetail(detail)
    /\ \/ RunningIn(detail) = {} /\ UNCHANGED <<source, resumed>>
       \/ \E t \in RunningIn(detail) :
             /\ source' = Attached(t, detail[t].last)
             /\ resumed' = resumed \cup {t}

\* The mount effect's then.
Loaded(s) ==
    /\ Handles(s, "load", "answered")
    /\ Resynced(request[s].detail)
    /\ loading' = "loaded"
    /\ Forgets(s)
    /\ UNCHANGED <<server, started, sending, reads, retried>>

\* The then of retry: it sends the text again when the server, too, calls the
\* turn failed, with the send of the render in which it was clicked.
Retried(s) ==
    /\ Handles(s, "retry", "answered")
    /\ Resynced(request[s].detail)
    /\ IF /\ ~request[s].lost
          /\ ~request[s].busy
          /\ request[s].detail[request[s].turn].status \in {"none", "failed"}
       THEN /\ request' = [request EXCEPT ![s] = Asking("post", 0, FALSE, FALSE)]
            /\ sending' = TRUE
       ELSE Forgets(s) /\ UNCHANGED sending
    /\ UNCHANGED <<server, started, reads, loading, retried>>

\* Slip: a turn that still runs is taken to be followed already.
ReconnectedLazily(s) ==
    /\ Handles(s, "reconnect", "answered")
    /\ Forgets(s)
    /\ IF request[s].detail[request[s].turn].status = "running"
       THEN UNCHANGED view ELSE view' = FromDetail(request[s].detail)
    /\ UNCHANGED <<server, source, started, sending, reads, loading, history>>

\* The then of reconnect: only a turn that still runs keeps what is shown.
Reconnected(s) ==
    /\ Handles(s, "reconnect", "answered")
    /\ LET t == request[s].turn
           detail == request[s].detail
       IN  IF detail[t].status = "running"
           THEN /\ source' = Attached(t, detail[t].last)
                /\ resumed' = resumed \cup {t}
                /\ UNCHANGED view
           ELSE /\ view' = FromDetail(detail)
                /\ UNCHANGED <<source, resumed>>
    /\ Forgets(s)
    /\ UNCHANGED <<server, started, sending, reads, loading, retried>>

\* Slip: the failure of a reconnect is dropped, as that of a retry is.
ReadFailedQuietly(s) ==
    /\ request[s] # Nothing
    /\ request[s].kind # "post"
    /\ request[s].pc = "failed"
    /\ Forgets(s)
    /\ loading' = IF request[s].kind = "load" THEN "failed" ELSE loading
    /\ UNCHANGED <<server, screen, started, sending, reads, history>>

\* A read that fails: the load shows an error, the reconnect gives the turn up,
\* the retry does nothing.
ReadFailed(s) ==
    /\ request[s] # Nothing
    /\ request[s].kind # "post"
    /\ request[s].pc = "failed"
    /\ Forgets(s)
    /\ loading' = IF request[s].kind = "load" THEN "failed" ELSE loading
    /\ view' = IF request[s].kind = "reconnect" THEN Lost(request[s].turn) ELSE view
    /\ UNCHANGED <<server, source, started, sending, reads, history>>

\* The Retry button is on the last turn, when that failed.
Retry(s) ==
    /\ "retry" \in Events
    /\ loading # "failed"
    /\ Shown # {}
    /\ view[LastShown].status = "failed"
    /\ Reads(s, "retry", LastShown, view[LastShown].lost)
    /\ retried' = TRUE
    /\ UNCHANGED <<server, screen, started, sending, loading, resumed>>

\* reload, from the error the page shows instead of the conversation.
Reload(s) ==
    /\ loading = "failed"
    /\ Reads(s, "load", 0, FALSE)
    /\ loading' = "loading"
    /\ UNCHANGED <<server, screen, started, sending, history>>

\* The mount effect asks for the thread.
Mount ==
    [s \in Slots |-> IF s = 1 THEN Asking("load", 0, FALSE, FALSE) ELSE Nothing]

\* The page is left and opened again: nothing of it survives, and the calls it
\* was running are aborted.
Reopen ==
    /\ "reopen" \in Events
    /\ reads < MaxReads
    /\ request' = Mount
    /\ reads' = reads + 1
    /\ view' = [t \in Turns |-> NoView]
    /\ source' = Nothing
    /\ started' = {}
    /\ sending' = FALSE
    /\ loading' = "loading"
    /\ resumed' = {}
    /\ UNCHANGED <<server, retried>>

-----------------------------------------------------------------------------
(* Answering an ask.                                                         *)

\* postToolResult, accepted by the runner that waits for that very call.  Any
\* other result is refused, as is the smaller one that is sent after a refusal:
\* nothing changes.
Answer(c) ==
    /\ c \in started
    /\ waiting[c[1]] = c[2]
    /\ waiting' = [waiting EXCEPT ![c[1]] = 0]
    /\ UNCHANGED <<status, log, closed, page>>

-----------------------------------------------------------------------------
Init ==
    /\ status = [t \in Turns |-> "none"]
    /\ log = [t \in Turns |-> <<>>]
    /\ closed = {}
    /\ waiting = [t \in Turns |-> 0]
    /\ view = [t \in Turns |-> NoView]
    /\ source = Nothing
    /\ started = {}
    /\ sending = FALSE
    /\ request = Mount
    /\ reads = 0
    /\ loading = "loading"
    /\ resumed = {}
    /\ retried = FALSE

Serve ==
    \E t \in Turns :
        \/ Emit(t) \/ TimeOut(t) \/ Close(t)
        \/ Settle(t, "done") \/ Settle(t, "failed")

Stream == Deliver \/ DeliverEnd \/ Broken \/ Invalid

Handle(s) ==
    \/ PostServed(s) \/ PostAnswered(s) \/ PostFailed(s)
    \/ ReadServed(s) \/ Loaded(s) \/ Retried(s) \/ Reconnected(s) \/ ReadFailed(s)

Click(s) == Send(s) \/ Retry(s) \/ Reload(s) \/ Disconnected(s)

Next ==
    \/ Serve
    \/ Stream
    \/ Reopen
    \/ \E s \in Slots : Handle(s) \/ Click(s)
    \/ \E c \in Calls : Answer(c)

\* A turn has a deadline, its frame follows it, every request is answered or
\* fails, and the browser delivers what the stream holds.
Fairness ==
    /\ \A t \in Turns :
          /\ WF_vars(Settle(t, "done") \/ Settle(t, "failed"))
          /\ WF_vars(Close(t))
    /\ \A s \in Slots : WF_vars(Handle(s))
    /\ WF_vars(Deliver \/ DeliverEnd)

Spec == Init /\ [][Next]_vars /\ Fairness

-----------------------------------------------------------------------------
\* No frame of a turn that runs is shown twice, and none after a later one,
\* however often the page attaches, reconnects and loads again.
NothingTwice ==
    \A t \in RunningViews :
        \A i, j \in DOMAIN view[t].shown : i < j => view[t].shown[i] < view[t].shown[j]

\* A turn followed from its first frame shows every frame up to its lastEventId,
\* and the page has taken every call among them, while nobody clicks Retry.
NothingMissing ==
    ~retried =>
        \A t \in RunningViews \ resumed :
            /\ view[t].shown = [i \in 1 .. view[t].last |-> i]
            /\ \A i \in 1 .. view[t].last : log[t][i] = "ask" => <<t, i>> \in started

\* What the comment on reconnect claims: the view of a turn that still runs is
\* right as it is, so no frame up to its lastEventId is missing from it.
NothingSkipped ==
    \A t \in RunningViews : \A i \in 1 .. view[t].last : \E j \in DOMAIN view[t].shown :
        view[t].shown[j] = i

\* The page shows one running turn at most, and it is not left to itself: its
\* stream is open, or a request in flight will decide what becomes of it.
SomeoneFollows ==
    ~retried =>
        \A t \in RunningViews :
            /\ RunningViews = {t}
            /\ \/ source # Nothing /\ source.turn = t
               \/ \E s \in Slots : request[s] # Nothing

\* Whatever the page does, from however many streams and requests at once, the
\* rows and logs it meets keep the promise of TurnLife, as those of ChatTurn do.
Lives(row) == IF row \in {"done", "failed"} THEN "over" ELSE row
Life == INSTANCE TurnLife WITH row <- [t \in Turns |-> Lives(status[t])]
LifeKept == Life!Spec

\* The page does not stay busy for ever: the composer is free again, whichever
\* connections and requests fail.
BusyEnds == (Busy /\ ~retried) ~> (~Busy \/ retried)
=============================================================================
