-------------------------- MODULE ChatThreadProofs --------------------------
(* What holds of ChatThread for any number of turns, frames, requests and    *)
(* reads: a page shows frames in the order of the log, misses none while     *)
(* nobody clicks Retry, and follows the turn it says is running.             *)
EXTENDS ChatThread, FiniteSetTheorems, FunctionTheorems, SequenceTheorems,
        NaturalsInduction, WellFoundedInduction, TLAPS

\* The rows and logs: one turn runs at most, and a terminal frame follows its row.
ServerOK ==
    /\ status \in [Turns -> {"none", "running", "done", "failed"}]
    /\ log \in [Turns -> Seq({"card", "ask"})]
    /\ \A t \in Turns : Len(log[t]) <= MaxFrames
    /\ closed \subseteq Turns
    /\ \A t \in closed : status[t] \in {"done", "failed"}
    /\ waiting \in [Turns -> 0 .. MaxFrames]
    /\ \A t, u \in RunningRows : t = u

\* A view that runs shows frames of the log in their order, up to its lastEventId.
ViewOK(v, frames, row) ==
    /\ v \in TurnView
    /\ v.status # "absent" => row # "none"
    /\ v.status = "running" =>
         /\ v.last <= Len(frames)
         /\ \A i \in DOMAIN v.shown : v.shown[i] <= v.last
         /\ \A i, j \in DOMAIN v.shown : i < j => v.shown[i] < v.shown[j]

ViewsOK ==
    /\ view = [t \in Turns |-> view[t]]
    /\ \A t \in Turns : ViewOK(view[t], log[t], status[t])

\* An answer to getThread was true when it was given, of logs that only grow.
DetailOK(detail, logs, rows) ==
    /\ detail \in Detail
    /\ \A t \in Turns :
         /\ detail[t].last <= Len(logs[t])
         /\ detail[t].status = "running" => detail[t].size = 0
         /\ detail[t].status # "none" => rows[t] # "none"
    /\ \A t, u \in RunningIn(detail) : t = u

\* A request that waits knows its turn, and an answer what it answers.
RequestOK(r, logs, rows) ==
    /\ r \in Request
    /\ r.kind \in {"retry", "reconnect"} => r.turn \in Turns
    /\ r.pc = "answered" =>
         IF r.kind = "post" THEN r.turn \in Turns /\ rows[r.turn] # "none"
                            ELSE DetailOK(r.detail, logs, rows)

RequestsOK ==
    /\ request = [s \in Slots |-> request[s]]
    /\ \A s \in Slots : request[s] # Nothing => RequestOK(request[s], log, status)

RestOK ==
    /\ source \in [turn : Turns, at : 0 .. MaxFrames] \cup {Nothing}
    /\ started \subseteq Calls
    /\ sending \in BOOLEAN
    /\ reads \in 0 .. MaxReads
    /\ loading \in {"loading", "loaded", "failed"}
    /\ resumed \subseteq Turns
    /\ retried \in BOOLEAN

\* What a request in flight says of the page, while nobody has clicked Retry.
Waiting(r) ==
    /\ source = Nothing
    /\ \/ /\ r.kind = "load"
          /\ loading = "loading" /\ ~sending /\ RunningViews = {}
       \/ /\ r.kind = "post"
          /\ loading = "loaded" /\ sending /\ RunningViews = {}
          /\ r.pc = "answered" =>
               view[r.turn].status = "absent" /\ RunningRows \subseteq {r.turn}
       \/ /\ r.kind = "reconnect"
          /\ loading = "loaded" /\ ~sending /\ RunningViews = {r.turn}
          /\ r.pc = "answered" => RunningIn(r.detail) \subseteq {r.turn}
    /\ r.kind # "post" /\ r.pc = "answered" => RunningRows \subseteq RunningIn(r.detail)

\* Until Retry is clicked the page does one thing at a time: it waits for one
\* request, or follows the turn that runs, or is at rest.
Calm ==
    /\ \A s, u \in Slots : request[s] # Nothing /\ request[u] # Nothing => s = u
    /\ \A s \in Slots : request[s] # Nothing => Waiting(request[s])
    /\ (\A s \in Slots : request[s] = Nothing) =>
         /\ ~sending /\ loading # "loading"
         /\ source = Nothing => RunningViews = {}
         /\ source # Nothing => RunningViews = {source.turn} /\ loading = "loaded"
    /\ \A t \in RunningViews : RunningRows \subseteq {t}

\* A turn followed from its first frame has all of it that the page was sent.
Complete(t) ==
    /\ view[t].shown = [i \in 1 .. view[t].last |-> i]
    /\ \A i \in 1 .. view[t].last : log[t][i] = "ask" => <<t, i>> \in started
    /\ source # Nothing /\ source.turn = t => source.at <= view[t].last

Followed == \A t \in RunningViews \ resumed : Complete(t)

Inv ==
    /\ ServerOK
    /\ ViewsOK
    /\ RequestsOK
    /\ RestOK
    /\ ~retried => Calm /\ Followed

-----------------------------------------------------------------------------
(* Numbers, sequences and what Nothing is not.                               *)

\* The bounds are positive.
LEMMA Bounds ==
    /\ MaxTurns \in Nat /\ MaxFrames \in Nat /\ MaxRequests \in Nat /\ MaxReads \in Nat
    /\ 1 <= MaxFrames /\ 1 <= MaxRequests
  BY BoundsAssumption

\* A request or a stream is something.
LEMMA SomethingIs ==
    /\ \A r \in Request : r # Nothing
    /\ \A t \in Turns, n \in Nat : [turn |-> t, at |-> n] # Nothing
  <1>1. \A t \in Turns, n \in Nat : [turn |-> t, at |-> n] \in [turn : Nat, at : Nat]
    BY DEF Turns
  <1> QED
    BY <1>1, NothingAssumption

\* The frames 1 .. n and the next one are the frames 1 .. n + 1.
LEMMA CountUp ==
    ASSUME NEW n \in Nat
    PROVE  Append([i \in 1 .. n |-> i], n + 1) = [i \in 1 .. n + 1 |-> i]
  <1> DEFINE s == [i \in 1 .. n |-> i]
             t == [i \in 1 .. n + 1 |-> i]
  <1>1. s \in Seq(Nat) /\ t \in Seq(Nat) /\ Len(s) = n /\ Len(t) = n + 1
    <2>1. \A i \in 1 .. n : i \in Nat
      OBVIOUS
    <2>2. \A i \in 1 .. n + 1 : i \in Nat
      OBVIOUS
    <2> QED
      BY <2>1, <2>2, IsASeq, LenProperties
  <1>2. /\ Append(s, n + 1) \in Seq(Nat) /\ Len(Append(s, n + 1)) = n + 1
        /\ \A i \in 1 .. n : Append(s, n + 1)[i] = i
        /\ Append(s, n + 1)[n + 1] = n + 1
    BY <1>1, AppendProperties
  <1>3. \A i \in 1 .. n + 1 : i \in 1 .. n \/ i = n + 1
    OBVIOUS
  <1>4. \A i \in 1 .. n + 1 : Append(s, n + 1)[i] = t[i]
    BY <1>2, <1>3
  <1> HIDE DEF s, t
  <1> QED
    BY <1>1, <1>2, <1>4, SeqEqual

\* Appending to frames in order the next one keeps them in order.
LEMMA AppendInOrder ==
    ASSUME NEW s \in Seq(Places), NEW n \in Nat, NEW place \in Places, n < place,
           \A i \in DOMAIN s : s[i] <= n,
           \A i, j \in DOMAIN s : i < j => s[i] < s[j]
    PROVE  LET t == Append(s, place)
           IN  /\ t \in Seq(Places)
               /\ \A i \in DOMAIN t : t[i] <= place
               /\ \A i, j \in DOMAIN t : i < j => t[i] < t[j]
  <1> DEFINE t == Append(s, place)
             k == Len(s)
  <1>1. /\ t \in Seq(Places) /\ Len(t) = k + 1 /\ k \in Nat
        /\ DOMAIN s = 1 .. k /\ DOMAIN t = 1 .. k + 1
        /\ \A i \in 1 .. k : t[i] = s[i]
        /\ t[k + 1] = place
    BY AppendProperties, LenProperties
  <1>2. \A i \in 1 .. k : s[i] \in Nat /\ s[i] <= n
    <2>1. \A i \in 1 .. k : s[i] \in Places
      BY <1>1, ElementOfSeq
    <2> QED
      BY <1>1, <2>1 DEF Places
  <1>3. \A i \in 1 .. k + 1 : i \in 1 .. k \/ i = k + 1
    BY <1>1
  <1>4. place \in Nat
    BY DEF Places
  <1>5. \A i \in DOMAIN t : t[i] <= place
    BY <1>1, <1>2, <1>3, <1>4
  <1>6. ASSUME NEW i \in 1 .. k + 1, NEW j \in 1 .. k + 1, i < j
        PROVE  t[i] < t[j]
    <2>1. i \in 1 .. k
      BY <1>1, <1>6
    <2>2. CASE j \in 1 .. k
      BY <1>1, <1>6, <2>1, <2>2
    <2>3. CASE j = k + 1
      BY <1>1, <1>2, <1>4, <2>1, <2>3
    <2> QED
      BY <1>3, <2>2, <2>3
  <1> HIDE DEF t, k
  <1>7. \A i, j \in DOMAIN t : i < j => t[i] < t[j]
    BY <1>1, <1>6
  <1> QED
    BY <1>1, <1>5, <1>7 DEF t

\* A bounded, non-empty set of naturals has a largest member.
LEMMA Largest ==
    ASSUME NEW N \in Nat, NEW S, S \subseteq 0 .. N, S # {}
    PROVE  \E x \in S : \A y \in S : y <= x
  <1> DEFINE T == {N - x : x \in S}
             R == OpToRel(<, Nat)
  <1>1. T \subseteq Nat /\ T # {}
    BY \A x \in S : N - x \in Nat
  <1>2. PICK t \in T : \A u \in T : <<u, t>> \notin R
    BY <1>1, NatLessThanWellFounded, WFMin, Zenon
  <1>3. \A u \in T : ~(u < t)
    BY <1>1, <1>2 DEF OpToRel
  <1>4. PICK x \in S : t = N - x
    BY <1>2
  <1>5. ASSUME NEW y \in S PROVE y <= x
    <2>1. N - y \in T
      OBVIOUS
    <2>2. ~(N - y < N - x)
      BY <1>3, <1>4, <2>1
    <2>3. x \in Nat /\ y \in Nat
      OBVIOUS
    <2> HIDE DEF T, R
    <2> QED
      BY <2>2, <2>3
  <1> QED
    BY <1>5

\* The last turn that is shown is one.
LEMMA LastShownIs ==
    ASSUME Shown # {}
    PROVE  LastShown \in Shown /\ LastShown \in Turns
  <1>1. Shown \subseteq Turns /\ Shown \subseteq 0 .. MaxTurns
    BY Bounds DEF Shown, Turns
  <1>2. \E t \in Shown : \A u \in Shown : u <= t
    BY <1>1, Bounds, Largest
  <1>3. LastShown \in Shown
    BY <1>2 DEF LastShown
  <1> QED
    BY <1>1, <1>3

\* A log that may take a frame has room for it: all frames written are counted.
LEMMA RoomLeft ==
    ASSUME ServerOK, NEW t \in Turns, Cardinality(Written) < MaxFrames
    PROVE  Len(log[t]) < MaxFrames
  <1>1. IsFiniteSet(Places) /\ Cardinality(Places) = MaxFrames
    BY Bounds, FS_Interval DEF Places
  <1>2. IsFiniteSet(Written)
    <2>1. IsFiniteSet(Turns)
      BY Bounds, FS_Interval DEF Turns
    <2>2. IsFiniteSet(Calls)
      BY <1>1, <2>1, FS_Product DEF Calls
    <2> QED
      BY <2>2, FS_Subset DEF Written
  <1>3. Len(log[t]) \in Nat
    BY DEF ServerOK
  <1>4. ASSUME MaxFrames <= Len(log[t]) PROVE FALSE
    <2> DEFINE f == [p \in Places |-> <<t, p>>]
    <2>1. \A p \in Places : <<t, p>> \in Written
      BY <1>3, <1>4, Bounds DEF Written, Calls, Places
    <2>2. f \in Injection(Places, Written)
      BY <2>1 DEF Injection, IsInjective
    <2>3. MaxFrames <= Cardinality(Written)
      BY <1>1, <1>2, <2>2, FS_Injection
    <2>4. Cardinality(Written) \in Nat
      BY <1>2, FS_CardinalityType
    <2> QED
      BY <2>3, <2>4, Bounds
  <1> QED
    BY <1>3, <1>4, Bounds

-----------------------------------------------------------------------------
(* The server's steps.                                                       *)

\* Logs grow and rows stay: what was true of them when it was read stays true.
Grows ==
    \A t \in Turns :
        /\ Len(log[t]) <= Len(log'[t])
        /\ \A i \in 1 .. Len(log[t]) : log'[t][i] = log[t][i]
        /\ status[t] # "none" => status'[t] # "none"

\* A view that was right is right of a log that has grown.
LEMMA ViewKept ==
    ASSUME ServerOK, ServerOK', Grows, NEW t \in Turns, NEW v,
           ViewOK(v, log[t], status[t])
    PROVE  ViewOK(v, log'[t], status'[t])
  <1>1. Len(log[t]) \in Nat /\ Len(log'[t]) \in Nat
    BY DEF ServerOK
  <1>2. v.last \in Nat
    BY DEF ViewOK, TurnView
  <1> QED
    BY <1>1, <1>2 DEF ViewOK, Grows

\* So is a request, with the answer it carries.
LEMMA RequestKept ==
    ASSUME ServerOK, ServerOK', Grows, NEW r, RequestOK(r, log, status)
    PROVE  RequestOK(r, log', status')
  <1>1. \A t \in Turns : Len(log[t]) \in Nat /\ Len(log'[t]) \in Nat
    BY DEF ServerOK
  <1>2. ASSUME DetailOK(r.detail, log, status)
        PROVE  DetailOK(r.detail, log', status')
    <2>1. \A t \in Turns : r.detail[t].last \in Nat
      BY <1>2 DEF DetailOK, Detail, Stored
    <2> QED
      BY <1>1, <1>2, <2>1 DEF DetailOK, Grows
  <1> QED
    BY <1>2 DEF RequestOK, Grows

\* A step of the server alone, which opens no turn, leaves the page right.
LEMMA ServerSteps ==
    ASSUME Inv, ServerOK', Grows, UNCHANGED page, RunningRows' \subseteq RunningRows
    PROVE  Inv'
  <1>1. ViewsOK'
    <2>1. ASSUME NEW t \in Turns PROVE ViewOK(view[t], log'[t], status'[t])
      BY ViewKept DEF Inv, ViewsOK
    <2> QED
      BY <2>1 DEF Inv, ViewsOK, page, screen
  <1>2. RequestsOK'
    <2>1. ASSUME NEW s \in Slots, request[s] # Nothing
          PROVE  RequestOK(request[s], log', status')
      BY <2>1, RequestKept DEF Inv, RequestsOK
    <2> QED
      BY <2>1 DEF Inv, RequestsOK, page
  <1>3. RestOK'
    BY DEF Inv, RestOK, page, screen, history
  <1>4. ASSUME ~retried' PROVE Calm' /\ Followed'
    <2>1. Calm /\ Followed
      BY <1>4 DEF Inv, page, history
    <2>2. RunningViews' = RunningViews
      BY DEF RunningViews, page, screen
    <2>3. Calm'
      BY <2>1, <2>2 DEF Calm, Waiting, page, screen
    <2>4. ASSUME NEW t \in RunningViews \ resumed PROVE Complete(t)'
      <3>1. Complete(t) /\ t \in Turns /\ view[t].last \in Nat
        BY <2>1 DEF Followed, RunningViews, Inv, ViewsOK, ViewOK, TurnView
      <3>2. view[t].last <= Len(log[t]) /\ Len(log[t]) \in Nat
        BY <3>1 DEF RunningViews, Inv, ViewsOK, ViewOK, ServerOK
      <3>3. \A i \in 1 .. view[t].last : log'[t][i] = log[t][i]
        BY <3>1, <3>2 DEF Grows
      <3> QED
        BY <3>1, <3>3 DEF Complete, page, screen
    <2> QED
      BY <2>2, <2>3, <2>4 DEF Followed, page, history
  <1> QED
    BY <1>1, <1>2, <1>3, <1>4 DEF Inv

\* A frame goes to the end of its turn's log.
LEMMA EmitKeeps == ASSUME Inv, NEW t \in Turns, Emit(t) PROVE Inv'
  <1> DEFINE n == Len(log[t])
  <1>1. ServerOK /\ n \in Nat /\ n < MaxFrames /\ log[t] \in Seq({"card", "ask"})
    BY RoomLeft DEF Inv, ServerOK, Emit
  <1>2. PICK frame \in {"card", "ask"} :
          /\ log' = [log EXCEPT ![t] = Append(@, frame)]
          /\ waiting' = [waiting EXCEPT ![t] = IF frame = "ask" THEN n + 1 ELSE 0]
    BY DEF Emit
  <1>3. /\ log'[t] \in Seq({"card", "ask"}) /\ Len(log'[t]) = n + 1
        /\ \A i \in 1 .. n : log'[t][i] = log[t][i]
    BY <1>1, <1>2, AppendProperties DEF ServerOK
  <1>4. /\ UNCHANGED <<status, closed, page>>
        /\ \A u \in Turns : u # t => log'[u] = log[u]
        /\ log' = [u \in Turns |-> log'[u]]
    BY <1>1, <1>2 DEF Emit, ServerOK
  <1>5. waiting' \in [Turns -> 0 .. MaxFrames]
    <2>1. (IF frame = "ask" THEN n + 1 ELSE 0) \in 0 .. MaxFrames
      BY <1>1, Bounds
    <2> QED
      BY <1>1, <1>2, <2>1 DEF ServerOK
  <1>6. ASSUME NEW u \in Turns
        PROVE  /\ log'[u] \in Seq({"card", "ask"})
               /\ Len(log'[u]) <= MaxFrames
               /\ Len(log[u]) \in Nat
    <2>1. CASE u = t
      BY <1>1, <1>3, <2>1, Bounds
    <2>2. CASE u # t
      BY <1>1, <1>4, <2>2 DEF ServerOK
    <2> QED
      BY <2>1, <2>2
  <1>7. ServerOK'
    <2>1. log' \in [Turns -> Seq({"card", "ask"})]
      BY <1>4, <1>6
    <2> QED
      BY <1>1, <1>4, <1>5, <1>6, <2>1 DEF ServerOK, RunningRows
  <1>8. Grows
    BY <1>1, <1>3, <1>4, <1>6 DEF Grows
  <1>9. RunningRows' \subseteq RunningRows /\ UNCHANGED page
    BY <1>4 DEF RunningRows
  <1> QED
    BY <1>7, <1>8, <1>9, ServerSteps

\* The other steps of the server, and a tool result it accepts.
LEMMA ServeKeeps ==
    ASSUME Inv, NEW t \in Turns,
           \/ TimeOut(t) \/ Close(t) \/ Settle(t, "done") \/ Settle(t, "failed")
           \/ \E c \in Calls : Answer(c)
    PROVE  Inv'
  <1>1. ServerOK /\ log' = log /\ UNCHANGED page
    BY DEF Inv, TimeOut, Close, Settle, Answer
  <1>2. \A u \in Turns : Len(log[u]) \in Nat
    BY <1>1 DEF ServerOK
  <1>3. CASE TimeOut(t) \/ \E c \in Calls : Answer(c)
    <2>1. /\ status' = status /\ closed' = closed
          /\ waiting' \in [Turns -> 0 .. MaxFrames]
      <3>1. PICK u \in Turns : waiting' = [waiting EXCEPT ![u] = 0]
        BY <1>3 DEF TimeOut, Answer, Calls
      <3>2. status' = status /\ closed' = closed
        BY <1>3 DEF TimeOut, Answer
      <3> QED
        BY <1>1, <3>1, <3>2, Bounds DEF ServerOK
    <2> QED
      BY <1>1, <1>2, <2>1, ServerSteps DEF ServerOK, Grows, RunningRows
  <1>4. CASE Close(t)
    <2>1. ServerOK'
      BY <1>1, <1>4 DEF Close, ServerOK, RunningRows
    <2> QED
      BY <1>1, <1>2, <1>4, <2>1, ServerSteps DEF Close, Grows, RunningRows
  <1>5. ASSUME NEW outcome \in {"done", "failed"}, Settle(t, outcome) PROVE Inv'
    <2>1. /\ status' = [status EXCEPT ![t] = outcome] /\ status[t] = "running"
          /\ waiting' = [waiting EXCEPT ![t] = 0] /\ closed' = closed
      BY <1>5 DEF Settle
    <2>2. RunningRows' \subseteq RunningRows
      BY <1>1, <2>1 DEF RunningRows, ServerOK
    <2>3. ServerOK'
      BY <1>1, <2>1, <2>2, Bounds DEF ServerOK
    <2>4. Grows
      BY <1>1, <1>2, <2>1 DEF Grows, ServerOK
    <2> QED
      BY <1>1, <2>2, <2>3, <2>4, ServerSteps
  <1> QED
    BY <1>3, <1>4, <1>5

-----------------------------------------------------------------------------
(* What the page's steps do to views and requests.                           *)

\* A view that is replaced by a right one.
LEMMA ViewSet ==
    ASSUME Inv, UNCHANGED server, NEW t \in Turns, NEW v,
           ViewOK(v, log[t], status[t]), view' = [view EXCEPT ![t] = v]
    PROVE  /\ ViewsOK' /\ view'[t] = v
           /\ \A u \in Turns : u # t => view'[u] = view[u]
           /\ RunningViews' = IF v.status = "running" THEN RunningViews \cup {t}
                                                      ELSE RunningViews \ {t}
  <1>1. /\ view = [u \in Turns |-> view[u]]
        /\ \A u \in Turns : ViewOK(view[u], log[u], status[u])
    BY DEF Inv, ViewsOK
  <1>2. /\ view' = [u \in Turns |-> view'[u]] /\ view'[t] = v
        /\ \A u \in Turns : u # t => view'[u] = view[u]
    BY <1>1
  <1>3. ViewsOK'
    BY <1>1, <1>2 DEF ViewsOK, server
  <1> QED
    BY <1>2, <1>3 DEF RunningViews

\* Views that stay as they are.
LEMMA ViewsSame ==
    ASSUME Inv, UNCHANGED server, view' = view
    PROVE  ViewsOK' /\ RunningViews' = RunningViews
  BY DEF Inv, ViewsOK, server, RunningViews

\* applyFrame keeps the frames in order, and ends nothing.
LEMMA AppliedOK ==
    ASSUME Inv, UNCHANGED server, NEW t \in Turns, NEW place \in Places,
           place <= Len(log[t]), view' = Applied(t, place)
    PROVE  ViewsOK' /\ RunningViews' = RunningViews
  <1>1. CASE view[t].status # "absent" /\ IsAfter(place, view[t])
    <2> DEFINE v == [view[t] EXCEPT !.last = place, !.shown = Append(@, place)]
    <2>1. ViewOK(view[t], log[t], status[t]) /\ view[t] \in TurnView
      BY DEF Inv, ViewsOK, ViewOK
    <2>2. /\ view[t].shown \in Seq(Places) /\ view[t].last \in Nat
          /\ view[t].last < place /\ place \in 0 .. MaxFrames + 1
      BY <1>1, <2>1, Bounds DEF TurnView, IsAfter, Places
    <2>3. /\ v.last = place /\ v.shown = Append(view[t].shown, place)
          /\ v.status = view[t].status /\ v.lost = view[t].lost
      BY <2>1 DEF TurnView
    <2>4. v.shown \in Seq(Places)
      BY <2>2, <2>3, AppendProperties
    <2>5. v \in TurnView
      BY <2>1, <2>2, <2>4 DEF TurnView
    <2>6. CASE view[t].status = "running"
      <3>1. /\ \A i \in DOMAIN v.shown : v.shown[i] <= place
            /\ \A i, j \in DOMAIN v.shown : i < j => v.shown[i] < v.shown[j]
        BY <2>1, <2>2, <2>3, <2>6, AppendInOrder DEF ViewOK
      <3>2. ViewOK(v, log[t], status[t])
        BY <2>1, <2>3, <2>5, <3>1 DEF ViewOK
      <3> HIDE DEF v
      <3>3. view' = [view EXCEPT ![t] = v]
        BY <1>1 DEF Applied, v
      <3> QED
        BY <2>3, <2>6, <3>2, <3>3, ViewSet DEF RunningViews
    <2>7. CASE view[t].status # "running"
      <3>1. ViewOK(v, log[t], status[t])
        BY <2>1, <2>3, <2>5, <2>7 DEF ViewOK
      <3> HIDE DEF v
      <3>2. view' = [view EXCEPT ![t] = v]
        BY <1>1 DEF Applied, v
      <3> QED
        BY <2>3, <2>7, <3>1, <3>2, ViewSet DEF RunningViews
    <2> QED
      BY <2>6, <2>7
  <1>2. CASE ~(view[t].status # "absent" /\ IsAfter(place, view[t]))
    BY <1>2, ViewsSame DEF Applied
  <1> QED
    BY <1>1, <1>2

\* A turn that is ended, lost or condemned does not run any more.
LEMMA OverOK ==
    ASSUME Inv, UNCHANGED server, NEW t \in Turns,
           \/ view' = Lost(t) \/ view' = Condemned(t)
           \/ t \in closed /\ view' = Ended(t, status[t])
    PROVE  ViewsOK' /\ RunningViews' = RunningViews \ {t}
  <1>1. ViewOK(view[t], log[t], status[t]) /\ view[t] \in TurnView
    BY DEF Inv, ViewsOK, ViewOK
  <1>2. ASSUME NEW v \in TurnView, v.status \in {"done", "failed"},
               status[t] # "none", view' = [view EXCEPT ![t] = v]
        PROVE  ViewsOK' /\ RunningViews' = RunningViews \ {t}
    <2>1. ViewOK(v, log[t], status[t])
      BY <1>2 DEF ViewOK
    <2> QED
      BY <1>2, <2>1, ViewSet
  <1>3. ASSUME view' = view, view[t].status # "running"
        PROVE  ViewsOK' /\ RunningViews' = RunningViews \ {t}
    BY <1>3, ViewsSame DEF RunningViews
  <1>4. view[t].status # "absent" => status[t] # "none"
    BY <1>1 DEF ViewOK
  <1>5. CASE view' = Lost(t)
    <2> DEFINE v == [view[t] EXCEPT !.status = "failed", !.lost = TRUE]
    <2>1. v \in TurnView /\ v.status = "failed"
      BY <1>1 DEF TurnView
    <2> QED
      BY <1>2, <1>3, <1>4, <1>5, <2>1 DEF Lost
  <1>6. CASE view' = Condemned(t)
    <2> DEFINE v == [view[t] EXCEPT !.status = "failed", !.lost = FALSE]
    <2>1. v \in TurnView /\ v.status = "failed"
      BY <1>1 DEF TurnView
    <2> QED
      BY <1>2, <1>3, <1>4, <1>6, <2>1 DEF Condemned
  <1>7. CASE t \in closed /\ view' = Ended(t, status[t])
    <2> DEFINE v == [view[t] EXCEPT !.last = Len(log[t]) + 1,
                                    !.status = status[t], !.lost = FALSE]
    <2>1. /\ status[t] \in {"done", "failed"} /\ Len(log[t]) \in Nat
          /\ Len(log[t]) + 1 \in 0 .. MaxFrames + 1
      BY <1>7, Bounds DEF Inv, ServerOK
    <2>2. v \in TurnView /\ v.status \in {"done", "failed"}
      BY <1>1, <2>1 DEF TurnView
    <2>3. view[t].status = "running" => IsAfter(Len(log[t]) + 1, view[t])
      <3>1. view[t].last \in Nat
        BY <1>1 DEF TurnView
      <3> QED
        BY <1>1, <2>1, <3>1 DEF ViewOK, IsAfter
    <2>4. \/ view' = [view EXCEPT ![t] = v] /\ view[t].status # "absent"
          \/ view' = view /\ view[t].status # "running"
      BY <1>7, <2>3 DEF Ended
    <2> HIDE DEF v
    <2> QED
      BY <1>2, <1>3, <1>4, <2>2, <2>4
  <1> QED
    BY <1>5, <1>6, <1>7

\* storedTurn: what runs in the answer runs on the page, with nothing shown yet.
LEMMA FromDetailOK ==
    ASSUME Inv, UNCHANGED server, NEW d, DetailOK(d, log, status),
           view' = FromDetail(d)
    PROVE  ViewsOK' /\ RunningViews' = RunningIn(d)
  <1>1. ASSUME NEW t \in Turns
        PROVE  /\ ViewOK(view'[t], log[t], status[t])
               /\ view'[t].status = "running" <=> d[t].status = "running"
    <2>1. d[t] \in Stored
      BY DEF DetailOK, Detail
    <2>2. CASE d[t].status = "none"
      <3>1. view'[t] = NoView
        BY <2>2 DEF FromDetail
      <3>2. NoView \in TurnView
        BY Bounds, EmptySeq DEF NoView, TurnView
      <3> QED
        BY <2>2, <3>1, <3>2 DEF NoView, ViewOK
    <2>3. CASE d[t].status # "none"
      <3> DEFINE seen == [i \in 1 .. d[t].size |-> i]
      <3>1. view'[t] = [status |-> d[t].status, last |-> d[t].last,
                        shown |-> seen, lost |-> FALSE]
        BY <2>3 DEF FromDetail
      <3>2. d[t].size \in 0 .. MaxFrames /\ d[t].last \in 0 .. MaxFrames + 1
        BY <2>1 DEF Stored
      <3>3. seen \in Seq(Places) /\ DOMAIN seen = 1 .. d[t].size
        <4>1. \A i \in 1 .. d[t].size : i \in Places
          BY <3>2, Bounds DEF Places
        <4> QED
          BY <3>2, <4>1, IsASeq
      <3>4. d[t].status = "running" => DOMAIN seen = {} /\ d[t].last <= Len(log[t])
        BY <3>2, <3>3 DEF DetailOK
      <3>5. d[t].status \in {"running", "done", "failed"} /\ status[t] # "none"
        BY <2>1, <2>3 DEF Stored, DetailOK
      <3> HIDE DEF seen
      <3> QED
        BY <3>1, <3>2, <3>3, <3>4, <3>5 DEF ViewOK, TurnView
    <2> QED
      BY <2>2, <2>3
  <1>2. view' = [t \in Turns |-> view'[t]]
    BY DEF FromDetail
  <1> QED
    BY <1>1, <1>2 DEF ViewsOK, RunningViews, RunningIn, server

\* startTurn: a turn that was not shown runs, from its first frame.
LEMMA StartedOK ==
    ASSUME Inv, UNCHANGED server, NEW t \in Turns, status[t] # "none",
           view' = Started(t)
    PROVE  /\ ViewsOK'
           /\ view[t].status # "absent" => RunningViews' = RunningViews /\ view' = view
           /\ view[t].status = "absent" =>
                /\ RunningViews' = RunningViews \cup {t}
                /\ view'[t].shown = <<>> /\ view'[t].last = 0
                /\ \A u \in Turns : u # t => view'[u] = view[u]
  <1>1. CASE view[t].status = "absent"
    <2> DEFINE v == [NoView EXCEPT !.status = "running"]
    <2>1. /\ v \in TurnView /\ v.status = "running"
          /\ v.last = 0 /\ v.shown = <<>>
      <3>1. NoView \in TurnView /\ NoView.last = 0 /\ NoView.shown = <<>>
        BY Bounds, EmptySeq DEF NoView, TurnView
      <3> QED
        BY <3>1 DEF TurnView
    <2>2. ViewOK(v, log[t], status[t])
      <3>1. 0 <= Len(log[t])
        BY DEF Inv, ServerOK
      <3>2. DOMAIN v.shown = {}
        BY <2>1
      <3> QED
        BY <2>1, <3>1, <3>2 DEF ViewOK
    <2>3. view' = [view EXCEPT ![t] = v]
      BY <1>1 DEF Started
    <2> HIDE DEF v
    <2> QED
      BY <1>1, <2>1, <2>2, <2>3, ViewSet
  <1>2. CASE view[t].status # "absent"
    BY <1>2, ViewsSame DEF Started
  <1> QED
    BY <1>1, <1>2

\* A slot that is emptied or given a right request.
LEMMA RequestSet ==
    ASSUME Inv, UNCHANGED server, NEW s \in Slots, NEW r,
           r = Nothing \/ RequestOK(r, log, status),
           request' = [request EXCEPT ![s] = r]
    PROVE  /\ RequestsOK' /\ request'[s] = r
           /\ \A u \in Slots : u # s => request'[u] = request[u]
  <1>1. /\ request = [u \in Slots |-> request[u]]
        /\ \A u \in Slots :
             request[u] # Nothing => RequestOK(request[u], log, status)
    BY DEF Inv, RequestsOK
  <1>2. /\ request' = [u \in Slots |-> request'[u]] /\ request'[s] = r
        /\ \A u \in Slots : u # s => request'[u] = request[u]
    BY <1>1
  <1> QED
    BY <1>1, <1>2 DEF RequestsOK, server

\* A request that is asked is right.
LEMMA AskedOK ==
    ASSUME NEW r \in Request, r.pc = "asked",
           r.kind \in {"retry", "reconnect"} => r.turn \in Turns
    PROVE  RequestOK(r, log, status) /\ r # Nothing
  BY SomethingIs DEF RequestOK

\* The page's part of a step that the server takes no part in.
LEMMA PageSteps ==
    ASSUME Inv, UNCHANGED server, ViewsOK', RequestsOK', RestOK',
           ~retried' => Calm' /\ Followed'
    PROVE  Inv'
  BY DEF Inv, ServerOK, RunningRows, server

-----------------------------------------------------------------------------
(* How a page is calm.                                                       *)

\* No turn but the one that is shown as running has a row that runs.
OthersRest == \A t \in RunningViews : RunningRows \subseteq {t}

\* A calm page that waits has one request, and one that follows has none.
LEMMA CalmIs ==
    ASSUME Calm
    PROVE  /\ OthersRest
           /\ \A s \in Slots : request[s] # Nothing =>
                /\ Waiting(request[s])
                /\ \A u \in Slots : u # s => request[u] = Nothing
           /\ source # Nothing =>
                /\ \A s \in Slots : request[s] = Nothing
                /\ RunningViews = {source.turn} /\ loading = "loaded" /\ ~sending
           /\ loading = "loaded" /\ ~Busy =>
                source = Nothing /\ \A s \in Slots : request[s] = Nothing
           /\ loading = "failed" =>
                /\ source = Nothing /\ \A s \in Slots : request[s] = Nothing
                /\ RunningViews = {} /\ ~sending
  BY DEF Calm, Waiting, Busy, OthersRest

\* A page with one request is calm if that is a request it may wait for.
LEMMA CalmAlone ==
    ASSUME NEW s \in Slots, request'[s] # Nothing,
           \A u \in Slots : u # s => request'[u] = Nothing,
           Waiting(request[s])', OthersRest'
    PROVE  Calm'
  BY DEF Calm, OthersRest

\* A page without requests is calm if it follows what runs.
LEMMA CalmIdle ==
    ASSUME \A u \in Slots : request'[u] = Nothing, ~sending', loading' # "loading",
           source' = Nothing => RunningViews' = {},
           source' # Nothing => RunningViews' = {source'.turn} /\ loading' = "loaded",
           OthersRest'
    PROVE  Calm'
  BY DEF Calm, OthersRest

\* A turn that nobody touched is followed as it was.
LEMMA FollowedKept ==
    ASSUME Followed, UNCHANGED server, started \subseteq started',
           \A t \in RunningViews' \ resumed' :
              /\ t \in RunningViews \ resumed /\ view'[t] = view[t]
              /\ source' = Nothing \/ source' = source
    PROVE  Followed'
  BY DEF Followed, Complete, server

-----------------------------------------------------------------------------
(* Sending.                                                                  *)

\* send: a page that is not busy waits for nothing.
LEMMA SendKeeps == ASSUME Inv, NEW s \in Slots, Send(s) PROVE Inv'
  <1>1. /\ UNCHANGED server /\ UNCHANGED <<view, source, started, reads, loading>>
        /\ resumed' = resumed /\ retried' = retried /\ sending' = TRUE
        /\ loading = "loaded" /\ ~Busy
        /\ request' = [request EXCEPT ![s] = Asking("post", 0, FALSE, FALSE)]
    BY DEF Send, screen, history
  <1>2. PICK r \in Request :
          /\ r = Asking("post", 0, FALSE, FALSE)
          /\ RequestOK(r, log, status) /\ r # Nothing
          /\ r.kind = "post" /\ r.pc = "asked"
    <2> DEFINE r == Asking("post", 0, FALSE, FALSE)
    <2>1. r \in Request /\ r.kind = "post" /\ r.pc = "asked"
      BY Bounds DEF Asking, Request
    <2> HIDE DEF r
    <2> QED
      BY <2>1, AskedOK DEF r
  <1>3. /\ RequestsOK' /\ request'[s] = r
        /\ \A u \in Slots : u # s => request'[u] = request[u]
    BY <1>1, <1>2, RequestSet
  <1>4. ViewsOK' /\ RunningViews' = RunningViews
    BY <1>1, ViewsSame
  <1>5. RestOK'
    BY <1>1 DEF Inv, RestOK
  <1>6. ASSUME ~retried' PROVE Calm' /\ Followed'
    <2>1. Calm /\ Followed
      BY <1>1, <1>6 DEF Inv
    <2>2. RunningViews = {} /\ source = Nothing /\ \A u \in Slots : request[u] = Nothing
      BY <1>1, <2>1, CalmIs DEF Busy
    <2>3. Waiting(request[s])'
      BY <1>1, <1>2, <1>3, <1>4, <2>2 DEF Waiting
    <2>4. OthersRest' /\ Followed'
      BY <1>4, <2>2 DEF OthersRest, Followed
    <2> QED
      BY <1>2, <1>3, <2>2, <2>3, <2>4, CalmAlone
  <1> QED
    BY <1>1, <1>3, <1>4, <1>5, <1>6, PageSteps

\* post_turn refuses: nothing but the request changes.
LEMMA PostRefusedKeeps ==
    ASSUME Inv, NEW s \in Slots, Handles(s, "post", "asked"),
           request' = [request EXCEPT ![s].pc = "failed"], UNCHANGED server,
           UNCHANGED <<view, source, started, sending, reads, loading, resumed, retried>>
    PROVE  Inv'
  <1> DEFINE r == [request[s] EXCEPT !.pc = "failed"]
  <1>1. RequestOK(request[s], log, status) /\ request[s] \in Request
    BY DEF Handles, Inv, RequestsOK, RequestOK
  <1>2. /\ r \in Request /\ r.kind = "post" /\ r.pc = "failed"
    BY <1>1 DEF Handles, Request
  <1>3. RequestOK(r, log, status) /\ r # Nothing
    BY <1>2, SomethingIs DEF RequestOK
  <1>4. request' = [request EXCEPT ![s] = r]
    OBVIOUS
  <1> HIDE DEF r
  <1>5. /\ RequestsOK' /\ request'[s] = r
        /\ \A u \in Slots : u # s => request'[u] = request[u]
    BY <1>3, <1>4, RequestSet
  <1>6. ViewsOK' /\ RunningViews' = RunningViews
    BY ViewsSame
  <1>7. RestOK'
    BY DEF Inv, RestOK
  <1>8. ASSUME ~retried' PROVE Calm' /\ Followed'
    <2>1. Calm /\ Followed
      BY <1>8 DEF Inv
    <2>2. /\ Waiting(request[s]) /\ OthersRest
          /\ \A u \in Slots : u # s => request[u] = Nothing
      BY <2>1, CalmIs DEF Handles
    <2>3. Waiting(request[s])' /\ RunningViews = {}
      BY <1>2, <1>5, <1>6, <2>2 DEF Waiting, Handles
    <2>4. OthersRest' /\ Followed'
      BY <1>6, <2>3 DEF OthersRest, Followed
    <2> QED
      BY <1>3, <1>5, <2>2, <2>3, <2>4, CalmAlone
  <1> QED
    BY <1>5, <1>6, <1>7, <1>8, PageSteps

\* post_turn opens a turn, and its answer may be lost.
LEMMA PostOpensKeeps ==
    ASSUME Inv, NEW s \in Slots, Handles(s, "post", "asked"), NEW t \in Turns, Opens(t),
           \/ request' = [request EXCEPT ![s].pc = "answered", ![s].turn = t]
           \/ request' = [request EXCEPT ![s].pc = "failed"],
           UNCHANGED <<log, closed, waiting, view, source, started, sending, reads,
                       loading, resumed, retried>>
    PROVE  Inv'
  <1>1. /\ RunningRows = {} /\ status[t] = "none"
        /\ status' = [status EXCEPT ![t] = "running"]
        /\ status \in [Turns -> {"none", "running", "done", "failed"}]
    BY DEF Opens, Fresh, Inv, ServerOK
  <1>2. status'[t] = "running" /\ RunningRows' = {t}
    BY <1>1 DEF RunningRows
  <1>3. ServerOK /\ ServerOK'
    BY <1>1, <1>2 DEF Inv, ServerOK
  <1>4. Grows
    <2>1. \A u \in Turns : Len(log[u]) \in Nat
      BY <1>3 DEF ServerOK
    <2> QED
      BY <1>1, <2>1 DEF Grows
  <1>5. ViewsOK' /\ RunningViews' = RunningViews
    <2>1. ASSUME NEW u \in Turns PROVE ViewOK(view[u], log'[u], status'[u])
      BY <1>3, <1>4, ViewKept DEF Inv, ViewsOK
    <2> QED
      BY <2>1 DEF Inv, ViewsOK, RunningViews
  <1>6. request[s] # Nothing /\ request[s] \in Request /\ request[s].kind = "post"
    BY DEF Handles, Inv, RequestsOK, RequestOK
  <1>7. PICK r \in Request :
          /\ r.kind = "post" /\ (r.pc = "answered" => r.turn = t)
          /\ request' = [request EXCEPT ![s] = r]
    <2>1. CASE request' = [request EXCEPT ![s].pc = "failed"]
      <3>1. /\ [request[s] EXCEPT !.pc = "failed"] \in Request
            /\ [request[s] EXCEPT !.pc = "failed"].kind = "post"
            /\ [request[s] EXCEPT !.pc = "failed"].pc = "failed"
        BY <1>6 DEF Request
      <3> QED
        BY <2>1, <3>1
    <2>2. CASE request' = [request EXCEPT ![s].pc = "answered", ![s].turn = t]
      <3> DEFINE r == [request[s] EXCEPT !.pc = "answered", !.turn = t]
      <3>1. t \in 0 .. MaxTurns
        BY Bounds DEF Turns
      <3>2. r \in Request /\ r.kind = "post" /\ r.turn = t
        BY <1>6, <3>1 DEF Request
      <3>3. request' = [request EXCEPT ![s] = r]
        BY <2>2, <1>6 DEF Inv, RequestsOK
      <3> QED
        BY <3>2, <3>3
    <2> QED
      BY <2>1, <2>2
  <1>8. /\ request'[s] = r /\ r # Nothing
        /\ \A u \in Slots : u # s => request'[u] = request[u]
        /\ request' = [u \in Slots |-> request'[u]]
    BY <1>7, SomethingIs DEF Inv, RequestsOK
  <1>9. RequestsOK'
    <2>1. RequestOK(r, log', status')
      BY <1>2, <1>7 DEF RequestOK
    <2>2. ASSUME NEW u \in Slots, u # s, request[u] # Nothing
          PROVE  RequestOK(request[u], log', status')
      BY <1>3, <1>4, <2>2, RequestKept DEF Inv, RequestsOK
    <2> QED
      BY <1>8, <2>1, <2>2 DEF RequestsOK
  <1>10. RestOK'
    BY DEF Inv, RestOK
  <1>11. ASSUME ~retried' PROVE Calm' /\ Followed'
    <2>1. Calm /\ Followed
      BY <1>11 DEF Inv
    <2>2. /\ Waiting(request[s])
          /\ \A u \in Slots : u # s => request[u] = Nothing
      BY <1>6, <2>1, CalmIs
    <2>3. /\ source = Nothing /\ loading = "loaded" /\ sending /\ RunningViews = {}
      BY <1>6, <2>2 DEF Waiting
    <2>4. view[t].status = "absent"
      BY <1>1 DEF Inv, ViewsOK, ViewOK
    <2>5. Waiting(request[s])'
      BY <1>2, <1>5, <1>7, <1>8, <2>3, <2>4 DEF Waiting
    <2>6. OthersRest' /\ Followed'
      BY <1>5, <2>3 DEF OthersRest, Followed
    <2> QED
      BY <1>8, <2>2, <2>5, <2>6, CalmAlone
  <1> QED
    BY <1>3, <1>5, <1>9, <1>10, <1>11 DEF Inv

\* post_turn.
LEMMA PostServedKeeps == ASSUME Inv, NEW s \in Slots, PostServed(s) PROVE Inv'
  <1>1. /\ Handles(s, "post", "asked")
        /\ UNCHANGED <<log, closed, waiting, view, source, started, sending, reads,
                       loading, resumed, retried>>
    BY DEF PostServed, screen, history
  <1>2. \/ request' = [request EXCEPT ![s].pc = "failed"] /\ UNCHANGED status
        \/ \E t \in Turns :
             /\ Opens(t)
             /\ \/ request' = [request EXCEPT ![s].pc = "answered", ![s].turn = t]
                \/ request' = [request EXCEPT ![s].pc = "failed"]
    BY DEF PostServed
  <1>3. CASE request' = [request EXCEPT ![s].pc = "failed"] /\ UNCHANGED status
    <2>1. UNCHANGED server
      BY <1>1, <1>3 DEF server
    <2> QED
      BY <1>1, <1>3, <2>1, PostRefusedKeeps
  <1> QED
    BY <1>1, <1>2, <1>3, PostOpensKeeps

\* The then of send: the new turn is followed from its first frame.
LEMMA PostAnsweredKeeps == ASSUME Inv, NEW s \in Slots, PostAnswered(s) PROVE Inv'
  <1>1. /\ UNCHANGED server /\ UNCHANGED <<started, reads, loading>>
        /\ resumed' = resumed /\ retried' = retried /\ sending' = FALSE
        /\ request' = [request EXCEPT ![s] = Nothing]
        /\ source' = [turn |-> request[s].turn, at |-> 0]
        /\ view' = Started(request[s].turn)
        /\ request[s] # Nothing /\ request[s].kind = "post"
        /\ request[s].pc = "answered"
    BY DEF PostAnswered, Handles, Forgets, Attached, history
  <1>2. PICK t \in Turns : t = request[s].turn /\ status[t] # "none"
    BY <1>1 DEF Inv, RequestsOK, RequestOK
  <1>3. /\ RequestsOK' /\ request'[s] = Nothing
        /\ \A u \in Slots : u # s => request'[u] = request[u]
    BY <1>1, RequestSet
  <1>4. /\ ViewsOK'
        /\ view[t].status = "absent" =>
             /\ RunningViews' = RunningViews \cup {t}
             /\ view'[t].shown = <<>> /\ view'[t].last = 0
    BY <1>1, <1>2, StartedOK
  <1>5. source' \in [turn : Turns, at : 0 .. MaxFrames] /\ source' # Nothing
    BY <1>1, <1>2, Bounds, SomethingIs
  <1>6. RestOK'
    BY <1>1, <1>5 DEF Inv, RestOK
  <1>7. ASSUME ~retried' PROVE Calm' /\ Followed'
    <2>1. Calm /\ Followed
      BY <1>1, <1>7 DEF Inv
    <2>2. /\ Waiting(request[s])
          /\ \A u \in Slots : u # s => request[u] = Nothing
      BY <1>1, <2>1, CalmIs
    <2>3. /\ loading = "loaded" /\ RunningViews = {}
          /\ view[t].status = "absent" /\ RunningRows \subseteq {t}
      BY <1>1, <1>2, <2>2 DEF Waiting
    <2>4. RunningViews' = {t} /\ source'.turn = t /\ source'.at = 0
      BY <1>1, <1>2, <1>4, <2>3
    <2>5. OthersRest'
      BY <1>1, <2>3, <2>4 DEF OthersRest, RunningRows, server
    <2>6. Followed'
      <3>1. <<>> = [i \in 1 .. 0 |-> i]
        OBVIOUS
      <3>2. Complete(t)'
        BY <1>4, <2>3, <2>4, <3>1 DEF Complete
      <3> QED
        BY <2>4, <3>2 DEF Followed
    <2> QED
      BY <1>1, <1>3, <1>5, <2>2, <2>3, <2>4, <2>5, <2>6, CalmIdle
  <1> QED
    BY <1>1, <1>3, <1>4, <1>6, <1>7, PageSteps

\* The catch of send.
LEMMA PostFailedKeeps == ASSUME Inv, NEW s \in Slots, PostFailed(s) PROVE Inv'
  <1>1. /\ UNCHANGED server /\ UNCHANGED <<view, source, started, reads, loading>>
        /\ resumed' = resumed /\ retried' = retried /\ sending' = FALSE
        /\ request' = [request EXCEPT ![s] = Nothing]
        /\ request[s] # Nothing /\ request[s].kind = "post"
    BY DEF PostFailed, Handles, Forgets, screen, history
  <1>2. /\ RequestsOK' /\ request'[s] = Nothing
        /\ \A u \in Slots : u # s => request'[u] = request[u]
    BY <1>1, RequestSet
  <1>3. ViewsOK' /\ RunningViews' = RunningViews
    BY <1>1, ViewsSame
  <1>4. RestOK'
    BY <1>1 DEF Inv, RestOK
  <1>5. ASSUME ~retried' PROVE Calm' /\ Followed'
    <2>1. Calm /\ Followed
      BY <1>1, <1>5 DEF Inv
    <2>2. /\ Waiting(request[s])
          /\ \A u \in Slots : u # s => request[u] = Nothing
      BY <1>1, <2>1, CalmIs
    <2>3. loading = "loaded" /\ RunningViews = {} /\ source = Nothing
      BY <1>1, <2>2 DEF Waiting
    <2>4. OthersRest' /\ Followed'
      BY <1>3, <2>3 DEF OthersRest, Followed
    <2> QED
      BY <1>1, <1>2, <1>3, <2>2, <2>3, <2>4, CalmIdle
  <1> QED
    BY <1>1, <1>2, <1>3, <1>4, <1>5, PageSteps

-----------------------------------------------------------------------------
(* The stream.                                                               *)

\* A turn followed from its first frame stays complete by the frame that comes
\* next, and by a frame it has passed.
LEMMA NextFrame ==
    ASSUME Inv, UNCHANGED <<log, resumed>>, NEW t \in RunningViews \ resumed, Complete(t),
           source # Nothing, source.turn = t, source.at < Len(log[t]),
           view' = Applied(t, source.at + 1), Takes(t, source.at + 1),
           source' = [source EXCEPT !.at = source.at + 1]
    PROVE  Complete(t)'
  <1> DEFINE next == source.at + 1
             v == view[t]
  <1>1. /\ source \in [turn : Turns, at : 0 .. MaxFrames] /\ source.at \in Nat
        /\ v.last \in Nat /\ source.at <= v.last
        /\ v.shown = [i \in 1 .. v.last |-> i]
        /\ \A i \in 1 .. v.last : log[t][i] = "ask" => <<t, i>> \in started
        /\ v \in TurnView /\ v.status = "running"
        /\ view = [u \in Turns |-> view[u]] /\ t \in Turns
    BY DEF Inv, RestOK, ViewsOK, ViewOK, TurnView, RunningViews, Complete
  <1>2. started \subseteq started' /\ (log[t][next] = "ask" => <<t, next>> \in started')
    BY DEF Takes
  <1>3. source'.at = next /\ source'.turn = t
    BY <1>1
  <1>4. CASE next <= v.last
    <2>1. view' = view
      BY <1>1, <1>4 DEF Applied, IsAfter
    <2> QED
      BY <1>1, <1>2, <1>3, <1>4, <2>1 DEF Complete
  <1>5. CASE ~(next <= v.last)
    <2>1. next = v.last + 1 /\ v.last < next
      BY <1>1, <1>5
    <2>2. view'[t] = [v EXCEPT !.last = next, !.shown = Append(@, next)]
      BY <1>1, <2>1 DEF Applied, IsAfter
    <2>3. view'[t].last = v.last + 1 /\ view'[t].shown = Append(v.shown, v.last + 1)
      BY <1>1, <2>1, <2>2 DEF TurnView
    <2>4. view'[t].shown = [i \in 1 .. view'[t].last |-> i]
      BY <1>1, <2>3, CountUp
    <2>5. ASSUME NEW i \in 1 .. v.last + 1, log'[t][i] = "ask" PROVE <<t, i>> \in started'
      <3>1. i \in 1 .. v.last \/ i = next
        BY <1>1, <2>1
      <3> QED
        BY <1>1, <1>2, <2>5, <3>1
    <2> QED
      BY <1>1, <1>3, <2>1, <2>3, <2>4, <2>5 DEF Complete
  <1> QED
    BY <1>4, <1>5

\* onFrame with the next frame of the log.
LEMMA DeliverKeeps == ASSUME Inv, Deliver PROVE Inv'
  <1>1. PICK t \in Turns : t = source.turn
    BY DEF Deliver, Inv, RestOK
  <1> DEFINE next == source.at + 1
  <1>2. /\ UNCHANGED server /\ UNCHANGED <<sending, request, reads, loading>>
        /\ resumed' = resumed /\ retried' = retried
        /\ source # Nothing /\ source.at < Len(log[t])
        /\ view' = Applied(t, next) /\ Takes(t, next)
        /\ source' = [source EXCEPT !.at = next]
    BY <1>1 DEF Deliver, history
  <1>3. /\ source \in [turn : Turns, at : 0 .. MaxFrames] /\ source.at \in Nat
        /\ next \in Places /\ next <= Len(log[t])
    <2>1. Len(log[t]) \in Nat /\ Len(log[t]) <= MaxFrames
      BY DEF Inv, ServerOK
    <2>2. source \in [turn : Turns, at : 0 .. MaxFrames]
      BY <1>2 DEF Inv, RestOK
    <2> QED
      BY <1>2, <2>1, <2>2, Bounds DEF Places
  <1>4. ViewsOK' /\ RunningViews' = RunningViews
    BY <1>2, <1>3, AppliedOK
  <1>5. /\ source' \in [turn : Turns, at : 0 .. MaxFrames] /\ source'.turn = t
        /\ source' # Nothing
    <2>1. next \in 0 .. MaxFrames
      BY <1>3 DEF Places
    <2>2. source' = [turn |-> t, at |-> next]
      BY <1>1, <1>2, <1>3
    <2> QED
      BY <2>1, <2>2, SomethingIs
  <1>6. started \subseteq started' /\ started' \subseteq Calls
    BY <1>2, <1>3 DEF Takes, Calls, Inv, RestOK
  <1>7. RestOK'
    BY <1>2, <1>5, <1>6 DEF Inv, RestOK
  <1>8. RequestsOK'
    BY <1>2 DEF Inv, RequestsOK, server
  <1>9. ASSUME ~retried' PROVE Calm' /\ Followed'
    <2>1. Calm /\ Followed
      BY <1>2, <1>9 DEF Inv
    <2>2. /\ \A s \in Slots : request[s] = Nothing
          /\ RunningViews = {t} /\ loading = "loaded" /\ ~sending /\ OthersRest
      BY <1>1, <1>2, <2>1, CalmIs
    <2>3. OthersRest'
      BY <1>2, <1>4, <2>2 DEF OthersRest, RunningRows, server
    <2>4. Calm'
      BY <1>2, <1>4, <1>5, <2>2, <2>3, CalmIdle
    <2>5. ASSUME t \notin resumed PROVE Complete(t)'
      <3>1. t \in RunningViews \ resumed /\ Complete(t)
        BY <2>1, <2>2, <2>5 DEF Followed
      <3>2. UNCHANGED <<log, resumed>>
        BY <1>2 DEF server
      <3> QED
        BY <1>1, <1>2, <3>1, <3>2, NextFrame
    <2>6. Followed'
      BY <1>2, <1>4, <2>2, <2>5 DEF Followed
    <2> QED
      BY <2>4, <2>6
  <1> HIDE DEF next
  <1> QED
    BY <1>2, <1>4, <1>7, <1>8, <1>9, PageSteps

\* The stream ends with the turn, or with what the page takes for its end.
LEMMA StreamEndKeeps == ASSUME Inv, DeliverEnd \/ Broken \/ Invalid PROVE Inv'
  <1>1. /\ UNCHANGED server /\ UNCHANGED <<started, sending, request, reads, loading>>
        /\ resumed' = resumed /\ retried' = retried
        /\ source # Nothing /\ source' = Nothing
    BY DEF DeliverEnd, Broken, Invalid, history
  <1>2. PICK t \in Turns : t = source.turn
    BY <1>1 DEF Inv, RestOK
  <1>3. \/ view' = Lost(t) \/ view' = Condemned(t)
        \/ t \in closed /\ view' = Ended(t, status[t])
    BY <1>2 DEF DeliverEnd, Broken, Invalid
  <1>4. ViewsOK' /\ RunningViews' = RunningViews \ {t}
    BY <1>1, <1>3, OverOK
  <1>5. RestOK' /\ RequestsOK'
    BY <1>1 DEF Inv, RestOK, RequestsOK, server
  <1>6. ASSUME ~retried' PROVE Calm' /\ Followed'
    <2>1. Calm
      BY <1>1, <1>6 DEF Inv
    <2>2. /\ \A s \in Slots : request[s] = Nothing
          /\ RunningViews = {t} /\ loading = "loaded" /\ ~sending
      BY <1>1, <1>2, <2>1, CalmIs
    <2>3. RunningViews' = {}
      BY <1>4, <2>2
    <2>4. OthersRest' /\ Followed'
      BY <2>3 DEF OthersRest, Followed
    <2> QED
      BY <1>1, <2>2, <2>3, <2>4, CalmIdle
  <1> QED
    BY <1>1, <1>4, <1>5, <1>6, PageSteps

\* onDisconnected asks the server what became of the turn it followed.
LEMMA DisconnectedKeeps == ASSUME Inv, NEW s \in Slots, Disconnected(s) PROVE Inv'
  <1>1. /\ UNCHANGED server /\ UNCHANGED <<view, started, sending, loading>>
        /\ resumed' = resumed /\ retried' = retried
        /\ source # Nothing /\ source' = Nothing
        /\ reads' = reads + 1 /\ reads < MaxReads
        /\ request' = [request EXCEPT ![s] =
                         Asking("reconnect", source.turn, Busy, FALSE)]
    BY DEF Disconnected, Reads, history
  <1>2. PICK t \in Turns : t = source.turn
    BY <1>1 DEF Inv, RestOK
  <1>3. PICK r \in Request :
          /\ r = Asking("reconnect", source.turn, Busy, FALSE)
          /\ RequestOK(r, log, status) /\ r # Nothing
          /\ r.kind = "reconnect" /\ r.pc = "asked" /\ r.turn = t
    <2> DEFINE r == Asking("reconnect", source.turn, Busy, FALSE)
    <2>1. t \in 0 .. MaxTurns /\ Busy \in BOOLEAN
      BY Bounds DEF Turns, Busy, Inv, RestOK
    <2>2. r \in Request /\ r.kind = "reconnect" /\ r.pc = "asked" /\ r.turn = t
      BY <1>2, <2>1 DEF Asking, Request
    <2> HIDE DEF r
    <2> QED
      BY <2>2, AskedOK DEF r
  <1>4. /\ RequestsOK' /\ request'[s] = r
        /\ \A u \in Slots : u # s => request'[u] = request[u]
    BY <1>1, <1>3, RequestSet
  <1>5. ViewsOK' /\ RunningViews' = RunningViews
    BY <1>1, ViewsSame
  <1>6. RestOK'
    BY <1>1, Bounds DEF Inv, RestOK
  <1>7. ASSUME ~retried' PROVE Calm' /\ Followed'
    <2>1. Calm /\ Followed
      BY <1>1, <1>7 DEF Inv
    <2>2. /\ \A u \in Slots : request[u] = Nothing
          /\ RunningViews = {t} /\ loading = "loaded" /\ ~sending /\ OthersRest
      BY <1>1, <1>2, <2>1, CalmIs
    <2>3. Waiting(request[s])'
      BY <1>1, <1>3, <1>4, <1>5, <2>2 DEF Waiting
    <2>4. OthersRest'
      BY <1>1, <1>5, <2>2 DEF OthersRest, RunningRows, server
    <2>5. Followed'
      BY <1>1, <1>5, <2>1, FollowedKept
    <2> QED
      BY <1>3, <1>4, <2>2, <2>3, <2>4, <2>5, CalmAlone
  <1> QED
    BY <1>1, <1>4, <1>5, <1>6, <1>7, PageSteps

-----------------------------------------------------------------------------
(* Reading the thread.                                                       *)

\* What get_thread answers is true, and says of the turns that run that they do.
LEMMA DetailNowOK ==
    ASSUME Inv
    PROVE  DetailOK(DetailNow, log, status) /\ RunningIn(DetailNow) = RunningRows
  <1>1. ASSUME NEW t \in Turns
        PROVE  /\ DetailNow[t] \in Stored /\ DetailNow[t].status = status[t]
               /\ DetailNow[t].last <= Len(log[t])
               /\ DetailNow[t].status = "running" => DetailNow[t].size = 0
    <2>1. /\ Len(log[t]) \in 0 .. MaxFrames /\ Len(log[t]) \in 0 .. MaxFrames + 1
          /\ 0 \in 0 .. MaxFrames /\ 0 \in 0 .. MaxFrames + 1
          /\ status[t] \in {"none", "running", "done", "failed"}
      BY Bounds DEF Inv, ServerOK
    <2> QED
      BY <2>1 DEF DetailNow, Stored
  <1>2. DetailNow \in Detail
    BY <1>1 DEF DetailNow, Detail
  <1>3. RunningIn(DetailNow) = RunningRows
    BY <1>1 DEF RunningIn, RunningRows
  <1> QED
    BY <1>1, <1>2, <1>3 DEF DetailOK, Inv, ServerOK

\* getThread is answered, or fails.
LEMMA ReadServedKeeps == ASSUME Inv, NEW s \in Slots, ReadServed(s) PROVE Inv'
  <1>1. /\ UNCHANGED server
        /\ UNCHANGED <<view, source, started, sending, reads, loading>>
        /\ resumed' = resumed /\ retried' = retried
        /\ request[s] # Nothing /\ request[s].kind # "post" /\ request[s].pc = "asked"
    BY DEF ReadServed, screen, history
  <1>2. request[s] \in Request /\ RequestOK(request[s], log, status)
    BY <1>1 DEF Inv, RequestsOK, RequestOK
  <1>3. PICK r \in Request :
          /\ request' = [request EXCEPT ![s] = r]
          /\ r.kind = request[s].kind /\ r.turn = request[s].turn
          /\ r.pc \in {"answered", "failed"}
          /\ r.pc = "answered" => r.detail = DetailNow
    <2>1. CASE request' = [request EXCEPT ![s].pc = "failed"]
      <3> DEFINE r == [request[s] EXCEPT !.pc = "failed"]
      <3>1. /\ r \in Request /\ r.pc = "failed"
            /\ r.kind = request[s].kind /\ r.turn = request[s].turn
        BY <1>2 DEF Request
      <3> QED
        BY <2>1, <3>1
    <2>2. CASE request' = [request EXCEPT ![s].pc = "answered", ![s].detail = DetailNow]
      <3> DEFINE r == [request[s] EXCEPT !.pc = "answered", !.detail = DetailNow]
      <3>1. DetailNow \in Detail
        BY DetailNowOK DEF DetailOK
      <3>2. /\ r \in Request /\ r.pc = "answered" /\ r.detail = DetailNow
            /\ r.kind = request[s].kind /\ r.turn = request[s].turn
        BY <1>2, <3>1 DEF Request
      <3>3. request' = [request EXCEPT ![s] = r]
        BY <2>2 DEF Inv, RequestsOK
      <3> QED
        BY <3>2, <3>3
    <2> QED
      BY <2>1, <2>2 DEF ReadServed
  <1>4. RequestOK(r, log, status) /\ r # Nothing
    BY <1>1, <1>2, <1>3, DetailNowOK, SomethingIs DEF RequestOK
  <1>5. /\ RequestsOK' /\ request'[s] = r
        /\ \A u \in Slots : u # s => request'[u] = request[u]
    BY <1>1, <1>3, <1>4, RequestSet
  <1>6. ViewsOK' /\ RunningViews' = RunningViews
    BY <1>1, ViewsSame
  <1>7. RestOK'
    BY <1>1 DEF Inv, RestOK
  <1>8. ASSUME ~retried' PROVE Calm' /\ Followed'
    <2>1. Calm /\ Followed
      BY <1>1, <1>8 DEF Inv
    <2>2. /\ Waiting(request[s]) /\ OthersRest
          /\ \A u \in Slots : u # s => request[u] = Nothing
      BY <1>1, <2>1, CalmIs
    <2>3. RunningRows' = RunningRows
      BY <1>1 DEF RunningRows, server
    <2>4. r.pc = "answered" => RunningIn(r.detail) = RunningRows
      BY <1>3, DetailNowOK
    <2>5. Waiting(request[s])'
      <3>1. r.kind = "reconnect" => RunningRows \subseteq {r.turn}
        BY <1>3, <2>2 DEF Waiting, OthersRest
      <3> QED
        BY <1>1, <1>3, <1>5, <1>6, <2>2, <2>3, <2>4, <3>1 DEF Waiting
    <2>6. OthersRest'
      BY <1>6, <2>2, <2>3 DEF OthersRest
    <2>7. Followed'
      BY <1>1, <1>6, <2>1, FollowedKept
    <2> QED
      BY <1>4, <1>5, <2>2, <2>5, <2>6, <2>7, CalmAlone
  <1> QED
    BY <1>1, <1>5, <1>6, <1>7, <1>8, PageSteps

\* resync: the page runs what the answer says runs, and follows it from there.
LEMMA ResyncedOK ==
    ASSUME Inv, UNCHANGED server, NEW d, DetailOK(d, log, status), Resynced(d)
    PROVE  /\ ViewsOK' /\ RunningViews' = RunningIn(d)
           /\ source' \in [turn : Turns, at : 0 .. MaxFrames] \cup {Nothing}
           /\ resumed' \subseteq Turns
           /\ RunningIn(d) \ resumed' = {}
           /\ IF RunningIn(d) = {} THEN source' = source
                                   ELSE source' # Nothing /\ RunningIn(d) = {source'.turn}
  <1>1. ViewsOK' /\ RunningViews' = RunningIn(d)
    BY FromDetailOK DEF Resynced
  <1>2. CASE RunningIn(d) = {}
    BY <1>1, <1>2 DEF Resynced, Inv, RestOK
  <1>3. CASE RunningIn(d) # {}
    <2>1. PICK t \in RunningIn(d) :
            source' = [turn |-> t, at |-> d[t].last] /\ resumed' = resumed \cup {t}
      BY <1>3 DEF Resynced, Attached
    <2>2. t \in Turns /\ RunningIn(d) = {t}
      BY DEF DetailOK, RunningIn
    <2>3. d[t].last \in 0 .. MaxFrames
      <3>1. d[t].last \in Nat
        BY <2>2 DEF DetailOK, Detail, Stored
      <3>2. d[t].last <= Len(log[t]) /\ Len(log[t]) <= MaxFrames /\ Len(log[t]) \in Nat
        BY <2>2 DEF DetailOK, Inv, ServerOK
      <3> QED
        BY <3>1, <3>2, Bounds
    <2>4. source' # Nothing /\ source'.turn = t
      BY <2>1, <2>2, <2>3, SomethingIs
    <2> QED
      BY <1>1, <1>3, <2>1, <2>2, <2>3, <2>4 DEF Inv, RestOK
  <1> QED
    BY <1>2, <1>3

\* A read that was answered is forgotten with what it said taken over.
LEMMA LoadedKeeps == ASSUME Inv, NEW s \in Slots, Loaded(s) PROVE Inv'
  <1>1. /\ UNCHANGED server /\ UNCHANGED <<started, sending, reads, retried>>
        /\ loading' = "loaded" /\ Resynced(request[s].detail)
        /\ request' = [request EXCEPT ![s] = Nothing]
        /\ request[s] # Nothing /\ request[s].kind = "load"
        /\ request[s].pc = "answered"
    BY DEF Loaded, Handles, Forgets
  <1>2. PICK d : d = request[s].detail /\ DetailOK(d, log, status)
    BY <1>1 DEF Inv, RequestsOK, RequestOK
  <1>3. /\ ViewsOK' /\ RunningViews' = RunningIn(d)
        /\ source' \in [turn : Turns, at : 0 .. MaxFrames] \cup {Nothing}
        /\ resumed' \subseteq Turns
        /\ RunningIn(d) \ resumed' = {}
        /\ RunningIn(d) = {} => source' = source
        /\ RunningIn(d) # {} => source' # Nothing /\ RunningIn(d) = {source'.turn}
    BY <1>1, <1>2, ResyncedOK
  <1>4. /\ RequestsOK' /\ request'[s] = Nothing
        /\ \A u \in Slots : u # s => request'[u] = request[u]
    BY <1>1, RequestSet
  <1>5. RestOK'
    BY <1>1, <1>3 DEF Inv, RestOK
  <1>6. ASSUME ~retried' PROVE Calm' /\ Followed'
    <2>1. Calm
      BY <1>1, <1>6 DEF Inv
    <2>2. /\ Waiting(request[s])
          /\ \A u \in Slots : u # s => request[u] = Nothing
      BY <1>1, <2>1, CalmIs
    <2>3. ~sending /\ source = Nothing /\ RunningRows \subseteq RunningIn(d)
      BY <1>1, <1>2, <2>2 DEF Waiting
    <2>4. OthersRest'
      BY <1>1, <1>3, <2>3 DEF OthersRest, RunningRows, server
    <2>5. Followed'
      BY <1>3 DEF Followed
    <2> QED
      BY <1>1, <1>3, <1>4, <2>2, <2>3, <2>4, <2>5, CalmIdle
  <1> QED
    BY <1>1, <1>3, <1>4, <1>5, <1>6, PageSteps

\* The then of retry: only a page whose Retry was clicked comes here.
LEMMA RetriedKeeps == ASSUME Inv, NEW s \in Slots, Retried(s) PROVE Inv'
  <1>1. /\ UNCHANGED server /\ UNCHANGED <<started, reads, loading, retried>>
        /\ Resynced(request[s].detail)
        /\ request[s] # Nothing /\ request[s].kind = "retry"
        /\ request[s].pc = "answered"
    BY DEF Retried, Handles
  <1>2. /\ sending' \in BOOLEAN
        /\ \/ request' = [request EXCEPT ![s] = Nothing]
           \/ request' = [request EXCEPT ![s] = Asking("post", 0, FALSE, FALSE)]
    BY DEF Retried, Forgets, Inv, RestOK
  <1>3. /\ ViewsOK' /\ resumed' \subseteq Turns
        /\ source' \in [turn : Turns, at : 0 .. MaxFrames] \cup {Nothing}
    BY <1>1, ResyncedOK DEF Inv, RequestsOK, RequestOK
  <1>4. RequestOK(Asking("post", 0, FALSE, FALSE), log, status)
    <2> DEFINE r == Asking("post", 0, FALSE, FALSE)
    <2>1. r \in Request /\ r.kind = "post" /\ r.pc = "asked"
      BY Bounds DEF Asking, Request
    <2> HIDE DEF r
    <2>2. RequestOK(r, log, status)
      BY <2>1, AskedOK
    <2> QED
      BY <2>2 DEF r
  <1>5. RequestsOK'
    BY <1>1, <1>2, <1>4, RequestSet
  <1>6. RestOK'
    BY <1>1, <1>2, <1>3 DEF Inv, RestOK
  <1>7. retried'
    BY <1>1, CalmIs DEF Inv, Waiting, RestOK
  <1> QED
    BY <1>1, <1>3, <1>5, <1>6, <1>7, PageSteps

\* The then of reconnect: a turn that runs is followed from the end of its log,
\* and any other answer replaces what the page shows.
LEMMA ReconnectedKeeps == ASSUME Inv, NEW s \in Slots, Reconnected(s) PROVE Inv'
  <1>1. /\ UNCHANGED server /\ UNCHANGED <<started, sending, reads, loading, retried>>
        /\ request' = [request EXCEPT ![s] = Nothing]
        /\ request[s] # Nothing /\ request[s].kind = "reconnect"
        /\ request[s].pc = "answered"
    BY DEF Reconnected, Handles, Forgets
  <1>2. PICK t \in Turns : t = request[s].turn
    BY <1>1 DEF Inv, RequestsOK, RequestOK
  <1>3. PICK d : d = request[s].detail /\ DetailOK(d, log, status)
    BY <1>1 DEF Inv, RequestsOK, RequestOK
  <1>4. /\ RequestsOK' /\ request'[s] = Nothing
        /\ \A u \in Slots : u # s => request'[u] = request[u]
    BY <1>1, RequestSet
  <1>5. ASSUME ~retried'
        PROVE  /\ Followed /\ source = Nothing /\ loading = "loaded" /\ ~sending
               /\ RunningViews = {t} /\ RunningIn(d) \subseteq {t}
               /\ RunningRows \subseteq RunningIn(d)
               /\ \A u \in Slots : request'[u] = Nothing
    <2>1. Calm /\ Followed
      BY <1>1, <1>5 DEF Inv
    <2>2. /\ Waiting(request[s])
          /\ \A u \in Slots : u # s => request[u] = Nothing
      BY <1>1, <2>1, CalmIs
    <2> QED
      BY <1>1, <1>2, <1>3, <1>4, <2>1, <2>2 DEF Waiting
  <1>6. CASE d[t].status = "running"
    <2>1. /\ source' = [turn |-> t, at |-> d[t].last] /\ resumed' = resumed \cup {t}
          /\ view' = view
      BY <1>2, <1>3, <1>6 DEF Reconnected, Attached
    <2>2. d[t].last \in 0 .. MaxFrames
      <3>1. d[t].last \in Nat
        BY <1>2, <1>3 DEF DetailOK, Detail, Stored
      <3>2. d[t].last <= Len(log[t]) /\ Len(log[t]) <= MaxFrames /\ Len(log[t]) \in Nat
        BY <1>2, <1>3 DEF DetailOK, Inv, ServerOK
      <3> QED
        BY <3>1, <3>2, Bounds
    <2>3. source' # Nothing /\ source'.turn = t
      BY <2>1, <2>2, SomethingIs
    <2>4. ViewsOK' /\ RunningViews' = RunningViews
      BY <1>1, <2>1, ViewsSame
    <2>5. RestOK'
      BY <1>1, <2>1, <2>2 DEF Inv, RestOK
    <2>6. ASSUME ~retried' PROVE Calm' /\ Followed'
      <3>1. OthersRest'
        BY <1>1, <1>5, <2>4, <2>6 DEF OthersRest, RunningRows, server
      <3>2. Followed'
        BY <1>5, <2>1, <2>4, <2>6 DEF Followed
      <3> QED
        BY <1>1, <1>5, <2>3, <2>4, <2>6, <3>1, <3>2, CalmIdle
    <2> QED
      BY <1>1, <1>4, <2>4, <2>5, <2>6, PageSteps
  <1>7. CASE d[t].status # "running"
    <2>1. view' = FromDetail(d) /\ source' = source /\ resumed' = resumed
      BY <1>2, <1>3, <1>7 DEF Reconnected
    <2>2. ViewsOK' /\ RunningViews' = RunningIn(d)
      BY <1>1, <1>2, <1>3, <2>1, FromDetailOK
    <2>3. RestOK'
      BY <1>1, <2>1 DEF Inv, RestOK
    <2>4. ASSUME ~retried' PROVE Calm' /\ Followed'
      <3>1. RunningViews' = {}
        BY <1>5, <1>7, <2>2, <2>4 DEF RunningIn
      <3>2. OthersRest' /\ Followed'
        BY <3>1 DEF OthersRest, Followed
      <3> QED
        BY <1>1, <1>5, <2>1, <2>4, <3>1, <3>2, CalmIdle
    <2> QED
      BY <1>1, <1>4, <2>2, <2>3, <2>4, PageSteps
  <1> QED
    BY <1>6, <1>7

\* A read that fails: the turn that was to be followed again is given up.
LEMMA ReadFailedKeeps == ASSUME Inv, NEW s \in Slots, ReadFailed(s) PROVE Inv'
  <1>1. /\ UNCHANGED server /\ UNCHANGED <<source, started, sending, reads>>
        /\ resumed' = resumed /\ retried' = retried
        /\ request' = [request EXCEPT ![s] = Nothing]
        /\ request[s] # Nothing /\ request[s].kind # "post"
        /\ loading' = IF request[s].kind = "load" THEN "failed" ELSE loading
        /\ view' = IF request[s].kind = "reconnect" THEN Lost(request[s].turn) ELSE view
    BY DEF ReadFailed, Forgets, history
  <1>2. request[s].kind = "reconnect" => request[s].turn \in Turns
    BY <1>1 DEF Inv, RequestsOK, RequestOK
  <1>3. /\ RequestsOK' /\ request'[s] = Nothing
        /\ \A u \in Slots : u # s => request'[u] = request[u]
    BY <1>1, RequestSet
  <1>4. /\ ViewsOK'
        /\ RunningViews' = IF request[s].kind = "reconnect"
                           THEN RunningViews \ {request[s].turn} ELSE RunningViews
    <2>1. CASE request[s].kind = "reconnect"
      <3>1. PICK t \in Turns : t = request[s].turn
        BY <1>2, <2>1
      <3>2. view' = Lost(t)
        BY <1>1, <2>1, <3>1
      <3> QED
        BY <1>1, <2>1, <3>1, <3>2, OverOK
    <2>2. CASE request[s].kind # "reconnect"
      BY <1>1, <2>2, ViewsSame
    <2> QED
      BY <2>1, <2>2
  <1>5. RestOK'
    BY <1>1 DEF Inv, RestOK
  <1>6. ASSUME ~retried' PROVE Calm' /\ Followed'
    <2>1. Calm /\ Followed
      BY <1>1, <1>6 DEF Inv
    <2>2. /\ Waiting(request[s])
          /\ \A u \in Slots : u # s => request[u] = Nothing
      BY <1>1, <2>1, CalmIs
    <2>3. source = Nothing /\ ~sending /\ RunningViews' = {} /\ loading' # "loading"
      BY <1>1, <1>4, <2>2 DEF Waiting
    <2>4. OthersRest' /\ Followed'
      BY <2>3 DEF OthersRest, Followed
    <2> QED
      BY <1>1, <1>3, <2>2, <2>3, <2>4, CalmIdle
  <1> QED
    BY <1>1, <1>3, <1>4, <1>5, <1>6, PageSteps

\* The Retry button.
LEMMA RetryKeeps == ASSUME Inv, NEW s \in Slots, Retry(s) PROVE Inv'
  <1>1. /\ UNCHANGED server /\ UNCHANGED <<view, source, started, sending, loading>>
        /\ resumed' = resumed /\ retried' = TRUE
        /\ reads' = reads + 1 /\ reads < MaxReads /\ Shown # {}
        /\ request' = [request EXCEPT ![s] =
                         Asking("retry", LastShown, Busy, view[LastShown].lost)]
    BY DEF Retry, Reads, screen
  <1>2. PICK t \in Turns : t = LastShown
    BY <1>1, LastShownIs
  <1>3. RequestOK(Asking("retry", LastShown, Busy, view[LastShown].lost), log, status)
    <2> DEFINE r == Asking("retry", t, Busy, view[t].lost)
    <2>1. t \in 0 .. MaxTurns /\ Busy \in BOOLEAN /\ view[t].lost \in BOOLEAN
      BY Bounds DEF Turns, Busy, Inv, RestOK, ViewsOK, ViewOK, TurnView
    <2>2. r \in Request /\ r.kind = "retry" /\ r.pc = "asked" /\ r.turn = t
      BY <2>1 DEF Asking, Request
    <2> HIDE DEF r
    <2>3. RequestOK(r, log, status)
      BY <2>2, AskedOK
    <2> QED
      BY <1>2, <2>3 DEF r
  <1>4. RequestsOK'
    BY <1>1, <1>3, RequestSet
  <1>5. ViewsOK'
    BY <1>1, ViewsSame
  <1>6. RestOK'
    BY <1>1, Bounds DEF Inv, RestOK
  <1> QED
    BY <1>1, <1>4, <1>5, <1>6, PageSteps

\* A request that loads the conversation.
LEMMA LoadIs ==
    ASSUME NEW busy \in BOOLEAN
    PROVE  /\ Asking("load", 0, busy, FALSE) # Nothing
           /\ RequestOK(Asking("load", 0, busy, FALSE), log, status)
           /\ Asking("load", 0, busy, FALSE).kind = "load"
           /\ Asking("load", 0, busy, FALSE).pc = "asked"
  <1> DEFINE r == Asking("load", 0, busy, FALSE)
  <1>1. r \in Request /\ r.kind = "load" /\ r.pc = "asked"
    BY Bounds DEF Asking, Request
  <1> HIDE DEF r
  <1>2. RequestOK(r, log, status) /\ r # Nothing
    BY <1>1, AskedOK
  <1> QED
    BY <1>1, <1>2 DEF r

\* reload, when the conversation could not be loaded.
LEMMA ReloadKeeps == ASSUME Inv, NEW s \in Slots, Reload(s) PROVE Inv'
  <1>1. /\ UNCHANGED server /\ UNCHANGED <<view, source, started, sending>>
        /\ resumed' = resumed /\ retried' = retried
        /\ loading = "failed" /\ loading' = "loading"
        /\ reads' = reads + 1 /\ reads < MaxReads
        /\ request' = [request EXCEPT ![s] = Asking("load", 0, Busy, FALSE)]
    BY DEF Reload, Reads, screen, history
  <1>2. PICK r :
          /\ r = Asking("load", 0, Busy, FALSE)
          /\ RequestOK(r, log, status) /\ r # Nothing
          /\ r.kind = "load" /\ r.pc = "asked"
    <2>1. Busy \in BOOLEAN
      BY DEF Busy, Inv, RestOK
    <2> QED
      BY <2>1, LoadIs
  <1>3. /\ RequestsOK' /\ request'[s] = r
        /\ \A u \in Slots : u # s => request'[u] = request[u]
    BY <1>1, <1>2, RequestSet
  <1>4. ViewsOK' /\ RunningViews' = RunningViews
    BY <1>1, ViewsSame
  <1>5. RestOK'
    BY <1>1, Bounds DEF Inv, RestOK
  <1>6. ASSUME ~retried' PROVE Calm' /\ Followed'
    <2>1. Calm /\ Followed
      BY <1>1, <1>6 DEF Inv
    <2>2. /\ RunningViews = {} /\ source = Nothing /\ ~sending
          /\ \A u \in Slots : request[u] = Nothing
      BY <1>1, <2>1, CalmIs
    <2>3. Waiting(request[s])'
      BY <1>1, <1>2, <1>3, <1>4, <2>2 DEF Waiting
    <2>4. OthersRest' /\ Followed'
      BY <1>4, <2>2 DEF OthersRest, Followed
    <2> QED
      BY <1>2, <1>3, <2>2, <2>3, <2>4, CalmAlone
  <1> QED
    BY <1>1, <1>3, <1>4, <1>5, <1>6, PageSteps

-----------------------------------------------------------------------------
(* A page that has just been opened, and the whole of Next.                   *)

\* What a page is when its mount effect has run.
Mounted ==
    /\ view = [t \in Turns |-> NoView]
    /\ source = Nothing
    /\ started = {}
    /\ sending = FALSE
    /\ request = Mount
    /\ reads \in 0 .. MaxReads
    /\ loading = "loading"
    /\ resumed = {}
    /\ retried \in BOOLEAN

\* A page that is opened waits for its thread and shows nothing, whatever the
\* server has.
LEMMA MountedOK == ServerOK /\ Mounted => Inv
  <1> SUFFICES ASSUME ServerOK, Mounted PROVE Inv
    OBVIOUS
  <1>1. 1 \in Slots
    BY Bounds DEF Slots
  <1>2. PICK r :
          /\ r = Asking("load", 0, FALSE, FALSE)
          /\ RequestOK(r, log, status) /\ r # Nothing
          /\ r.kind = "load" /\ r.pc = "asked"
    BY LoadIs
  <1>3. /\ request = [s \in Slots |-> request[s]]
        /\ request[1] = r /\ \A s \in Slots : s # 1 => request[s] = Nothing
    BY <1>1, <1>2 DEF Mounted, Mount
  <1>4. RequestsOK
    BY <1>2, <1>3 DEF RequestsOK
  <1>5. NoView \in TurnView /\ NoView.status = "absent"
    BY Bounds DEF NoView, TurnView
  <1>6. ViewsOK /\ RunningViews = {}
    <2>1. \A t \in Turns : view[t] = NoView
      BY DEF Mounted
    <2>2. view = [t \in Turns |-> view[t]]
      BY DEF Mounted
    <2> QED
      BY <1>5, <2>1, <2>2 DEF ViewsOK, ViewOK, RunningViews
  <1>7. RestOK
    BY DEF Mounted, RestOK
  <1>8. Calm
    <2>1. Waiting(r)
      BY <1>2, <1>6 DEF Waiting, Mounted
    <2> QED
      BY <1>1, <1>2, <1>3, <1>6, <2>1 DEF Calm
  <1>9. Followed
    BY <1>6 DEF Followed
  <1> QED
    BY <1>4, <1>6, <1>7, <1>8, <1>9 DEF Inv

\* The page is opened for the first time before anything was asked of the server.
LEMMA InitOK == Init => Inv
  <1> SUFFICES ASSUME Init PROVE Inv
    OBVIOUS
  <1>1. Mounted
    <2>1. reads \in 0 .. MaxReads
      BY Bounds DEF Init
    <2>2. retried \in BOOLEAN
      BY DEF Init
    <2> QED
      BY <2>1, <2>2 DEF Init, Mounted
  <1>2. ServerOK
    BY Bounds DEF Init, ServerOK, RunningRows
  <1> QED
    BY <1>1, <1>2, MountedOK

\* The page is left and opened again.
LEMMA ReopenKeeps == ASSUME Inv, Reopen PROVE Inv'
  <1>1. ServerOK'
    BY DEF Reopen, server, Inv, ServerOK, RunningRows
  <1>2. Mounted'
    <2>1. reads' \in 0 .. MaxReads
      BY Bounds DEF Reopen, Inv, RestOK
    <2>2. request' = Mount /\ retried' \in BOOLEAN
      BY DEF Reopen, Inv, RestOK
    <2> QED
      BY <2>1, <2>2 DEF Reopen, Mounted, Mount, Asking, NoView
  <1>3. (ServerOK /\ Mounted => Inv)'
    BY MountedOK, PTL
  <1> QED
    BY <1>1, <1>2, <1>3

\* Every step keeps the invariant.
LEMMA InvNext == Inv /\ [Next]_vars => Inv'
  <1> SUFFICES ASSUME Inv, [Next]_vars PROVE Inv'
    OBVIOUS
  <1>1. CASE Serve
    BY <1>1, EmitKeeps, ServeKeeps DEF Serve
  <1>2. CASE Stream
    BY <1>2, DeliverKeeps, StreamEndKeeps DEF Stream
  <1>3. CASE Reopen
    BY <1>3, ReopenKeeps
  <1>4. ASSUME NEW s \in Slots, Handle(s) PROVE Inv'
    BY <1>4, PostServedKeeps, PostAnsweredKeeps, PostFailedKeeps, ReadServedKeeps,
       LoadedKeeps, RetriedKeeps, ReconnectedKeeps, ReadFailedKeeps DEF Handle
  <1>5. ASSUME NEW s \in Slots, Click(s) PROVE Inv'
    BY <1>5, SendKeeps, RetryKeeps, ReloadKeeps, DisconnectedKeeps DEF Click
  <1>6. ASSUME NEW c \in Calls, Answer(c) PROVE Inv'
    <2>1. PICK t \in Turns : t = c[1]
      BY DEF Calls
    <2> QED
      BY <1>6, <2>1, ServeKeeps
  <1>7. CASE UNCHANGED vars
    <2>1. ServerOK' /\ RunningRows' \subseteq RunningRows
      BY <1>7 DEF vars, server, Inv, ServerOK, RunningRows
    <2>2. ViewsOK' /\ RunningViews' = RunningViews
      BY <1>7, ViewsSame DEF vars, page, screen
    <2>3. RequestsOK' /\ RestOK'
      BY <1>7 DEF vars, server, page, screen, history, Inv, RequestsOK, RestOK
    <2>4. Calm /\ Followed => Calm' /\ Followed'
      BY <1>7 DEF vars, server, page, screen, history, Calm, Followed, Complete, Waiting,
         RunningRows, RunningViews
    <2>5. UNCHANGED <<server, retried>>
      BY <1>7 DEF vars, page, history
    <2> QED
      BY <2>2, <2>3, <2>4, <2>5, PageSteps DEF Inv
  <1> QED
    BY <1>1, <1>2, <1>3, <1>4, <1>5, <1>6, <1>7 DEF Next

\* What the theorems below rest on.
LEMMA InvAlways == Spec => []Inv
  BY InitOK, InvNext, PTL DEF Spec

-----------------------------------------------------------------------------
(* What holds of every reachable page.                                        *)

\* Every variable of the page and of the logs has its type.
THEOREM TypeAlways == Spec => []TypeOK
  <1>1. ASSUME Inv PROVE TypeOK
    <2>1. /\ status \in [Turns -> {"none", "running", "done", "failed"}]
          /\ log \in [Turns -> Seq({"card", "ask"})]
          /\ \A t \in Turns : Len(log[t]) <= MaxFrames
          /\ closed \in SUBSET Turns
          /\ waiting \in [Turns -> 0 .. MaxFrames]
      BY <1>1 DEF Inv, ServerOK
    <2>2. view \in [Turns -> TurnView]
      BY <1>1 DEF Inv, ViewsOK, ViewOK
    <2>3. request \in [Slots -> Request \cup {Nothing}]
      BY <1>1 DEF Inv, RequestsOK, RequestOK
    <2> QED
      BY <1>1, <2>1, <2>2, <2>3 DEF Inv, RestOK, TypeOK
  <1> QED
    BY <1>1, InvAlways, PTL

\* No frame of a running turn is shown twice or after a later one, although the
\* stream may repeat frames and answers of the server replace what is shown.
THEOREM ShownInOrder == Spec => []NothingTwice
  <1>1. Inv => NothingTwice
    BY DEF Inv, ViewsOK, ViewOK, NothingTwice, RunningViews
  <1> QED
    BY <1>1, InvAlways, PTL

\* A turn followed from its first frame shows every frame it was sent and has
\* taken every call among them, until Retry is clicked.
THEOREM NoneMissing == Spec => []NothingMissing
  <1>1. Inv => NothingMissing
    BY DEF Inv, Followed, Complete, NothingMissing
  <1> QED
    BY <1>1, InvAlways, PTL

\* Until Retry is clicked the page shows one running turn at most, and either its
\* stream is open or a request in flight will decide about it.
THEOREM AlwaysFollowed == Spec => []SomeoneFollows
  <1>1. ASSUME Inv, ~retried, NEW t \in RunningViews
        PROVE  /\ RunningViews = {t}
               /\ \/ source # Nothing /\ source.turn = t
                  \/ \E s \in Slots : request[s] # Nothing
    <2>1. Calm
      BY <1>1 DEF Inv
    <2>2. CASE \E s \in Slots : request[s] # Nothing
      <3>1. PICK s \in Slots : request[s] # Nothing
        BY <2>2
      <3>2. Waiting(request[s])
        BY <2>1, <3>1 DEF Calm
      <3> QED
        BY <1>1, <2>2, <3>2 DEF Waiting
    <2>3. CASE \A s \in Slots : request[s] = Nothing
      BY <1>1, <2>1, <2>3 DEF Calm
    <2> QED
      BY <2>2, <2>3
  <1>2. Inv => SomeoneFollows
    BY <1>1 DEF SomeoneFollows
  <1> QED
    BY <1>2, InvAlways, PTL

-----------------------------------------------------------------------------
(* What the page supposes of the conversation: TurnLife.                      *)

LifeRow == [t \in Turns |-> Lives(status[t])]
LifeVars == <<LifeRow, closed>>

\* A row is opened when none runs, after all the others.
LEMMA LifeOpens ==
    ASSUME Inv, NEW t \in Turns, Opens(t), closed' = closed
    PROVE  Life!Next
  <1>1. ASSUME NEW u \in Turns
        PROVE  LifeRow[u] # "running" /\ (u < t => LifeRow[u] = "over")
    <2>1. status[u] \in {"none", "done", "failed"} /\ (u < t => status[u] # "none")
      BY DEF Opens, RunningRows, Fresh, Inv, ServerOK, Turns
    <2> QED
      BY <2>1 DEF LifeRow, Lives
  <1>2. LifeRow[t] = "none" /\ LifeRow' = [LifeRow EXCEPT ![t] = "running"]
    BY DEF LifeRow, Lives, Opens, Fresh, Inv, ServerOK
  <1> QED
    BY <1>1, <1>2 DEF Life!Next, Life!Begin, LifeRow

\* Every step of page and server is one of the promise's, or none.
LEMMA LifeStep ==
    ASSUME Inv, [Next]_vars
    PROVE  [Life!Next]_LifeVars
  <1>1. CASE UNCHANGED <<status, closed>>
    BY <1>1 DEF LifeVars, LifeRow
  <1>2. ASSUME NEW t \in Turns, Settle(t, "done") \/ Settle(t, "failed")
        PROVE  Life!Next
    <2>1. LifeRow[t] = "running" /\ LifeRow' = [LifeRow EXCEPT ![t] = "over"]
      BY <1>2 DEF Settle, LifeRow, Lives, Inv, ServerOK
    <2>2. closed' = closed
      BY <1>2 DEF Settle
    <2> QED
      BY <2>1, <2>2 DEF Life!Next, Life!End, LifeRow
  <1>3. ASSUME NEW t \in Turns, Close(t) PROVE Life!Next
    <2>1. LifeRow[t] = "over" /\ LifeRow' = LifeRow /\ closed' = closed \cup {t}
      BY <1>3 DEF Close, LifeRow, Lives
    <2> QED
      BY <2>1 DEF Life!Next, Life!Tell, LifeRow
  <1>4. ASSUME NEW t \in Turns, Emit(t) \/ TimeOut(t) PROVE UNCHANGED <<status, closed>>
    BY <1>4 DEF Emit, TimeOut
  <1>5. ASSUME NEW s \in Slots, PostServed(s)
        PROVE  Life!Next \/ UNCHANGED <<status, closed>>
    BY <1>5, LifeOpens DEF PostServed
  <1>6. ASSUME NEW s \in Slots,
               \/ PostAnswered(s) \/ PostFailed(s) \/ ReadServed(s) \/ Loaded(s)
               \/ Retried(s) \/ Reconnected(s) \/ ReadFailed(s) \/ Click(s)
        PROVE  UNCHANGED <<status, closed>>
    BY <1>6 DEF PostAnswered, PostFailed, ReadServed, Loaded, Retried, Reconnected,
       ReadFailed, Click, Send, Retry, Reload, Disconnected, server
  <1>7. Stream \/ Reopen => UNCHANGED <<status, closed>>
    BY DEF Stream, Deliver, DeliverEnd, Broken, Invalid, Reopen, server
  <1>8. ASSUME NEW c \in Calls, Answer(c) PROVE UNCHANGED <<status, closed>>
    BY <1>8 DEF Answer
  <1>9. UNCHANGED vars => UNCHANGED <<status, closed>>
    BY DEF vars, server
  <1> QED
    BY <1>1, <1>2, <1>3, <1>4, <1>5, <1>6, <1>7, <1>8, <1>9 DEF Next, Serve, Handle

\* The page and the server it meets implement TurnLife: the rows and logs of this
\* module do nothing that TurnLife, which ChatTurn implements, does not allow.
THEOREM LifeIsKept == Spec => LifeKept
  <1>1. Init => Life!Init
    BY DEF Init, Life!Init, Lives
  <1>2. Inv /\ [Next]_vars => [Life!Next]_Life!vars
    BY LifeStep DEF Life!vars, LifeVars, LifeRow
  <1> QED
    BY <1>1, <1>2, InvAlways, PTL DEF Spec, LifeKept, Life!Spec
=============================================================================
