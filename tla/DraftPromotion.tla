--------------------------- MODULE DraftPromotion ---------------------------
(* Saving a query the chat drafted: the browser writes the query on the      *)
(* Redash node and tells the api about it in a promotion row, over calls     *)
(* that may each be refused or carried out with their answer lost.           *)
(*   hooks/use-promote-draft.ts       Save, Update, Overwrite, Retry chart   *)
(*   hooks/promote-query-draft.ts     the save, step by step                 *)
(*   hooks/resolve-draft-chart.ts     the same save, made by a dashboard     *)
(*   hooks/use-query-draft-sync.ts,   the patch the api did not take, kept   *)
(*   lib/chat/thread-sync.ts          by the page until a retry lands        *)
(*   lib/chat/query-edit-apply.ts     the guarded write of an update         *)
(*   node: handlers/idempotency.py, handlers/preconditions.py                *)
(* One draft is modelled.  A card is a place on a page that can save it: the *)
(* draft's own buttons, or a dashboard draft that contains it.  The payload, *)
(* the SQL and the chart's options are left out: a version is its number.    *)
EXTENDS Integers, Sequences

CONSTANTS
  Pages,        \* browser tabs with the conversation open
  Cards,        \* places that can save the draft
  Layouts,      \* ways the cards can lie: functions Cards -> [page, kind]
  MaxVersions,  \* versions the chat proposes
  MaxRows,      \* promotion rows ever recorded
  MaxEdits,     \* edits made to a saved query from outside the chat
  MaxFaults,    \* calls refused, or carried out with their answer lost
  MaxReads,     \* times a page reads the conversation again, reloads included
  Nothing       \* no held patch, no promotion in hand

ASSUME BoundsAreNat ==
  /\ MaxVersions \in Nat \ {0}
  /\ {MaxRows, MaxEdits, MaxFaults, MaxReads} \subseteq Nat

ASSUME LayoutsPlaceCards ==
  Layouts \subseteq [Cards -> [page : Pages, kind : {"own", "board"}]]

VARIABLES
  place,     \* where each card lies; never changes
  proposed,  \* versions the chat has proposed
  queries,   \* the node's queries that came from this draft
  ops,       \* the node's client_operations: version -> query, 0 for none
  orphans,   \* creates still running on the node after their answer was lost
  rows,      \* the api's promotion rows, by id
  writes,    \* writes the node has made to queries: its clock
  page,      \* what each page shows of the draft, the patch it holds, and the
             \* answer of the api on its way to it
  card,      \* how far each card's flow has got
  edits, faults, reads

serverVars == <<proposed, queries, ops, orphans, rows, writes>>
vars == <<place, serverVars, page, card, edits, faults, reads>>
-----------------------------------------------------------------------------
Versions == 1 .. MaxVersions

\* A promotion as both sides hold it.  "stamp" is the updatedAt receipt of the
\* query step, "chart" the outcome of the visualization step; 0 is no target and
\* no stamp; "made" is the node's clock when the row was recorded.
Statuses == {"pending", "done", "failed", "partial"}
Charts == {"none", "done", "failed"}

Promotions == [id : Nat, status : Statuses, ver : Nat, target : Nat, stamp : Nat,
               chart : Charts, made : Nat]
Patches == [status : Statuses, target : Nat, stamp : Nat, chart : Charts]

\* QueryDraftSync: what the page keeps of a patch the api did not take.
Held == [promotion : Promotions, patch : Patches]

ASSUME NothingIsNone == Nothing \notin Promotions \cup Held

Promotion(id, status, ver, target, made) ==
  [id |-> id, status |-> status, ver |-> ver, target |-> target,
   stamp |-> 0, chart |-> "none", made |-> made]

Patch(status, target, stamp, chart) ==
  [status |-> status, target |-> target, stamp |-> stamp, chart |-> chart]

\* Slip: the spread lets a patch without a target take the target away.
PatchedOver(promotion, patch) ==
  [promotion EXCEPT !.status = patch.status, !.target = patch.target,
                    !.stamp = patch.stamp, !.chart = patch.chart]

\* update_promotion, and the spread that merges a patch into a promotion.
Patched(promotion, patch) ==
  [promotion EXCEPT !.status = patch.status,
                    !.target = IF patch.target = 0 THEN @ ELSE patch.target,
                    !.stamp = patch.stamp,
                    !.chart = patch.chart]

IsApplied(promotion) ==
  promotion.status \in {"done", "partial"} /\ promotion.target # 0

LastApplied(promotions) ==
  LET applied == {i \in DOMAIN promotions : IsApplied(promotions[i])}
  IN IF applied = {} THEN Nothing
     ELSE promotions[CHOOSE i \in applied : \A j \in applied : j =< i]

Upsert(promotions, promotion) ==
  IF \E i \in DOMAIN promotions : promotions[i].id = promotion.id
  THEN [i \in DOMAIN promotions |->
          IF promotions[i].id = promotion.id THEN promotion ELSE promotions[i]]
  ELSE Append(promotions, promotion)

RecordsPatch(stored, patch) ==
  /\ stored.status = patch.status
  /\ patch.target \in {0, stored.target}
  /\ stored.stamp = patch.stamp /\ stored.chart = patch.chart

\* Slip: any row of the promotion settles the patch, a pending one too.
KnownToServer(promotions, held) ==
  \E i \in DOMAIN promotions : promotions[i].id = held.promotion.id

\* What the server's list already says, or has overtaken.
SettledOnServer(promotions, held) ==
  \E i \in DOMAIN promotions :
    /\ promotions[i].id = held.promotion.id
    /\ \/ RecordsPatch(promotions[i], held.patch)
       \/ \E j \in i + 1 .. Len(promotions) : IsApplied(promotions[j])

Supersedes(incoming, held) ==
  IF incoming.id = held.promotion.id THEN incoming.status # "pending"
                                     ELSE IsApplied(incoming)

-----------------------------------------------------------------------------
\* The page's state: holdQueryDraftSync, queryDraftPromoted.
Hold(view, promotion, patch) ==
  LET held == [promotion |-> Patched(promotion, patch), patch |-> patch]
  IN IF SettledOnServer(view.shown, held) THEN view ELSE [view EXCEPT !.held = held]

Promoted(view, promotion) ==
  [view EXCEPT !.shown = Upsert(@, promotion),
               !.held = IF @ # Nothing /\ Supersedes(promotion, @) THEN Nothing ELSE @]

NoView == [latest |-> 0, shown |-> <<>>, held |-> Nothing, sending |-> Nothing,
           landed |-> FALSE, answer |-> Nothing, wrote |-> FALSE]

\* getThread, as fromDetail reads it: every row of the draft in the order they
\* were recorded.
Answer == [latest |-> proposed, shown |-> rows]

Idle == [pc |-> "idle", ver |-> 0, base |-> Nothing, over |-> FALSE,
         query |-> 0, stamp |-> 0, row |-> 0, synced |-> TRUE]

Page(c) == page[place[c].page]
OwnCard(c) == place[c].kind = "own"

\* The page has the draft, and so the card: not before the conversation is loaded.
Drafted(c) == Page(c).latest # 0

\* The buttons the draft's own card shows: none while a patch is held.
Buttons(c) == OwnCard(c) /\ card[c].pc = "idle" /\ Page(c).held = Nothing

Goto(c, pc) == card' = [card EXCEPT ![c].pc = pc]
Stop(c) == card' = [card EXCEPT ![c] = Idle]
Show(c, view) == page' = [page EXCEPT ![place[c].page] = view]

\* A call is answered, refused, or carried out with its answer lost.
Outcomes == {"ok", "refused", "lost"}
Call(outcome) ==
  IF outcome = "ok" THEN UNCHANGED faults
  ELSE faults < MaxFaults /\ faults' = faults + 1
Carried(outcome) == outcome \in {"ok", "lost"}

Init ==
  /\ place \in Layouts
  /\ proposed = 1
  /\ queries = <<>> /\ ops = [v \in Versions |-> 0] /\ orphans = {}
  /\ rows = <<>> /\ writes = 0
  /\ page = [p \in Pages |-> [NoView EXCEPT !.latest = 1]]
  /\ card = [c \in Cards |-> Idle]
  /\ edits = 0 /\ faults = 0 /\ reads = 0
-----------------------------------------------------------------------------
(* Clicks.  A click fixes the version and the promotion the flow works on.   *)

\* "Save as query", offered while no applied promotion is shown.
SaveClicked(c) ==
  /\ Buttons(c) /\ LastApplied(Page(c).shown) = Nothing
  /\ card' = [card EXCEPT ![c] = [Idle EXCEPT !.pc = "record", !.ver = Page(c).latest]]
  /\ UNCHANGED <<place, serverVars, page, edits, faults, reads>>

\* A dashboard draft is saved and reaches this draft (resolveDraftChart): it
\* saves it too, or retries its chart, from what the page showed at the click.
BoardClicked(c) ==
  LET promoted == IF Page(c).held # Nothing THEN Page(c).held.promotion
                                            ELSE LastApplied(Page(c).shown)
  IN /\ ~OwnCard(c) /\ card[c].pc = "idle"
     /\ \/ /\ promoted = Nothing
           /\ card' = [card EXCEPT ![c] =
                         [Idle EXCEPT !.pc = "record", !.ver = Page(c).latest]]
        \/ /\ promoted # Nothing
           /\ promoted.status = "partial" /\ promoted.chart = "failed"
           /\ card' = [card EXCEPT ![c] = [Idle EXCEPT !.pc = "redraw", !.base = promoted]]
     /\ UNCHANGED <<place, serverVars, page, edits, faults, reads>>

\* "Update saved query", offered when a newer version was proposed; "Overwrite"
\* on the conflict prompt runs the same flow without the guard.
UpdateClicked(c) ==
  LET base == LastApplied(Page(c).shown)
      from(over) == [Idle EXCEPT !.pc = "fetch", !.ver = Page(c).latest,
                                 !.base = base, !.over = over]
  IN /\ OwnCard(c) /\ Page(c).held = Nothing /\ base # Nothing
     /\ \/ /\ card[c].pc = "idle" /\ base.ver < Page(c).latest
           /\ card' = [card EXCEPT ![c] = from(FALSE)]
        \/ /\ card[c].pc = "conflict"
           /\ card' = [card EXCEPT ![c] = from(TRUE)]
     /\ UNCHANGED <<place, serverVars, page, edits, faults, reads>>

\* "Keep their changes".
KeepClicked(c) ==
  /\ card[c].pc = "conflict" /\ Page(c).held = Nothing
  /\ Stop(c)
  /\ UNCHANGED <<place, serverVars, page, edits, faults, reads>>

\* "Retry chart update", offered on a partial promotion of the latest version.
RetryChartClicked(c) ==
  LET base == LastApplied(Page(c).shown)
  IN /\ Buttons(c) /\ base # Nothing
     /\ base.status = "partial" /\ base.ver = Page(c).latest
     /\ card' = [card EXCEPT ![c] = [Idle EXCEPT !.pc = "redraw", !.base = base]]
     /\ UNCHANGED <<place, serverVars, page, edits, faults, reads>>
-----------------------------------------------------------------------------
(* The rows.                                                                 *)

\* recordPromotion: the row that says a write is about to happen.  Unless its
\* id comes back, the flow stops here and the row stays pending.
Recorded(c, target, next) ==
  \E outcome \in Outcomes :
    /\ Call(outcome)
    /\ IF Carried(outcome)
       THEN /\ Len(rows) < MaxRows
            /\ rows' = Append(rows, Promotion(Len(rows) + 1, "pending", card[c].ver,
                                              target, writes))
       ELSE UNCHANGED rows
    /\ IF outcome = "ok"
       THEN card' = [card EXCEPT ![c].pc = next, ![c].row = Len(rows) + 1]
       ELSE Stop(c)
    /\ UNCHANGED <<place, proposed, queries, ops, orphans, writes, page, edits, reads>>

\* patchPromotion of one row: what the api then stores.
Stored(id, patch) == [rows EXCEPT ![id] = Patched(@, patch)]

\* A flow's last patch: the page shows the answer, or holds the patch.
Settled(c, promotion, patch) ==
  \E outcome \in Outcomes :
    /\ Call(outcome)
    /\ rows' = IF Carried(outcome) THEN Stored(promotion.id, patch) ELSE rows
    /\ Show(c, [IF outcome = "ok" THEN Promoted(Page(c), Patched(rows[promotion.id], patch))
                                  ELSE Hold(Page(c), promotion, patch)
                EXCEPT !.wrote = TRUE])
    /\ Stop(c)
    /\ UNCHANGED <<place, proposed, queries, ops, orphans, writes, edits, reads>>

\* A patch whose failure is swallowed: the page is told nothing either way.
Abandoned(c, patch, next) ==
  \E outcome \in Outcomes :
    /\ Call(outcome)
    /\ rows' = IF Carried(outcome) THEN Stored(card[c].row, patch) ELSE rows
    /\ IF next = "idle" THEN Stop(c) ELSE Goto(c, next)
    /\ UNCHANGED <<place, proposed, queries, ops, orphans, writes, page, edits, reads>>
-----------------------------------------------------------------------------
(* The save (promoteQueryDraft).                                             *)

SaveRecorded(c) == card[c].pc = "record" /\ Recorded(c, 0, "create")

\* The node writes the query and its client operation in one transaction.
WriteQuery(v) ==
  /\ queries' = Append(queries, [key |-> v, stamp |-> writes + 1, had |-> {v}])
  /\ ops' = [ops EXCEPT ![v] = Len(queries) + 1]
  /\ writes' = writes + 1

\* replay_or_none: a key already used answers with the query it made.
CreateLooked(c) ==
  /\ card[c].pc = "create"
  /\ IF ops[card[c].ver] # 0
     THEN card' = [card EXCEPT ![c].pc = "draw", ![c].query = ops[card[c].ver]]
     ELSE Goto(c, "insert")
  /\ UNCHANGED <<place, serverVars, page, edits, faults, reads>>

\* Slip: the insert does not ask who won.
InsertedAgain(c) ==
  /\ card[c].pc = "insert"
  /\ WriteQuery(card[c].ver)
  /\ card' = [card EXCEPT ![c].pc = "draw", ![c].query = Len(queries) + 1]
  /\ UNCHANGED <<place, proposed, orphans, rows, page, edits, faults, reads>>

\* commit_or_winner: the unique key lets one of two concurrent creates in.
Inserted(c) ==
  LET v == card[c].ver
  IN /\ card[c].pc = "insert"
     /\ IF ops[v] # 0
        THEN /\ card' = [card EXCEPT ![c].pc = "draw", ![c].query = ops[v]]
             /\ UNCHANGED <<queries, ops, writes>>
        ELSE /\ WriteQuery(v)
             /\ card' = [card EXCEPT ![c].pc = "draw", ![c].query = Len(queries) + 1]
     /\ UNCHANGED <<place, proposed, orphans, rows, page, edits, faults, reads>>

\* The create is refused, or its answer is lost while the node still works.
CreateFailed(c) ==
  /\ card[c].pc \in {"create", "insert"}
  /\ faults < MaxFaults /\ faults' = faults + 1
  /\ \/ UNCHANGED orphans
     \/ orphans' = orphans \cup {card[c].ver}
  /\ Goto(c, "abandon")
  /\ UNCHANGED <<place, proposed, queries, ops, rows, writes, page, edits, reads>>

OrphanInserted(v) ==
  /\ v \in orphans
  /\ orphans' = orphans \ {v}
  /\ IF ops[v] # 0 THEN UNCHANGED <<queries, ops, writes>> ELSE WriteQuery(v)
  /\ UNCHANGED <<place, proposed, rows, page, card, edits, faults, reads>>

\* The chart is created under a key of its own, or the save is abandoned.
Drawn(c) ==
  /\ card[c].pc = "draw"
  /\ \/ Goto(c, "read") /\ UNCHANGED faults
     \/ /\ faults < MaxFaults /\ faults' = faults + 1
        /\ Goto(c, "abandon")
  /\ UNCHANGED <<place, serverVars, page, edits, reads>>

\* queriesService.get, for the stamp a later update is guarded with.  It runs
\* outside the try: its failure leaves the row pending.
ReadBack(c) ==
  /\ card[c].pc = "read"
  /\ \/ /\ card' = [card EXCEPT ![c].pc = "finish",
                                ![c].stamp = queries[card[c].query].stamp]
        /\ UNCHANGED faults
     \/ faults < MaxFaults /\ faults' = faults + 1 /\ Stop(c)
  /\ UNCHANGED <<place, serverVars, page, edits, reads>>

SaveFinished(c) ==
  /\ card[c].pc = "finish"
  /\ Settled(c, rows[card[c].row],
             Patch("done", card[c].query, card[c].stamp, "done"))

SaveAbandoned(c) ==
  /\ card[c].pc = "abandon"
  /\ Abandoned(c, IF card[c].query = 0
                  THEN Patch("failed", 0, 0, "none")
                  ELSE Patch("partial", card[c].query, 0, "failed"), "idle")
-----------------------------------------------------------------------------
(* The update (usePromoteDraft's update, applyQueryEdit).                    *)

\* fetchQuery.  A promotion with no stamp is in conflict when the query is
\* newer than the promotion.
Fetched(c) ==
  LET base == card[c].base
      current == queries[base.target].stamp
  IN /\ card[c].pc = "fetch"
     /\ \/ faults < MaxFaults /\ faults' = faults + 1 /\ Stop(c)
        \/ /\ UNCHANGED faults
           /\ IF base.stamp = 0 /\ ~card[c].over /\ current > base.made
              THEN card' = [card EXCEPT ![c] = [Idle EXCEPT !.pc = "conflict"]]
              ELSE card' = [card EXCEPT
                     ![c].pc = "stage", ![c].query = base.target,
                     ![c].stamp = IF base.stamp # 0 THEN base.stamp ELSE current]
     /\ UNCHANGED <<place, serverVars, page, edits, reads>>

UpdateRecorded(c) == card[c].pc = "stage" /\ Recorded(c, card[c].query, "post")

\* check_unchanged, under the query's row lock.
Unchanged(c) == card[c].over \/ queries[card[c].query].stamp = card[c].stamp

Posted(c) ==
  LET q == card[c].query
  IN /\ card[c].pc = "post" /\ Unchanged(c)
     /\ \E outcome \in Outcomes :
          /\ Call(outcome)
          /\ IF Carried(outcome)
             THEN /\ queries' = [queries EXCEPT ![q].stamp = writes + 1,
                                                ![q].had = @ \cup {card[c].ver}]
                  /\ writes' = writes + 1
             ELSE UNCHANGED <<queries, writes>>
          /\ card' = IF outcome = "ok"
                     THEN [card EXCEPT ![c].pc = "tell", ![c].stamp = writes + 1]
                     ELSE [card EXCEPT ![c].pc = "giveup"]
     /\ UNCHANGED <<place, proposed, ops, orphans, rows, page, edits, reads>>

\* Slip: a 409 is taken for an answer.
PostRefusedUnseen(c) ==
  /\ card[c].pc = "post" /\ ~Unchanged(c)
  /\ Goto(c, "tell")
  /\ UNCHANGED <<place, serverVars, page, edits, faults, reads>>

\* 409: the query changed since the stamp.
PostRefused(c) ==
  /\ card[c].pc = "post" /\ ~Unchanged(c)
  /\ Goto(c, "clash")
  /\ UNCHANGED <<place, serverVars, page, edits, faults, reads>>

\* settle: the row is failed, whether or not the api hears of it.
UpdateAbandoned(c) ==
  /\ card[c].pc \in {"giveup", "clash"}
  /\ Abandoned(c, Patch("failed", 0, 0, "none"),
               IF card[c].pc = "clash" THEN "conflict" ELSE "idle")

DonePatch(c) == Patch("done", card[c].query, card[c].stamp, "none")

\* applyQueryEdit's last patch, before the chart is touched.
UpdateTold(c) ==
  /\ card[c].pc = "tell"
  /\ \E outcome \in Outcomes :
       /\ Call(outcome)
       /\ rows' = IF Carried(outcome) THEN Stored(card[c].row, DonePatch(c)) ELSE rows
       /\ card' = [card EXCEPT ![c].pc = "redrawn", ![c].synced = (outcome = "ok")]
  /\ UNCHANGED <<place, proposed, queries, ops, orphans, writes, page, edits, reads>>

\* updateChart, and what the page then shows or holds.
UpdateFinished(c) ==
  LET done == Patched(rows[card[c].row], DonePatch(c))
      partial == Patch("partial", card[c].query, card[c].stamp, "failed")
      wrote(view) == [view EXCEPT !.wrote = TRUE]
  IN /\ card[c].pc = "redrawn"
     /\ \/ /\ Show(c, wrote(IF card[c].synced THEN Promoted(Page(c), done)
                            ELSE Hold(Page(c), done, DonePatch(c))))
           /\ Stop(c) /\ UNCHANGED faults
        \/ /\ faults < MaxFaults /\ faults' = faults + 1
           /\ IF card[c].synced
              THEN Show(c, wrote(Promoted(Page(c), done))) /\ Goto(c, "partial")
              ELSE Show(c, wrote(Hold(Page(c), done, partial))) /\ Stop(c)
     /\ UNCHANGED <<place, serverVars, edits, reads>>

\* record: the chart's failure, told after the row was already done.
ChartFailureTold(c) ==
  /\ card[c].pc = "partial"
  /\ Settled(c, Patched(rows[card[c].row], DonePatch(c)),
             Patch("partial", 0, card[c].stamp, "failed"))
-----------------------------------------------------------------------------
(* The chart alone: "Retry chart update", or a dashboard that needs it.      *)

Redrawn(c) ==
  /\ card[c].pc = "redraw"
  /\ \/ Goto(c, "retold") /\ UNCHANGED faults
     \/ faults < MaxFaults /\ faults' = faults + 1 /\ Stop(c)
  /\ UNCHANGED <<place, serverVars, page, edits, reads>>

RedrawTold(c) ==
  /\ card[c].pc = "retold"
  /\ Settled(c, card[c].base,
             Patch("done", IF OwnCard(c) THEN 0 ELSE card[c].base.target,
                   card[c].base.stamp, "done"))
-----------------------------------------------------------------------------
(* The page and the patch it holds.                                          *)

\* retry: one at a time, with the patch held at the click.
RetrySyncClicked(p) ==
  /\ page[p].held # Nothing /\ page[p].sending = Nothing
  /\ page' = [page EXCEPT ![p].sending = page[p].held, ![p].landed = FALSE]
  /\ UNCHANGED <<place, serverVars, card, edits, faults, reads>>

RetrySyncLanded(p) ==
  LET sending == page[p].sending
  IN /\ sending # Nothing /\ ~page[p].landed
     /\ rows' = Stored(sending.promotion.id, sending.patch)
     /\ page' = [page EXCEPT ![p].landed = TRUE]
     /\ UNCHANGED <<place, proposed, queries, ops, orphans, writes, card, edits, faults,
                    reads>>

\* settleQueryDraftSync: the answer counts only for the patch still held.
RetrySyncAnswered(p) ==
  LET view == page[p]
      done == [view EXCEPT !.sending = Nothing, !.landed = FALSE]
      synced == Patched(view.sending.promotion, view.sending.patch)
  IN /\ view.sending # Nothing /\ view.landed
     /\ page' = [page EXCEPT ![p] =
          IF view.held = view.sending
          THEN [done EXCEPT !.held = Nothing, !.shown = Upsert(@, synced)]
          ELSE done]
     /\ UNCHANGED <<place, serverVars, card, edits, faults, reads>>

\* A retry that fails, before or after it landed, leaves the patch held; it may do
\* so any number of times, so it is no part of MaxFaults.
RetrySyncFailed(p) ==
  /\ page[p].sending # Nothing
  /\ page' = [page EXCEPT ![p].sending = Nothing, ![p].landed = FALSE]
  /\ UNCHANGED <<place, serverVars, card, edits, faults, reads>>

\* The chat proposes another version, in the page that asked for it.
Proposed(p) ==
  /\ proposed < MaxVersions
  /\ proposed' = proposed + 1
  /\ page' = [page EXCEPT ![p].latest = proposed + 1]
  /\ UNCHANGED <<place, queries, ops, orphans, rows, writes, card, edits, faults, reads>>

\* resync and reconnect read the conversation, one reading at a time; one that
\* fails changes nothing here.
Reread(p) ==
  /\ page[p].answer = Nothing
  /\ reads < MaxReads /\ reads' = reads + 1
  /\ page' = [page EXCEPT ![p].answer = Answer]
  /\ UNCHANGED <<place, serverVars, card, edits, faults>>

\* The answer, however old by now, replaces what the page shows;
\* carryQueryDraftSync keeps what it lacks.
Resynced(p) ==
  LET view == page[p]
      answer == view.answer
  IN /\ answer # Nothing
     /\ page' = [page EXCEPT ![p] =
          [view EXCEPT !.latest = answer.latest, !.shown = answer.shown,
                       !.answer = Nothing,
                       !.held = IF @ # Nothing /\ SettledOnServer(answer.shown, @)
                                THEN Nothing ELSE @]]
     /\ UNCHANGED <<place, serverVars, card, edits, faults, reads>>

\* The browser reloads and reads the conversation: flows, retries, held patches
\* and answers awaited are gone; a create the node is working on goes on without
\* its page.
Reloaded(p) ==
  LET here == {c \in Cards : place[c].page = p}
  IN /\ reads < MaxReads /\ reads' = reads + 1
     /\ page' = [page EXCEPT ![p] = [NoView EXCEPT !.answer = Answer]]
     /\ card' = [c \in Cards |-> IF c \in here THEN Idle ELSE card[c]]
     /\ orphans' = orphans \cup {card[c].ver : c \in {d \in here : card[d].pc = "insert"}}
     /\ UNCHANGED <<place, proposed, queries, ops, rows, writes, edits, faults>>

\* Somebody edits the saved query in Veodyn.
EditedOutside(q) ==
  /\ edits < MaxEdits /\ edits' = edits + 1
  /\ queries' = [queries EXCEPT ![q].stamp = writes + 1]
  /\ writes' = writes + 1
  /\ UNCHANGED <<place, proposed, ops, orphans, rows, page, card, faults, reads>>
-----------------------------------------------------------------------------
Click(c) ==
  /\ Drafted(c)
  /\ \/ SaveClicked(c) \/ BoardClicked(c) \/ UpdateClicked(c) \/ KeepClicked(c)
     \/ RetryChartClicked(c)

SaveStep(c) ==
  \/ SaveRecorded(c) \/ CreateLooked(c) \/ Inserted(c) \/ CreateFailed(c) \/ Drawn(c)
  \/ ReadBack(c) \/ SaveFinished(c) \/ SaveAbandoned(c)

UpdateStep(c) ==
  \/ Fetched(c) \/ UpdateRecorded(c) \/ Posted(c) \/ PostRefused(c) \/ UpdateAbandoned(c)
  \/ UpdateTold(c) \/ UpdateFinished(c) \/ ChartFailureTold(c)

PageStep(p) ==
  \/ RetrySyncClicked(p) \/ RetrySyncLanded(p) \/ RetrySyncAnswered(p) \/ RetrySyncFailed(p)
  \/ Proposed(p) \/ Reread(p) \/ Resynced(p) \/ Reloaded(p)

Next ==
  \/ \E c \in Cards : Click(c) \/ SaveStep(c) \/ UpdateStep(c) \/ Redrawn(c) \/ RedrawTold(c)
  \/ \E p \in Pages : PageStep(p)
  \/ \E v \in orphans : OrphanInserted(v)
  \/ \E q \in DOMAIN queries : EditedOutside(q)

Spec == Init /\ [][Next]_vars
-----------------------------------------------------------------------------
PromotionOK(promotion) ==
  /\ promotion \in Promotions
  /\ promotion.id \in 1 .. Len(rows) /\ promotion.ver \in Versions
  /\ promotion.target \in 0 .. Len(queries)
  /\ {promotion.stamp, promotion.made} \subseteq 0 .. writes

(* What every state is made of: a promotion that is done or partial names a   *)
(* query (the api's _require_target), wherever it is kept, and a flow works   *)
(* on a row and a query that exist.                                           *)
TypeOK ==
  /\ place \in Layouts /\ proposed \in Versions /\ orphans \subseteq Versions
  /\ ops \in [Versions -> 0 .. Len(queries)]
  /\ \A i \in DOMAIN rows : PromotionOK(rows[i]) /\ rows[i].id = i
  /\ \A p \in Pages :
       /\ page[p].latest \in 0 .. MaxVersions
       /\ page[p].answer # Nothing => page[p].answer.latest \in Versions
       /\ \A i \in DOMAIN page[p].shown : PromotionOK(page[p].shown[i])
       /\ \A held \in {page[p].held, page[p].sending} \ {Nothing} :
            PromotionOK(held.promotion) /\ IsApplied(held.promotion)
  /\ \A i \in DOMAIN rows :
       rows[i].status \in {"done", "partial"} => rows[i].target # 0
  /\ \A c \in Cards : card[c].row \in 0 .. Len(rows) /\ card[c].query \in 0 .. Len(queries)

(* However often a save is repeated, by whom, and whatever was lost on the    *)
(* way, a version of the draft makes one query.                               *)
OneQueryPerVersion ==
  \A i, j \in DOMAIN queries : queries[i].key = queries[j].key => i = j

(* A save that a page has ended is not lost between the page and the api: as  *)
(* long as the page lives it holds the patch that says so, or the api's rows  *)
(* say that the draft is saved, so that the next reading of the conversation  *)
(* does.  Other cards' promotions, retries that land late and readings older  *)
(* than the save never drop the patch before that.                            *)
WrittenIsKept ==
  \A p \in Pages :
    page[p].wrote => page[p].held # Nothing \/ LastApplied(rows) # Nothing

\* The promotions that anybody is told of: the api's rows, what pages show, and
\* what they hold.  A reading on its way is seen when the page shows it.
Said ==
  {rows[i] : i \in DOMAIN rows}
  \cup (UNION {{page[p].shown[i] : i \in DOMAIN page[p].shown} : p \in Pages})
  \cup {page[p].held.promotion : p \in {q \in Pages : page[q].held # Nothing}}

(* "Saved as query N, v2" is true: whatever promotion a page shows as applied *)
(* or holds, and whatever row the api keeps as done, the query it names was   *)
(* written with that version.                                                 *)
SavedIsWritten ==
  \A promotion \in Said :
    IsApplied(promotion) => promotion.ver \in queries[promotion.target].had
=============================================================================
