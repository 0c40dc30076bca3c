--------------------------- MODULE DashboardApply ---------------------------
(* Applying a dashboard edit the chat drafted: a list of steps, each one a   *)
(* call to the Redash node, run by the browser in order and resumed after a  *)
(* failure from the receipts of the run before.                              *)
(*   lib/chat/dashboard-edit-apply.ts   applyDashboardEdit                   *)
(*   hooks/use-apply-dashboard-edit.ts  what the card does with its outcome  *)
(*   components/chat/dashboard-edit-actions.tsx   Apply, Overwrite, Keep     *)
(*   lib/chat/promotion-lifecycle.ts    the row's last patch                 *)
(*   hooks/resolve-draft-chart.ts       the chart an added draft is shown by *)
(*   node: handlers/widgets.py, handlers/dashboards.py, handlers/idempotency *)
(* One version of one edit is modelled.  The api admits one step per widget  *)
(* (services/chat/dashboard_edit_tool.py), so a step stands for its target;  *)
(* a move and a text edit are one kind of step, and the dashboard's own      *)
(* rename and tags are the step that comes first.  Rows that no reader can   *)
(* tell apart any more are dropped (Kept), which keeps retries finite.       *)
EXTENDS Integers, Sequences, SequencesExt, FiniteSets

CONSTANTS
  Pages,      \* browser tabs with the conversation open
  Edits,      \* the edits to choose from: sequences of step kinds
  MaxSteps,   \* the longest edit (MAX_DASHBOARD_OPERATIONS and the rename)
  MaxTouches, \* changes made to the dashboard and its queries from outside
  MaxFaults,  \* calls refused, or carried out with their answer lost
  MaxReloads, \* browser reloads
  Nothing

Kinds == {"rename", "add", "edit", "remove"}

ASSUME EditsAreSteps ==
  MaxSteps \in Nat /\ Edits \subseteq UNION {[1 .. n -> Kinds] : n \in 1 .. MaxSteps}
ASSUME BoundsAreNat == {MaxTouches, MaxFaults, MaxReloads} \subseteq Nat
ASSUME NothingIsNoPage == Nothing \notin Pages

VARIABLES
  steps,    \* the edit: never changes
  target,   \* the node: what each step's dashboard or widget looks like
  rows,     \* the api's promotions of the edit, in the order recorded
  page,     \* each page's card
  landed,   \* history: steps whose effect the dashboard has had
  touches, faults, reloads

vars == <<steps, target, rows, page, landed, touches, faults, reloads>>
-----------------------------------------------------------------------------
All == 1 .. Len(steps)

\* A widget to be added is not there yet; the others are as the chat read them.
\* "fresh" says updated_at is the one in the card's snapshot; "copies" counts
\* the widgets made for an add, "theirs" that somebody's change stands.  Of an
\* add, "keyed" says that the node has a record of the step's key, "shows" is the
\* chart its widget was made with, "drawn" the chart its drafted query resolves to
\* by now (0 is the draft's own), and "late" counts the creates, by their chart,
\* still running on the node after their answer was lost.
Charts == 0 .. 1

Untouched(kind) ==
  [copies |-> IF kind = "add" THEN 0 ELSE 1, fresh |-> TRUE, theirs |-> FALSE,
   keyed |-> FALSE, shows |-> 0, drawn |-> 0, late |-> [chart \in Charts |-> 0]]

\* A promotion with the steps its receipts call done, and the page that still
\* holds its id; a page's own list has no use for the id.
Promotion(of, status, did) == [of |-> of, status |-> status, did |-> did]

IsDone(promotions) == promotions # <<>> /\ Last(promotions).status = "done"

\* The last partial promotion, 0 when there is none.
LastPartial(promotions) ==
  LET Partial(i) == promotions[i].status = "partial"
      IsLast(i) == Partial(i) /\ \A j \in i + 1 .. Len(promotions) : ~Partial(j)
  IN IF \E i \in DOMAIN promotions : IsLast(i)
     THEN CHOOSE i \in DOMAIN promotions : IsLast(i) ELSE 0

\* Slip: the receipt of the step that failed is carried too.
CarriedUnread(promotions) ==
  LET i == LastPartial(promotions)
  IN IF i = 0 THEN {} ELSE promotions[i].did \cup {Cardinality(promotions[i].did) + 1}

\* carriedReceipts: the steps the last partial promotion did.
Carried(promotions) ==
  LET i == LastPartial(promotions)
  IN IF i = 0 THEN {} ELSE promotions[i].did

\* Readers ask for the last promotion and the last partial one, which no call
\* changes any more; a running apply asks for its own.  A call leaves one row
\* more that nobody asks for, if any.
Kept(promotions) ==
  LET Unread(i) == /\ i \notin {Len(promotions), LastPartial(promotions)}
                   /\ promotions[i].of = Nothing
  IN IF \E i \in DOMAIN promotions : Unread(i)
     THEN RemoveAt(promotions, CHOOSE i \in DOMAIN promotions : Unread(i))
     ELSE promotions

\* A card at rest, and one that has just shown a promotion.
Card(pc, carried, done) ==
  [pc |-> pc, over |-> FALSE, at |-> 0, chart |-> 0, seen |-> {}, carried |-> carried,
   done |-> done]

\* A card that begins a run, takes its next step, or turns to something else; it
\* has the chart in hand only while a create of its is answered.
Begun(card, over) == [card EXCEPT !.pc = "record", !.over = over]
Onward(card) == [card EXCEPT !.pc = "run", !.at = @ + 1, !.chart = 0]
Turned(card, pc, chart) == [card EXCEPT !.pc = pc, !.chart = chart]

Shows(p, pc, status, did) ==
  [page EXCEPT ![p] = Card(pc, IF status = "partial" THEN did ELSE @.carried,
                           status = "done")]

\* A call is answered, refused, or carried out with its answer lost.
Outcomes == {"ok", "refused", "lost"}
Call(outcome) ==
  IF outcome = "ok" THEN UNCHANGED faults
  ELSE faults < MaxFaults /\ faults' = faults + 1
Done(outcome) == outcome \in {"ok", "lost"}

Init ==
  /\ steps \in Edits
  /\ target = [i \in All |-> Untouched(steps[i])]
  /\ rows = <<>> /\ landed = {}
  /\ page = [p \in Pages |-> Card("idle", {}, FALSE)]
  /\ touches = 0 /\ faults = 0 /\ reloads = 0
-----------------------------------------------------------------------------
(* The card.                                                                 *)

\* Slip: the button is not disabled while an apply runs.
ClickedAgain(p, over) ==
  /\ IF over THEN page[p].pc = "conflict" ELSE page[p].pc \in {"idle", "run"} /\ ~page[p].done
  /\ page' = [page EXCEPT ![p] = Begun(@, over)]
  /\ UNCHANGED <<steps, target, rows, landed, touches, faults, reloads>>

\* Apply, offered until the version's last promotion is done; Overwrite, on the
\* conflict prompt.
Clicked(p, over) ==
  /\ IF over THEN page[p].pc = "conflict" ELSE page[p].pc = "idle" /\ ~page[p].done
  /\ page' = [page EXCEPT ![p] = Begun(@, over)]
  /\ UNCHANGED <<steps, target, rows, landed, touches, faults, reloads>>

ApplyClicked(p) == Clicked(p, FALSE)
OverwriteClicked(p) == Clicked(p, TRUE)

\* "Keep their changes".
KeepClicked(p) ==
  /\ page[p].pc = "conflict"
  /\ page' = [page EXCEPT ![p] = Turned(@, "idle", 0)]
  /\ UNCHANGED <<steps, target, rows, landed, touches, faults, reloads>>

\* recordPromotion: without the answer of a pending row nothing is written.
Recorded(p) ==
  /\ page[p].pc = "record"
  /\ \E outcome \in Outcomes :
       /\ Call(outcome)
       /\ LET of == IF outcome = "ok" THEN p ELSE Nothing
          IN rows' = IF Done(outcome) THEN Kept(Append(rows, Promotion(of, "pending", {})))
                                      ELSE rows
       /\ page' = IF outcome = "ok"
                  THEN [page EXCEPT ![p].pc = "run", ![p].at = 1]
                  ELSE [page EXCEPT ![p] = Card("idle", @.carried, @.done)]
  /\ UNCHANGED <<steps, target, landed, touches, reloads>>

At(p) == page[p].at
Kind(p) == steps[At(p)]
Did(p) == 1 .. At(p) - 1  \* its receipts: carried or done
Runs(p) == page[p].pc = "run" /\ At(p) <= Len(steps) /\ At(p) \notin page[p].carried

\* The fresh read, after the dashboard's own step and before the widgets'.
NeedsRead(p) ==
  /\ \E i \in All : steps[i] = "edit"
  /\ page[p].seen = {} /\ Kind(p) # "rename"

\* A step the run before did is taken over with its receipt.
StepCarried(p) ==
  /\ page[p].pc = "run" /\ At(p) <= Len(steps) /\ At(p) \in page[p].carried
  /\ ~NeedsRead(p)
  /\ page' = [page EXCEPT ![p] = Onward(@)]
  /\ UNCHANGED <<steps, target, rows, landed, touches, faults, reloads>>

\* getRawDashboard: which widgets the dashboard has; 0 stands for the read.
Read(p) ==
  /\ page[p].pc = "run" /\ At(p) <= Len(steps) /\ NeedsRead(p)
  /\ \/ /\ page' = [page EXCEPT ![p].seen = {0} \cup {i \in All : target[i].copies > 0}]
        /\ UNCHANGED faults
     \/ /\ faults < MaxFaults /\ faults' = faults + 1
        /\ page' = [page EXCEPT ![p] = Turned(@, "abandon", 0)]
  /\ UNCHANGED <<steps, target, rows, landed, touches, reloads>>
-----------------------------------------------------------------------------
(* One step: a call to the node.                                             *)

\* Slip: the stamp sent is the fresh read's, not the snapshot's.
UnchangedSinceRead(p) == page[p].over \/ Kind(p) # "rename" \/ target[At(p)].fresh

\* check_unchanged, with the stamp of the card's snapshot.
Unchanged(p) == page[p].over \/ target[At(p)].fresh

\* The node does what the step asks, and the browser hears of it or not.
Stepped(p, after) ==
  \E outcome \in Outcomes :
    /\ Call(outcome)
    /\ IF Done(outcome)
       THEN /\ target' = [target EXCEPT ![At(p)] = after]
            /\ landed' = landed \cup {At(p)}
       ELSE UNCHANGED <<target, landed>>
    /\ page' = IF outcome = "ok"
               THEN [page EXCEPT ![p] = Onward(@)]
               ELSE [page EXCEPT ![p] = Turned(@, "abandon", 0)]
    /\ UNCHANGED <<steps, rows, touches, reloads>>

\* The node refuses the step: 409, or the widget is gone.
Refused(p, pc) ==
  /\ page' = [page EXCEPT ![p] = Turned(@, pc, 0)]
  /\ UNCHANGED <<steps, target, rows, landed, touches, faults, reloads>>

\* The step's key has been used, and the widget made under it is still there.
Present(now) == now.keyed /\ now.copies > 0

\* Whoever finds it is answered with it, or refused if it shows another chart.
Replayed(p, chart) ==
  LET now == target[At(p)]
  IN /\ Present(now)
     /\ \/ now.shows = chart /\ Stepped(p, now)
        \/ now.shows # chart /\ Refused(p, "clash")

\* replay_or_none, at the start of a create.  The page has resolved the draft's
\* chart: the one that was drawn for it, when the page saves the draft itself, or
\* the first one its query has by now.  A record whose widget is gone is deleted.
AddLooked(p) ==
  LET now == target[At(p)]
  IN /\ Runs(p) /\ ~NeedsRead(p) /\ Kind(p) = "add"
     /\ \E chart \in {0, now.drawn} :
          \/ Replayed(p, chart)
          \/ /\ ~Present(now)
             /\ target' = [target EXCEPT ![At(p)] = [now EXCEPT !.keyed = FALSE]]
             /\ page' = [page EXCEPT ![p] = Turned(@, "insert", chart)]
             /\ UNCHANGED <<steps, rows, landed, touches, faults, reloads>>

\* The widget and the record of its key, in one transaction.
Made(now, chart) ==
  [now EXCEPT !.keyed = TRUE, !.copies = @ + 1, !.theirs = FALSE, !.shows = chart]

\* Slip: the insert does not ask who won.
InsertedAgain(p) ==
  /\ page[p].pc = "insert"
  /\ Stepped(p, Made(target[At(p)], page[p].chart))

\* commit_or_winner: the unique key lets one create in.  A winner whose widget is
\* gone by now is nobody's: its record is deleted, and the create fails.
Inserted(p) ==
  LET now == target[At(p)]
  IN /\ page[p].pc = "insert"
     /\ \/ ~now.keyed /\ Stepped(p, Made(now, page[p].chart))
        \/ Replayed(p, page[p].chart)
        \/ /\ now.keyed /\ now.copies = 0
           /\ target' = [target EXCEPT ![At(p)] = [now EXCEPT !.keyed = FALSE]]
           /\ page' = [page EXCEPT ![p] = Turned(@, "abandon", 0)]
           /\ UNCHANGED <<steps, rows, landed, touches, faults, reloads>>

\* A create of this page goes on without it.
LeftLate(p) ==
  LET now == target[At(p)]
  IN [target EXCEPT ![At(p)] = [now EXCEPT !.late[page[p].chart] = @ + 1]]

\* The answer is lost while the node still works.
AddLost(p) ==
  /\ page[p].pc = "insert"
  /\ faults < MaxFaults /\ faults' = faults + 1
  /\ target' = LeftLate(p)
  /\ page' = [page EXCEPT ![p] = Turned(@, "abandon", 0)]
  /\ UNCHANGED <<steps, rows, landed, touches, reloads>>

LateInserted(i) ==
  LET now == target[i]
      ended(after, chart) == [after EXCEPT !.late[chart] = @ - 1]
  IN \E chart \in Charts :
       /\ now.late[chart] > 0
       /\ target' = [target EXCEPT ![i] =
            ended(IF ~now.keyed THEN Made(now, chart)
                  ELSE IF now.copies = 0 THEN [now EXCEPT !.keyed = FALSE] ELSE now, chart)]
       /\ landed' = IF now.keyed THEN landed ELSE landed \cup {i}
       /\ UNCHANGED <<steps, rows, page, touches, faults, reloads>>

\* A rename, a move or a text edit; a widget the fresh read lacks is gone.
Edited(p) ==
  LET now == target[At(p)]
      gone == Kind(p) = "edit" /\ (At(p) \notin page[p].seen \/ now.copies = 0)
  IN /\ Runs(p) /\ ~NeedsRead(p) /\ Kind(p) \in {"rename", "edit"}
     /\ \/ gone /\ Refused(p, "abandon")
        \/ ~gone /\ ~Unchanged(p) /\ Refused(p, "clash")
        \/ /\ ~gone /\ Unchanged(p)
           /\ Stepped(p, [now EXCEPT !.fresh = FALSE, !.theirs = FALSE])

\* A widget is removed; one that is not there is an error like any other.
Removed(p) ==
  LET now == target[At(p)]
  IN /\ Runs(p) /\ ~NeedsRead(p) /\ Kind(p) = "remove"
     /\ \/ now.copies = 0 /\ Refused(p, "abandon")
        \/ now.copies > 0 /\ ~Unchanged(p) /\ Refused(p, "clash")
        \/ /\ now.copies > 0 /\ Unchanged(p)
           /\ Stepped(p, [now EXCEPT !.copies = 0, !.theirs = FALSE])
-----------------------------------------------------------------------------
(* The end of a run.                                                         *)

\* The page's row is patched; "of" says whether the page still holds it.
Patched(p, of, status) ==
  [i \in DOMAIN rows |->
     IF rows[i].of = p THEN Promotion(of, status, Did(p)) ELSE rows[i]]

\* The page lets go of its row.
Left(p) ==
  [i \in DOMAIN rows |-> IF rows[i].of = p THEN [rows[i] EXCEPT !.of = Nothing] ELSE rows[i]]

\* Slip: a conflict ends like any other failure.
AbandonedQuietly(p) ==
  LET status == IF Did(p) = {} THEN "failed" ELSE "partial"
  IN /\ page[p].pc \in {"abandon", "clash"}
     /\ \E outcome \in Outcomes :
          /\ Call(outcome)
          /\ rows' = Kept(IF Done(outcome) THEN Patched(p, Nothing, status) ELSE Left(p))
     /\ page' = Shows(p, "idle", status, Did(p))
     /\ UNCHANGED <<steps, target, landed, touches, reloads>>

\* abandonPromotion swallows its own failure; the page keeps what it knows.
Abandoned(p) ==
  LET status == IF Did(p) = {} THEN "failed" ELSE "partial"
  IN /\ page[p].pc \in {"abandon", "clash"}
     /\ \E outcome \in Outcomes :
          /\ Call(outcome)
          /\ rows' = Kept(IF Done(outcome) THEN Patched(p, Nothing, status) ELSE Left(p))
     /\ page' = Shows(p, IF page[p].pc = "clash" THEN "conflict" ELSE "idle", status, Did(p))
     /\ UNCHANGED <<steps, target, landed, touches, reloads>>

\* finishPromotion: the page shows the done row, or keeps the patch to retry.
Finished(p) ==
  /\ \/ page[p].pc = "run" /\ At(p) > Len(steps)
     \/ page[p].pc = "unsynced"
  /\ \E outcome \in Outcomes :
       /\ Call(outcome)
       /\ IF outcome = "ok"
          THEN /\ rows' = Kept(Patched(p, Nothing, "done"))
               /\ page' = Shows(p, "idle", "done", Did(p))
          ELSE /\ rows' = IF Done(outcome) THEN Patched(p, p, "done") ELSE rows
               /\ page' = [page EXCEPT ![p].pc = "unsynced"]
  /\ UNCHANGED <<steps, target, landed, touches, reloads>>

\* The browser reloads: the run and the kept patch are gone, but for a create the
\* node is working on.
Reloaded(p) ==
  /\ reloads < MaxReloads /\ reloads' = reloads + 1
  /\ page' = [page EXCEPT ![p] = Card("idle", Carried(rows), IsDone(rows))]
  /\ rows' = Kept(Left(p))
  /\ target' = IF page[p].pc = "insert" THEN LeftLate(p) ELSE target
  /\ UNCHANGED <<steps, landed, touches, faults>>

\* Somebody edits the dashboard: a target is changed, or a widget removed.
Changed(i) ==
  /\ touches < MaxTouches /\ touches' = touches + 1
  /\ target[i].copies > 0
  /\ \/ target' = [target EXCEPT ![i].fresh = FALSE, ![i].theirs = TRUE]
     \/ steps[i] # "rename" /\ target' = [target EXCEPT ![i].copies = 0]
  /\ UNCHANGED <<steps, rows, page, landed, faults, reloads>>

\* The saved query of an added draft gets another chart, which comes first.
Redrawn(i) ==
  /\ touches < MaxTouches /\ touches' = touches + 1
  /\ steps[i] = "add" /\ target[i].drawn = 0
  /\ target' = [target EXCEPT ![i].drawn = 1]
  /\ UNCHANGED <<steps, rows, page, landed, faults, reloads>>
-----------------------------------------------------------------------------
Added(p) == AddLooked(p) \/ Inserted(p) \/ AddLost(p)

Step(p) ==
  StepCarried(p) \/ Read(p) \/ Added(p) \/ Edited(p) \/ Removed(p)

Run(p) == Recorded(p) \/ Step(p) \/ Abandoned(p) \/ Finished(p)

Next ==
  \/ \E p \in Pages :
       ApplyClicked(p) \/ OverwriteClicked(p) \/ KeepClicked(p) \/ Run(p) \/ Reloaded(p)
  \/ \E i \in All : LateInserted(i) \/ Changed(i) \/ Redrawn(i)

\* A browser carries on with a run it started; the analyst of a page goes on
\* applying, and overwrites when asked often enough.
Fairness ==
  \A p \in Pages :
    WF_vars(Run(p)) /\ WF_vars(ApplyClicked(p)) /\ SF_vars(OverwriteClicked(p))

Spec == Init /\ [][Next]_vars /\ Fairness
-----------------------------------------------------------------------------
(* What every state is made of: a page that is past its first call has a row, *)
(* and one only.                                                              *)
TypeOK ==
  /\ steps \in Edits /\ landed \subseteq All
  /\ DOMAIN target = All
  /\ \A i \in DOMAIN rows :
       /\ rows[i].of \in Pages \cup {Nothing} /\ rows[i].did \subseteq All
       /\ rows[i].status \in {"pending", "done", "failed", "partial"}
  /\ \A p \in Pages :
       /\ page[p].pc \in {"run", "insert", "abandon", "clash", "unsynced"} <=>
            \E i \in DOMAIN rows : rows[i].of = p
       /\ \A i, j \in DOMAIN rows : rows[i].of = p /\ rows[j].of = p => i = j

(* However often an edit is applied, and from how many tabs, an added widget  *)
(* is on the dashboard once.                                                  *)
OneWidgetPerAdd == \A i \in All : target[i].copies <= 1

(* Receipts are true: a step any promotion calls done did take effect, and an *)
(* edit is called done only when every step of it did.                        *)
ReceiptsAreTrue ==
  /\ \A i \in DOMAIN rows :
       /\ rows[i].did \subseteq landed
       /\ rows[i].status = "done" => rows[i].did = All
  /\ \A p \in Pages :
       /\ page[p].carried \subseteq landed
       /\ page[p].done => landed = All

(* The promise of EditPromise: steps land in order, and a change somebody else *)
(* made is written over only while an overwrite runs; a widget the edit added  *)
(* and somebody removed may be made again.  That an add lands once is          *)
(* OneWidgetPerAdd; a write may land again.                                    *)
Promise == INSTANCE EditPromise WITH
  Steps <- 1 .. MaxSteps,
  touched <- {i \in All : target[i].theirs /\ target[i].copies > 0},
  gone <- {i \in All : target[i].copies = 0},
  asked <- \E p \in Pages : page[p].over

PromiseKept == Promise!Spec

Applied == \E p \in Pages : page[p].done

(* "Apply again to finish the rest": an analyst who goes on applying, and     *)
(* overwriting when asked, gets the edit applied, when it removes nothing,    *)
(* nobody removes what it edits, and no query it adds gets another chart.     *)
KeepsItsWord ==
  <>[](\A i \in All : /\ steps[i] # "remove" /\ target[i].drawn = 0
                      /\ steps[i] = "edit" => target[i].copies > 0) => <>Applied

Partly(p) == page[p].carried # {} /\ ~page[p].done

(* A card that says "n of m changes applied. Apply again to finish the rest." *)
(* is finished by applying again, while nobody else touches the dashboard:    *)
(* the message makes no exception for an edit that removes widgets.           *)
ApplyAgainFinishes ==
  [](touches = 0) => \A p \in Pages : Partly(p) ~> Applied
=============================================================================
