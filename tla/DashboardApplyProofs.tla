------------------------ MODULE DashboardApplyProofs ------------------------
(* What holds of DashboardApply for every set of pages, every edit and every *)
(* bound, and that it implements EditPromise.                                *)
EXTENDS DashboardApply, SequenceTheorems, TLAPS

Target == [copies : Nat, fresh : BOOLEAN, theirs : BOOLEAN, keyed : BOOLEAN,
           shows : Charts, drawn : Charts, late : [Charts -> Nat]]

Pcs == {"idle", "record", "run", "insert", "abandon", "clash", "conflict", "unsynced"}

CardType == [pc : Pcs, over : BOOLEAN, at : 0 .. Len(steps) + 1, chart : Charts,
             seen : SUBSET ({0} \cup All), carried : SUBSET All, done : BOOLEAN]

Row == [of : Pages \cup {Nothing}, status : {"pending", "done", "failed", "partial"},
        did : SUBSET All]

Typed ==
  /\ steps \in Edits /\ Len(steps) \in 0 .. MaxSteps
  /\ target \in [All -> Target]
  /\ page \in [Pages -> CardType]
  /\ landed \subseteq All

\* A card's receipts, and what it carries from the run before, are true, when
\* "done" are the steps that landed.
CardTold(x, done) ==
  /\ 1 .. x.at - 1 \subseteq done
  /\ x.pc \in {"run", "insert"} => x.at # 0
  /\ x.pc = "insert" => x.at =< Len(steps) /\ steps[x.at] = "add"
  /\ x.pc = "unsynced" => x.at = Len(steps) + 1
  /\ x.carried \subseteq done
  /\ x.done => done = All

\* The rows whose receipts are.
TrueRows(done) ==
  {row \in Row : row.did \subseteq done /\ (row.status = "done" => row.did = All)}

Told ==
  /\ \A p \in Pages : CardTold(page[p], landed)
  /\ rows \in Seq(TrueRows(landed))

\* What a target looks like says whether its step landed: a widget that was added
\* carries the step's key, a key is used by a step that landed, what was written is
\* no longer fresh, what was removed is gone.  A create is late only of an add that
\* an apply had come to.
TargetTells(i, now, done) ==
  /\ now.copies \in {0, 1}
  /\ now.theirs => ~now.fresh
  /\ steps[i] = "add" => /\ now.keyed => i \in done
                         /\ now.copies > 0 => now.keyed
  /\ (\E chart \in Charts : now.late[chart] > 0) =>
       1 .. i - 1 \subseteq done /\ steps[i] = "add"
  /\ steps[i] \in {"rename", "edit"} /\ i \in done => ~now.fresh
  /\ steps[i] = "remove" /\ i \in done => now.copies = 0

TargetsTell == \A i \in All : TargetTells(i, target[i], landed)

Inv == Typed /\ Told /\ TargetsTell

-----------------------------------------------------------------------------
(* Rows that are dropped.                                                    *)

\* A sequence without one element holds the others, in their order.
LEMMA RemovedElement ==
  ASSUME NEW S, NEW s \in Seq(S), NEW k \in 1 .. Len(s)
  PROVE  /\ RemoveAt(s, k) \in Seq(S) /\ Len(RemoveAt(s, k)) = Len(s) - 1
         /\ \A n \in 1 .. Len(s) - 1 :
              RemoveAt(s, k)[n] = s[IF n < k THEN n ELSE n + 1]
<1> DEFINE left == SubSeq(s, 1, k - 1)
           right == SubSeq(s, k + 1, Len(s))
<1>1. Len(s) \in Nat /\ k \in Nat /\ 1 =< k /\ k =< Len(s)
    OBVIOUS
<1>2. /\ left \in Seq(S) /\ Len(left) = k - 1
      /\ \A i \in 1 .. k - 1 : left[i] = s[i]
    BY <1>1, SubSeqProperties
<1>3. /\ right \in Seq(S) /\ Len(right) = Len(s) - k
      /\ \A i \in 1 .. Len(s) - k : right[i] = s[k + i]
    BY <1>1, SubSeqProperties
<1> HIDE DEF left, right
<1>4. /\ left \o right \in Seq(S) /\ Len(left \o right) = Len(s) - 1
      /\ \A n \in 1 .. Len(s) - 1 :
           (left \o right)[n] = IF n =< k - 1 THEN left[n] ELSE right[n - (k - 1)]
  <2>1. /\ left \o right \in Seq(S)
        /\ Len(left \o right) = Len(left) + Len(right)
        /\ \A n \in 1 .. Len(left) + Len(right) :
             (left \o right)[n] = IF n =< Len(left) THEN left[n] ELSE right[n - Len(left)]
    <3>1. left \in Seq(S) /\ right \in Seq(S)
        BY <1>2, <1>3
    <3> QED
        BY <3>1, ConcatProperties, Zenon
  <2>2. Len(left) + Len(right) = Len(s) - 1 /\ Len(left) = k - 1
      BY <1>1, <1>2, <1>3
  <2> QED
      BY <2>1, <2>2
<1>5. RemoveAt(s, k) = left \o right
    BY DEF RemoveAt, left, right
<1>6. ASSUME NEW n \in 1 .. Len(s) - 1
      PROVE  (left \o right)[n] = s[IF n < k THEN n ELSE n + 1]
  <2>1. CASE n < k
    <3>1. n =< k - 1 /\ n \in 1 .. k - 1
        BY <1>1, <2>1
    <3> QED
        BY <1>2, <1>4, <2>1, <3>1
  <2>2. CASE ~(n < k)
    <3>1. ~(n =< k - 1) /\ n - (k - 1) \in 1 .. Len(s) - k /\ k + (n - (k - 1)) = n + 1
        BY <1>1, <2>2
    <3> QED
        BY <1>3, <1>4, <2>2, <3>1
  <2> QED
      BY <2>1, <2>2
<1> QED
    BY <1>4, <1>5, <1>6

\* What Kept leaves is what was there, each row once, and every row a page owns.
LEMMA KeptRows ==
  ASSUME NEW S, NEW s \in Seq(S)
  PROVE  /\ Kept(s) \in Seq(S)
         /\ \E f \in [DOMAIN Kept(s) -> DOMAIN s] :
              /\ \A n \in DOMAIN Kept(s) : Kept(s)[n] = s[f[n]]
              /\ \A m, n \in DOMAIN Kept(s) : f[m] = f[n] => m = n
              /\ \A i \in DOMAIN s : s[i].of # Nothing => \E n \in DOMAIN Kept(s) : f[n] = i
<1> DEFINE Unread(i) == i \notin {Len(s), LastPartial(s)} /\ s[i].of = Nothing
<1>0. Len(s) \in Nat /\ DOMAIN s = 1 .. Len(s)
    OBVIOUS
<1>1. CASE ~\E i \in DOMAIN s : Unread(i)
  <2>1. Kept(s) = s
      BY <1>1 DEF Kept
  <2> DEFINE f == [n \in DOMAIN s |-> n]
  <2>2. /\ f \in [DOMAIN Kept(s) -> DOMAIN s]
        /\ \A n \in DOMAIN Kept(s) : Kept(s)[n] = s[f[n]]
        /\ \A m, n \in DOMAIN Kept(s) : f[m] = f[n] => m = n
        /\ \A i \in DOMAIN s : s[i].of # Nothing => \E n \in DOMAIN Kept(s) : f[n] = i
      BY <2>1
  <2> QED
      BY <2>1, <2>2
<1>2. CASE \E i \in DOMAIN s : Unread(i)
  <2> DEFINE k == CHOOSE i \in DOMAIN s : Unread(i)
  <2>1. k \in DOMAIN s /\ Unread(k)
      BY <1>2
  <2>2. Kept(s) = RemoveAt(s, k)
      BY <1>2 DEF Kept
  <2>3. s[k].of = Nothing /\ k \in 1 .. Len(s)
      BY <1>0, <2>1
  <2> HIDE DEF k, Unread
  <2>4. /\ Kept(s) \in Seq(S) /\ Len(Kept(s)) = Len(s) - 1
        /\ DOMAIN Kept(s) = 1 .. Len(s) - 1
        /\ \A n \in 1 .. Len(s) - 1 : Kept(s)[n] = s[IF n < k THEN n ELSE n + 1]
    <3>1. /\ Kept(s) \in Seq(S) /\ Len(Kept(s)) = Len(s) - 1
          /\ \A n \in 1 .. Len(s) - 1 : Kept(s)[n] = s[IF n < k THEN n ELSE n + 1]
        BY <2>2, <2>3, RemovedElement
    <3> QED
        BY <3>1
  <2> DEFINE f == [n \in 1 .. Len(s) - 1 |-> IF n < k THEN n ELSE n + 1]
  <2>5. f \in [DOMAIN Kept(s) -> DOMAIN s]
      BY <1>0, <2>3, <2>4
  <2>6. \A m, n \in DOMAIN Kept(s) : f[m] = f[n] => m = n
      BY <1>0, <2>3, <2>4
  <2>7. ASSUME NEW i \in DOMAIN s, s[i].of # Nothing
        PROVE  \E n \in DOMAIN Kept(s) : f[n] = i
    <3>1. i # k /\ i \in 1 .. Len(s)
        BY <1>0, <2>3, <2>7
    <3>2. CASE i < k
      <4>1. i \in 1 .. Len(s) - 1 /\ f[i] = i
          BY <1>0, <2>3, <3>1, <3>2
      <4> QED
          BY <2>4, <4>1
    <3>3. CASE ~(i < k)
      <4>1. i - 1 \in 1 .. Len(s) - 1 /\ f[i - 1] = i
          BY <1>0, <2>3, <3>1, <3>3
      <4> QED
          BY <2>4, <4>1
    <3> QED
        BY <3>2, <3>3
  <2>8. \A n \in DOMAIN Kept(s) : Kept(s)[n] = s[f[n]]
      BY <2>4
  <2> QED
      BY <2>4, <2>5, <2>6, <2>7, <2>8
<1> QED
    BY <1>1, <1>2
-----------------------------------------------------------------------------
(* Facts about the constants and about cards.                                *)

\* The steps of an edit are at most MaxSteps.
LEMMA EditLength ==
  ASSUME steps \in Edits
  PROVE  Len(steps) \in 0 .. MaxSteps /\ All \subseteq 1 .. MaxSteps
<1>1. PICK n \in 1 .. MaxSteps : steps \in [1 .. n -> Kinds]
    BY EditsAreSteps
<1>2. Len(steps) = n /\ n \in Nat
    BY <1>1, EditsAreSteps
<1> QED
    BY <1>1, <1>2, EditsAreSteps DEF All

\* What a card says stays true while more steps land.
LEMMA CardsStayTold ==
  ASSUME NEW x, NEW done, NEW more, done \subseteq more, more \subseteq All, CardTold(x, done)
  PROVE  CardTold(x, more)
BY DEF CardTold

LEMMA RowsStayTold ==
  ASSUME NEW more, landed \subseteq more, rows \in Seq(TrueRows(landed))
  PROVE  rows \in Seq(TrueRows(more))
<1>1. TrueRows(landed) \subseteq TrueRows(more)
    BY DEF TrueRows
<1> QED
    BY <1>1

\* A card at rest.
LEMMA RestingCard ==
  ASSUME NEW pc \in {"idle", "conflict"}, NEW carried, NEW done \in BOOLEAN,
         carried \subseteq landed, done => landed = All, landed \subseteq All,
         Len(steps) \in Nat
  PROVE  /\ Card(pc, carried, done) \in CardType
         /\ CardTold(Card(pc, carried, done), landed)
<1>1. pc \in Pcs /\ 0 \in 0 .. Len(steps) + 1 /\ carried \in SUBSET All /\ 0 \in Charts
    BY DEF Pcs, Charts
<1>2. Card(pc, carried, done) \in CardType
    BY <1>1 DEF Card, CardType
<1>3. 1 .. 0 - 1 \subseteq landed
    OBVIOUS
<1> QED
    BY <1>2, <1>3 DEF Card, CardTold

\* The receipts of the last partial promotion are those of a row.
LEMMA CarriedIsTrue ==
  ASSUME rows \in Seq(TrueRows(landed))
  PROVE  Carried(rows) \subseteq landed
<1>1. LastPartial(rows) = 0 \/ LastPartial(rows) \in DOMAIN rows
    BY DEF LastPartial
<1>2. CASE LastPartial(rows) = 0
    BY <1>2 DEF Carried
<1>3. CASE LastPartial(rows) # 0
  <2>1. rows[LastPartial(rows)] \in TrueRows(landed)
      BY <1>1, <1>3
  <2> QED
      BY <1>3, <2>1 DEF Carried, TrueRows
<1> QED
    BY <1>2, <1>3

LEMMA DoneIsTrue ==
  ASSUME rows \in Seq(TrueRows(landed)), landed \subseteq All, IsDone(rows)
  PROVE  landed = All
<1>1. Len(rows) \in DOMAIN rows
    BY DEF IsDone
<1>2. rows[Len(rows)] \in TrueRows(landed) /\ rows[Len(rows)].status = "done"
    BY <1>1 DEF IsDone, Last
<1> QED
    BY <1>2 DEF TrueRows
-----------------------------------------------------------------------------
(* Init.                                                                     *)

LEMMA InitInv ==
  ASSUME Init
  PROVE  Inv
<1>1. steps \in Edits /\ Len(steps) \in 0 .. MaxSteps /\ landed = {} /\ rows = <<>>
    BY EditLength DEF Init
<1>2. ASSUME NEW i \in All
      PROVE  target[i] \in Target /\ TargetTells(i, target[i], landed)
  <2>1. target[i] = Untouched(steps[i])
      BY DEF Init
  <2> QED
      BY <1>1, <2>1 DEF Untouched, Target, TargetTells, Charts
<1>3. target \in [All -> Target]
    BY <1>2 DEF Init
<1>4. ASSUME NEW p \in Pages
      PROVE  page[p] \in CardType /\ CardTold(page[p], landed)
  <2>1. page[p] = Card("idle", {}, FALSE)
      BY DEF Init
  <2>2. Len(steps) \in Nat
      BY <1>1, EditsAreSteps
  <2> QED
      BY <1>1, <2>1, <2>2, RestingCard
<1>5. page \in [Pages -> CardType]
    BY <1>4 DEF Init
<1>6. rows \in Seq(TrueRows(landed))
    BY <1>1
<1> QED
    BY <1>1, <1>2, <1>3, <1>4, <1>5, <1>6 DEF Inv, Typed, Told, TargetsTell
-----------------------------------------------------------------------------
(* How a step changes one card, and the rows.                                *)

CardMoves(p) ==
  \E x \in CardType : page' = [page EXCEPT ![p] = x] /\ CardTold(x, landed')

RowsMove == rows' \in Seq(TrueRows(landed'))

\* A card that begins a run.
LEMMA CardBegins ==
  ASSUME NEW x \in CardType, NEW over \in BOOLEAN, NEW done, CardTold(x, done)
  PROVE  Begun(x, over) \in CardType /\ CardTold(Begun(x, over), done)
<1> DEFINE y == Begun(x, over)
<1>1. /\ y \in CardType /\ y.pc = "record" /\ y.at = x.at /\ y.carried = x.carried
      /\ y.done = x.done
    BY DEF CardType, Pcs, Begun
<1> HIDE DEF y
<1>2. CardTold(y, done)
    BY <1>1 DEF CardTold
<1> QED
    BY <1>1, <1>2 DEF y

\* A card that leaves its step for the end of its run, or its conflict alone.
LEMMA CardStops ==
  ASSUME NEW x \in CardType, NEW pc \in {"idle", "abandon", "clash"}, NEW done,
         CardTold(x, done)
  PROVE  /\ Turned(x, pc, 0) \in CardType /\ CardTold(Turned(x, pc, 0), done)
         /\ Turned(x, pc, 0).over = x.over /\ Turned(x, pc, 0).pc = pc
<1> DEFINE y == Turned(x, pc, 0)
<1>0. pc \in Pcs /\ 0 \in Charts
    BY DEF Pcs, Charts
<1>1. /\ y.pc = pc /\ y.at = x.at /\ y.carried = x.carried
      /\ y.done = x.done /\ y.over = x.over
    BY DEF CardType, Turned
<1>3. y \in CardType
    BY <1>0 DEF CardType, Turned
<1> HIDE DEF y
<1>2. CardTold(y, done)
    BY <1>1 DEF CardTold
<1> QED
    BY <1>1, <1>2, <1>3 DEF y

\* A card that takes its next step.
LEMMA CardGoesOn ==
  ASSUME NEW x \in CardType, NEW done, CardTold(x, done),
         x.pc \in {"run", "insert"}, x.at =< Len(steps), Len(steps) \in Nat, x.at \in done
  PROVE  /\ Onward(x) \in CardType /\ CardTold(Onward(x), done)
         /\ Onward(x).over = x.over
<1> DEFINE y == Onward(x)
<1>1. x.at \in 0 .. Len(steps) + 1 /\ x.at + 1 \in 0 .. Len(steps) + 1
    BY DEF CardType
<1>0. "run" \in Pcs /\ 0 \in Charts
    BY DEF Pcs, Charts
<1>2. /\ y.pc = "run" /\ y.at = x.at + 1 /\ y.carried = x.carried
      /\ y.done = x.done /\ y.over = x.over
    BY DEF CardType, Onward
<1>6. y \in CardType
    BY <1>0, <1>1 DEF CardType, Onward
<1>3. 1 .. x.at \subseteq done
    BY <1>1 DEF CardTold
<1> HIDE DEF y
<1>4. 1 .. y.at - 1 \subseteq done /\ y.at # 0
    BY <1>1, <1>2, <1>3
<1>5. CardTold(y, done)
    BY <1>2, <1>4 DEF CardTold
<1> QED
    BY <1>2, <1>5, <1>6 DEF y

\* A card that becomes another one, told of what has landed.
LEMMA MovesTo ==
  ASSUME NEW p \in Pages, NEW y \in CardType, CardTold(y, landed'),
         page' = [page EXCEPT ![p] = y]
  PROVE  CardMoves(p)
  BY DEF CardMoves

\* The steps that only move the card.
LEMMA CardSteps ==
  ASSUME Typed, Told, NEW p \in Pages,
         \/ ApplyClicked(p) \/ OverwriteClicked(p) \/ KeepClicked(p) \/ StepCarried(p)
         \/ Read(p)
  PROVE  CardMoves(p) /\ RowsMove /\ UNCHANGED <<steps, target, rows, landed>>
<1>1. UNCHANGED <<steps, target, rows, landed>>
    BY DEF ApplyClicked, OverwriteClicked, Clicked, KeepClicked, StepCarried, Read
<1>2. RowsMove
    BY <1>1 DEF RowsMove, Told
<1>3. page[p] \in CardType /\ CardTold(page[p], landed) /\ Len(steps) \in Nat
    BY EditsAreSteps DEF Typed, Told
<1>4. ASSUME NEW over \in BOOLEAN, Clicked(p, over)
      PROVE  CardMoves(p)
  <2>1. page' = [page EXCEPT ![p] = Begun(page[p], over)]
      BY <1>4 DEF Clicked, Typed
  <2>2. Begun(page[p], over) \in CardType /\ CardTold(Begun(page[p], over), landed)
      BY <1>3, CardBegins
  <2> QED
      BY <1>1, <2>1, <2>2, MovesTo
<1>5. \A pc \in {"idle", "abandon"} :
        page' = [page EXCEPT ![p] = Turned(page[p], pc, 0)] => CardMoves(p)
  <2> SUFFICES ASSUME NEW pc \in {"idle", "abandon"},
                      page' = [page EXCEPT ![p] = Turned(page[p], pc, 0)]
               PROVE  CardMoves(p)
      OBVIOUS
  <2>1. Turned(page[p], pc, 0) \in CardType /\ CardTold(Turned(page[p], pc, 0), landed)
      BY <1>3, CardStops
  <2> QED
      BY <1>1, <2>1, MovesTo
<1>6. ASSUME StepCarried(p) PROVE CardMoves(p)
  <2>1. page' = [page EXCEPT ![p] = Onward(page[p])]
      BY <1>6 DEF StepCarried, Typed
  <2>2. page[p].pc = "run" /\ page[p].at =< Len(steps) /\ page[p].at \in landed
      BY <1>3, <1>6 DEF StepCarried, At, CardTold
  <2>3. Onward(page[p]) \in CardType /\ CardTold(Onward(page[p]), landed)
      BY <1>3, <2>2, CardGoesOn
  <2> QED
      BY <1>1, <2>1, <2>3, MovesTo
<1>7. ASSUME Read(p) PROVE CardMoves(p)
  <2>1. CASE page' = [page EXCEPT ![p] = Turned(@, "abandon", 0)]
      BY <1>5, <2>1 DEF Typed
  <2>2. CASE page' = [page EXCEPT ![p].seen = {0} \cup {i \in All : target[i].copies > 0}]
    <3> DEFINE seen == {0} \cup {i \in All : target[i].copies > 0}
               y == [page[p] EXCEPT !.seen = seen]
    <3>1. page' = [page EXCEPT ![p] = y]
        BY <2>2 DEF Typed
    <3>2. seen \in SUBSET ({0} \cup All)
        OBVIOUS
    <3> HIDE DEF seen
    <3>3. /\ y \in CardType /\ y.pc = page[p].pc /\ y.at = page[p].at
          /\ y.carried = page[p].carried /\ y.done = page[p].done
        BY <1>3, <3>2 DEF CardType
    <3> HIDE DEF y
    <3>4. CardTold(y, landed)
        BY <1>3, <3>3 DEF CardTold
    <3> QED
        BY <1>1, <3>1, <3>3, <3>4, MovesTo
  <2> QED
      BY <1>7, <2>1, <2>2 DEF Read
<1>8. ASSUME KeepClicked(p) PROVE CardMoves(p)
    BY <1>5, <1>8 DEF KeepClicked, Typed
<1> QED
    BY <1>1, <1>2, <1>4, <1>6, <1>7, <1>8 DEF ApplyClicked, OverwriteClicked
-----------------------------------------------------------------------------
(* The steps that write rows.                                                *)

LEMMA PatchedRows ==
  ASSUME rows \in Seq(TrueRows(landed)), NEW p, NEW of \in Pages \cup {Nothing},
         NEW status \in {"pending", "done", "failed", "partial"},
         Did(p) \subseteq landed, landed \subseteq All, status = "done" => Did(p) = All
  PROVE  Patched(p, of, status) \in Seq(TrueRows(landed))
<1>1. Promotion(of, status, Did(p)) \in TrueRows(landed)
    BY DEF Promotion, TrueRows, Row
<1> QED
    BY <1>1 DEF Patched

LEMMA LeftRows ==
  ASSUME rows \in Seq(TrueRows(landed)), NEW p
  PROVE  Left(p) \in Seq(TrueRows(landed))
<1>1. ASSUME NEW row \in TrueRows(landed)
      PROVE  [row EXCEPT !.of = Nothing] \in TrueRows(landed)
    BY DEF TrueRows, Row
<1> QED
    BY <1>1 DEF Left

\* What a page did is among the steps that landed.
LEMMA DidLanded ==
  ASSUME Typed, Told, NEW p \in Pages
  PROVE  /\ page[p] \in CardType /\ CardTold(page[p], landed)
         /\ Len(steps) \in Nat /\ landed \subseteq All
         /\ Did(p) \subseteq landed
BY EditsAreSteps DEF Typed, Told, CardTold, Did, At

\* A card that shows a promotion, and rests.
LEMMA ShowsCard ==
  ASSUME Typed, Told, NEW p \in Pages, NEW pc \in {"idle", "conflict"}, NEW status,
         status = "done" => Did(p) = All, landed' = landed,
         page' = Shows(p, pc, status, Did(p))
  PROVE  CardMoves(p)
<1> DEFINE carried == IF status = "partial" THEN Did(p) ELSE page[p].carried
<1>1. page' = [page EXCEPT ![p] = Card(pc, carried, status = "done")]
    BY DEF Shows, Typed
<1>2. carried \subseteq landed /\ (status = "done" => landed = All)
    BY DidLanded DEF CardTold
<1> HIDE DEF carried
<1>3. /\ Card(pc, carried, status = "done") \in CardType
      /\ CardTold(Card(pc, carried, status = "done"), landed)
    BY <1>2, DidLanded, RestingCard
<1> QED
    BY <1>1, <1>3 DEF CardMoves

LEMMA RecordedSteps ==
  ASSUME Typed, Told, NEW p \in Pages, Recorded(p)
  PROVE  CardMoves(p) /\ RowsMove /\ UNCHANGED <<steps, target, landed>>
<1>1. UNCHANGED <<steps, target, landed>>
    BY DEF Recorded
<1>2. PICK outcome \in Outcomes :
        /\ LET of == IF outcome = "ok" THEN p ELSE Nothing
           IN rows' = IF Done(outcome) THEN Kept(Append(rows, Promotion(of, "pending", {})))
                                       ELSE rows
        /\ page' = IF outcome = "ok"
                   THEN [page EXCEPT ![p].pc = "run", ![p].at = 1]
                   ELSE [page EXCEPT ![p] = Card("idle", @.carried, @.done)]
    BY DEF Recorded
<1> DEFINE of == IF outcome = "ok" THEN p ELSE Nothing
<1>3. RowsMove
  <2>1. Promotion(of, "pending", {}) \in TrueRows(landed)
      BY DEF Promotion, TrueRows, Row
  <2>2. rows \in Seq(TrueRows(landed))
      BY DEF Told
  <2>3. Append(rows, Promotion(of, "pending", {})) \in Seq(TrueRows(landed))
      BY <2>1, <2>2
  <2>4. Kept(Append(rows, Promotion(of, "pending", {}))) \in Seq(TrueRows(landed))
      BY <2>3, KeptRows
  <2> QED
      BY <1>1, <1>2, <2>2, <2>4 DEF RowsMove
<1>4. CASE outcome = "ok"
  <2> DEFINE y == [page[p] EXCEPT !.pc = "run", !.at = 1]
  <2>1. page' = [page EXCEPT ![p] = y]
      BY <1>2, <1>4 DEF Typed
  <2>2. 1 \in 0 .. Len(steps) + 1 /\ 1 .. 1 - 1 \subseteq landed
      BY DidLanded
  <2>3. /\ y \in CardType /\ y.pc = "run" /\ y.at = 1 /\ y.carried = page[p].carried
        /\ y.done = page[p].done
      BY <2>2, DidLanded DEF CardType, Pcs
  <2> HIDE DEF y
  <2>4. CardTold(y, landed)
      BY <2>2, <2>3, DidLanded DEF CardTold
  <2> QED
      BY <1>1, <1>3, <2>1, <2>3, <2>4 DEF CardMoves
<1>5. CASE outcome # "ok"
  <2> DEFINE y == Card("idle", page[p].carried, page[p].done)
  <2>1. page' = [page EXCEPT ![p] = y]
      BY <1>2, <1>5 DEF Typed
  <2>2. /\ page[p].carried \subseteq landed /\ page[p].done \in BOOLEAN
        /\ page[p].done => landed = All
      BY DidLanded DEF CardTold, CardType
  <2>3. y \in CardType /\ CardTold(y, landed)
      BY <2>2, DidLanded, RestingCard
  <2> HIDE DEF y
  <2> QED
      BY <1>1, <1>3, <2>1, <2>3 DEF CardMoves
<1> QED
    BY <1>4, <1>5

LEMMA AbandonedSteps ==
  ASSUME Typed, Told, NEW p \in Pages, Abandoned(p)
  PROVE  CardMoves(p) /\ RowsMove /\ UNCHANGED <<steps, target, landed>>
<1> DEFINE status == IF Did(p) = {} THEN "failed" ELSE "partial"
           pc == IF page[p].pc = "clash" THEN "conflict" ELSE "idle"
<1>1. /\ UNCHANGED <<steps, target, landed>>
      /\ page' = Shows(p, pc, status, Did(p))
      /\ \/ rows' = Kept(Patched(p, Nothing, status))
         \/ rows' = Kept(Left(p))
    BY DEF Abandoned
<1>2. status \in {"failed", "partial"} /\ pc \in {"idle", "conflict"}
    OBVIOUS
<1> HIDE DEF status, pc
<1>3. CardMoves(p)
    BY <1>1, <1>2, ShowsCard
<1>4. rows \in Seq(TrueRows(landed))
    BY DEF Told
<1>5. Patched(p, Nothing, status) \in Seq(TrueRows(landed))
    BY <1>2, <1>4, DidLanded, PatchedRows
<1>6. Left(p) \in Seq(TrueRows(landed))
    BY <1>4, LeftRows
<1>7. RowsMove
    BY <1>1, <1>5, <1>6, KeptRows DEF RowsMove
<1> QED
    BY <1>1, <1>3, <1>7

LEMMA FinishedSteps ==
  ASSUME Typed, Told, NEW p \in Pages, Finished(p)
  PROVE  CardMoves(p) /\ RowsMove /\ UNCHANGED <<steps, target, landed>>
<1>1. /\ UNCHANGED <<steps, target, landed>>
      /\ \/ /\ rows' = Kept(Patched(p, Nothing, "done"))
            /\ page' = Shows(p, "idle", "done", Did(p))
         \/ /\ rows' \in {Patched(p, p, "done"), rows}
            /\ page' = [page EXCEPT ![p].pc = "unsynced"]
    BY DEF Finished
<1>2. page[p].at = Len(steps) + 1
    BY DidLanded DEF Finished, At, CardTold, CardType
<1>3. Did(p) = All
    BY <1>2, DidLanded DEF Did, At, All
<1>4. rows \in Seq(TrueRows(landed))
    BY DEF Told
<1>5. /\ Patched(p, Nothing, "done") \in Seq(TrueRows(landed))
      /\ Patched(p, p, "done") \in Seq(TrueRows(landed))
    BY <1>3, <1>4, DidLanded, PatchedRows
<1>6. RowsMove
    BY <1>1, <1>4, <1>5, KeptRows DEF RowsMove
<1>7. CardMoves(p)
  <2>1. CASE page' = Shows(p, "idle", "done", Did(p))
      BY <1>1, <1>3, <2>1, ShowsCard
  <2>2. CASE page' = [page EXCEPT ![p].pc = "unsynced"]
    <3> DEFINE y == [page[p] EXCEPT !.pc = "unsynced"]
    <3>1. page' = [page EXCEPT ![p] = y]
        BY <2>2 DEF Typed
    <3>2. /\ y \in CardType /\ y.pc = "unsynced" /\ y.at = page[p].at
          /\ y.carried = page[p].carried /\ y.done = page[p].done
        BY DidLanded DEF CardType, Pcs
    <3> HIDE DEF y
    <3>3. CardTold(y, landed)
        BY <1>2, <3>2, DidLanded DEF CardTold
    <3> QED
        BY <1>1, <3>1, <3>2, <3>3 DEF CardMoves
  <2> QED
      BY <1>1, <2>1, <2>2
<1> QED
    BY <1>1, <1>6, <1>7
-----------------------------------------------------------------------------
(* The steps that change the dashboard.                                      *)

Asked == \E p \in Pages : page[p].over

\* What a step may do to its target, which was "now" and is "after": nothing; make
\* again what was taken away; write again, or for the first time, over what somebody
\* changed only when asked to.
Meant(i, now, after) ==
  \/ i \in landed /\ after = now
  \/ /\ ~after.theirs
     /\ \/ i \in landed /\ now.copies = 0 /\ after.copies > 0
        \/ i \in landed /\ (after.copies = 0 <=> now.copies = 0) /\ Asked
        \/ i \notin landed /\ (now.theirs /\ now.copies > 0 => Asked)

\* A target that looks the same to everybody but the node, or a step that lands.
TargetMoves ==
  \/ UNCHANGED <<target, landed>>
  \/ \E i \in All, after \in Target :
       /\ target' = [target EXCEPT ![i] = after] /\ landed' = landed
       /\ TargetTells(i, after, landed)
       /\ after.copies = target[i].copies /\ after.theirs = target[i].theirs
  \/ \E i \in All, after \in Target :
       /\ target' = [target EXCEPT ![i] = after] /\ landed' = landed \cup {i}
       /\ 1 .. i - 1 \subseteq landed
       /\ TargetTells(i, after, landed \cup {i})
       /\ Meant(i, target[i], after)

\* A page at a step of its run.
Working(p) == page[p].pc \in {"run", "insert"} /\ At(p) =< Len(steps)

\* A call that is answered, refused, or carried out with its answer lost.
LEMMA SteppedCases ==
  ASSUME Typed, Told, NEW p \in Pages, NEW after \in Target, Working(p), Stepped(p, after),
         TargetTells(At(p), after, landed \cup {At(p)}),
         Meant(At(p), target[At(p)], after)
  PROVE  /\ CardMoves(p) /\ RowsMove /\ TargetMoves /\ UNCHANGED steps
         /\ \A q \in Pages : page'[q].over = page[q].over
<1>1. /\ page[p].pc \in {"run", "insert"} /\ page[p].at =< Len(steps) /\ page[p].at # 0
      /\ page[p].at \in 0 .. Len(steps) + 1 /\ 1 .. page[p].at - 1 \subseteq landed
    BY DidLanded DEF Working, At, CardTold, CardType
<1>2. At(p) \in All /\ At(p) = page[p].at
    BY <1>1, DidLanded DEF At, All
<1>3. PICK outcome \in Outcomes :
        /\ IF Done(outcome)
           THEN target' = [target EXCEPT ![At(p)] = after] /\ landed' = landed \cup {At(p)}
           ELSE UNCHANGED <<target, landed>>
        /\ page' = IF outcome = "ok"
                   THEN [page EXCEPT ![p] = Onward(@)]
                   ELSE [page EXCEPT ![p] = Turned(@, "abandon", 0)]
        /\ UNCHANGED <<steps, rows>>
    BY DEF Stepped
<1>4. landed \subseteq landed' /\ landed' \subseteq All
    BY <1>2, <1>3, DidLanded
<1>5. RowsMove
    BY <1>3, <1>4, RowsStayTold DEF Told, RowsMove
<1>6. TargetMoves
    BY <1>1, <1>2, <1>3 DEF TargetMoves
<1>7. page[p] \in CardType /\ CardTold(page[p], landed') /\ 0 \in Charts
    BY <1>4, DidLanded, CardsStayTold DEF Charts
<1>8. CardMoves(p) /\ \A q \in Pages : page'[q].over = page[q].over
  <2>1. CASE outcome = "ok"
    <3> DEFINE y == Onward(page[p])
    <3>1. page' = [page EXCEPT ![p] = y]
        BY <1>2, <1>3, <2>1 DEF Typed
    <3>2. page[p].at \in landed'
        BY <1>2, <1>3, <2>1 DEF Done
    <3>3. y \in CardType /\ CardTold(y, landed') /\ y.over = page[p].over
        BY <1>1, <1>7, <3>2, DidLanded, CardGoesOn
    <3> HIDE DEF y
    <3>4. CardMoves(p)
        BY <3>1, <3>3, MovesTo
    <3>5. \A q \in Pages : page'[q].over = page[q].over
        BY <3>1, <3>3 DEF Typed
    <3> QED
        BY <3>4, <3>5
  <2>2. CASE outcome # "ok"
    <3> DEFINE y == Turned(page[p], "abandon", 0)
    <3>1. page' = [page EXCEPT ![p] = y]
        BY <1>3, <2>2 DEF Typed
    <3>2. y \in CardType /\ CardTold(y, landed') /\ y.over = page[p].over
        BY <1>7, CardStops
    <3> HIDE DEF y
    <3>3. CardMoves(p)
        BY <3>1, <3>2, MovesTo
    <3>4. \A q \in Pages : page'[q].over = page[q].over
        BY <3>1, <3>2 DEF Typed
    <3> QED
        BY <3>3, <3>4
  <2> QED
      BY <2>1, <2>2
<1> QED
    BY <1>3, <1>5, <1>6, <1>8

\* A card that leaves its step for the end of its run, whatever the node did.
LEMMA GivenUp ==
  ASSUME Typed, Told, NEW p \in Pages, NEW pc \in {"abandon", "clash"},
         page' = [page EXCEPT ![p] = Turned(@, pc, 0)], UNCHANGED <<rows, landed>>
  PROVE  CardMoves(p) /\ RowsMove /\ \A q \in Pages : page'[q].over = page[q].over
<1> DEFINE y == Turned(page[p], pc, 0)
<1>1. page' = [page EXCEPT ![p] = y]
    BY DEF Typed
<1>2. page[p] \in CardType /\ CardTold(page[p], landed)
    BY DidLanded
<1>3. y \in CardType /\ CardTold(y, landed) /\ y.over = page[p].over
    BY <1>2, CardStops
<1> HIDE DEF y
<1>4. CardMoves(p)
    BY <1>1, <1>3, MovesTo
<1>5. \A q \in Pages : page'[q].over = page[q].over
    BY <1>1, <1>3 DEF Typed
<1> QED
    BY <1>4, <1>5 DEF RowsMove, Told

LEMMA RefusedCases ==
  ASSUME Typed, Told, NEW p \in Pages, NEW pc \in {"abandon", "clash"}, Refused(p, pc)
  PROVE  /\ CardMoves(p) /\ RowsMove /\ TargetMoves /\ UNCHANGED steps
         /\ \A q \in Pages : page'[q].over = page[q].over
BY GivenUp DEF Refused, TargetMoves

\* A step of an edit is made of its target, and of the overwriting of its page.
LEMMA StepTarget ==
  ASSUME Inv, NEW p \in Pages, Working(p)
  PROVE  /\ At(p) \in All /\ target[At(p)] \in Target
         /\ TargetTells(At(p), target[At(p)], landed)
         /\ page[p].over => Asked
         /\ 1 .. At(p) - 1 \subseteq landed
         /\ Typed /\ Told
<1>1. Typed /\ Told
    BY DEF Inv
<1>2. /\ page[p].at =< Len(steps) /\ page[p].at # 0
      /\ page[p].at \in 0 .. Len(steps) + 1 /\ 1 .. page[p].at - 1 \subseteq landed
    BY <1>1, DidLanded DEF Working, At, CardTold, CardType
<1>3. At(p) \in All
    BY <1>1, <1>2, DidLanded DEF At, All
<1> QED
    BY <1>1, <1>2, <1>3 DEF Inv, Typed, TargetsTell, Asked, At

\* A page that is adding a widget is at a step of its run.
LEMMA InsertsWork ==
  ASSUME Inv, NEW p \in Pages, page[p].pc = "insert"
  PROVE  Working(p) /\ steps[At(p)] = "add" /\ page[p].chart \in Charts
BY DidLanded DEF Inv, Working, At, CardTold, CardType

\* What a create that inserts makes of its target.
LEMMA MadeTarget ==
  ASSUME NEW i \in All, steps[i] = "add", NEW now \in Target, TargetTells(i, now, landed),
         ~now.keyed, NEW chart \in Charts
  PROVE  /\ Made(now, chart) \in Target
         /\ TargetTells(i, Made(now, chart), landed \cup {i})
         /\ Meant(i, now, Made(now, chart))
         /\ Made(now, chart).keyed /\ Made(now, chart).copies = 1
         /\ ~Made(now, chart).theirs /\ Made(now, chart).late = now.late
<1> DEFINE made == Made(now, chart)
<1>1. now.copies = 0
    BY DEF TargetTells
<1>2. /\ made \in Target /\ made.keyed /\ ~made.theirs
      /\ made.fresh = now.fresh /\ made.late = now.late /\ made.copies = 1
  <2> DEFINE one == [now EXCEPT !.keyed = TRUE, !.copies = 1, !.theirs = FALSE,
                                !.shows = chart]
  <2>1. /\ one \in Target /\ one.keyed /\ ~one.theirs
        /\ one.fresh = now.fresh /\ one.late = now.late /\ one.copies = 1
      BY DEF Target
  <2>2. now.copies + 1 = 1
      BY <1>1
  <2>3. made = one
      BY <2>2 DEF Made
  <2> QED
      BY <2>1, <2>3
<1> HIDE DEF made
<1>3. TargetTells(i, made, landed \cup {i})
    BY <1>2 DEF TargetTells
<1>4. Meant(i, now, made)
    BY <1>1, <1>2 DEF Meant
<1> QED
    BY <1>2, <1>3, <1>4 DEF made

\* A key whose widget is gone is given up.
LEMMA UnkeyedTarget ==
  ASSUME NEW i \in All, NEW now \in Target, TargetTells(i, now, landed), ~Present(now),
         steps[i] = "add"
  PROVE  LET after == [now EXCEPT !.keyed = FALSE]
         IN /\ after \in Target /\ TargetTells(i, after, landed)
            /\ after.copies = now.copies /\ after.theirs = now.theirs
            /\ after.late = now.late
<1> DEFINE after == [now EXCEPT !.keyed = FALSE]
<1>1. now.copies = 0
    BY DEF TargetTells, Present
<1>2. /\ after \in Target /\ ~after.keyed /\ after.copies = now.copies
      /\ after.theirs = now.theirs /\ after.fresh = now.fresh /\ after.late = now.late
    BY DEF Target
<1> HIDE DEF after
<1>3. TargetTells(i, after, landed)
    BY <1>1, <1>2 DEF TargetTells
<1> QED
    BY <1>2, <1>3 DEF after

\* A create that goes on without its page, or ends.
LEMMA LateTarget ==
  ASSUME NEW i \in All, NEW now \in Target, NEW done, TargetTells(i, now, done),
         steps[i] = "add", 1 .. i - 1 \subseteq done, NEW late \in [Charts -> Nat]
  PROVE  LET after == [now EXCEPT !.late = late]
         IN /\ after \in Target /\ TargetTells(i, after, done)
            /\ after.copies = now.copies /\ after.theirs = now.theirs
<1> DEFINE after == [now EXCEPT !.late = late]
<1>1. /\ after \in Target /\ after.keyed = now.keyed /\ after.copies = now.copies
      /\ after.theirs = now.theirs /\ after.fresh = now.fresh
    BY DEF Target
<1> HIDE DEF after
<1>2. TargetTells(i, after, done)
    BY <1>1 DEF TargetTells
<1> QED
    BY <1>1, <1>2 DEF after

LEMMA LeftLateMoves ==
  ASSUME Inv, NEW p \in Pages, page[p].pc = "insert", target' = LeftLate(p),
         UNCHANGED landed
  PROVE  TargetMoves
<1> DEFINE now == target[At(p)]
           late == [now.late EXCEPT ![page[p].chart] = @ + 1]
           after == [now EXCEPT !.late = late]
<1>1. /\ Working(p) /\ steps[At(p)] = "add" /\ page[p].chart \in Charts
    BY InsertsWork
<1>2. /\ At(p) \in All /\ now \in Target /\ TargetTells(At(p), now, landed)
      /\ 1 .. At(p) - 1 \subseteq landed
    BY <1>1, StepTarget
<1>3. late \in [Charts -> Nat]
    BY <1>1, <1>2 DEF Target
<1>4. target' = [target EXCEPT ![At(p)] = after]
    BY DEF LeftLate
<1> HIDE DEF now, late
<1>5. /\ after \in Target /\ TargetTells(At(p), after, landed)
      /\ after.copies = now.copies /\ after.theirs = now.theirs
    BY <1>1, <1>2, <1>3, LateTarget
<1> HIDE DEF after
<1> QED
    BY <1>2, <1>4, <1>5 DEF TargetMoves, now

\* A key that has been used answers with its widget, or refuses another chart.
LEMMA ReplayedSteps ==
  ASSUME Inv, NEW p \in Pages, Working(p), steps[At(p)] = "add", NEW chart, Replayed(p, chart)
  PROVE  /\ CardMoves(p) /\ RowsMove /\ TargetMoves /\ UNCHANGED steps
         /\ \A q \in Pages : page'[q].over = page[q].over
<1> DEFINE now == target[At(p)]
<1>1. now \in Target /\ TargetTells(At(p), now, landed) /\ Typed /\ Told
    BY StepTarget
<1>2. Present(now) /\ (Stepped(p, now) \/ Refused(p, "clash"))
    BY DEF Replayed
<1>3. At(p) \in landed
    BY <1>1, <1>2 DEF Present, TargetTells
<1>4. landed \cup {At(p)} = landed
    BY <1>3
<1>5. CASE Stepped(p, now)
  <2>1. Meant(At(p), now, now)
      BY <1>3 DEF Meant
  <2> HIDE DEF now
  <2> QED
      BY <1>1, <1>4, <1>5, <2>1, SteppedCases DEF now
<1> QED
    BY <1>1, <1>2, <1>5, RefusedCases

LEMMA LookedSteps ==
  ASSUME Inv, NEW p \in Pages, AddLooked(p)
  PROVE  /\ CardMoves(p) /\ RowsMove /\ TargetMoves /\ UNCHANGED steps
         /\ \A q \in Pages : page'[q].over = page[q].over
<1> DEFINE now == target[At(p)]
<1>1. page[p].pc = "run" /\ Working(p) /\ steps[At(p)] = "add"
    BY DEF AddLooked, Runs, Kind, Working
<1>2. /\ At(p) \in All /\ now \in Target /\ TargetTells(At(p), now, landed)
      /\ Typed /\ Told /\ page[p] \in CardType /\ CardTold(page[p], landed)
    BY <1>1, StepTarget, DidLanded
<1>3. PICK chart \in Charts :
        \/ Replayed(p, chart)
        \/ /\ ~Present(now)
           /\ target' = [target EXCEPT ![At(p)] = [now EXCEPT !.keyed = FALSE]]
           /\ page' = [page EXCEPT ![p] = Turned(@, "insert", chart)]
           /\ UNCHANGED <<steps, rows, landed>>
    BY <1>2 DEF AddLooked, Target, Charts
<1>4. CASE Replayed(p, chart)
    BY <1>1, <1>4, ReplayedSteps
<1>5. CASE /\ ~Present(now)
           /\ target' = [target EXCEPT ![At(p)] = [now EXCEPT !.keyed = FALSE]]
           /\ page' = [page EXCEPT ![p] = Turned(@, "insert", chart)]
           /\ UNCHANGED <<steps, rows, landed>>
  <2> DEFINE y == Turned(page[p], "insert", chart)
  <2>1. page' = [page EXCEPT ![p] = y]
      BY <1>2, <1>5 DEF Typed
  <2>2. /\ y \in CardType /\ y.pc = "insert" /\ y.at = page[p].at /\ y.over = page[p].over
        /\ y.carried = page[p].carried /\ y.done = page[p].done
      BY <1>2 DEF CardType, Pcs, Turned
  <2> HIDE DEF y
  <2>3. CardTold(y, landed)
      BY <1>1, <1>2, <2>2 DEF CardTold, Working, At
  <2>4. TargetMoves
      BY <1>1, <1>2, <1>5, UnkeyedTarget DEF TargetMoves
  <2>5. \A q \in Pages : page'[q].over = page[q].over
      BY <1>2, <2>1, <2>2 DEF Typed
  <2> QED
      BY <1>2, <1>5, <2>1, <2>2, <2>3, <2>4, <2>5, MovesTo DEF RowsMove, Told
<1> QED
    BY <1>3, <1>4, <1>5

LEMMA InsertedSteps ==
  ASSUME Inv, NEW p \in Pages, Inserted(p)
  PROVE  /\ CardMoves(p) /\ RowsMove /\ TargetMoves /\ UNCHANGED steps
         /\ \A q \in Pages : page'[q].over = page[q].over
<1> DEFINE now == target[At(p)]
           chart == page[p].chart
<1>1. Working(p) /\ steps[At(p)] = "add" /\ chart \in Charts
    BY InsertsWork DEF Inserted
<1>2. /\ At(p) \in All /\ now \in Target /\ TargetTells(At(p), now, landed)
      /\ Typed /\ Told
    BY <1>1, StepTarget
<1>3. CASE ~now.keyed /\ Stepped(p, Made(now, chart))
    BY <1>1, <1>2, <1>3, MadeTarget, SteppedCases
<1>4. CASE Replayed(p, chart)
    BY <1>1, <1>4, ReplayedSteps
<1>5. CASE /\ now.keyed /\ now.copies = 0
           /\ target' = [target EXCEPT ![At(p)] = [now EXCEPT !.keyed = FALSE]]
           /\ page' = [page EXCEPT ![p] = Turned(@, "abandon", 0)]
           /\ UNCHANGED <<steps, rows, landed>>
  <2>1. ~Present(now)
      BY <1>2, <1>5 DEF Present
  <2>2. TargetMoves
    <3> DEFINE after == [now EXCEPT !.keyed = FALSE]
    <3>1. target' = [target EXCEPT ![At(p)] = after] /\ landed' = landed
        BY <1>5
    <3>2. /\ after \in Target /\ TargetTells(At(p), after, landed)
          /\ after.copies = now.copies /\ after.theirs = now.theirs
        BY <1>1, <1>2, <2>1, UnkeyedTarget
    <3> HIDE DEF after
    <3> QED
        BY <1>2, <3>1, <3>2 DEF TargetMoves
  <2>3. CardMoves(p) /\ RowsMove /\ \A q \in Pages : page'[q].over = page[q].over
    <3>1. /\ page' = [page EXCEPT ![p] = Turned(page[p], "abandon", 0)]
          /\ UNCHANGED <<rows, landed>>
        BY <1>5
    <3> QED
        BY <1>2, <3>1, GivenUp
  <2> QED
      BY <1>5, <2>2, <2>3
<1> QED
    BY <1>3, <1>4, <1>5 DEF Inserted

LEMMA AddedSteps ==
  ASSUME Inv, NEW p \in Pages, Added(p)
  PROVE  /\ CardMoves(p) /\ RowsMove /\ TargetMoves /\ UNCHANGED steps
         /\ \A q \in Pages : page'[q].over = page[q].over
<1>1. ASSUME AddLost(p)
      PROVE  /\ CardMoves(p) /\ RowsMove /\ TargetMoves /\ UNCHANGED steps
             /\ \A q \in Pages : page'[q].over = page[q].over
  <2>1. TargetMoves
      BY <1>1, LeftLateMoves DEF AddLost
  <2> QED
      BY <1>1, <2>1, GivenUp DEF AddLost, Inv
<1> QED
    BY <1>1, LookedSteps, InsertedSteps DEF Added

LEMMA ReloadedSteps ==
  ASSUME Inv, NEW p \in Pages, Reloaded(p)
  PROVE  CardMoves(p) /\ RowsMove /\ TargetMoves /\ UNCHANGED <<steps, landed>>
<1> DEFINE y == Card("idle", Carried(rows), IsDone(rows))
<1>1. /\ UNCHANGED <<steps, landed>> /\ Typed /\ Told
      /\ page' = [page EXCEPT ![p] = y]
      /\ rows' = Kept(Left(p))
      /\ target' = IF page[p].pc = "insert" THEN LeftLate(p) ELSE target
    BY DEF Reloaded, Typed, Inv
<1>2. rows \in Seq(TrueRows(landed))
    BY <1>1 DEF Told
<1>3. RowsMove
    BY <1>1, <1>2, LeftRows, KeptRows DEF RowsMove
<1>4. IsDone(rows) \in BOOLEAN
    BY DEF IsDone
<1>5. y \in CardType /\ CardTold(y, landed)
    BY <1>1, <1>2, <1>4, CarriedIsTrue, DoneIsTrue, DidLanded, RestingCard
<1> HIDE DEF y
<1>6. TargetMoves
    BY <1>1, LeftLateMoves DEF TargetMoves
<1> QED
    BY <1>1, <1>3, <1>5, <1>6 DEF CardMoves

\* A create that ends without its page.
LEMMA LateSteps ==
  ASSUME Inv, NEW i \in All, LateInserted(i)
  PROVE  TargetMoves /\ RowsMove /\ UNCHANGED <<steps, rows, page>>
<1> DEFINE now == target[i]
<1>1. /\ UNCHANGED <<steps, rows, page>> /\ now \in Target /\ TargetTells(i, now, landed)
      /\ landed \subseteq All
    BY DEF LateInserted, Inv, Typed, TargetsTell
<1>2. PICK chart \in Charts :
        /\ now.late[chart] > 0
        /\ LET base == IF ~now.keyed THEN Made(now, chart)
                       ELSE IF now.copies = 0 THEN [now EXCEPT !.keyed = FALSE] ELSE now
           IN target' = [target EXCEPT ![i] = [base EXCEPT !.late[chart] = @ - 1]]
        /\ landed' = IF now.keyed THEN landed ELSE landed \cup {i}
    BY DEF LateInserted
<1>3. steps[i] = "add" /\ 1 .. i - 1 \subseteq landed
    BY <1>1, <1>2 DEF TargetTells
<1> DEFINE late == [now.late EXCEPT ![chart] = @ - 1]
<1>4. late \in [Charts -> Nat]
    BY <1>1, <1>2 DEF Target
<1>5. CASE ~now.keyed
  <2> DEFINE made == Made(now, chart)
             after == [made EXCEPT !.late = late]
  <2>1. /\ made \in Target /\ TargetTells(i, made, landed \cup {i})
        /\ Meant(i, now, made) /\ made.copies = 1 /\ ~made.theirs /\ made.late = now.late
        /\ made.keyed
      BY <1>1, <1>3, <1>5, MadeTarget
  <2>2. target' = [target EXCEPT ![i] = after] /\ landed' = landed \cup {i}
      BY <1>2, <1>5, <2>1
  <2> HIDE DEF made, late
  <2>3. /\ after \in Target /\ TargetTells(i, after, landed \cup {i})
        /\ after.copies = made.copies /\ after.theirs = made.theirs
      BY <1>3, <1>4, <2>1, LateTarget
  <2> HIDE DEF after
  <2>4. Meant(i, now, after)
      BY <1>1, <1>3, <1>5, <2>1, <2>3 DEF Meant, TargetTells
  <2>5. TargetMoves
      BY <1>3, <2>2, <2>3, <2>4 DEF TargetMoves
  <2>6. RowsMove
      BY <1>1, <2>2, RowsStayTold DEF RowsMove, Inv, Told
  <2> QED
      BY <1>1, <2>5, <2>6
<1>6. CASE now.keyed
  <2> DEFINE base == IF now.copies = 0 THEN [now EXCEPT !.keyed = FALSE] ELSE now
             after == [base EXCEPT !.late = late]
  <2>1. /\ base \in Target /\ TargetTells(i, base, landed) /\ base.late = now.late
        /\ base.copies = now.copies /\ base.theirs = now.theirs
    <3>1. CASE now.copies = 0
        BY <1>1, <1>3, <3>1, UnkeyedTarget DEF Present
    <3>2. CASE now.copies # 0
        BY <1>1, <3>2
    <3> QED
        BY <3>1, <3>2
  <2>2. target' = [target EXCEPT ![i] = after] /\ landed' = landed
      BY <1>2, <1>6, <2>1
  <2> HIDE DEF base, late
  <2>3. /\ after \in Target /\ TargetTells(i, after, landed)
        /\ after.copies = base.copies /\ after.theirs = base.theirs
      BY <1>3, <1>4, <2>1, LateTarget
  <2> HIDE DEF after
  <2>4. TargetMoves
      BY <2>1, <2>2, <2>3 DEF TargetMoves
  <2> QED
      BY <1>1, <2>2, <2>4 DEF RowsMove, Inv, Told
<1> QED
    BY <1>5, <1>6

\* Another chart of a saved query leaves the dashboard as it is.
LEMMA RedrawnSteps ==
  ASSUME Inv, NEW i \in All, Redrawn(i)
  PROVE  TargetMoves /\ RowsMove /\ UNCHANGED <<steps, rows, page>>
<1> DEFINE now == target[i]
           after == [now EXCEPT !.drawn = 1]
<1>1. /\ UNCHANGED <<steps, rows, page, landed>> /\ now \in Target
      /\ TargetTells(i, now, landed)
      /\ target' = [target EXCEPT ![i] = after]
    BY DEF Redrawn, Inv, Typed, TargetsTell
<1>2. /\ after \in Target /\ after.copies = now.copies /\ after.theirs = now.theirs
      /\ after.keyed = now.keyed /\ after.fresh = now.fresh /\ after.late = now.late
    BY <1>1 DEF Target, Charts
<1> HIDE DEF after
<1>3. TargetTells(i, after, landed)
    BY <1>1, <1>2 DEF TargetTells
<1> QED
    BY <1>1, <1>2, <1>3 DEF TargetMoves, RowsMove, Inv, Told

LEMMA EditedSteps ==
  ASSUME Inv, NEW p \in Pages, Edited(p)
  PROVE  /\ CardMoves(p) /\ RowsMove /\ TargetMoves /\ UNCHANGED steps
         /\ \A q \in Pages : page'[q].over = page[q].over
<1> DEFINE now == target[At(p)]
           after == [now EXCEPT !.fresh = FALSE, !.theirs = FALSE]
<1>1. /\ Runs(p) /\ steps[At(p)] \in {"rename", "edit"}
      /\ \/ Refused(p, "abandon") \/ Refused(p, "clash")
         \/ Unchanged(p) /\ Stepped(p, after)
    BY DEF Edited, Kind
<1>0. Working(p)
    BY <1>1 DEF Runs, Working
<1>2. /\ now \in Target /\ TargetTells(At(p), now, landed) /\ Typed /\ Told
      /\ page[p].over => Asked
    BY <1>0, StepTarget
<1>3. ASSUME Unchanged(p), Stepped(p, after)
      PROVE  /\ CardMoves(p) /\ RowsMove /\ TargetMoves /\ UNCHANGED steps
             /\ \A q \in Pages : page'[q].over = page[q].over
  <2>1. page[p].over \/ now.fresh
      BY <1>3 DEF Unchanged
  <2>2. /\ after \in Target /\ ~after.fresh /\ ~after.theirs /\ after.copies = now.copies
        /\ after.keyed = now.keyed /\ after.late = now.late
      BY <1>2 DEF Target
  <2> HIDE DEF after
  <2>3. TargetTells(At(p), after, landed \cup {At(p)})
      BY <1>1, <1>2, <2>2 DEF TargetTells
  <2>4. Meant(At(p), now, after)
      BY <1>1, <1>2, <2>1, <2>2 DEF Meant, TargetTells
  <2> QED
      BY <1>0, <1>2, <1>3, <2>2, <2>3, <2>4, SteppedCases
<1> QED
    BY <1>1, <1>2, <1>3, RefusedCases

LEMMA RemovedSteps ==
  ASSUME Inv, NEW p \in Pages, Removed(p)
  PROVE  /\ CardMoves(p) /\ RowsMove /\ TargetMoves /\ UNCHANGED steps
         /\ \A q \in Pages : page'[q].over = page[q].over
<1> DEFINE now == target[At(p)]
           after == [now EXCEPT !.copies = 0, !.theirs = FALSE]
<1>1. /\ Runs(p) /\ steps[At(p)] = "remove"
      /\ \/ Refused(p, "abandon") \/ Refused(p, "clash")
         \/ now.copies > 0 /\ Unchanged(p) /\ Stepped(p, after)
    BY DEF Removed, Kind
<1>0. Working(p)
    BY <1>1 DEF Runs, Working
<1>2. /\ now \in Target /\ TargetTells(At(p), now, landed) /\ Typed /\ Told
      /\ page[p].over => Asked
    BY <1>0, StepTarget
<1>3. ASSUME now.copies > 0, Unchanged(p), Stepped(p, after)
      PROVE  /\ CardMoves(p) /\ RowsMove /\ TargetMoves /\ UNCHANGED steps
             /\ \A q \in Pages : page'[q].over = page[q].over
  <2>1. page[p].over \/ now.fresh
      BY <1>3 DEF Unchanged
  <2>2. /\ after \in Target /\ after.fresh = now.fresh /\ ~after.theirs
        /\ after.copies = 0 /\ after.keyed = now.keyed /\ after.late = now.late
      BY <1>2 DEF Target
  <2> HIDE DEF after
  <2>3. TargetTells(At(p), after, landed \cup {At(p)})
      BY <1>1, <1>2, <2>2 DEF TargetTells
  <2>4. At(p) \notin landed
      BY <1>1, <1>2, <1>3 DEF TargetTells
  <2>5. Meant(At(p), now, after)
      BY <1>2, <2>1, <2>2, <2>4 DEF Meant, TargetTells
  <2> QED
      BY <1>0, <1>2, <1>3, <2>2, <2>3, <2>5, SteppedCases
<1> QED
    BY <1>1, <1>2, <1>3, RefusedCases

\* Somebody else's change: of what is there, a write or a removal.
ChangeOf(i) ==
  \E after \in Target :
    /\ target' = [target EXCEPT ![i] = after]
    /\ TargetTells(i, after, landed)
    /\ target[i].copies > 0
    /\ \/ after.theirs /\ after.copies > 0
       \/ after.copies = 0

LEMMA ChangedSteps ==
  ASSUME Inv, NEW i \in All, Changed(i)
  PROVE  ChangeOf(i) /\ UNCHANGED <<steps, rows, page, landed>>
<1> DEFINE now == target[i]
           written == [now EXCEPT !.fresh = FALSE, !.theirs = TRUE]
           removed == [now EXCEPT !.copies = 0]
<1>1. now \in Target /\ TargetTells(i, now, landed) /\ target \in [All -> Target]
    BY DEF Inv, Typed, TargetsTell
<1>2. /\ UNCHANGED <<steps, rows, page, landed>> /\ now.copies > 0
      /\ \/ target' = [target EXCEPT ![i] = written]
         \/ steps[i] # "rename" /\ target' = [target EXCEPT ![i] = removed]
    BY <1>1 DEF Changed
<1>3. /\ written \in Target /\ ~written.fresh /\ written.theirs
      /\ written.copies = now.copies /\ written.keyed = now.keyed
      /\ written.late = now.late
    BY <1>1 DEF Target
<1>4. /\ removed \in Target /\ removed.fresh = now.fresh /\ removed.theirs = now.theirs
      /\ removed.copies = 0 /\ removed.keyed = now.keyed /\ removed.late = now.late
    BY <1>1 DEF Target
<1> HIDE DEF written, removed
<1>5. TargetTells(i, written, landed) /\ TargetTells(i, removed, landed)
    BY <1>1, <1>3, <1>4 DEF TargetTells
<1> QED
    BY <1>2, <1>3, <1>4, <1>5 DEF ChangeOf
-----------------------------------------------------------------------------
(* The invariant.                                                            *)

LEMMA MovesKeepInv ==
  ASSUME Inv, (\E p \in Pages : CardMoves(p)) \/ UNCHANGED page,
         RowsMove, TargetMoves, UNCHANGED steps
  PROVE  Inv'
<1>1. All' = All /\ CardType' = CardType /\ Row' = Row
    BY DEF All, CardType, Row
<1>2. Typed /\ Told /\ TargetsTell
    BY DEF Inv
<1>3. landed \subseteq landed' /\ landed' \subseteq All
    BY <1>2 DEF TargetMoves, Typed
<1>4. \A q \in Pages : CardTold(page[q], landed')
    BY <1>2, <1>3, CardsStayTold DEF Told
<1>5. /\ page' \in [Pages -> CardType]
      /\ \A q \in Pages : CardTold(page'[q], landed')
    BY <1>2, <1>4 DEF CardMoves, Typed
<1>6. Told'
  <2>1. rows' \in Seq(TrueRows(landed)')
      BY <1>1 DEF RowsMove, TrueRows
  <2>2. \A q \in Pages : CardTold(page[q], landed)'
      BY <1>1, <1>5 DEF CardTold
  <2> QED
      BY <2>1, <2>2 DEF Told
<1>7. target' \in [All -> Target] /\ \A i \in All : TargetTells(i, target'[i], landed')
  <2>1. CASE UNCHANGED <<target, landed>>
      BY <1>2, <2>1 DEF Typed, TargetsTell
  <2>2. ASSUME NEW j \in All, NEW after \in Target,
               target' = [target EXCEPT ![j] = after], landed' \in {landed, landed \cup {j}},
               TargetTells(j, after, landed')
        PROVE  /\ target' \in [All -> Target]
               /\ \A i \in All : TargetTells(i, target'[i], landed')
    <3>1. target' \in [All -> Target]
        BY <1>2, <2>2 DEF Typed
    <3>2. ASSUME NEW i \in All
          PROVE  TargetTells(i, target'[i], landed')
      <4>1. CASE i = j
          BY <1>2, <2>2, <4>1 DEF Typed
      <4>2. CASE i # j
        <5>1. target'[i] = target[i] /\ (i \in landed' <=> i \in landed)
            BY <1>2, <2>2, <4>2 DEF Typed
        <5> QED
            BY <1>2, <1>3, <5>1 DEF TargetsTell, TargetTells
      <4> QED
          BY <4>1, <4>2
    <3> QED
        BY <3>1, <3>2
  <2> QED
      BY <2>1, <2>2 DEF TargetMoves
<1>8. TargetsTell'
    BY <1>1, <1>7 DEF TargetsTell, TargetTells
<1>9. Typed'
    BY <1>1, <1>2, <1>3, <1>5, <1>7 DEF Typed
<1> QED
    BY <1>6, <1>8, <1>9 DEF Inv

LEMMA ChangeKeepsInv ==
  ASSUME Inv, NEW j \in All, ChangeOf(j), UNCHANGED <<steps, rows, page, landed>>
  PROVE  Inv'
<1>1. /\ All' = All /\ Typed /\ Told /\ TargetsTell
      /\ CardType' = CardType /\ Row' = Row
    BY DEF All, Inv, CardType, Row
<1>2. target' \in [All -> Target] /\ \A i \in All : TargetTells(i, target'[i], landed)
    BY <1>1 DEF ChangeOf, Typed, TargetsTell
<1>3. Typed'
    BY <1>1, <1>2 DEF Typed
<1>4. Told'
    BY <1>1 DEF Told, CardTold, TrueRows
<1>5. TargetsTell'
    BY <1>1, <1>2 DEF TargetsTell, TargetTells
<1> QED
    BY <1>3, <1>4, <1>5 DEF Inv

\* Every step of a page is one card's, with what it does to the rows and the targets.
LEMMA PageMoves ==
  ASSUME Inv, NEW p \in Pages,
         ApplyClicked(p) \/ OverwriteClicked(p) \/ KeepClicked(p) \/ Run(p) \/ Reloaded(p)
  PROVE  CardMoves(p) /\ RowsMove /\ TargetMoves /\ UNCHANGED steps
<1>1. Typed /\ Told
    BY DEF Inv
<1>2. CASE \/ ApplyClicked(p) \/ OverwriteClicked(p) \/ KeepClicked(p) \/ StepCarried(p)
           \/ Read(p)
    BY <1>1, <1>2, CardSteps DEF TargetMoves
<1>3. CASE Recorded(p)
    BY <1>1, <1>3, RecordedSteps DEF TargetMoves
<1>4. CASE Abandoned(p)
    BY <1>1, <1>4, AbandonedSteps DEF TargetMoves
<1>5. CASE Finished(p)
    BY <1>1, <1>5, FinishedSteps DEF TargetMoves
<1>6. CASE Reloaded(p)
    BY <1>6, ReloadedSteps
<1>7. CASE Added(p)
    BY <1>7, AddedSteps
<1>8. CASE Edited(p)
    BY <1>8, EditedSteps
<1>9. CASE Removed(p)
    BY <1>9, RemovedSteps
<1> QED
    BY <1>2, <1>3, <1>4, <1>5, <1>6, <1>7, <1>8, <1>9 DEF Run, Step

LEMMA NextInv ==
  ASSUME Inv, [Next]_vars
  PROVE  Inv'
<1>1. CASE UNCHANGED vars
    BY <1>1 DEF vars, Inv, Typed, Told, TargetsTell, All, CardType, Row, TrueRows, CardTold,
                TargetTells
<1>2. ASSUME NEW p \in Pages,
             ApplyClicked(p) \/ OverwriteClicked(p) \/ KeepClicked(p) \/ Run(p) \/ Reloaded(p)
      PROVE  Inv'
    BY <1>2, PageMoves, MovesKeepInv
<1>3. ASSUME NEW i \in All, Changed(i)
      PROVE  Inv'
    BY <1>3, ChangedSteps, ChangeKeepsInv
<1>4. ASSUME NEW i \in All, LateInserted(i) \/ Redrawn(i)
      PROVE  Inv'
    BY <1>4, LateSteps, RedrawnSteps, MovesKeepInv
<1> QED
    BY <1>1, <1>2, <1>3, <1>4 DEF Next

\* The invariant the theorems rest on: cards, rows and targets tell the truth about
\* which steps landed.
THEOREM ToldAlways == Spec => []Inv
<1>1. Init => Inv
    BY InitInv
<1>2. Inv /\ [Next]_vars => Inv'
    BY NextInv
<1> QED
    BY <1>1, <1>2, PTL DEF Spec

\* However often an edit is applied, from however many tabs, and whatever answers are
\* lost: an added widget is on the dashboard once at most.
THEOREM AddsOnce == Spec => []OneWidgetPerAdd
<1>1. Inv => OneWidgetPerAdd
    BY DEF Inv, TargetsTell, TargetTells, OneWidgetPerAdd
<1> QED
    BY <1>1, ToldAlways, PTL

\* What a row or a card calls done did take effect.
THEOREM ReceiptsAlwaysTrue == Spec => []ReceiptsAreTrue
<1>1. ASSUME Inv
      PROVE  ReceiptsAreTrue
  <2>1. rows \in Seq(TrueRows(landed))
      BY <1>1 DEF Inv, Told
  <2>2. \A i \in DOMAIN rows : rows[i] \in TrueRows(landed)
      BY <2>1
  <2>3. \A p \in Pages : CardTold(page[p], landed)
      BY <1>1 DEF Inv, Told
  <2> QED
      BY <2>2, <2>3 DEF ReceiptsAreTrue, TrueRows, CardTold
<1> QED
    BY <1>1, ToldAlways, PTL
-----------------------------------------------------------------------------
(* The promise is kept.                                                      *)

Touched == {i \in All : target[i].theirs /\ target[i].copies > 0}
Gone == {i \in All : target[i].copies = 0}

\* Steps that leave the targets as everybody sees them may only start or end an
\* overwrite.
LEMMA Looks ==
  ASSUME UNCHANGED <<steps, landed>>,
         \/ UNCHANGED target
         \/ \A j \in All : /\ target'[j].copies = target[j].copies
                          /\ target'[j].theirs = target[j].theirs
  PROVE  Promise!Next
<1>1. Touched' = Touched /\ Gone' = Gone /\ Asked' \in BOOLEAN
    BY DEF Touched, Gone, All, Asked
<1> QED
    BY <1>1 DEF Promise!Next, Promise!Ask, Touched, Gone, Asked

\* A step on a target is a landing, a second writing, or a making anew.
LEMMA TargetSteps ==
  ASSUME Inv, TargetMoves, UNCHANGED steps,
         \A q \in Pages : page'[q].over = page[q].over
  PROVE  Promise!Next
<1>1. All' = All /\ Asked' = Asked /\ All \subseteq 1 .. MaxSteps /\ target \in [All -> Target]
    BY EditLength DEF All, Asked, Inv, Typed
<1>2. CASE UNCHANGED <<target, landed>>
    BY <1>2, Looks
<1>4. ASSUME NEW i \in All, NEW after \in Target,
             target' = [target EXCEPT ![i] = after], landed' = landed,
             after.copies = target[i].copies, after.theirs = target[i].theirs
      PROVE  Promise!Next
  <2>1. \A j \in All : /\ target'[j].copies = target[j].copies
                       /\ target'[j].theirs = target[j].theirs
      BY <1>1, <1>4
  <2> QED
      BY <1>4, <2>1, Looks
<1>3. ASSUME NEW i \in All, NEW after \in Target,
             target' = [target EXCEPT ![i] = after], landed' = landed \cup {i},
             1 .. i - 1 \subseteq landed,
             Meant(i, target[i], after)
      PROVE  Promise!Next
  <2> DEFINE now == target[i]
  <2>1. now \in Target /\ i \in 1 .. MaxSteps
      BY <1>1
  <2>2. CASE i \in landed /\ after = now
    <3>1. UNCHANGED <<target, landed>>
        BY <1>1, <1>3, <2>2
    <3> QED
        BY <3>1, Looks
  <2>3. CASE ~after.theirs
    <3>1. Touched' = Touched \ {i}
        BY <1>1, <1>3, <2>3 DEF Touched
    <3>2. CASE i \in landed /\ now.copies = 0 /\ after.copies > 0
      <4>1. i \in Gone /\ Gone' = Gone \ {i} /\ i \notin Touched
          BY <1>1, <1>3, <2>1, <3>2 DEF Gone, Touched, Target
      <4>2. landed' = landed /\ Touched' = Touched
          BY <1>3, <3>1, <3>2, <4>1
      <4>3. Promise!Anew(i)
          BY <1>1, <3>2, <4>1, <4>2 DEF Promise!Anew, Gone, Touched, Asked
      <4> QED
          BY <2>1, <4>3 DEF Promise!Next
    <3>3. CASE i \in landed /\ (after.copies = 0 <=> now.copies = 0) /\ Asked
      <4>1. Gone' = Gone /\ landed' = landed
          BY <1>1, <1>3, <3>3 DEF Gone
      <4>2. Promise!Again(i)
          BY <1>1, <3>1, <3>3, <4>1 DEF Promise!Again, Gone, Touched, Asked
      <4> QED
          BY <2>1, <4>2 DEF Promise!Next
    <3>4. CASE i \notin landed /\ (now.theirs /\ now.copies > 0 => Asked)
      <4>1. Gone' \in {Gone, Gone \cup {i}, Gone \ {i}}
        <5>1. CASE after.copies = 0
          <6>1. Gone' = Gone \cup {i}
              BY <1>1, <1>3, <5>1 DEF Gone
          <6> QED
              BY <6>1
        <5>2. CASE after.copies # 0
          <6>1. Gone' = Gone \ {i}
              BY <1>1, <1>3, <5>2 DEF Gone
          <6> QED
              BY <6>1
        <5> QED
            BY <5>1, <5>2
      <4>2. i \in Touched => Asked
          BY <3>4 DEF Touched
      <4>3. Promise!Land(i)
          BY <1>1, <1>3, <3>1, <3>4, <4>1, <4>2
          DEF Promise!Land, Promise!Allowed, Gone, Touched, Asked
      <4> QED
          BY <2>1, <4>3 DEF Promise!Next
    <3> QED
        BY <1>3, <2>2, <3>2, <3>3, <3>4 DEF Meant
  <2> QED
      BY <1>3, <2>2, <2>3 DEF Meant
<1> QED
    BY <1>2, <1>3, <1>4 DEF TargetMoves

\* Somebody's change is a touch or a loss.
LEMMA ChangeSteps ==
  ASSUME Inv, NEW i \in All, ChangeOf(i), UNCHANGED <<steps, rows, page, landed>>
  PROVE  Promise!Next
<1>1. /\ All' = All /\ Asked' = Asked /\ All \subseteq 1 .. MaxSteps
      /\ target \in [All -> Target]
    BY EditLength DEF All, Asked, Inv, Typed
<1>2. PICK after \in Target :
        /\ target' = [target EXCEPT ![i] = after] /\ target[i].copies > 0
        /\ \/ after.theirs /\ after.copies > 0
           \/ after.copies = 0
    BY DEF ChangeOf
<1>3. i \notin Gone
    BY <1>1, <1>2 DEF Gone, Target
<1>4. CASE after.theirs /\ after.copies > 0
  <2>1. Touched' = Touched \cup {i} /\ Gone' = Gone
      BY <1>1, <1>2, <1>4 DEF Touched, Gone, Target
  <2>2. Promise!Touch(i)
      BY <1>1, <1>3, <2>1 DEF Promise!Touch, Gone, Touched, Asked
  <2> QED
      BY <1>1, <2>2 DEF Promise!Next
<1>5. CASE after.copies = 0
  <2>1. Gone' = Gone \cup {i} /\ Touched' = Touched \ {i}
      BY <1>1, <1>2, <1>5 DEF Touched, Gone, Target
  <2>2. Promise!Lose(i)
      BY <1>1, <1>3, <2>1 DEF Promise!Lose, Gone, Touched, Asked
  <2> QED
      BY <1>1, <2>2 DEF Promise!Next
<1> QED
    BY <1>2, <1>4, <1>5

\* DashboardApply implements EditPromise: whatever is lost, repeated or done from
\* several tabs, steps land in the order of the card, and what somebody changed is
\* written over only while an apply that was asked to overwrites runs.
THEOREM PromiseIsKept == Spec => PromiseKept
<1>1. Init => Promise!Init
  <2> SUFFICES ASSUME Init PROVE Promise!Init
      OBVIOUS
  <2>1. landed = {} /\ steps \in Edits
      BY DEF Init
  <2>2. Gone \subseteq 1 .. MaxSteps
      BY <2>1, EditLength DEF Gone
  <2>3. Touched = {}
      BY DEF Init, Untouched, Touched
  <2> QED
      BY <2>1, <2>2, <2>3 DEF Promise!Init, Gone, Touched
<1>2. Inv /\ [Next]_vars => [Promise!Next]_Promise!vars
  <2> SUFFICES ASSUME Inv, [Next]_vars PROVE [Promise!Next]_Promise!vars
      OBVIOUS
  <2>1. Typed /\ Told
      BY DEF Inv
  <2>2. CASE UNCHANGED vars
      BY <2>2 DEF vars, Promise!vars, All
  <2>3. ASSUME NEW p \in Pages,
               ApplyClicked(p) \/ OverwriteClicked(p) \/ KeepClicked(p) \/ StepCarried(p)
               \/ Read(p) \/ Recorded(p) \/ Abandoned(p) \/ Finished(p)
        PROVE  Promise!Next
    <3>1. UNCHANGED <<steps, target, landed>>
        BY <2>3 DEF ApplyClicked, OverwriteClicked, Clicked, KeepClicked, StepCarried, Read,
                    Recorded, Abandoned, Finished
    <3> QED
        BY <3>1, Looks
  <2>4. ASSUME NEW p \in Pages, Added(p) \/ Edited(p) \/ Removed(p)
        PROVE  Promise!Next
      BY <2>4, AddedSteps, EditedSteps, RemovedSteps, TargetSteps
  <2>5. ASSUME NEW i \in All, Changed(i)
        PROVE  Promise!Next
      BY <2>5, ChangedSteps, ChangeSteps
  <2>6. ASSUME NEW p \in Pages, Reloaded(p)
        PROVE  Promise!Next
    <3>1. UNCHANGED <<steps, landed>> /\ target \in [All -> Target]
        BY <2>1, <2>6 DEF Reloaded, Typed
    <3>2. CASE page[p].pc = "insert"
      <4>1. target' = LeftLate(p) /\ At(p) \in All /\ target[At(p)] \in Target
          BY <2>6, <3>2, InsertsWork, StepTarget DEF Reloaded
      <4>2. \A j \in All : /\ target'[j].copies = target[j].copies
                           /\ target'[j].theirs = target[j].theirs
          BY <3>1, <4>1 DEF LeftLate, Target
      <4> QED
          BY <3>1, <4>2, Looks
    <3>3. CASE page[p].pc # "insert"
        BY <2>6, <3>1, <3>3, Looks DEF Reloaded
    <3> QED
        BY <3>2, <3>3
  <2>7. ASSUME NEW i \in All, LateInserted(i) \/ Redrawn(i)
        PROVE  Promise!Next
      BY <2>7, LateSteps, RedrawnSteps, TargetSteps
  <2> QED
      BY <2>2, <2>3, <2>4, <2>5, <2>6, <2>7 DEF Next, Run, Step
<1> QED
    BY <1>1, <1>2, ToldAlways, PTL DEF Spec, PromiseKept, Promise!Spec
-----------------------------------------------------------------------------
(* Whose row is whose.                                                       *)

Holding == {"run", "insert", "abandon", "clash", "unsynced"}

HasRow(p, promotions) == \E i \in DOMAIN promotions : promotions[i].of = p
OneRow(p, promotions) ==
  \A i, j \in DOMAIN promotions : promotions[i].of = p /\ promotions[j].of = p => i = j

\* A page owns one row from its first answer to its last call, and no other.
Owned(p, pc, promotions) ==
  (pc \in Holding <=> HasRow(p, promotions)) /\ OneRow(p, promotions)

Owns == \A p \in Pages : Owned(p, page[p].pc, rows)

LEMMA KeptOwned ==
  ASSUME NEW S, NEW s \in Seq(S), NEW p \in Pages, NEW pc, Owned(p, pc, s)
  PROVE  Owned(p, pc, Kept(s))
<1>1. PICK f \in [DOMAIN Kept(s) -> DOMAIN s] :
        /\ \A n \in DOMAIN Kept(s) : Kept(s)[n] = s[f[n]]
        /\ \A m, n \in DOMAIN Kept(s) : f[m] = f[n] => m = n
        /\ \A i \in DOMAIN s : s[i].of # Nothing => \E n \in DOMAIN Kept(s) : f[n] = i
    BY KeptRows
<1>2. p # Nothing
    BY NothingIsNoPage
<1>3. HasRow(p, Kept(s)) <=> HasRow(p, s)
    BY <1>1, <1>2 DEF HasRow
<1>4. OneRow(p, Kept(s))
    BY <1>1 DEF OneRow, Owned
<1> QED
    BY <1>3, <1>4 DEF Owned

\* A page that lets go of its row, or writes it, leaves the others theirs.
LEMMA RewrittenOwned ==
  ASSUME NEW p \in Pages, NEW of \in Pages \cup {Nothing}, NEW s,
         DOMAIN s = DOMAIN rows,
         \A i \in DOMAIN rows : s[i].of = IF rows[i].of = p THEN of ELSE rows[i].of,
         of \in {p, Nothing}, NEW q \in Pages, NEW pc, Owned(q, pc, rows)
  PROVE  /\ q # p \/ of = p => Owned(q, pc, s)
         /\ q = p /\ of = Nothing => \A at \in {"idle", "conflict"} : Owned(q, at, s)
<1>1. p # Nothing /\ q # Nothing
    BY NothingIsNoPage
<1>2. CASE q # p \/ of = p
  <2>1. \A i \in DOMAIN rows : s[i].of = q <=> rows[i].of = q
      BY <1>1, <1>2
  <2> QED
      BY <1>1, <1>2, <2>1 DEF Owned, HasRow, OneRow
<1>3. CASE q = p /\ of = Nothing
  <2>1. \A i \in DOMAIN s : s[i].of # q
      BY <1>1, <1>3
  <2> QED
      BY <1>1, <1>3, <2>1 DEF Owned, HasRow, OneRow, Holding
<1> QED
    BY <1>1, <1>2, <1>3

LEMMA PatchedOwned ==
  ASSUME NEW p \in Pages, NEW of \in {p, Nothing}, NEW status
  PROVE  /\ DOMAIN Patched(p, of, status) = DOMAIN rows
         /\ \A i \in DOMAIN rows :
              Patched(p, of, status)[i].of = IF rows[i].of = p THEN of ELSE rows[i].of
BY DEF Patched, Promotion

LEMMA LeftOwned ==
  ASSUME NEW p \in Pages, rows \in Seq(TrueRows(landed))
  PROVE  /\ DOMAIN Left(p) = DOMAIN rows
         /\ \A i \in DOMAIN rows :
              Left(p)[i].of = IF rows[i].of = p THEN Nothing ELSE rows[i].of
<1>1. \A i \in DOMAIN rows : rows[i] \in Row
    BY DEF TrueRows
<1>2. ASSUME NEW i \in DOMAIN rows
      PROVE  Left(p)[i].of = IF rows[i].of = p THEN Nothing ELSE rows[i].of
    BY <1>1 DEF Left, Row
<1> QED
    BY <1>2 DEF Left

\* The steps that leave the rows alone take no page into its run or out of it.
LEMMA QuietOwns ==
  ASSUME Typed, Owns, NEW p \in Pages, UNCHANGED rows,
         \E x : /\ page' = [page EXCEPT ![p] = x]
                /\ x.pc \in Holding <=> page[p].pc \in Holding
  PROVE  Owns'
<1>1. ASSUME NEW q \in Pages
      PROVE  page'[q].pc \in Holding <=> page[q].pc \in Holding
    BY DEF Typed
<1> QED
    BY <1>1 DEF Owns, Owned, HasRow, OneRow

\* The steps in which a page lets go of its row.
LEMMA LetsGoOwns ==
  ASSUME Inv, Owns, NEW p \in Pages, NEW s \in Seq(TrueRows(landed)), rows' = Kept(s),
         DOMAIN s = DOMAIN rows,
         \A i \in DOMAIN rows : s[i].of = IF rows[i].of = p THEN Nothing ELSE rows[i].of,
         NEW x, page' = [page EXCEPT ![p] = x], x.pc \in {"idle", "conflict"}
  PROVE  Owns'
<1>1. ASSUME NEW q \in Pages
      PROVE  Owned(q, page'[q].pc, rows')
  <2>1. Owned(q, page[q].pc, rows)
      BY DEF Owns
  <2>2. Owned(q, page'[q].pc, s)
    <3>1. CASE q = p
      <4>1. page'[q].pc \in {"idle", "conflict"}
          BY <3>1 DEF Inv, Typed
      <4>2. \A at \in {"idle", "conflict"} : Owned(q, at, s)
          BY <2>1, <3>1, RewrittenOwned
      <4> QED
          BY <4>1, <4>2
    <3>2. CASE q # p
      <4>1. page'[q] = page[q]
          BY <3>2 DEF Inv, Typed
      <4>2. Owned(q, page[q].pc, s)
          BY <2>1, <3>2, RewrittenOwned
      <4> QED
          BY <4>1, <4>2
    <3> QED
        BY <3>1, <3>2
  <2> QED
      BY <2>2, KeptOwned
<1> QED
    BY <1>1 DEF Owns, Owned, HasRow, OneRow

LEMMA RecordedOwns ==
  ASSUME Inv, Owns, NEW p \in Pages, Recorded(p)
  PROVE  Owns'
<1>1. Typed /\ rows \in Seq(TrueRows(landed)) /\ page[p].pc = "record"
    BY DEF Inv, Told, Recorded
<1>2. PICK outcome \in Outcomes :
        /\ LET of == IF outcome = "ok" THEN p ELSE Nothing
           IN rows' = IF Done(outcome) THEN Kept(Append(rows, Promotion(of, "pending", {})))
                                       ELSE rows
        /\ page' = IF outcome = "ok"
                   THEN [page EXCEPT ![p].pc = "run", ![p].at = 1]
                   ELSE [page EXCEPT ![p] = Card("idle", @.carried, @.done)]
    BY DEF Recorded
<1>3. CASE outcome = "refused"
  <2>1. rows' = rows /\ page' = [page EXCEPT ![p] = Card("idle", @.carried, @.done)]
      BY <1>2, <1>3 DEF Done
  <2>2. page' = [page EXCEPT ![p] = Card("idle", page[p].carried, page[p].done)]
      BY <1>1, <2>1 DEF Typed
  <2>3. Card("idle", page[p].carried, page[p].done).pc = "idle"
      BY DEF Card
  <2> QED
      BY <1>1, <2>1, <2>2, <2>3, QuietOwns DEF Holding
<1>4. CASE outcome # "refused"
  <2> DEFINE of == IF outcome = "ok" THEN p ELSE Nothing
             new == Promotion(of, "pending", {})
             s == Append(rows, new)
  <2>1. rows' = Kept(s)
      BY <1>2, <1>4 DEF Done, Outcomes
  <2>2. new \in TrueRows(landed) /\ new.of = of
      BY DEF Promotion, TrueRows, Row
  <2> HIDE DEF new
  <2>3. s \in Seq(TrueRows(landed))
      BY <1>1, <2>2
  <2>4. /\ DOMAIN s = DOMAIN rows \cup {Len(rows) + 1} /\ Len(rows) + 1 \notin DOMAIN rows
        /\ s[Len(rows) + 1].of = of
        /\ \A i \in DOMAIN rows : s[i] = rows[i]
      BY <1>1, <2>2
  <2>5. page'[p].pc = IF outcome = "ok" THEN "run" ELSE "idle"
      BY <1>1, <1>2 DEF Typed, Card, CardType
  <2> HIDE DEF s
  <2>6. ASSUME NEW q \in Pages
        PROVE  Owned(q, page'[q].pc, s)
    <3>1. Owned(q, page[q].pc, rows) /\ q # Nothing /\ p # Nothing
        BY NothingIsNoPage DEF Owns
    <3>2. CASE q # p
      <4>1. page'[q] = page[q]
          BY <1>1, <1>2, <3>2 DEF Typed
      <4>2. of # q
          BY <3>1, <3>2
      <4>3. HasRow(q, s) <=> HasRow(q, rows)
          BY <2>4, <4>2 DEF HasRow
      <4>4. OneRow(q, s)
          BY <2>4, <3>1, <4>2 DEF OneRow, Owned
      <4> QED
          BY <3>1, <4>1, <4>3, <4>4 DEF Owned
    <3>3. CASE q = p
      <4>1. \A i \in DOMAIN rows : rows[i].of # p
          BY <1>1, <3>1, <3>3 DEF Owned, HasRow, Holding
      <4>2. OneRow(p, s)
          BY <2>4, <4>1 DEF OneRow
      <4>3. HasRow(p, s) <=> outcome = "ok"
          BY <2>4, <3>1, <4>1 DEF HasRow
      <4> QED
          BY <2>5, <3>3, <4>2, <4>3 DEF Owned, Holding
    <3> QED
        BY <3>2, <3>3
  <2>7. \A q \in Pages : Owned(q, page'[q].pc, rows')
      BY <2>1, <2>3, <2>6, KeptOwned
  <2> QED
      BY <2>7 DEF Owns, Owned, HasRow, OneRow
<1> QED
    BY <1>3, <1>4

LEMMA AbandonedOwns ==
  ASSUME Inv, Owns, NEW p \in Pages, Abandoned(p)
  PROVE  Owns'
<1> DEFINE status == IF Did(p) = {} THEN "failed" ELSE "partial"
           pc == IF page[p].pc = "clash" THEN "conflict" ELSE "idle"
           x == Card(pc, IF status = "partial" THEN Did(p) ELSE page[p].carried,
                     status = "done")
<1>1. Typed /\ Told /\ rows \in Seq(TrueRows(landed))
    BY DEF Inv, Told
<1>2. /\ page' = Shows(p, pc, status, Did(p))
      /\ \/ rows' = Kept(Patched(p, Nothing, status))
         \/ rows' = Kept(Left(p))
    BY DEF Abandoned
<1>3. page' = [page EXCEPT ![p] = x]
    BY <1>1, <1>2 DEF Shows, Typed
<1>4. x.pc \in {"idle", "conflict"}
    BY DEF Card
<1>5. Patched(p, Nothing, status) \in Seq(TrueRows(landed))
  <2>1. status \in {"pending", "done", "failed", "partial"} /\ status # "done"
      OBVIOUS
  <2> HIDE DEF status
  <2> QED
      BY <1>1, <2>1, DidLanded, PatchedRows
<1>6. Left(p) \in Seq(TrueRows(landed))
    BY <1>1, LeftRows
<1> HIDE DEF status, pc, x
<1>7. CASE rows' = Kept(Patched(p, Nothing, status))
  <2>1. /\ DOMAIN Patched(p, Nothing, status) = DOMAIN rows
        /\ \A i \in DOMAIN rows : Patched(p, Nothing, status)[i].of =
                                    IF rows[i].of = p THEN Nothing ELSE rows[i].of
      BY PatchedOwned
  <2> QED
      BY <1>3, <1>4, <1>5, <1>7, <2>1, LetsGoOwns
<1>8. CASE rows' = Kept(Left(p))
    BY <1>1, <1>3, <1>4, <1>6, <1>8, LeftOwned, LetsGoOwns
<1> QED
    BY <1>2, <1>7, <1>8

LEMMA FinishedOwns ==
  ASSUME Inv, Owns, NEW p \in Pages, Finished(p)
  PROVE  Owns'
<1>1. Typed /\ Told /\ rows \in Seq(TrueRows(landed))
    BY DEF Inv, Told
<1>2. /\ page[p].pc \in {"run", "unsynced"}
      /\ \/ /\ rows' = Kept(Patched(p, Nothing, "done"))
            /\ page' = Shows(p, "idle", "done", Did(p))
         \/ /\ rows' \in {Patched(p, p, "done"), rows}
            /\ page' = [page EXCEPT ![p].pc = "unsynced"]
    BY DEF Finished
<1>3. CASE /\ rows' = Kept(Patched(p, Nothing, "done"))
           /\ page' = Shows(p, "idle", "done", Did(p))
  <2> DEFINE x == Card("idle", page[p].carried, TRUE)
  <2>1. page' = [page EXCEPT ![p] = x]
      BY <1>1, <1>3 DEF Shows, Typed
  <2>2. x.pc = "idle"
      BY DEF Card
  <2>3. page[p].at = Len(steps) + 1
      BY <1>1, DidLanded DEF Finished, At, CardTold, CardType
  <2>4. Did(p) = All
      BY <1>1, <2>3, DidLanded DEF Did, At, All
  <2>5. Patched(p, Nothing, "done") \in Seq(TrueRows(landed))
      BY <1>1, <2>4, DidLanded, PatchedRows
  <2> HIDE DEF x
  <2> QED
      BY <1>3, <2>1, <2>2, <2>5, PatchedOwned, LetsGoOwns
<1>4. CASE /\ rows' \in {Patched(p, p, "done"), rows}
           /\ page' = [page EXCEPT ![p].pc = "unsynced"]
  <2>1. ASSUME NEW q \in Pages
        PROVE  Owned(q, page'[q].pc, rows')
    <3>1. Owned(q, page[q].pc, rows)
        BY DEF Owns
    <3>2. page'[q].pc \in Holding <=> page[q].pc \in Holding
        BY <1>1, <1>2, <1>4 DEF Typed, CardType, Holding
    <3>3. CASE rows' = rows
        BY <3>1, <3>2, <3>3 DEF Owned
    <3>4. CASE rows' = Patched(p, p, "done")
      <4>1. Owned(q, page[q].pc, rows')
          BY <3>1, <3>4, PatchedOwned, RewrittenOwned
      <4> QED
          BY <3>2, <4>1 DEF Owned
    <3> QED
        BY <1>4, <3>3, <3>4
  <2> QED
      BY <2>1 DEF Owns, Owned, HasRow, OneRow
<1> QED
    BY <1>2, <1>3, <1>4

LEMMA ReloadedOwns ==
  ASSUME Inv, Owns, NEW p \in Pages, Reloaded(p)
  PROVE  Owns'
<1> DEFINE x == Card("idle", Carried(rows), IsDone(rows))
<1>1. rows \in Seq(TrueRows(landed))
    BY DEF Inv, Told
<1>2. rows' = Kept(Left(p)) /\ page' = [page EXCEPT ![p] = x]
    BY DEF Reloaded
<1>3. x.pc = "idle"
    BY DEF Card
<1>4. Left(p) \in Seq(TrueRows(landed))
    BY <1>1, LeftRows
<1> HIDE DEF x
<1> QED
    BY <1>1, <1>2, <1>3, <1>4, LeftOwned, LetsGoOwns

\* The other steps of a card leave it in its run, or out of it.
LEMMA CardOwns ==
  ASSUME Inv, Owns, NEW p \in Pages,
         \/ ApplyClicked(p) \/ OverwriteClicked(p) \/ KeepClicked(p) \/ StepCarried(p)
         \/ Read(p)
  PROVE  Owns'
<1>1. Typed /\ page[p] \in CardType
    BY DEF Inv, Typed
<1>2. UNCHANGED rows
    BY DEF ApplyClicked, OverwriteClicked, Clicked, KeepClicked, StepCarried, Read
<1> DEFINE Alike(x) == x.pc \in Holding <=> page[p].pc \in Holding
<1>3. ASSUME NEW over, Clicked(p, over) \/ KeepClicked(p)
      PROVE  \E x : page' = [page EXCEPT ![p] = x] /\ Alike(x)
  <2>1. /\ Begun(page[p], over).pc = "record" /\ Turned(page[p], "idle", 0).pc = "idle"
        /\ page[p].pc \notin Holding
      BY <1>1, <1>3 DEF CardType, Begun, Turned, Clicked, KeepClicked, Holding
  <2>2. Alike(Begun(page[p], over)) /\ Alike(Turned(page[p], "idle", 0))
      BY <2>1 DEF Holding
  <2> HIDE DEF Alike
  <2> QED
      BY <1>3, <2>2 DEF Clicked, KeepClicked
<1>4. ASSUME StepCarried(p) \/ Read(p)
      PROVE  \E x : page' = [page EXCEPT ![p] = x] /\ Alike(x)
  <2> DEFINE seen == [page[p] EXCEPT !.seen = {0} \cup {i \in All : target[i].copies > 0}]
  <2>1. page[p].pc = "run" /\ seen.pc = "run" /\ Onward(page[p]).pc = "run"
      BY <1>1, <1>4 DEF CardType, Onward, StepCarried, Read
  <2>2. Turned(page[p], "abandon", 0).pc = "abandon"
      BY <1>1 DEF CardType, Turned
  <2>3. Alike(seen) /\ Alike(Onward(page[p])) /\ Alike(Turned(page[p], "abandon", 0))
      BY <2>1, <2>2 DEF Holding
  <2>4. \E x \in {seen, Onward(page[p]), Turned(page[p], "abandon", 0)} :
          page' = [page EXCEPT ![p] = x]
      BY <1>4 DEF StepCarried, Read
  <2> HIDE DEF seen, Alike
  <2> QED
      BY <2>3, <2>4
<1>5. \E x : page' = [page EXCEPT ![p] = x] /\ Alike(x)
    BY <1>3, <1>4 DEF ApplyClicked, OverwriteClicked
<1>6. \A q \in Pages : page'[q].pc \in Holding <=> page[q].pc \in Holding
    BY <1>1, <1>5 DEF Typed
<1> QED
    BY <1>2, <1>6 DEF Owns, Owned, HasRow, OneRow

\* A card that stays in its run leaves every row to the page that has it.
StaysIn(p) ==
  /\ UNCHANGED rows /\ page[p].pc \in Holding
  /\ \E x : page' = [page EXCEPT ![p] = x] /\ x.pc \in Holding

LEMMA StaysOwns ==
  ASSUME Typed, Owns, NEW p \in Pages, StaysIn(p)
  PROVE  Owns'
<1>1. \A q \in Pages : page'[q].pc \in Holding <=> page[q].pc \in Holding
    BY DEF StaysIn, Typed
<1>2. UNCHANGED rows
    BY DEF StaysIn
<1> QED
    BY <1>1, <1>2 DEF Owns, Owned, HasRow, OneRow

LEMMA SteppedStays ==
  ASSUME Typed, NEW p \in Pages, NEW after, page[p].pc \in Holding, Stepped(p, after)
  PROVE  StaysIn(p)
<1> DEFINE y == Onward(page[p])
           z == Turned(page[p], "abandon", 0)
<1>1. UNCHANGED rows /\ \E x \in {y, z} : page' = [page EXCEPT ![p] = x]
    BY DEF Stepped, Typed
<1>2. y.pc \in Holding /\ z.pc \in Holding
    BY DEF Typed, CardType, Holding, Onward, Turned
<1> HIDE DEF y, z
<1> QED
    BY <1>1, <1>2 DEF StaysIn

LEMMA TurnedStays ==
  ASSUME Typed, NEW p \in Pages, NEW pc \in Holding, NEW chart, page[p].pc \in Holding,
         page' = [page EXCEPT ![p] = Turned(@, pc, chart)], UNCHANGED rows
  PROVE  StaysIn(p)
<1> DEFINE y == Turned(page[p], pc, chart)
<1>1. page' = [page EXCEPT ![p] = y]
    BY DEF Typed
<1>2. y.pc \in Holding
    BY DEF Typed, CardType, Turned
<1> HIDE DEF y
<1> QED
    BY <1>1, <1>2 DEF StaysIn

LEMMA StepOwns ==
  ASSUME Inv, Owns, NEW p \in Pages, Added(p) \/ Edited(p) \/ Removed(p)
  PROVE  Owns'
<1>1. Typed
    BY DEF Inv
<1>2. page[p].pc \in Holding
    BY DEF Added, AddLooked, Inserted, AddLost, Edited, Removed, Runs, Holding
<1>3. \A pc \in {"abandon", "clash", "insert"} : pc \in Holding
    BY DEF Holding
<1>4. ASSUME NEW pc \in {"abandon", "clash"}, Refused(p, pc)
      PROVE  StaysIn(p)
    BY <1>1, <1>2, <1>3, <1>4, TurnedStays DEF Refused
<1>5. ASSUME NEW after, Stepped(p, after)
      PROVE  StaysIn(p)
    BY <1>1, <1>2, <1>5, SteppedStays
<1>6. ASSUME NEW chart, Replayed(p, chart)
      PROVE  StaysIn(p)
    BY <1>4, <1>5, <1>6 DEF Replayed
<1>7. CASE AddLooked(p)
    BY <1>1, <1>2, <1>3, <1>6, <1>7, TurnedStays, StaysOwns DEF AddLooked
<1>8. CASE Inserted(p)
    BY <1>1, <1>2, <1>3, <1>5, <1>6, <1>8, TurnedStays, StaysOwns DEF Inserted
<1>9. CASE AddLost(p)
    BY <1>1, <1>2, <1>3, <1>9, TurnedStays, StaysOwns DEF AddLost
<1>10. CASE Edited(p)
    BY <1>1, <1>4, <1>5, <1>10, StaysOwns DEF Edited
<1>11. CASE Removed(p)
    BY <1>1, <1>4, <1>5, <1>11, StaysOwns DEF Removed
<1> QED
    BY <1>7, <1>8, <1>9, <1>10, <1>11 DEF Added

LEMMA NextOwns ==
  ASSUME Inv, Owns, [Next]_vars
  PROVE  Owns'
<1>1. CASE UNCHANGED vars
    BY <1>1 DEF vars, Owns, Owned, HasRow, OneRow
<1>2. ASSUME NEW p \in Pages,
             ApplyClicked(p) \/ OverwriteClicked(p) \/ KeepClicked(p) \/ Run(p) \/ Reloaded(p)
      PROVE  Owns'
    BY <1>2, CardOwns, RecordedOwns, AbandonedOwns, FinishedOwns, ReloadedOwns, StepOwns
    DEF Run, Step
<1>3. ASSUME NEW i \in All, Changed(i)
      PROVE  Owns'
    BY <1>3 DEF Changed, Owns, Owned, HasRow, OneRow
<1>4. ASSUME NEW i \in All, LateInserted(i) \/ Redrawn(i)
      PROVE  Owns'
    BY <1>4 DEF LateInserted, Redrawn, Owns, Owned, HasRow, OneRow
<1> QED
    BY <1>1, <1>2, <1>3, <1>4 DEF Next

\* A page has its row from its first answer to its last call, and one only: the rows
\* that are dropped are nobody's.
THEOREM TypeAlways == Spec => []TypeOK
<1>1. Init => Owns
  <2> SUFFICES ASSUME Init PROVE Owns
      OBVIOUS
  <2>1. \A p \in Pages : page[p].pc = "idle"
      BY DEF Init, Card
  <2>2. DOMAIN rows = {}
      BY DEF Init
  <2> QED
      BY <2>1, <2>2 DEF Owns, Owned, HasRow, OneRow, Holding
<1>2. Inv /\ Owns /\ [Next]_vars => Owns'
    BY NextOwns
<1>3. Inv /\ Owns => TypeOK
  <2> SUFFICES ASSUME Inv, Owns PROVE TypeOK
      OBVIOUS
  <2>1. rows \in Seq(TrueRows(landed)) /\ Typed
      BY DEF Inv, Told
  <2>2. \A i \in DOMAIN rows : rows[i] \in Row
      BY <2>1 DEF TrueRows
  <2> QED
      BY <2>1, <2>2 DEF TypeOK, Typed, Row, Owns, Owned, HasRow, OneRow, Holding
<1> QED
    BY <1>1, <1>2, <1>3, ToldAlways, PTL DEF Spec
=============================================================================
