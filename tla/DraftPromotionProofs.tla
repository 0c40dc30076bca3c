------------------------ MODULE DraftPromotionProofs ------------------------
(* What holds of DraftPromotion for any pages, cards, layouts and bounds: a  *)
(* version of the draft makes one query, what is said to be saved is, and    *)
(* what a page has saved is not lost between it and the api.                 *)
EXTENDS DraftPromotion, SequenceTheorems, NaturalsInduction, WellFoundedInduction, TLAPS

Query == [key : Versions, stamp : Nat, had : SUBSET Versions]

Saving == {"record", "create", "insert", "draw", "read", "finish", "abandon"}
Updating == {"fetch", "stage", "post", "giveup", "clash", "tell", "redrawn", "partial"}
Redrawing == {"redraw", "retold"}
Pcs == Saving \cup Updating \cup Redrawing \cup {"idle", "conflict"}

\* A flow there has recorded a row, which nobody else touches.
Owning == {"create", "insert", "draw", "read", "finish", "abandon",
           "post", "giveup", "clash", "tell"}

\* A flow there may have told the api that its row is done.
Telling == {"redrawn", "partial"}

\* A flow there names the query it writes; there, it has written it.
Naming == {"draw", "read", "finish", "stage", "post", "giveup", "clash", "tell"} \cup Telling
Writing == Saving \cup {"tell"} \cup Telling

Flow == [pc : Pcs, ver : 0 .. MaxVersions, base : Promotions \cup {Nothing}, over : BOOLEAN,
         query : Nat, stamp : Nat, row : Nat, synced : BOOLEAN]

Answers == [latest : Versions, shown : Seq(Promotions)]

View == [latest : 0 .. MaxVersions, shown : Seq(Promotions), held : Held \cup {Nothing},
         sending : Held \cup {Nothing}, landed : BOOLEAN, answer : Answers \cup {Nothing},
         wrote : BOOLEAN]

\* What the two servers hold, and the rows that flows own.
Taken == {card[c].row : c \in {d \in Cards : card[d].pc \in Owning}}

Now == [rows |-> rows, queries |-> queries, writes |-> writes, taken |-> Taken]

\* The query has been written with that version.
Had(s, q, v) == q \in 1 .. Len(s.queries) /\ v \in s.queries[q].had

\* A promotion agrees with its row, and what it says of its query is true.
Known(s, a) ==
  /\ a.id \in 1 .. Len(s.rows) /\ a.ver = s.rows[a.id].ver
  /\ a.ver \in Versions /\ a.target \in 0 .. Len(s.queries)
  /\ a.stamp \in 0 .. s.writes /\ a.made \in 0 .. s.writes

Honest(s, a) ==
  a.status \in {"done", "partial"} => a.target # 0 /\ Had(s, a.target, a.ver)

Landed(s, i) == i \in 1 .. Len(s.rows) /\ IsApplied(s.rows[i])
Backed(s, i) == s.rows[i].target # 0 /\ Had(s, s.rows[i].target, s.rows[i].ver)

\* A patch that leaves its row applied, and true.
Fits(s, i, patch) ==
  /\ patch.status \in {"done", "partial"}
  /\ patch.target \in 0 .. Len(s.queries) /\ patch.stamp \in 0 .. s.writes
  /\ IF patch.target = 0 THEN Backed(s, i) ELSE Had(s, patch.target, s.rows[i].ver)

\* A held patch, a promotion that is shown, and the one a flow started from.
HeldOK(s, held) ==
  /\ Known(s, held.promotion) /\ Honest(s, held.promotion) /\ IsApplied(held.promotion)
  /\ Fits(s, held.promotion.id, held.patch) /\ held.promotion.id \notin s.taken

ShownOK(s, a) == Known(s, a) /\ Honest(s, a) /\ (IsApplied(a) => Landed(s, a.id))

BaseOK(s, own, a) ==
  /\ a \in Promotions /\ Known(s, a) /\ Honest(s, a) /\ IsApplied(a)
  /\ a.id \notin s.taken
  /\ own => Backed(s, a.id)

AllShownOK(s, S) == \A i \in DOMAIN S : ShownOK(s, S[i])

\* The page holds the patch, or the api has an applied row.
Kept(s, v) == v.held # Nothing \/ \E i \in 1 .. Len(s.rows) : IsApplied(s.rows[i])

ViewOK(s, v) ==
  /\ v \in View
  /\ AllShownOK(s, v.shown)
  /\ v.answer # Nothing => AllShownOK(s, v.answer.shown)
  /\ v.held # Nothing => HeldOK(s, v.held)
  /\ v.sending # Nothing => HeldOK(s, v.sending)
  /\ v.sending # Nothing /\ v.landed => Landed(s, v.sending.promotion.id)
  /\ v.wrote => Kept(s, v)

FlowOK(s, own, x) ==
  /\ x \in Flow
  /\ x.row \in 0 .. Len(s.rows) /\ x.query \in 0 .. Len(s.queries)
  /\ x.stamp \in 0 .. s.writes
  /\ x.pc \in Saving \cup Updating => x.ver \in Versions
  /\ x.pc \in Owning \cup Telling => x.row # 0 /\ s.rows[x.row].ver = x.ver
  /\ x.pc \in Owning => s.rows[x.row].status = "pending"
  /\ x.pc \in Telling => x.row \notin s.taken
  /\ x.pc = "partial" \/ (x.pc = "redrawn" /\ x.synced) => Landed(s, x.row)
  /\ x.pc \in Naming => x.query # 0
  /\ x.pc \in Writing => x.query = 0 \/ Had(s, x.query, x.ver)
  /\ x.pc \in {"fetch"} \cup Redrawing => BaseOK(s, own, x.base)

\* The rows and the queries are as the servers keep them.
World(s) ==
  /\ s.rows \in Seq(Promotions)
  /\ \A i \in 1 .. Len(s.rows) :
       s.rows[i].id = i /\ Known(s, s.rows[i]) /\ Honest(s, s.rows[i])
  /\ s.queries \in Seq(Query) /\ s.writes \in Nat
  /\ \A q \in 1 .. Len(s.queries) : s.queries[q].stamp =< s.writes

\* The key of a query leads back to it, and to a query that was written with it.
Keys ==
  /\ ops \in [Versions -> 0 .. Len(queries)]
  /\ \A q \in 1 .. Len(queries) : ops[queries[q].key] = q
  /\ \A v \in Versions : ops[v] = 0 \/ Had(Now, ops[v], v)

Flows ==
  /\ card = [c \in Cards |-> card[c]]
  /\ \A c \in Cards : FlowOK(Now, OwnCard(c), card[c])
  /\ \A c, d \in Cards :
       card[c].pc \in Owning /\ card[d].pc \in Owning /\ card[c].row = card[d].row => c = d

Views ==
  /\ page = [p \in Pages |-> page[p]]
  /\ \A p \in Pages : ViewOK(Now, page[p])

Rest == place \in Layouts /\ proposed \in Versions /\ orphans \subseteq Versions

Inv == Rest /\ World(Now) /\ Keys /\ Flows /\ Views
-----------------------------------------------------------------------------
(* What is said of rows and queries stays true while they grow.              *)

\* Rows are added and patched with the truth, queries are added and written.
Grows(s, t) ==
  /\ Len(s.rows) =< Len(t.rows) /\ Len(s.queries) =< Len(t.queries) /\ s.writes =< t.writes
  /\ \A i \in 1 .. Len(s.rows) :
       /\ t.rows[i].ver = s.rows[i].ver
       /\ Backed(s, i) => Backed(t, i)
       /\ Landed(s, i) => Landed(t, i)
  /\ \A q \in 1 .. Len(s.queries) : s.queries[q].had \subseteq t.queries[q].had

\* No row is taken that was there before.
Spares(s, t) == \A i \in 1 .. Len(s.rows) : i \in t.taken => i \in s.taken

LEMMA VersionsAre == /\ MaxVersions \in Nat \ {0}
                     /\ 1 \in Versions /\ Versions \subseteq 0 .. MaxVersions
                     /\ Versions \subseteq Nat /\ 0 \in 0 .. MaxVersions
BY BoundsAreNat DEF Versions

LEMMA Lengths ==
  ASSUME NEW s, World(s)
  PROVE  /\ Len(s.rows) \in Nat /\ Len(s.queries) \in Nat /\ s.writes \in Nat
         /\ DOMAIN s.rows = 1 .. Len(s.rows) /\ DOMAIN s.queries = 1 .. Len(s.queries)
         /\ \A i \in 1 .. Len(s.rows) : s.rows[i] \in Promotions
         /\ \A q \in 1 .. Len(s.queries) : s.queries[q] \in Query
BY DEF World

LEMMA HadStays ==
  ASSUME NEW s, NEW t, World(s), World(t), Grows(s, t), NEW q, NEW v, Had(s, q, v)
  PROVE  Had(t, q, v)
BY Lengths DEF Had, Grows

LEMMA PromotionStays ==
  ASSUME NEW s, NEW t, World(s), World(t), Grows(s, t), NEW a
  PROVE  /\ Known(s, a) => Known(t, a)
         /\ Honest(s, a) => Honest(t, a)
         /\ Landed(s, a.id) => Landed(t, a.id)
<1>1. ASSUME Known(s, a)
      PROVE  Known(t, a)
  <2>1. /\ Len(s.rows) \in Nat /\ Len(s.queries) \in Nat /\ s.writes \in Nat
        /\ Len(t.rows) \in Nat /\ Len(t.queries) \in Nat /\ t.writes \in Nat
      BY Lengths
  <2>2. a.id \in 1 .. Len(t.rows) /\ t.rows[a.id].ver = s.rows[a.id].ver
      BY <1>1, <2>1 DEF Known, Grows
  <2>3. /\ a.target \in 0 .. Len(t.queries)
        /\ a.stamp \in 0 .. t.writes /\ a.made \in 0 .. t.writes
      BY <1>1, <2>1 DEF Known, Grows
  <2> QED
      BY <1>1, <2>2, <2>3 DEF Known
<1>2. Honest(s, a) => Honest(t, a)
    BY HadStays DEF Honest
<1>3. Landed(s, a.id) => Landed(t, a.id)
    BY DEF Landed, Grows
<1> QED
    BY <1>1, <1>2, <1>3

LEMMA FitsStays ==
  ASSUME NEW s, NEW t, World(s), World(t), Grows(s, t),
         NEW i \in 1 .. Len(s.rows), NEW patch, Fits(s, i, patch)
  PROVE  Fits(t, i, patch)
<1>1. /\ t.rows[i].ver = s.rows[i].ver
      /\ Backed(s, i) => Backed(t, i)
    BY DEF Grows
<1>2. patch.target \in 0 .. Len(t.queries) /\ patch.stamp \in 0 .. t.writes
    BY Lengths DEF Fits, Grows
<1>3. CASE patch.target = 0
    BY <1>1, <1>2, <1>3 DEF Fits
<1>4. CASE patch.target # 0
  <2>1. Had(s, patch.target, s.rows[i].ver)
      BY <1>4 DEF Fits
  <2>2. Had(t, patch.target, t.rows[i].ver)
      BY <1>1, <2>1, HadStays
  <2> QED
      BY <1>2, <1>4, <2>2 DEF Fits
<1> QED
    BY <1>3, <1>4

LEMMA HeldStays ==
  ASSUME NEW s, NEW t, World(s), World(t), Grows(s, t), Spares(s, t),
         NEW held, HeldOK(s, held)
  PROVE  HeldOK(t, held)
<1>1. held.promotion.id \in 1 .. Len(s.rows)
    BY DEF HeldOK, Known
<1>2. Known(t, held.promotion) /\ Honest(t, held.promotion)
    BY PromotionStays DEF HeldOK
<1>3. Fits(t, held.promotion.id, held.patch)
    BY <1>1, FitsStays DEF HeldOK
<1>4. held.promotion.id \notin t.taken
    BY <1>1 DEF HeldOK, Spares
<1> QED
    BY <1>2, <1>3, <1>4 DEF HeldOK

LEMMA ViewStays ==
  ASSUME NEW s, NEW t, World(s), World(t), Grows(s, t), Spares(s, t),
         NEW v, ViewOK(s, v)
  PROVE  ViewOK(t, v)
<1>1. v \in View /\ (v.wrote => Kept(s, v))
    BY DEF ViewOK
<1>2. ASSUME NEW S, AllShownOK(s, S)
      PROVE  AllShownOK(t, S)
  <2> SUFFICES ASSUME NEW i \in DOMAIN S PROVE ShownOK(t, S[i])
      BY DEF AllShownOK
  <2>1. ShownOK(s, S[i])
      BY <1>2 DEF AllShownOK
  <2> QED
      BY <2>1, PromotionStays DEF ShownOK
<1>3. Kept(s, v) => Kept(t, v)
    BY DEF Kept, Landed, Grows
<1>4. v.held # Nothing => HeldOK(t, v.held)
    BY HeldStays DEF ViewOK
<1>5. v.sending # Nothing => HeldOK(t, v.sending)
    BY HeldStays DEF ViewOK
<1>6. v.sending # Nothing /\ v.landed => Landed(t, v.sending.promotion.id)
    BY PromotionStays DEF ViewOK
<1> QED
    BY <1>1, <1>2, <1>3, <1>4, <1>5, <1>6 DEF ViewOK

LEMMA BaseStays ==
  ASSUME NEW s, NEW t, World(s), World(t), Grows(s, t), Spares(s, t),
         NEW own, NEW a, BaseOK(s, own, a)
  PROVE  BaseOK(t, own, a)
<1>1. a.id \in 1 .. Len(s.rows)
    BY DEF BaseOK, Known
<1>2. Known(t, a) /\ Honest(t, a)
    BY PromotionStays DEF BaseOK
<1>3. a.id \notin t.taken /\ (own => Backed(t, a.id))
    BY <1>1 DEF BaseOK, Spares, Grows
<1> QED
    BY <1>2, <1>3 DEF BaseOK

\* A flow stays right unless somebody touches the row it owns.
LEMMA FlowStays ==
  ASSUME NEW s, NEW t, World(s), World(t), Grows(s, t), Spares(s, t),
         NEW own, NEW x, FlowOK(s, own, x),
         x.pc \in Owning => t.rows[x.row].status = "pending"
  PROVE  FlowOK(t, own, x)
<1>1. /\ x.row \in 0 .. Len(t.rows) /\ x.query \in 0 .. Len(t.queries)
      /\ x.stamp \in 0 .. t.writes
    BY Lengths DEF FlowOK, Grows
<1>2. x.row # 0 => x.row \in 1 .. Len(s.rows)
    BY Lengths DEF FlowOK
<1>3. x.pc \in Owning \cup Telling => x.row # 0 /\ t.rows[x.row].ver = x.ver
    BY <1>2 DEF FlowOK, Grows
<1>4. x.pc \in Telling => x.row \notin t.taken
    BY <1>2 DEF FlowOK, Spares
<1>5. x.pc = "partial" \/ (x.pc = "redrawn" /\ x.synced) => Landed(t, x.row)
    BY <1>2 DEF FlowOK, Grows, Landed
<1>6. x.pc \in Writing => x.query = 0 \/ Had(t, x.query, x.ver)
    BY HadStays DEF FlowOK
<1>7. x.pc \in {"fetch"} \cup Redrawing => BaseOK(t, own, x.base)
    BY BaseStays DEF FlowOK
<1> QED
    BY <1>1, <1>3, <1>4, <1>5, <1>6, <1>7 DEF FlowOK
-----------------------------------------------------------------------------
(* How the servers' state grows.                                             *)

\* What a patch makes of a promotion.
LEMMA PatchedIs ==
  ASSUME NEW a \in Promotions, NEW patch \in Patches
  PROVE  /\ Patched(a, patch) \in Promotions
         /\ Patched(a, patch).id = a.id /\ Patched(a, patch).ver = a.ver
         /\ Patched(a, patch).made = a.made
         /\ Patched(a, patch).status = patch.status
         /\ Patched(a, patch).stamp = patch.stamp
         /\ Patched(a, patch).target = IF patch.target = 0 THEN a.target ELSE patch.target
<1> DEFINE target == IF patch.target = 0 THEN a.target ELSE patch.target
           b == [a EXCEPT !.status = patch.status, !.target = target,
                          !.stamp = patch.stamp, !.chart = patch.chart]
<1>1. target \in Nat
    BY DEF Promotions, Patches
<1>2. Patched(a, patch) = b
    BY DEF Patched, Promotions
<1> HIDE DEF target
<1>3. /\ b \in Promotions /\ b.id = a.id /\ b.ver = a.ver /\ b.made = a.made
      /\ b.status = patch.status /\ b.stamp = patch.stamp /\ b.target = target
    BY <1>1 DEF Promotions, Patches
<1> QED
    BY <1>2, <1>3 DEF target

LEMMA ServersRest ==
  ASSUME NEW s, NEW t, World(s),
         t.rows = s.rows, t.queries = s.queries, t.writes = s.writes
  PROVE  World(t) /\ Grows(s, t)
<1>1. World(t)
    BY DEF World, Known, Honest, Had
<1>2. \A i : (Backed(s, i) => Backed(t, i)) /\ (Landed(s, i) => Landed(t, i))
    BY DEF Backed, Landed, Had
<1>3. Len(s.rows) \in Nat /\ Len(s.queries) \in Nat /\ s.writes \in Nat
    BY Lengths
<1> QED
    BY <1>1, <1>2, <1>3 DEF Grows

LEMMA RowAdded ==
  ASSUME NEW s, NEW t, World(s), NEW v \in Versions, NEW q \in 0 .. Len(s.queries), NEW a,
         a = Promotion(Len(s.rows) + 1, "pending", v, q, s.writes),
         t.rows = Append(s.rows, a), t.queries = s.queries, t.writes = s.writes
  PROVE  /\ World(t) /\ Grows(s, t)
         /\ Len(t.rows) = Len(s.rows) + 1 /\ Len(t.rows) \in 1 .. Len(t.rows)
         /\ t.rows[Len(t.rows)].ver = v /\ t.rows[Len(t.rows)].status = "pending"
         /\ \A i \in 1 .. Len(s.rows) : t.rows[i] = s.rows[i]
<1> DEFINE m == Len(s.rows)
<1>1. /\ m \in Nat /\ Len(s.queries) \in Nat /\ s.writes \in Nat
      /\ s.rows \in Seq(Promotions)
    BY Lengths DEF World
<1>2. /\ a \in Promotions /\ a.id = m + 1 /\ a.status = "pending" /\ a.ver = v
      /\ a.target = q /\ a.made = s.writes /\ a.stamp = 0
    BY <1>1, VersionsAre DEF Promotion, Promotions, Statuses, Charts
<1>3. /\ t.rows \in Seq(Promotions) /\ Len(t.rows) = m + 1
      /\ t.rows[m + 1] = a
      /\ \A i \in 1 .. m : t.rows[i] = s.rows[i]
    BY <1>1, <1>2
<1>4. ASSUME NEW i \in 1 .. m
      PROVE  /\ t.rows[i].id = i /\ Known(t, t.rows[i]) /\ Honest(t, t.rows[i])
             /\ Backed(s, i) => Backed(t, i)
             /\ Landed(s, i) => Landed(t, i)
  <2>1. t.rows[i] = s.rows[i] /\ i \in 1 .. m + 1
      BY <1>1, <1>3
  <2>2. s.rows[i].id = i /\ Known(s, s.rows[i]) /\ Honest(s, s.rows[i])
      BY DEF World
  <2> QED
      BY <1>3, <2>1, <2>2 DEF Known, Honest, Backed, Landed, Had
<1>5. t.rows[m + 1].id = m + 1 /\ Known(t, t.rows[m + 1]) /\ Honest(t, t.rows[m + 1])
  <2>1. m + 1 \in 1 .. m + 1 /\ 0 \in 0 .. s.writes /\ s.writes \in 0 .. s.writes
      BY <1>1
  <2> QED
      BY <1>2, <1>3, <2>1 DEF Known, Honest
<1>6. World(t)
    BY <1>1, <1>3, <1>4, <1>5 DEF World
<1>7. Grows(s, t)
    BY <1>1, <1>3, <1>4 DEF Grows
<1> QED
    BY <1>1, <1>2, <1>3, <1>6, <1>7

\* A row is patched with the truth, or failed while nobody counts on it.
LEMMA RowPatched ==
  ASSUME NEW s, NEW t, World(s), NEW i \in 1 .. Len(s.rows), NEW patch \in Patches,
         \/ Fits(s, i, patch)
         \/ /\ patch.status = "failed" /\ patch.target = 0 /\ patch.stamp = 0
            /\ s.rows[i].status = "pending",
         t.rows = [s.rows EXCEPT ![i] = Patched(@, patch)],
         t.queries = s.queries, t.writes = s.writes
  PROVE  /\ World(t) /\ Grows(s, t) /\ Len(t.rows) = Len(s.rows)
         /\ t.rows[i] = Patched(s.rows[i], patch)
         /\ Fits(s, i, patch) => Landed(t, i)
         /\ \A j \in 1 .. Len(s.rows) \ {i} : t.rows[j] = s.rows[j]
<1> DEFINE m == Len(s.rows)
           old == s.rows[i]
           new == Patched(old, patch)
<1>1. /\ m \in Nat /\ Len(s.queries) \in Nat /\ s.writes \in Nat
      /\ s.rows \in Seq(Promotions) /\ old \in Promotions
    BY Lengths DEF World
<1>2. /\ new \in Promotions /\ new.id = old.id /\ new.ver = old.ver /\ new.made = old.made
      /\ new.status = patch.status /\ new.stamp = patch.stamp
      /\ new.target = IF patch.target = 0 THEN old.target ELSE patch.target
    BY <1>1, PatchedIs
<1> HIDE DEF new
<1>3. /\ t.rows \in Seq(Promotions) /\ Len(t.rows) = m /\ t.rows[i] = new
      /\ \A j \in 1 .. m \ {i} : t.rows[j] = s.rows[j]
  <2>1. t.rows = [s.rows EXCEPT ![i] = new]
      BY DEF new
  <2> QED
      BY <1>1, <1>2, <2>1, ExceptSeq
<1>4. old.id = i /\ Known(s, old) /\ Honest(s, old)
    BY DEF World
<1>5. Fits(s, i, patch) =>
        /\ IsApplied(new) /\ Had(t, new.target, new.ver)
  <2> SUFFICES ASSUME Fits(s, i, patch)
               PROVE  new.target # 0 /\ Had(t, new.target, new.ver)
      BY <1>2 DEF IsApplied, Fits
  <2>1. CASE patch.target = 0
      BY <1>2, <2>1 DEF Fits, Backed, Had
  <2>2. CASE patch.target # 0
      BY <1>2, <2>2 DEF Fits, Had
  <2> QED
      BY <2>1, <2>2
<1>6. Known(t, new) /\ Honest(t, new)
  <2>1. /\ patch.target \in 0 .. Len(s.queries) /\ patch.stamp \in 0 .. s.writes
      BY <1>1 DEF Fits
  <2>2. Known(t, new)
      BY <1>2, <1>3, <1>4, <2>1 DEF Known
  <2>3. Honest(t, new)
      BY <1>2, <1>5 DEF Honest, IsApplied
  <2> QED
      BY <2>2, <2>3
<1>7. ASSUME NEW j \in 1 .. m \ {i}
      PROVE  t.rows[j].id = j /\ Known(t, t.rows[j]) /\ Honest(t, t.rows[j])
  <2>1. t.rows[j] = s.rows[j] /\ j \in 1 .. m
      BY <1>3
  <2>2. s.rows[j].id = j /\ Known(s, s.rows[j]) /\ Honest(s, s.rows[j])
      BY <2>1 DEF World
  <2> QED
      BY <1>3, <2>1, <2>2 DEF Known, Honest, Had
<1>8. World(t)
  <2>1. t.rows[i].id = i
      BY <1>2, <1>3, <1>4
  <2>2. \A j \in 1 .. Len(t.rows) :
          t.rows[j].id = j /\ Known(t, t.rows[j]) /\ Honest(t, t.rows[j])
      BY <1>3, <1>6, <1>7, <2>1
  <2>3. t.queries \in Seq(Query) /\ t.writes \in Nat
      BY DEF World
  <2>4. \A q \in 1 .. Len(t.queries) : t.queries[q].stamp =< t.writes
      BY DEF World
  <2> QED
      BY <1>3, <2>2, <2>3, <2>4 DEF World
<1>9. ASSUME NEW j \in 1 .. m
      PROVE  /\ t.rows[j].ver = s.rows[j].ver
             /\ Backed(s, j) => Backed(t, j)
             /\ Landed(s, j) => Landed(t, j)
  <2>1. CASE j # i
      BY <1>3, <2>1 DEF Backed, Landed, Had
  <2>2. CASE j = i
    <3>1. t.rows[j] = new /\ s.rows[j] = old /\ new.ver = old.ver
        BY <1>2, <1>3, <2>2
    <3>2. CASE Fits(s, i, patch)
      <4>1. Backed(t, j) /\ Landed(t, j)
          BY <1>3, <1>5, <2>2, <3>1, <3>2 DEF Backed, Landed, IsApplied
      <4> QED
          BY <3>1, <4>1
    <3>3. CASE ~Fits(s, i, patch)
      <4>1. old.status = "pending" /\ new.target = old.target
          BY <1>2, <3>3
      <4> QED
          BY <3>1, <4>1 DEF Backed, Landed, IsApplied, Had
    <3> QED
        BY <3>2, <3>3
  <2> QED
      BY <2>1, <2>2
<1>10. Grows(s, t)
    BY <1>1, <1>3, <1>9 DEF Grows
<1>11. Fits(s, i, patch) => Landed(t, i)
    BY <1>3, <1>5 DEF Landed
<1> QED
    BY <1>3, <1>8, <1>10, <1>11 DEF new

\* Rows stay as they are when queries grow.
LEMMA RowsSeeQueriesGrow ==
  ASSUME NEW s, NEW t, World(s), t.rows = s.rows,
         t.queries \in Seq(Query), t.writes \in Nat, s.writes =< t.writes,
         Len(s.queries) =< Len(t.queries),
         \A q \in 1 .. Len(s.queries) : s.queries[q].had \subseteq t.queries[q].had,
         \A q \in 1 .. Len(t.queries) : t.queries[q].stamp =< t.writes
  PROVE  World(t) /\ Grows(s, t)
<1>1. /\ Len(s.rows) \in Nat /\ Len(s.queries) \in Nat /\ s.writes \in Nat
      /\ Len(t.queries) \in Nat
    BY Lengths
<1>2. \A q, v : Had(s, q, v) => Had(t, q, v)
    BY <1>1 DEF Had
<1>3. ASSUME NEW i \in 1 .. Len(s.rows)
      PROVE  Known(t, t.rows[i]) /\ Honest(t, t.rows[i]) /\ t.rows[i].id = i
  <2>1. Known(s, s.rows[i]) /\ Honest(s, s.rows[i]) /\ s.rows[i].id = i
      BY DEF World
  <2>2. Known(t, s.rows[i])
      BY <1>1, <2>1 DEF Known
  <2>3. Honest(t, s.rows[i])
      BY <1>2, <2>1 DEF Honest
  <2> QED
      BY <2>1, <2>2, <2>3
<1>4. World(t)
    BY <1>3 DEF World
<1>5. \A i \in 1 .. Len(s.rows) :
        /\ Backed(s, i) => Backed(t, i)
        /\ Landed(s, i) => Landed(t, i)
    BY <1>2 DEF Backed, Landed
<1> QED
    BY <1>1, <1>4, <1>5 DEF Grows

LEMMA QueryAdded ==
  ASSUME NEW s, NEW t, World(s), NEW new \in Query, new.stamp = s.writes + 1,
         new.key \in new.had, t.rows = s.rows,
         t.queries = Append(s.queries, new), t.writes = s.writes + 1
  PROVE  /\ World(t) /\ Grows(s, t)
         /\ Len(t.queries) = Len(s.queries) + 1 /\ Len(t.queries) \in Nat
         /\ \A q \in 1 .. Len(s.queries) : t.queries[q] = s.queries[q]
         /\ t.queries[Len(t.queries)].key = new.key /\ Had(t, Len(t.queries), new.key)
<1> DEFINE n == Len(s.queries)
<1>1. n \in Nat /\ s.writes \in Nat /\ s.queries \in Seq(Query)
    BY Lengths DEF World
<1>3. /\ t.queries \in Seq(Query) /\ Len(t.queries) = n + 1 /\ t.queries[n + 1] = new
      /\ \A q \in 1 .. n : t.queries[q] = s.queries[q]
    BY <1>1
<1>4. \A q \in 1 .. n : s.queries[q].stamp =< s.writes /\ s.queries[q] \in Query
    BY <1>1 DEF World
<1>5. \A q \in 1 .. n + 1 : t.queries[q].stamp =< t.writes
  <2> SUFFICES ASSUME NEW q \in 1 .. n + 1 PROVE t.queries[q].stamp =< t.writes
      OBVIOUS
  <2>1. CASE q = n + 1
      BY <1>1, <1>3, <2>1
  <2>2. CASE q # n + 1
    <3>1. q \in 1 .. n /\ s.queries[q].stamp \in Nat
        BY <1>1, <1>4, <2>2 DEF Query
    <3> QED
        BY <1>1, <1>3, <1>4, <3>1
  <2> QED
      BY <2>1, <2>2
<1>6. World(t) /\ Grows(s, t)
  <2>1. n =< Len(t.queries) /\ s.writes =< t.writes /\ t.writes \in Nat
      BY <1>1, <1>3
  <2>2. /\ \A q \in 1 .. n : s.queries[q].had \subseteq t.queries[q].had
        /\ \A q \in 1 .. Len(t.queries) : t.queries[q].stamp =< t.writes
      BY <1>3, <1>5
  <2> QED
      BY <1>3, <2>1, <2>2, RowsSeeQueriesGrow
<1>7. Had(t, n + 1, new.key)
    BY <1>1, <1>3 DEF Had
<1> QED
    BY <1>1, <1>3, <1>6, <1>7

LEMMA QueryWritten ==
  ASSUME NEW s, NEW t, World(s), NEW q \in 1 .. Len(s.queries), NEW new \in Query,
         new.key = s.queries[q].key, new.stamp = s.writes + 1,
         s.queries[q].had \subseteq new.had, t.rows = s.rows,
         t.queries = [s.queries EXCEPT ![q] = new], t.writes = s.writes + 1
  PROVE  /\ World(t) /\ Grows(s, t) /\ Len(t.queries) = Len(s.queries)
         /\ \A r \in 1 .. Len(s.queries) : t.queries[r].key = s.queries[r].key
         /\ \A v \in new.had : Had(t, q, v)
<1>1. Len(s.queries) \in Nat /\ s.writes \in Nat /\ s.queries \in Seq(Query)
    BY Lengths DEF World
<1>2. /\ t.queries \in Seq(Query) /\ Len(t.queries) = Len(s.queries)
      /\ t.queries[q] = new
      /\ \A r \in 1 .. Len(s.queries) : r # q => t.queries[r] = s.queries[r]
    BY <1>1, ExceptSeq
<1>3. \A r \in 1 .. Len(s.queries) :
        s.queries[r].stamp =< s.writes /\ s.queries[r].stamp \in Nat
  <2>1. \A r \in 1 .. Len(s.queries) : s.queries[r] \in Query
      BY Lengths
  <2> QED
      BY <2>1 DEF World, Query
<1>4. \A r \in 1 .. Len(t.queries) : t.queries[r].stamp =< t.writes
    BY <1>1, <1>2, <1>3
<1>5. \A r \in 1 .. Len(s.queries) : s.queries[r].had \subseteq t.queries[r].had
    BY <1>2
<1>6. World(t) /\ Grows(s, t)
  <2>1. Len(s.queries) =< Len(t.queries) /\ s.writes =< t.writes /\ t.writes \in Nat
      BY <1>1, <1>2
  <2> QED
      BY <1>2, <1>4, <1>5, <2>1, RowsSeeQueriesGrow
<1>7. \A v \in new.had : Had(t, q, v)
    BY <1>2 DEF Had
<1> QED
    BY <1>2, <1>6, <1>7
-----------------------------------------------------------------------------
(* What a page shows and holds.                                              *)

\* A bounded, non-empty set of naturals has a largest member.
LEMMA Largest ==
  ASSUME NEW N \in Nat, NEW S, S \subseteq 0 .. N, S # {}
  PROVE  \E x \in S : \A y \in S : y =< x
<1> DEFINE T == {N - x : x \in S}
           R == OpToRel(<, Nat)
<1>1. T \subseteq Nat /\ T # {}
  <2>1. \A x \in S : N - x \in Nat
      OBVIOUS
  <2>2. PICK x \in S : TRUE
      OBVIOUS
  <2> QED
      BY <2>1, <2>2
<1>2. PICK t \in T : \A u \in T : <<u, t>> \notin R
    BY <1>1, NatLessThanWellFounded, WFMin, Zenon
<1>3. \A u \in T : ~(u < t)
    BY <1>1, <1>2 DEF OpToRel
<1>4. PICK x \in S : t = N - x
    BY <1>2
<1>5. ASSUME NEW y \in S PROVE y =< x
  <2>1. N - y \in T
      OBVIOUS
  <2>2. ~(N - y < N - x)
      BY <1>3, <1>4, <2>1
  <2>3. x \in Nat /\ y \in Nat
      OBVIOUS
  <2> HIDE DEF T, R
  <2> QED
      BY <2>2, <2>3
<1> QED
    BY <1>5

\* What a page takes for the saved query is an applied promotion it shows.
LEMMA LastIs ==
  ASSUME NEW S \in Seq(Promotions)
  PROVE  /\ LastApplied(S) # Nothing <=> \E i \in DOMAIN S : IsApplied(S[i])
         /\ LastApplied(S) # Nothing =>
              \E i \in DOMAIN S : IsApplied(S[i]) /\ LastApplied(S) = S[i]
<1> DEFINE Applied == {i \in DOMAIN S : IsApplied(S[i])}
           IsLast(i) == \A j \in Applied : j =< i
<1>1. Len(S) \in Nat /\ DOMAIN S = 1 .. Len(S)
    OBVIOUS
<1>2. \A i \in DOMAIN S : S[i] # Nothing
  <2>1. \A i \in DOMAIN S : S[i] \in Promotions
      OBVIOUS
  <2> QED
      BY <2>1, NothingIsNone
<1>3. LastApplied(S) = IF Applied = {} THEN Nothing ELSE S[CHOOSE i \in Applied : IsLast(i)]
    BY DEF LastApplied
<1>4. CASE Applied = {}
  <2>1. LastApplied(S) = Nothing
      BY <1>3, <1>4
  <2> QED
      BY <1>4, <2>1
<1>5. CASE Applied # {}
  <2>1. Applied \subseteq 0 .. Len(S)
      BY <1>1
  <2>2. \E i \in Applied : IsLast(i)
      BY <1>1, <1>5, <2>1, Largest
  <2>3. PICK i \in DOMAIN S : IsApplied(S[i]) /\ LastApplied(S) = S[i]
    <3> DEFINE last == CHOOSE i \in Applied : IsLast(i)
    <3>1. last \in Applied
        BY <2>2
    <3>2. LastApplied(S) = S[last]
        BY <1>3, <1>5
    <3> QED
        BY <3>1, <3>2
  <2> QED
      BY <1>2, <2>3
<1> QED
    BY <1>4, <1>5

LEMMA UpsertIs ==
  ASSUME NEW S \in Seq(Promotions), NEW a \in Promotions
  PROVE  /\ Upsert(S, a) \in Seq(Promotions)
         /\ \A i \in DOMAIN Upsert(S, a) :
              Upsert(S, a)[i] = a \/ \E j \in DOMAIN S : Upsert(S, a)[i] = S[j]
         /\ \E i \in DOMAIN Upsert(S, a) : Upsert(S, a)[i] = a
<1>1. Len(S) \in Nat /\ DOMAIN S = 1 .. Len(S)
    OBVIOUS
<1>2. CASE \E i \in DOMAIN S : S[i].id = a.id
  <2> DEFINE T == [i \in DOMAIN S |-> IF S[i].id = a.id THEN a ELSE S[i]]
  <2>1. Upsert(S, a) = T
      BY <1>2 DEF Upsert
  <2>2. T \in Seq(Promotions)
    <3>1. T = [i \in 1 .. Len(S) |-> IF S[i].id = a.id THEN a ELSE S[i]]
        BY <1>1
    <3>2. \A i \in 1 .. Len(S) : (IF S[i].id = a.id THEN a ELSE S[i]) \in Promotions
        OBVIOUS
    <3> QED
        BY <1>1, <3>1, <3>2, IsASeq
  <2>3. DOMAIN T = DOMAIN S /\ \A i \in DOMAIN S : T[i] = a \/ T[i] = S[i]
      OBVIOUS
  <2>4. PICK k \in DOMAIN S : S[k].id = a.id
      BY <1>2
  <2>5. T[k] = a
      BY <2>4
  <2> HIDE DEF T
  <2> QED
      BY <2>1, <2>2, <2>3, <2>4, <2>5
<1>3. CASE ~\E i \in DOMAIN S : S[i].id = a.id
  <2>1. Upsert(S, a) = Append(S, a)
      BY <1>3 DEF Upsert
  <2>2. /\ Append(S, a) \in Seq(Promotions) /\ Len(Append(S, a)) = Len(S) + 1
        /\ DOMAIN Append(S, a) = 1 .. Len(S) + 1
        /\ Append(S, a)[Len(S) + 1] = a
        /\ \A i \in 1 .. Len(S) : Append(S, a)[i] = S[i]
      BY <1>1
  <2>3. Len(S) + 1 \in DOMAIN Append(S, a)
      BY <1>1, <2>2
  <2>4. ASSUME NEW i \in DOMAIN Append(S, a)
        PROVE  Append(S, a)[i] = a \/ \E j \in DOMAIN S : Append(S, a)[i] = S[j]
    <3>1. i = Len(S) + 1 \/ i \in 1 .. Len(S)
        BY <1>1, <2>2
    <3> QED
        BY <1>1, <2>2, <3>1
  <2> QED
      BY <2>1, <2>2, <2>3, <2>4
<1> QED
    BY <1>2, <1>3

LEMMA ViewFields ==
  ASSUME NEW v \in View
  PROVE  /\ v.shown \in Seq(Promotions) /\ v.latest \in 0 .. MaxVersions
         /\ v.answer \in Answers \cup {Nothing}
         /\ v.held \in Held \cup {Nothing} /\ v.sending \in Held \cup {Nothing}
         /\ v.landed \in BOOLEAN /\ v.wrote \in BOOLEAN
BY DEF View

\* A page that is shown what became of a promotion.
LEMMA PromotedOK ==
  ASSUME NEW s, NEW v, ViewOK(s, v), NEW a \in Promotions, ShownOK(s, a), IsApplied(a)
  PROVE  ViewOK(s, [Promoted(v, a) EXCEPT !.wrote = TRUE])
<1> DEFINE shown == Upsert(v.shown, a)
           held == IF v.held # Nothing /\ Supersedes(a, v.held) THEN Nothing ELSE v.held
           w == [v EXCEPT !.shown = shown, !.held = held, !.wrote = TRUE]
<1>1. v \in View /\ v.shown \in Seq(Promotions) /\ v.held \in Held \cup {Nothing}
    BY ViewFields DEF ViewOK
<1>2. [Promoted(v, a) EXCEPT !.wrote = TRUE] = w
    BY <1>1 DEF Promoted, View
<1>3. /\ shown \in Seq(Promotions)
      /\ \A i \in DOMAIN shown :
            shown[i] = a \/ \E j \in DOMAIN v.shown : shown[i] = v.shown[j]
      /\ \E i \in DOMAIN shown : shown[i] = a
    BY <1>1, UpsertIs
<1>4. held \in Held \cup {Nothing} /\ (held # Nothing => held = v.held)
    BY <1>1
<1> HIDE DEF shown, held
<1>5. /\ w \in View /\ w.shown = shown /\ w.held = held
      /\ w.sending = v.sending /\ w.landed = v.landed /\ w.answer = v.answer
    BY <1>1, <1>3, <1>4 DEF View
<1>6. AllShownOK(s, shown)
    BY <1>3 DEF ViewOK, AllShownOK
<1>7. Kept(s, w)
    BY DEF Kept, ShownOK, Landed
<1> HIDE DEF w
<1>8. ViewOK(s, w)
    BY <1>4, <1>5, <1>6, <1>7 DEF ViewOK
<1> QED
    BY <1>2, <1>8

\* A patch is settled only once an applied row of the draft has landed.
LEMMA SettledIsLanded ==
  ASSUME NEW s, NEW S \in Seq(Promotions), AllShownOK(s, S),
         NEW held, held.patch.status \in {"done", "partial"}, SettledOnServer(S, held)
  PROVE  \E i \in 1 .. Len(s.rows) : IsApplied(s.rows[i])
<1>1. /\ Len(S) \in Nat /\ DOMAIN S = 1 .. Len(S)
    OBVIOUS
<1>2. PICK i \in DOMAIN S :
        \/ RecordsPatch(S[i], held.patch)
        \/ \E j \in i + 1 .. Len(S) : IsApplied(S[j])
    BY DEF SettledOnServer
<1>3. \E j \in DOMAIN S : IsApplied(S[j])
  <2>1. CASE RecordsPatch(S[i], held.patch)
    <3>1. S[i].status \in {"done", "partial"} /\ Honest(s, S[i])
        BY <2>1 DEF RecordsPatch, AllShownOK, ShownOK
    <3> QED
        BY <3>1 DEF Honest, IsApplied
  <2>2. CASE \E j \in i + 1 .. Len(S) : IsApplied(S[j])
    <3>1. \A j \in i + 1 .. Len(S) : j \in DOMAIN S
        BY <1>1
    <3> QED
        BY <2>2, <3>1
  <2> QED
      BY <1>2, <2>1, <2>2
<1>4. PICK j \in DOMAIN S : IsApplied(S[j])
    BY <1>3
<1>5. Landed(s, S[j].id)
    BY <1>4 DEF AllShownOK, ShownOK
<1> QED
    BY <1>5 DEF Landed

\* A page that is told the api did not take the patch.
LEMMA HoldIsOK ==
  ASSUME NEW s, NEW v, ViewOK(s, v), NEW a \in Promotions, NEW patch \in Patches,
         HeldOK(s, [promotion |-> Patched(a, patch), patch |-> patch])
  PROVE  ViewOK(s, [Hold(v, a, patch) EXCEPT !.wrote = TRUE])
<1> DEFINE b == Patched(a, patch)
           held == [promotion |-> b, patch |-> patch]
<1>1. v \in View /\ v.shown \in Seq(Promotions)
    BY ViewFields DEF ViewOK
<1>2. held \in Held
    BY PatchedIs DEF Held
<1>3. held.promotion = b /\ held.patch = patch /\ patch.status \in {"done", "partial"}
    BY DEF HeldOK, Fits
<1> HIDE DEF b
<1>4. CASE SettledOnServer(v.shown, held)
  <2> DEFINE w == [v EXCEPT !.wrote = TRUE]
  <2>1. [Hold(v, a, patch) EXCEPT !.wrote = TRUE] = w
      BY <1>4 DEF Hold, b
  <2>2. AllShownOK(s, v.shown)
      BY DEF ViewOK
  <2>3. \E i \in 1 .. Len(s.rows) : IsApplied(s.rows[i])
    <3> HIDE DEF held
    <3> QED
        BY <1>1, <1>3, <1>4, <2>2, SettledIsLanded
  <2>4. /\ w \in View /\ w.shown = v.shown /\ w.held = v.held
        /\ w.sending = v.sending /\ w.landed = v.landed /\ w.answer = v.answer
      BY <1>1 DEF View
  <2> HIDE DEF w
  <2>5. ViewOK(s, w)
      BY <2>3, <2>4 DEF ViewOK, Kept
  <2> QED
      BY <2>1, <2>5
<1>5. CASE ~SettledOnServer(v.shown, held)
  <2> DEFINE w == [v EXCEPT !.held = held, !.wrote = TRUE]
  <2>1. [Hold(v, a, patch) EXCEPT !.wrote = TRUE] = w
      BY <1>1, <1>5 DEF Hold, View, b
  <2>2. HeldOK(s, held) /\ held # Nothing
      BY <1>2, NothingIsNone DEF b
  <2> HIDE DEF held
  <2>3. /\ w \in View /\ w.shown = v.shown /\ w.held = held
        /\ w.sending = v.sending /\ w.landed = v.landed /\ w.answer = v.answer
      BY <1>1, <1>2 DEF View
  <2> HIDE DEF w
  <2>4. ViewOK(s, w)
      BY <2>2, <2>3 DEF ViewOK, Kept
  <2> QED
      BY <2>1, <2>4
<1> QED
    BY <1>4, <1>5
-----------------------------------------------------------------------------
(* One flow moves: what the others, and the pages, still rely on.            *)

LEMMA NowIs ==
  /\ Now.rows = rows /\ Now.queries = queries /\ Now.writes = writes /\ Now.taken = Taken
  /\ Now'.rows = rows' /\ Now'.queries = queries' /\ Now'.writes = writes'
  /\ Now'.taken = Taken'
BY DEF Now

LEMMA TakenIs ==
  ASSUME Flows, NEW c \in Cards, NEW x, card' = [card EXCEPT ![c] = x]
  PROVE  /\ card'[c] = x
         /\ \A d \in Cards \ {c} : card'[d] = card[d]
         /\ \A i \in Taken' :
              \/ x.pc \in Owning /\ i = x.row
              \/ \E d \in Cards \ {c} : card[d].pc \in Owning /\ card[d].row = i
         /\ \A d \in Cards : card[d].pc \in Owning => card[d].row \in Taken
BY DEF Flows, Taken

\* A flow that lets go of its row, keeps it, or takes a new one.
LEMMA Releases ==
  ASSUME Flows, NEW c \in Cards, NEW x, card' = [card EXCEPT ![c] = x], x.pc \notin Owning
  PROVE  /\ Spares(Now, Now')
         /\ card[c].pc \in Owning => card[c].row \notin Taken'
         /\ \A i : i \notin Taken => i \notin Taken'
<1>1. \A i \in Taken' : i \in Taken /\ (card[c].pc \in Owning => i # card[c].row)
    BY TakenIs DEF Flows
<1> QED
    BY <1>1, NowIs DEF Spares

LEMMA Keeps ==
  ASSUME Flows, NEW c \in Cards, NEW x, card' = [card EXCEPT ![c] = x],
         x.pc \in Owning => card[c].pc \in Owning /\ x.row = card[c].row
  PROVE  Spares(Now, Now')
<1>1. ASSUME NEW i \in Taken' PROVE i \in Taken
  <2>1. \/ x.pc \in Owning /\ i = x.row
        \/ \E d \in Cards \ {c} : card[d].pc \in Owning /\ card[d].row = i
      BY DEF Flows, Taken
  <2>2. \A d \in Cards : card[d].pc \in Owning => card[d].row \in Taken
      BY DEF Taken
  <2> QED
      BY <2>1, <2>2
<1> QED
    BY <1>1, NowIs DEF Spares

LEMMA Takes ==
  ASSUME Flows, World(Now), NEW c \in Cards, NEW x, card' = [card EXCEPT ![c] = x],
         x.row = Len(rows) + 1
  PROVE  Spares(Now, Now')
<1>1. ASSUME NEW i \in Taken' PROVE i \in Taken \/ i = Len(rows) + 1
  <2>1. \/ x.pc \in Owning /\ i = x.row
        \/ \E d \in Cards \ {c} : card[d].pc \in Owning /\ card[d].row = i
      BY DEF Flows, Taken
  <2>2. \A d \in Cards : card[d].pc \in Owning => card[d].row \in Taken
      BY DEF Taken
  <2> QED
      BY <2>1, <2>2
<1>2. \A i \in 1 .. Len(rows) : i # Len(rows) + 1
    BY Lengths, NowIs
<1> QED
    BY <1>1, <1>2, NowIs DEF Spares

\* Rows that other flows own are still pending.
OthersPending(c) ==
  \A d \in Cards \ {c} : card[d].pc \in Owning => rows'[card[d].row].status = "pending"

LEMMA OwnedRows ==
  ASSUME Flows, World(Now), NEW d \in Cards, card[d].pc \in Owning
  PROVE  /\ card[d].row \in 1 .. Len(rows) /\ card[d].row \in Taken
         /\ rows[card[d].row].status = "pending" /\ rows[card[d].row].ver = card[d].ver
         /\ card[d].ver \in Versions
<1>1. FlowOK(Now, OwnCard(d), card[d])
    BY DEF Flows
<1>2. card[d].row # 0 /\ card[d].row \in 0 .. Len(rows)
    BY <1>1, NowIs DEF FlowOK
<1>3. card[d].row \in 1 .. Len(rows)
    BY <1>2, Lengths, NowIs
<1> QED
    BY <1>1, <1>3, NowIs DEF FlowOK, Taken, Owning, Saving, Updating

LEMMA FlowsMove ==
  ASSUME Flows, World(Now), World(Now'), Grows(Now, Now'), Spares(Now, Now'),
         place' = place, NEW c \in Cards, NEW x, card' = [card EXCEPT ![c] = x],
         OthersPending(c), FlowOK(Now', OwnCard(c), x),
         \/ x.pc \notin Owning
         \/ card[c].pc \in Owning /\ x.row = card[c].row
         \/ x.row = Len(rows) + 1
  PROVE  Flows'
<1>1. card' = [d \in Cards |-> card'[d]]
    BY DEF Flows
<1>2. ASSUME NEW d \in Cards PROVE FlowOK(Now', OwnCard(d)', card'[d])
  <2>1. OwnCard(d)' = OwnCard(d)
      BY DEF OwnCard
  <2>2. CASE d = c
      BY <2>1, <2>2, TakenIs
  <2>3. CASE d # c
    <3>1. card'[d] = card[d] /\ FlowOK(Now, OwnCard(d), card[d])
        BY <2>3, TakenIs DEF Flows
    <3>2. card[d].pc \in Owning => Now'.rows[card[d].row].status = "pending"
        BY <2>3, NowIs DEF OthersPending
    <3>3. FlowOK(Now', OwnCard(d), card[d])
        BY <3>1, <3>2, FlowStays
    <3> QED
        BY <2>1, <3>1, <3>3
  <2> QED
      BY <2>2, <2>3
<1>3. ASSUME NEW d \in Cards, NEW e \in Cards, card'[d].pc \in Owning,
             card'[e].pc \in Owning, card'[d].row = card'[e].row
      PROVE  d = e
  <2>1. \A o \in Cards \ {c} : card'[o] = card[o]
      BY TakenIs
  <2>2. ASSUME NEW o \in Cards \ {c}, card[o].pc \in Owning, x.pc \in Owning
        PROVE  card[o].row # x.row
    <3>1. card[o].row \in 1 .. Len(rows) /\ Len(rows) \in Nat
        BY <2>2, OwnedRows, Lengths, NowIs
    <3>2. CASE x.row = Len(rows) + 1
        BY <3>1, <3>2
    <3>3. CASE card[c].pc \in Owning /\ x.row = card[c].row
        BY <2>2, <3>3 DEF Flows
    <3> QED
        BY <2>2, <3>2, <3>3
  <2>3. card'[c] = x
      BY TakenIs
  <2>4. CASE d # c /\ e # c
      BY <1>3, <2>1, <2>4 DEF Flows
  <2> QED
      BY <1>3, <2>1, <2>2, <2>3, <2>4
<1> QED
    BY <1>1, <1>2, <1>3 DEF Flows

LEMMA ViewsStay ==
  ASSUME Views, World(Now), World(Now'), Grows(Now, Now'), Spares(Now, Now'), page' = page
  PROVE  Views'
<1>1. \A p \in Pages : ViewOK(Now', page'[p])
    BY ViewStays DEF Views
<1> QED
    BY <1>1 DEF Views

LEMMA ViewsMove ==
  ASSUME Views, World(Now), World(Now'), Grows(Now, Now'), Spares(Now, Now'),
         NEW p \in Pages, NEW v, page' = [page EXCEPT ![p] = v], ViewOK(Now', v)
  PROVE  Views'
<1>1. page' = [q \in Pages |-> page'[q]]
    BY DEF Views
<1>2. \A q \in Pages : page'[q] = IF q = p THEN v ELSE page[q]
    BY DEF Views
<1>3. \A q \in Pages : ViewOK(Now', page[q])
    BY ViewStays DEF Views
<1>4. \A q \in Pages : ViewOK(Now', page'[q])
    BY <1>2, <1>3
<1> QED
    BY <1>1, <1>4 DEF Views

LEMMA KeysStay ==
  ASSUME Keys, World(Now), World(Now'), Grows(Now, Now'), ops' = ops,
         Len(queries') = Len(queries),
         \A q \in 1 .. Len(queries) : queries'[q].key = queries[q].key
  PROVE  Keys'
<1>1. \A v \in Versions : ops[v] = 0 \/ Had(Now', ops[v], v)
    BY HadStays DEF Keys
<1> QED
    BY <1>1 DEF Keys

\* Where a card lies, and what its page shows.
LEMMA OnPage ==
  ASSUME Rest, Views, World(Now), NEW c \in Cards
  PROVE  place[c].page \in Pages /\ ViewOK(Now, Page(c)) /\ Page(c) \in View
<1>1. place \in [Cards -> [page : Pages, kind : {"own", "board"}]]
    BY LayoutsPlaceCards DEF Rest
<1>2. place[c].page \in Pages
    BY <1>1
<1> QED
    BY <1>2 DEF Views, Page, ViewOK
-----------------------------------------------------------------------------
(* Steps of a flow that leave the servers and the pages as they are.         *)

LEMMA Quiet ==
  ASSUME Inv, Rest', UNCHANGED <<place, queries, ops, rows, writes, page>>,
         NEW c \in Cards, NEW x, card' = [card EXCEPT ![c] = x],
         FlowOK(Now, OwnCard(c), x),
         x.pc \in Owning => card[c].pc \in Owning /\ x.row = card[c].row
  PROVE  Inv'
<1>1. World(Now') /\ Grows(Now, Now')
    BY ServersRest, NowIs DEF Inv
<1>2. Spares(Now, Now')
    BY Keeps DEF Inv
<1>3. OthersPending(c)
    BY OwnedRows DEF Inv, OthersPending
<1>4. FlowOK(Now', OwnCard(c), x)
  <2>1. x.pc \in Owning => Now'.rows[x.row].status = "pending"
      BY NowIs DEF FlowOK
  <2> QED
      BY <1>1, <1>2, <2>1, FlowStays DEF Inv
<1>5. Flows'
    BY <1>1, <1>2, <1>3, <1>4, FlowsMove DEF Inv
<1>6. Views'
    BY <1>1, <1>2, ViewsStay DEF Inv
<1>7. Keys'
    BY <1>1, KeysStay DEF Inv
<1> QED
    BY <1>1, <1>5, <1>6, <1>7 DEF Inv

\* A flow that starts, stops, or asks about a conflict.
LEMMA IdleIs ==
  /\ Idle \in Flow /\ Idle.pc = "idle"
  /\ Idle.query = 0 /\ Idle.stamp = 0 /\ Idle.row = 0
<1>1. "idle" \in Pcs
    BY DEF Pcs
<1> QED
    BY <1>1, VersionsAre DEF Idle, Flow

LEMMA Starts ==
  ASSUME NEW s, World(s), NEW own, NEW x \in Flow,
         x.pc \in {"idle", "conflict", "record", "fetch", "redraw"},
         x.query = 0, x.stamp = 0, x.row = 0,
         x.pc \in {"record", "fetch"} => x.ver \in Versions,
         x.pc \in {"fetch", "redraw"} => BaseOK(s, own, x.base)
  PROVE  FlowOK(s, own, x)
<1>1. 0 \in 0 .. Len(s.rows) /\ 0 \in 0 .. Len(s.queries) /\ 0 \in 0 .. s.writes
    BY Lengths
<1>2. x.pc \notin Owning \cup Telling \cup Naming
    BY DEF Owning, Telling, Naming
<1> QED
    BY <1>1, <1>2 DEF FlowOK, Saving, Updating, Redrawing, Telling

LEMMA StopsOK ==
  ASSUME NEW s, World(s), NEW own
  PROVE  /\ FlowOK(s, own, Idle) /\ Idle.pc = "idle"
         /\ FlowOK(s, own, [Idle EXCEPT !.pc = "conflict"])
         /\ [Idle EXCEPT !.pc = "conflict"].pc = "conflict"
<1> DEFINE x == [Idle EXCEPT !.pc = "conflict"]
<1>1. "conflict" \in Pcs
    BY DEF Pcs
<1>2. x \in Flow /\ x.pc = "conflict" /\ x.query = 0 /\ x.stamp = 0 /\ x.row = 0
    BY <1>1, IdleIs DEF Flow
<1>3. FlowOK(s, own, Idle)
    BY IdleIs, Starts
<1> HIDE DEF x
<1>4. FlowOK(s, own, x)
    BY <1>2, Starts
<1> QED
    BY <1>2, <1>3, <1>4, IdleIs DEF x

LEMMA PcsAre == {"idle", "conflict", "record", "fetch", "redraw"} \subseteq Pcs
BY DEF Pcs, Saving, Updating, Redrawing

LEMMA NotOwning == "idle" \notin Owning /\ "conflict" \notin Owning /\ "record" \notin Owning
                   /\ "fetch" \notin Owning /\ "redraw" \notin Owning
BY DEF Owning

\* A flow that stops without a word.
LEMMA QuietStop ==
  ASSUME Inv, Rest', UNCHANGED <<place, queries, ops, rows, writes, page>>,
         NEW c \in Cards, Stop(c)
  PROVE  Inv'
<1>1. FlowOK(Now, OwnCard(c), Idle) /\ Idle.pc \notin Owning
    BY StopsOK, NotOwning DEF Inv
<1> QED
    BY <1>1, Quiet DEF Stop

\* An applied row is owned by nobody, and true.
LEMMA LandedIs ==
  ASSUME Inv, NEW i, Landed(Now, i)
  PROVE  i \notin Taken /\ Backed(Now, i)
<1>1. i \in 1 .. Len(rows) /\ IsApplied(rows[i])
    BY NowIs DEF Landed
<1>2. Honest(Now, rows[i])
    BY <1>1, NowIs DEF Inv, World
<1>3. Backed(Now, i)
    BY <1>1, <1>2, NowIs DEF Honest, Backed, IsApplied
<1>4. \A d \in Cards : card[d].pc \in Owning => rows[card[d].row].status = "pending"
    BY OwnedRows DEF Inv
<1> QED
    BY <1>1, <1>3, <1>4 DEF Taken, IsApplied

\* The promotion an update or a retried chart starts from.
LEMMA BaseIsOK ==
  ASSUME Inv, NEW c \in Cards, LastApplied(Page(c).shown) # Nothing
  PROVE  /\ BaseOK(Now, OwnCard(c), LastApplied(Page(c).shown))
         /\ LastApplied(Page(c).shown) \in Promotions
<1> DEFINE base == LastApplied(Page(c).shown)
<1>1. ViewOK(Now, Page(c)) /\ Page(c).shown \in Seq(Promotions)
    BY OnPage, ViewFields DEF Inv
<1>2. PICK i \in DOMAIN Page(c).shown : base = Page(c).shown[i] /\ IsApplied(base)
    BY <1>1, LastIs
<1>3. base \in Promotions /\ ShownOK(Now, base)
    BY <1>1, <1>2 DEF ViewOK, AllShownOK
<1> HIDE DEF base
<1>4. base.id \notin Taken /\ Backed(Now, base.id)
    BY <1>2, <1>3, LandedIs DEF ShownOK
<1>5. BaseOK(Now, OwnCard(c), base)
    BY <1>2, <1>3, <1>4, NowIs DEF BaseOK, ShownOK
<1> QED
    BY <1>3, <1>5 DEF base

LEMMA RestStays ==
  ASSUME Rest, UNCHANGED <<place, proposed, orphans>>
  PROVE  Rest'
BY DEF Rest

\* A card that is there has a version to save.
LEMMA LatestIs ==
  ASSUME Inv, NEW c \in Cards, Drafted(c)
  PROVE  Page(c).latest \in Versions
<1>1. Page(c).latest \in 0 .. MaxVersions /\ Page(c).latest # 0
    BY OnPage, ViewFields DEF Inv, ViewOK, Drafted
<1> QED
    BY <1>1, VersionsAre DEF Versions

LEMMA SaveClickedKeeps ==
  ASSUME Inv, NEW c \in Cards, Drafted(c), SaveClicked(c)
  PROVE  Inv'
<1> DEFINE x == [Idle EXCEPT !.pc = "record", !.ver = Page(c).latest]
<1>1. Page(c).latest \in Versions
    BY LatestIs
<1>2. /\ x \in Flow /\ x.pc = "record" /\ x.ver = Page(c).latest
      /\ x.query = 0 /\ x.stamp = 0 /\ x.row = 0
    BY <1>1, IdleIs, VersionsAre, PcsAre DEF Flow
<1> HIDE DEF x
<1>3. FlowOK(Now, OwnCard(c), x)
    BY <1>1, <1>2, Starts DEF Inv
<1>4. Rest' /\ UNCHANGED <<place, queries, ops, rows, writes, page>>
    BY RestStays DEF SaveClicked, serverVars, Inv
<1>5. card' = [card EXCEPT ![c] = x]
    BY DEF SaveClicked, x
<1> QED
    BY <1>2, <1>3, <1>4, <1>5, Quiet, NotOwning

LEMMA BoardClickedKeeps ==
  ASSUME Inv, NEW c \in Cards, Drafted(c), BoardClicked(c)
  PROVE  Inv'
<1> DEFINE promoted == IF Page(c).held # Nothing THEN Page(c).held.promotion
                                                 ELSE LastApplied(Page(c).shown)
           x == [Idle EXCEPT !.pc = "record", !.ver = Page(c).latest]
           y == [Idle EXCEPT !.pc = "redraw", !.base = promoted]
<1>1. Page(c).latest \in Versions
    BY LatestIs
<1>2. Rest' /\ UNCHANGED <<place, queries, ops, rows, writes, page>>
    BY RestStays DEF BoardClicked, serverVars, Inv
<1>3. CASE card' = [card EXCEPT ![c] = x]
  <2>1. /\ x \in Flow /\ x.pc = "record" /\ x.ver = Page(c).latest
        /\ x.query = 0 /\ x.stamp = 0 /\ x.row = 0
      BY <1>1, IdleIs, VersionsAre, PcsAre DEF Flow
  <2> HIDE DEF x
  <2>2. FlowOK(Now, OwnCard(c), x)
      BY <1>1, <2>1, Starts DEF Inv
  <2> QED
      BY <1>2, <1>3, <2>1, <2>2, Quiet, NotOwning
<1>4. CASE promoted # Nothing /\ card' = [card EXCEPT ![c] = y]
  <2>1. BaseOK(Now, OwnCard(c), promoted) /\ promoted \in Promotions
    <3>1. CASE Page(c).held = Nothing
        BY <1>4, <3>1, BaseIsOK
    <3>2. CASE Page(c).held # Nothing
      <4>1. HeldOK(Now, Page(c).held) /\ Page(c).held \in Held
          BY <3>2, OnPage, ViewFields DEF Inv, ViewOK
      <4>2. promoted = Page(c).held.promotion /\ promoted \in Promotions
          BY <3>2, <4>1 DEF Held
      <4>3. OwnCard(c) = FALSE
          BY DEF BoardClicked, OwnCard
      <4> QED
          BY <4>1, <4>2, <4>3 DEF HeldOK, BaseOK
    <3> QED
        BY <3>1, <3>2
  <2> HIDE DEF promoted
  <2>2. /\ y \in Flow /\ y.pc = "redraw" /\ y.base = promoted
        /\ y.query = 0 /\ y.stamp = 0 /\ y.row = 0
      BY <2>1, IdleIs, PcsAre DEF Flow
  <2> HIDE DEF y
  <2>3. FlowOK(Now, OwnCard(c), y)
      BY <2>1, <2>2, Starts DEF Inv
  <2> QED
      BY <1>2, <1>4, <2>2, <2>3, Quiet, NotOwning
<1> QED
    BY <1>3, <1>4 DEF BoardClicked

LEMMA UpdateClickedKeeps ==
  ASSUME Inv, NEW c \in Cards, Drafted(c), UpdateClicked(c)
  PROVE  Inv'
<1> DEFINE base == LastApplied(Page(c).shown)
           x(over) == [Idle EXCEPT !.pc = "fetch", !.ver = Page(c).latest,
                                   !.base = base, !.over = over]
<1>1. Page(c).latest \in Versions
    BY LatestIs
<1>2. Rest' /\ UNCHANGED <<place, queries, ops, rows, writes, page>>
    BY RestStays DEF UpdateClicked, serverVars, Inv
<1>3. PICK over \in BOOLEAN : card' = [card EXCEPT ![c] = x(over)]
    BY DEF UpdateClicked
<1>4. BaseOK(Now, OwnCard(c), base) /\ base \in Promotions
    BY BaseIsOK DEF UpdateClicked
<1> HIDE DEF base
<1>5. /\ x(over) \in Flow /\ x(over).pc = "fetch" /\ x(over).ver = Page(c).latest
      /\ x(over).base = base
      /\ x(over).query = 0 /\ x(over).stamp = 0 /\ x(over).row = 0
    BY <1>1, <1>4, IdleIs, VersionsAre, PcsAre DEF Flow
<1> HIDE DEF x
<1>6. FlowOK(Now, OwnCard(c), x(over))
    BY <1>1, <1>4, <1>5, Starts DEF Inv
<1> QED
    BY <1>2, <1>3, <1>5, <1>6, Quiet, NotOwning

LEMMA RetryChartClickedKeeps ==
  ASSUME Inv, NEW c \in Cards, RetryChartClicked(c)
  PROVE  Inv'
<1> DEFINE base == LastApplied(Page(c).shown)
           x == [Idle EXCEPT !.pc = "redraw", !.base = base]
<1>1. Rest' /\ UNCHANGED <<place, queries, ops, rows, writes, page>>
    BY RestStays DEF RetryChartClicked, serverVars, Inv
<1>2. card' = [card EXCEPT ![c] = x]
    BY DEF RetryChartClicked
<1>3. BaseOK(Now, OwnCard(c), base) /\ base \in Promotions
    BY BaseIsOK DEF RetryChartClicked
<1> HIDE DEF base
<1>4. /\ x \in Flow /\ x.pc = "redraw" /\ x.base = base
      /\ x.query = 0 /\ x.stamp = 0 /\ x.row = 0
    BY <1>3, IdleIs, PcsAre DEF Flow
<1> HIDE DEF x
<1>5. FlowOK(Now, OwnCard(c), x)
    BY <1>3, <1>4, Starts DEF Inv
<1> QED
    BY <1>1, <1>2, <1>4, <1>5, Quiet, NotOwning

LEMMA KeepClickedKeeps ==
  ASSUME Inv, NEW c \in Cards, KeepClicked(c)
  PROVE  Inv'
<1>1. Rest' /\ UNCHANGED <<place, queries, ops, rows, writes, page>> /\ Stop(c)
    BY RestStays DEF KeepClicked, serverVars, Inv
<1> QED
    BY <1>1, QuietStop

LEMMA FlowIs ==
  ASSUME Inv, NEW c \in Cards
  PROVE  /\ FlowOK(Now, OwnCard(c), card[c]) /\ card[c] \in Flow
         /\ card = [d \in Cards |-> card[d]]
BY DEF Inv, Flows, FlowOK

\* A flow that only goes on to its next step.
LEMMA QuietGoto ==
  ASSUME Inv, Rest', UNCHANGED <<place, queries, ops, rows, writes, page>>,
         NEW c \in Cards, NEW pc, Goto(c, pc),
         \/ card[c].pc = "create" /\ pc \in {"insert", "abandon"}
         \/ card[c].pc = "insert" /\ pc = "abandon"
         \/ card[c].pc = "draw" /\ pc \in {"read", "abandon"}
         \/ card[c].pc = "post" /\ pc = "clash"
         \/ card[c].pc = "redraw" /\ pc = "retold"
  PROVE  Inv'
<1> DEFINE x == card[c]
           y == [x EXCEPT !.pc = pc]
<1>1. FlowOK(Now, OwnCard(c), x) /\ x \in Flow
    BY FlowIs
<1>2. card' = [card EXCEPT ![c] = y]
    BY FlowIs DEF Goto
<1>3. pc \in Pcs
    BY DEF Pcs, Saving, Updating, Redrawing
<1> HIDE DEF x
<1>4. /\ y \in Flow /\ y.pc = pc /\ y.ver = x.ver /\ y.base = x.base
      /\ y.query = x.query /\ y.stamp = x.stamp /\ y.row = x.row
    BY <1>1, <1>3 DEF Flow
<1> HIDE DEF y
<1>5. /\ x.pc \in Owning \/ x.pc = "redraw"
      /\ y.pc \in Owning => x.pc \in Owning
      /\ y.pc \in Naming => x.pc \in Naming
      /\ y.pc \in Writing => x.pc \in Writing
      /\ y.pc \in Saving \cup Updating => x.pc \in Saving \cup Updating
      /\ y.pc \notin Telling /\ y.pc # "fetch"
      /\ y.pc \in Redrawing => x.pc \in Redrawing
    BY <1>4 DEF x, Owning, Naming, Writing, Saving, Updating, Telling, Redrawing
<1>6. FlowOK(Now, OwnCard(c), y)
  <2>1. /\ y.pc \in Owning \cup Telling => y.row # 0 /\ Now.rows[y.row].ver = y.ver
        /\ y.pc \in Owning => Now.rows[y.row].status = "pending"
      BY <1>1, <1>4, <1>5 DEF FlowOK
  <2>2. y.pc # "partial" /\ y.pc # "redrawn"
      BY <1>5 DEF Telling
  <2>3. y.pc \in Writing => y.query = 0 \/ Had(Now, y.query, y.ver)
      BY <1>1, <1>4, <1>5 DEF FlowOK
  <2>4. y.pc \in {"fetch"} \cup Redrawing => BaseOK(Now, OwnCard(c), y.base)
      BY <1>1, <1>4, <1>5 DEF FlowOK
  <2> QED
      BY <1>1, <1>4, <1>5, <2>1, <2>2, <2>3, <2>4 DEF FlowOK
<1>7. y.pc \in Owning => card[c].pc \in Owning /\ y.row = card[c].row
    BY <1>4, <1>5 DEF x
<1> QED
    BY <1>2, <1>6, <1>7, Quiet

LEMMA CreateLookedKeeps ==
  ASSUME Inv, NEW c \in Cards, CreateLooked(c)
  PROVE  Inv'
<1> DEFINE x == card[c]
           q == ops[x.ver]
           y == [x EXCEPT !.pc = "draw", !.query = q]
<1>1. Rest' /\ UNCHANGED <<place, queries, ops, rows, writes, page>>
    BY RestStays DEF CreateLooked, serverVars, Inv
<1>2. CASE q = 0
  <2>1. Goto(c, "insert") /\ card[c].pc = "create"
      BY <1>2 DEF CreateLooked
  <2> QED
      BY <1>1, <2>1, QuietGoto
<1>3. CASE q # 0
  <2>1. FlowOK(Now, OwnCard(c), x) /\ x \in Flow /\ x.pc = "create"
      BY FlowIs DEF CreateLooked
  <2>2. card' = [card EXCEPT ![c] = y]
      BY <1>3, FlowIs DEF CreateLooked
  <2>3. x.ver \in Versions
      BY <2>1 DEF FlowOK, Saving
  <2>4. q \in 0 .. Len(queries) /\ Had(Now, q, x.ver)
      BY <1>3, <2>3 DEF Inv, Keys
  <2>5. q \in Nat
      BY <2>4, Lengths, NowIs DEF Inv
  <2> HIDE DEF x, q
  <2>6. "draw" \in Pcs
      BY DEF Pcs, Saving
  <2>7. /\ y \in Flow /\ y.pc = "draw" /\ y.ver = x.ver /\ y.query = q
        /\ y.stamp = x.stamp /\ y.row = x.row
      BY <2>1, <2>5, <2>6 DEF Flow
  <2> HIDE DEF y
  <2>8. FlowOK(Now, OwnCard(c), y)
      BY <1>3, <2>1, <2>3, <2>4, <2>7, NowIs
      DEF FlowOK, Owning, Telling, Naming, Writing, Saving, Updating, Redrawing
  <2>9. y.row = card[c].row /\ card[c].pc \in Owning
      BY <2>1, <2>7 DEF x, Owning
  <2> QED
      BY <1>1, <2>2, <2>8, <2>9, Quiet
<1> QED
    BY <1>2, <1>3

LEMMA CreateFailedKeeps ==
  ASSUME Inv, NEW c \in Cards, CreateFailed(c)
  PROVE  Inv'
<1>1. card[c].pc \in {"create", "insert"} /\ Goto(c, "abandon")
    BY DEF CreateFailed
<1>2. card[c].ver \in Versions
    BY <1>1, FlowIs DEF FlowOK, Saving
<1>3. Rest' /\ UNCHANGED <<place, queries, ops, rows, writes, page>>
    BY <1>2 DEF CreateFailed, Inv, Rest
<1> QED
    BY <1>1, <1>3, QuietGoto

LEMMA DrawnKeeps ==
  ASSUME Inv, NEW c \in Cards, Drawn(c)
  PROVE  Inv'
<1>1. Rest' /\ UNCHANGED <<place, queries, ops, rows, writes, page>>
    BY RestStays DEF Drawn, serverVars, Inv
<1>2. card[c].pc = "draw" /\ (Goto(c, "read") \/ Goto(c, "abandon"))
    BY DEF Drawn
<1> QED
    BY <1>1, <1>2, QuietGoto

LEMMA PostRefusedKeeps ==
  ASSUME Inv, NEW c \in Cards, PostRefused(c)
  PROVE  Inv'
<1>1. Rest' /\ UNCHANGED <<place, queries, ops, rows, writes, page>>
    BY RestStays DEF PostRefused, serverVars, Inv
<1>2. card[c].pc = "post" /\ Goto(c, "clash")
    BY DEF PostRefused
<1> QED
    BY <1>1, <1>2, QuietGoto

LEMMA RedrawnKeeps ==
  ASSUME Inv, NEW c \in Cards, Redrawn(c)
  PROVE  Inv'
<1>1. Rest' /\ UNCHANGED <<place, queries, ops, rows, writes, page>>
    BY RestStays DEF Redrawn, serverVars, Inv
<1>2. CASE Goto(c, "retold")
    BY <1>1, <1>2, QuietGoto DEF Redrawn
<1>3. CASE Stop(c)
    BY <1>1, <1>3, QuietStop
<1> QED
    BY <1>2, <1>3 DEF Redrawn

LEMMA ReadBackKeeps ==
  ASSUME Inv, NEW c \in Cards, ReadBack(c)
  PROVE  Inv'
<1> DEFINE x == card[c]
           stamp == queries[x.query].stamp
           y == [x EXCEPT !.pc = "finish", !.stamp = stamp]
<1>1. Rest' /\ UNCHANGED <<place, queries, ops, rows, writes, page>>
    BY RestStays DEF ReadBack, serverVars, Inv
<1>2. CASE Stop(c)
    BY <1>1, <1>2, QuietStop
<1>3. CASE card' = [card EXCEPT ![c].pc = "finish", ![c].stamp = stamp]
  <2>1. FlowOK(Now, OwnCard(c), x) /\ x \in Flow /\ x.pc = "read"
      BY FlowIs DEF ReadBack
  <2>2. card' = [card EXCEPT ![c] = y]
      BY <1>3, FlowIs
  <2>3. x.query \in 1 .. Len(queries)
    <3>1. x.query \in 0 .. Len(queries) /\ x.query # 0
        BY <2>1, NowIs DEF FlowOK, Naming
    <3> QED
        BY <3>1, Lengths, NowIs DEF Inv
  <2>4. stamp \in Nat /\ stamp \in 0 .. writes
    <3>1. queries[x.query] \in Query /\ stamp =< writes /\ writes \in Nat
        BY <2>3, Lengths, NowIs DEF Inv, World
    <3> QED
        BY <3>1 DEF Query
  <2> HIDE DEF x, stamp
  <2>5. "finish" \in Pcs
      BY DEF Pcs, Saving
  <2>6. /\ y \in Flow /\ y.pc = "finish" /\ y.ver = x.ver /\ y.query = x.query
        /\ y.stamp = stamp /\ y.row = x.row
      BY <2>1, <2>4, <2>5 DEF Flow
  <2> HIDE DEF y
  <2>7. FlowOK(Now, OwnCard(c), y)
      BY <2>1, <2>4, <2>6, NowIs
      DEF FlowOK, Owning, Telling, Naming, Writing, Saving, Updating, Redrawing
  <2>8. y.row = card[c].row /\ card[c].pc \in Owning
      BY <2>1, <2>6 DEF x, Owning
  <2> QED
      BY <1>1, <2>2, <2>7, <2>8, Quiet
<1> QED
    BY <1>2, <1>3 DEF ReadBack

LEMMA FetchedKeeps ==
  ASSUME Inv, NEW c \in Cards, Fetched(c)
  PROVE  Inv'
<1> DEFINE x == card[c]
           base == x.base
           current == queries[base.target].stamp
           stamp == IF base.stamp # 0 THEN base.stamp ELSE current
           y == [x EXCEPT !.pc = "stage", !.query = base.target, !.stamp = stamp]
           z == [Idle EXCEPT !.pc = "conflict"]
<1>1. Rest' /\ UNCHANGED <<place, queries, ops, rows, writes, page>>
    BY RestStays DEF Fetched, serverVars, Inv
<1>2. CASE Stop(c)
    BY <1>1, <1>2, QuietStop
<1>3. CASE card' = [card EXCEPT ![c] = z]
  <2>1. FlowOK(Now, OwnCard(c), z) /\ z.pc \notin Owning
      BY StopsOK, NotOwning DEF Inv
  <2> HIDE DEF z
  <2> QED
      BY <1>1, <1>3, <2>1, Quiet
<1>4. CASE card' = [card EXCEPT ![c].pc = "stage", ![c].query = base.target,
                               ![c].stamp = stamp]
  <2>1. FlowOK(Now, OwnCard(c), x) /\ x \in Flow /\ x.pc = "fetch"
      BY FlowIs DEF Fetched
  <2>2. card' = [card EXCEPT ![c] = y]
      BY <1>4, FlowIs
  <2>3. Known(Now, base) /\ IsApplied(base)
      BY <2>1 DEF FlowOK, BaseOK
  <2>4. /\ base.target \in 0 .. Len(queries) /\ base.target # 0
        /\ base.stamp \in 0 .. writes
      BY <2>3, NowIs DEF Known, IsApplied
  <2>5. base.target \in 1 .. Len(queries) /\ base.target \in Nat
      BY <2>4, Lengths, NowIs DEF Inv
  <2>6. current \in 0 .. writes /\ writes \in Nat
    <3>1. queries[base.target] \in Query /\ current =< writes /\ writes \in Nat
        BY <2>5, Lengths, NowIs DEF Inv, World
    <3> QED
        BY <3>1 DEF Query
  <2>7. stamp \in Nat /\ stamp \in 0 .. writes
      BY <2>4, <2>6
  <2> DEFINE q == base.target
  <2> HIDE DEF x, stamp, q
  <2>8. "stage" \in Pcs
      BY DEF Pcs, Updating
  <2>9. y = [x EXCEPT !.pc = "stage", !.query = q, !.stamp = stamp]
      BY DEF q
  <2>10. /\ y \in Flow /\ y.pc = "stage" /\ y.ver = x.ver /\ y.query = q
         /\ y.stamp = stamp /\ y.row = x.row
      BY <2>1, <2>5, <2>7, <2>8, <2>9 DEF Flow, q
  <2> HIDE DEF y
  <2>11. FlowOK(Now, OwnCard(c), y)
      BY <2>1, <2>4, <2>7, <2>10, NowIs
      DEF FlowOK, Owning, Telling, Naming, Writing, Saving, Updating, Redrawing, q
  <2>12. y.pc \notin Owning
      BY <2>10 DEF Owning
  <2> QED
      BY <1>1, <2>2, <2>11, <2>12, Quiet
<1> QED
    BY <1>2, <1>3, <1>4 DEF Fetched
-----------------------------------------------------------------------------
(* Steps of a flow that the servers see.                                     *)

LEMMA Assemble ==
  ASSUME Inv, Rest', place' = place, Keys',
         World(Now'), Grows(Now, Now'), Spares(Now, Now'),
         NEW c \in Cards, NEW x, card' = [card EXCEPT ![c] = x],
         OthersPending(c), FlowOK(Now', OwnCard(c), x),
         \/ x.pc \notin Owning
         \/ card[c].pc \in Owning /\ x.row = card[c].row
         \/ x.row = Len(rows) + 1,
         NEW v,
         page' = page \/ (Show(c, v) /\ ViewOK(Now', v))
  PROVE  Inv'
<1>1. Flows'
    BY FlowsMove DEF Inv
<1>2. CASE page' = page
  <2>1. Views'
      BY <1>2, ViewsStay DEF Inv
  <2> QED
      BY <1>1, <2>1 DEF Inv
<1>3. CASE Show(c, v) /\ ViewOK(Now', v)
  <2>1. Views'
      BY <1>3, OnPage, ViewsMove DEF Inv, Show
  <2> QED
      BY <1>1, <2>1 DEF Inv
<1> QED
    BY <1>2, <1>3

\* The first write of a version.
LEMMA WriteQueryIs ==
  ASSUME Keys, World(Now), NEW v \in Versions, ops[v] = 0, WriteQuery(v), rows' = rows
  PROVE  /\ World(Now') /\ Grows(Now, Now') /\ Keys'
         /\ Len(queries') = Len(queries) + 1 /\ Had(Now', Len(queries) + 1, v)
<1> DEFINE n == Len(queries)
<1>1. n \in Nat
    BY Lengths, NowIs
<1>2. /\ World(Now') /\ Grows(Now, Now')
      /\ Len(queries') = n + 1
      /\ \A q \in 1 .. n : queries'[q] = queries[q]
      /\ queries'[n + 1].key = v /\ Had(Now', n + 1, v)
  <2> DEFINE new == [key |-> v, stamp |-> Now.writes + 1, had |-> {v}]
  <2>1. /\ Now'.queries = Append(Now.queries, new)
        /\ Now'.writes = Now.writes + 1 /\ Now'.rows = Now.rows /\ World(Now)
      BY NowIs DEF WriteQuery
  <2>2. new \in Query /\ new.key = v /\ new.stamp = Now.writes + 1 /\ new.key \in new.had
    <3>1. Now.writes + 1 \in Nat
        BY Lengths
    <3> QED
        BY <3>1 DEF Query
  <2> HIDE DEF new
  <2>3. /\ World(Now') /\ Grows(Now, Now')
        /\ Len(Now'.queries) = Len(Now.queries) + 1
        /\ \A q \in 1 .. Len(Now.queries) : Now'.queries[q] = Now.queries[q]
        /\ Now'.queries[Len(Now'.queries)].key = v /\ Had(Now', Len(Now'.queries), v)
      BY <2>1, <2>2, QueryAdded
  <2> QED
      BY <2>3, NowIs
<1>3. ops' = [ops EXCEPT ![v] = n + 1]
    BY DEF WriteQuery
<1>4. \A q \in 1 .. n : queries[q].key \in Versions
  <2>1. \A q \in 1 .. n : queries[q] \in Query
      BY Lengths, NowIs
  <2> QED
      BY <2>1 DEF Query
<1>5. ops' \in [Versions -> 0 .. n + 1]
    BY <1>1, <1>3 DEF Keys
<1>6. ASSUME NEW q \in 1 .. n + 1 PROVE ops'[queries'[q].key] = q
  <2>1. CASE q = n + 1
      BY <1>2, <1>3, <2>1 DEF Keys
  <2>2. CASE q # n + 1
    <3>1. q \in 1 .. n /\ q # 0
        BY <1>1, <2>2
    <3>2. ops[queries[q].key] = q
        BY <3>1 DEF Keys
    <3>3. queries[q].key # v /\ queries'[q].key = queries[q].key
        BY <1>2, <3>1, <3>2
    <3> QED
        BY <1>3, <1>4, <3>1, <3>2, <3>3 DEF Keys
  <2> QED
      BY <2>1, <2>2
<1>7. ASSUME NEW w \in Versions PROVE ops'[w] = 0 \/ Had(Now', ops'[w], w)
  <2>1. CASE w = v
      BY <1>2, <1>3, <2>1 DEF Keys
  <2>2. CASE w # v
    <3>1. ops'[w] = ops[w] /\ (ops[w] = 0 \/ Had(Now, ops[w], w))
        BY <1>3, <2>2 DEF Keys
    <3> QED
        BY <1>2, <3>1, HadStays
  <2> QED
      BY <2>1, <2>2
<1>8. Keys'
    BY <1>2, <1>5, <1>6, <1>7 DEF Keys
<1> QED
    BY <1>2, <1>8

LEMMA InsertedKeeps ==
  ASSUME Inv, NEW c \in Cards, Inserted(c)
  PROVE  Inv'
<1> DEFINE x == card[c]
           v == x.ver
           y(q) == [x EXCEPT !.pc = "draw", !.query = q]
<1>1. FlowOK(Now, OwnCard(c), x) /\ x \in Flow /\ x.pc = "insert"
    BY FlowIs DEF Inserted
<1>2. v \in Versions
    BY <1>1 DEF FlowOK, Saving
<1>3. Rest' /\ rows' = rows /\ page' = page /\ place' = place
    BY RestStays DEF Inserted, Inv
<1>4. OthersPending(c)
    BY <1>3, OwnedRows DEF Inv, OthersPending
<1>5. PICK q : /\ World(Now') /\ Grows(Now, Now') /\ Keys'
               /\ card' = [card EXCEPT ![c] = y(q)]
               /\ q # 0 /\ q \in Nat /\ Had(Now', q, v)
  <2>1. Len(queries) \in Nat
      BY Lengths, NowIs DEF Inv
  <2>2. CASE ops[v] # 0
    <3>1. UNCHANGED <<queries, ops, writes>>
        BY <2>2 DEF Inserted
    <3>2. World(Now') /\ Grows(Now, Now')
        BY <1>3, <3>1, ServersRest, NowIs DEF Inv
    <3>3. Keys'
        BY <3>1, <3>2, KeysStay DEF Inv
    <3>4. ops[v] \in 0 .. Len(queries) /\ Had(Now', ops[v], v)
        BY <1>2, <2>2, <3>2, HadStays DEF Inv, Keys
    <3>5. ops[v] \in Nat
        BY <2>1, <3>4
    <3>6. card' = [card EXCEPT ![c] = y(ops[v])]
        BY <2>2, FlowIs DEF Inserted
    <3> QED
        BY <2>2, <3>2, <3>3, <3>4, <3>5, <3>6
  <2>3. CASE ops[v] = 0
    <3>1. WriteQuery(v)
        BY <2>3 DEF Inserted
    <3>2. World(Now') /\ Grows(Now, Now') /\ Keys' /\ Had(Now', Len(queries) + 1, v)
        BY <1>2, <1>3, <2>3, <3>1, WriteQueryIs DEF Inv
    <3>3. card' = [card EXCEPT ![c] = y(Len(queries) + 1)]
        BY <2>3, FlowIs DEF Inserted
    <3> DEFINE n == Len(queries) + 1
    <3>4. n \in Nat /\ n # 0 /\ card' = [card EXCEPT ![c] = y(n)] /\ Had(Now', n, v)
        BY <2>1, <3>2, <3>3
    <3> HIDE DEF n, y, v
    <3> QED
        BY <3>2, <3>4
  <2> QED
      BY <2>2, <2>3
<1> HIDE DEF x
<1>6. "draw" \in Pcs
    BY DEF Pcs, Saving
<1>7. /\ y(q) \in Flow /\ y(q).pc = "draw" /\ y(q).ver = v /\ y(q).query = q
      /\ y(q).stamp = x.stamp /\ y(q).row = x.row
    BY <1>1, <1>5, <1>6 DEF Flow
<1> HIDE DEF y
<1>8. y(q).pc \in Owning => card[c].pc \in Owning /\ y(q).row = card[c].row
    BY <1>1, <1>7 DEF x, Owning
<1>9. Spares(Now, Now')
    BY <1>5, <1>8, Keeps DEF Inv
<1>10. FlowOK(Now', OwnCard(c), x)
  <2>1. x.pc \in Owning => Now'.rows[x.row].status = "pending"
      BY <1>1, <1>3, NowIs DEF FlowOK
  <2> QED
      BY <1>1, <1>5, <1>9, <2>1, FlowStays DEF Inv
<1>11. q \in 0 .. Len(queries')
  <2>1. q \in 1 .. Len(queries') /\ Len(queries') \in Nat
      BY <1>5, Lengths, NowIs DEF Had
  <2> QED
      BY <2>1
<1>12. FlowOK(Now', OwnCard(c), y(q))
    BY <1>1, <1>5, <1>7, <1>10, <1>11, NowIs
    DEF FlowOK, Owning, Telling, Naming, Writing, Saving, Updating, Redrawing
<1>13. y(q).row = card[c].row /\ card[c].pc \in Owning
    BY <1>1, <1>7 DEF x, Owning
<1> QED
    BY <1>3, <1>4, <1>5, <1>9, <1>12, <1>13, Assemble

\* A flow records its row, and may hear of it or not.
LEMMA RecordedKeeps ==
  ASSUME Inv, NEW c \in Cards, NEW target \in 0 .. Len(queries), NEW next,
         Recorded(c, target, next),
         \/ card[c].pc = "record" /\ next = "create"
         \/ card[c].pc = "stage" /\ next = "post"
  PROVE  Inv'
<1> DEFINE x == card[c]
           new == Len(rows) + 1
           y == [x EXCEPT !.pc = next, !.row = new]
<1>1. PICK outcome \in Outcomes :
        /\ IF Carried(outcome)
           THEN rows' = Append(rows, Promotion(new, "pending", x.ver, target, writes))
           ELSE rows' = rows
        /\ IF outcome = "ok"
           THEN card' = [card EXCEPT ![c].pc = next, ![c].row = new]
           ELSE Stop(c)
    BY DEF Recorded
<1>2. /\ Rest' /\ UNCHANGED <<place, queries, ops, writes, page>>
    BY RestStays DEF Recorded, Inv
<1>3. FlowOK(Now, OwnCard(c), x) /\ x \in Flow /\ x.pc \notin Owning
    BY FlowIs DEF Owning
<1>4. x.ver \in Versions /\ Len(rows) \in Nat
    BY <1>3, Lengths, NowIs DEF FlowOK, Saving, Updating, Inv
<1>5. /\ World(Now') /\ Grows(Now, Now')
      /\ \A i \in 1 .. Len(rows) : rows'[i] = rows[i]
      /\ Carried(outcome) => /\ Len(rows') = new /\ rows'[new].ver = x.ver
                             /\ rows'[new].status = "pending"
  <2>1. CASE Carried(outcome)
    <3> DEFINE a == Promotion(Len(Now.rows) + 1, "pending", x.ver, target, Now.writes)
               v == x.ver
    <3>1. /\ Now'.rows = Append(Now.rows, a) /\ v \in Versions
          /\ Now'.queries = Now.queries /\ Now'.writes = Now.writes
          /\ target \in 0 .. Len(Now.queries) /\ World(Now)
        BY <1>1, <1>2, <1>4, <2>1, NowIs DEF Inv
    <3>2. a = Promotion(Len(Now.rows) + 1, "pending", v, target, Now.writes)
        OBVIOUS
    <3> HIDE DEF a, v, x
    <3>3. /\ World(Now') /\ Grows(Now, Now')
          /\ Len(Now'.rows) = Len(Now.rows) + 1
          /\ Now'.rows[Len(Now'.rows)].ver = v
          /\ Now'.rows[Len(Now'.rows)].status = "pending"
          /\ \A i \in 1 .. Len(Now.rows) : Now'.rows[i] = Now.rows[i]
        BY <3>1, <3>2, RowAdded
    <3> QED
        BY <3>3, NowIs DEF v
  <2>2. CASE ~Carried(outcome)
      BY <1>1, <1>2, <2>2, ServersRest, NowIs DEF Inv
  <2> QED
      BY <2>1, <2>2
<1>6. Keys'
    BY <1>2, <1>5, KeysStay DEF Inv
<1>7. OthersPending(c)
    BY <1>5, OwnedRows DEF Inv, OthersPending
<1>8. CASE outcome # "ok"
  <2>1. card' = [card EXCEPT ![c] = Idle]
      BY <1>1, <1>8 DEF Stop
  <2>2. FlowOK(Now', OwnCard(c), Idle) /\ Idle.pc \notin Owning
      BY <1>5, StopsOK, NotOwning
  <2>3. Spares(Now, Now')
      BY <2>1, <2>2, Releases DEF Inv
  <2> QED
      BY <1>2, <1>5, <1>6, <1>7, <2>1, <2>2, <2>3, Assemble
<1>9. CASE outcome = "ok"
  <2>1. card' = [card EXCEPT ![c] = y]
      BY <1>1, <1>9, FlowIs
  <2>2. Carried(outcome)
      BY <1>9 DEF Carried
  <2> DEFINE r == new
  <2> HIDE DEF x, r
  <2>3. next \in Pcs
      BY DEF Pcs, Saving, Updating
  <2>4. y = [x EXCEPT !.pc = next, !.row = r] /\ r \in Nat /\ r # 0
      BY <1>4 DEF r
  <2>5. /\ y \in Flow /\ y.pc = next /\ y.ver = x.ver /\ y.query = x.query
        /\ y.stamp = x.stamp /\ y.row = r /\ y.base = x.base
      BY <1>3, <2>3, <2>4 DEF Flow
  <2> HIDE DEF y
  <2>6. Spares(Now, Now')
      BY <2>1, <2>5, Takes DEF Inv, r
  <2>7. FlowOK(Now', OwnCard(c), x)
      BY <1>3, <1>5, <2>6, FlowStays DEF Inv
  <2>8. rows'[r].ver = x.ver /\ rows'[r].status = "pending" /\ r \in 0 .. Len(rows')
      BY <1>4, <1>5, <2>2 DEF r
  <2>9. FlowOK(Now', OwnCard(c), y)
    <3>1. /\ next \in {"create", "post"}
          /\ next \in Naming => x.pc \in Naming
          /\ next \in Writing => x.pc \in Writing
        BY DEF x, Naming, Writing, Saving, Telling
    <3>2. /\ next \notin Telling /\ next \notin {"fetch"} \cup Redrawing
          /\ next # "partial" /\ next # "redrawn"
        BY <3>1 DEF Telling, Redrawing
    <3>3. y.pc \in Writing => y.query = 0 \/ Had(Now', y.query, y.ver)
        BY <2>5, <2>7, <3>1 DEF FlowOK
    <3> QED
        BY <1>4, <2>4, <2>5, <2>7, <2>8, <3>1, <3>2, <3>3, NowIs DEF FlowOK
  <2>10. y.row = Len(rows) + 1
      BY <2>5 DEF r
  <2> QED
      BY <1>2, <1>5, <1>6, <1>7, <2>1, <2>6, <2>9, <2>10, Assemble
<1> QED
    BY <1>8, <1>9

LEMMA SaveRecordedKeeps ==
  ASSUME Inv, NEW c \in Cards, SaveRecorded(c)
  PROVE  Inv'
<1>1. 0 \in 0 .. Len(queries)
    BY Lengths, NowIs DEF Inv
<1> QED
    BY <1>1, RecordedKeeps DEF SaveRecorded

LEMMA UpdateRecordedKeeps ==
  ASSUME Inv, NEW c \in Cards, UpdateRecorded(c)
  PROVE  Inv'
<1>1. card[c].query \in 0 .. Len(queries)
    BY FlowIs, NowIs DEF FlowOK
<1> QED
    BY <1>1, RecordedKeeps DEF UpdateRecorded
-----------------------------------------------------------------------------
(* Rows that are patched, by the flow that owns them or by one that found    *)
(* them applied.                                                             *)

\* What a true patch makes of a true promotion.
LEMMA PatchedOK ==
  ASSUME NEW s, World(s), NEW a \in Promotions, NEW patch \in Patches,
         Known(s, a), Fits(s, a.id, patch),
         patch.target = 0 => IsApplied(a) /\ Honest(s, a)
  PROVE  /\ Known(s, Patched(a, patch)) /\ Honest(s, Patched(a, patch))
         /\ IsApplied(Patched(a, patch)) /\ Patched(a, patch) \in Promotions
         /\ Patched(a, patch).id = a.id
<1> DEFINE b == Patched(a, patch)
<1>1. /\ b \in Promotions /\ b.id = a.id /\ b.ver = a.ver /\ b.made = a.made
      /\ b.status = patch.status /\ b.stamp = patch.stamp
      /\ b.target = IF patch.target = 0 THEN a.target ELSE patch.target
    BY PatchedIs
<1> HIDE DEF b
<1>2. b.target # 0 /\ Had(s, b.target, b.ver)
  <2>1. CASE patch.target = 0
      BY <1>1, <2>1 DEF Honest, IsApplied
  <2>2. CASE patch.target # 0
      BY <1>1, <2>2 DEF Fits, Known
  <2> QED
      BY <2>1, <2>2
<1>3. b.target \in 0 .. Len(s.queries) /\ b.stamp \in 0 .. s.writes
    BY <1>1 DEF Known, Fits
<1>4. Known(s, b)
    BY <1>1, <1>3 DEF Known
<1>5. Honest(s, b) /\ IsApplied(b)
    BY <1>1, <1>2 DEF Honest, IsApplied, Fits
<1> QED
    BY <1>1, <1>4, <1>5 DEF b

\* A row is patched with the truth or not at all; no other flow owns it.
LEMMA RowIsPatched ==
  ASSUME Inv, NEW i \in 1 .. Len(rows), NEW patch \in Patches, NEW told,
         \/ Fits(Now, i, patch)
         \/ /\ patch.status = "failed" /\ patch.target = 0 /\ patch.stamp = 0
            /\ rows[i].status = "pending",
         told \in BOOLEAN,
         rows' = IF told THEN Stored(i, patch) ELSE rows,
         UNCHANGED <<queries, writes, ops>>
  PROVE  /\ World(Now') /\ Grows(Now, Now') /\ Keys'
         /\ \A d \in Cards : card[d].pc \in Owning /\ card[d].row # i =>
              rows'[card[d].row].status = "pending"
         /\ told => rows'[i] = Patched(rows[i], patch)
         /\ told /\ Fits(Now, i, patch) => Landed(Now', i)
<1>1. /\ World(Now') /\ Grows(Now, Now')
      /\ told => rows'[i] = Patched(rows[i], patch)
      /\ told /\ Fits(Now, i, patch) => Landed(Now', i)
      /\ \A j \in 1 .. Len(rows) \ {i} : rows'[j] = rows[j]
  <2>1. CASE told
    <3>1. /\ Now'.rows = [Now.rows EXCEPT ![i] = Patched(@, patch)]
          /\ Now'.queries = Now.queries /\ Now'.writes = Now.writes
          /\ i \in 1 .. Len(Now.rows)
          /\ \/ Fits(Now, i, patch)
             \/ /\ patch.status = "failed" /\ patch.target = 0 /\ patch.stamp = 0
                /\ Now.rows[i].status = "pending"
        BY <2>1, NowIs DEF Stored
    <3>2. /\ World(Now') /\ Grows(Now, Now')
          /\ Now'.rows[i] = Patched(Now.rows[i], patch)
          /\ Fits(Now, i, patch) => Landed(Now', i)
          /\ \A j \in 1 .. Len(Now.rows) \ {i} : Now'.rows[j] = Now.rows[j]
        BY <3>1, RowPatched DEF Inv
    <3> QED
        BY <3>2, <2>1, NowIs
  <2>2. CASE ~told
      BY <2>2, ServersRest, NowIs DEF Inv
  <2> QED
      BY <2>1, <2>2
<1>2. Keys'
    BY <1>1, KeysStay DEF Inv
<1>3. ASSUME NEW d \in Cards, card[d].pc \in Owning, card[d].row # i
      PROVE  rows'[card[d].row].status = "pending"
  <2>1. card[d].row \in 1 .. Len(rows) /\ rows[card[d].row].status = "pending"
      BY <1>3, OwnedRows DEF Inv
  <2> QED
      BY <1>1, <1>3, <2>1
<1> QED
    BY <1>1, <1>2, <1>3

LEMMA OthersAre ==
  ASSUME Inv, NEW c \in Cards, NEW i,
         i \in Taken => card[c].pc \in Owning /\ card[c].row = i,
         \A d \in Cards : card[d].pc \in Owning /\ card[d].row # i =>
           rows'[card[d].row].status = "pending"
  PROVE  OthersPending(c)
<1> SUFFICES ASSUME NEW d \in Cards \ {c}, card[d].pc \in Owning
             PROVE  card[d].row # i
    BY DEF OthersPending
<1>1. card[d].row \in Taken
    BY OwnedRows DEF Inv
<1> QED
    BY <1>1 DEF Inv, Flows

LEMMA SettledKeeps ==
  ASSUME Inv, NEW c \in Cards, NEW promotion \in Promotions, NEW patch \in Patches,
         Settled(c, promotion, patch),
         Known(Now, promotion), Fits(Now, promotion.id, patch),
         patch.target = 0 => IsApplied(promotion) /\ Honest(Now, promotion),
         promotion.id \in Taken => card[c].pc \in Owning /\ card[c].row = promotion.id
  PROVE  Inv'
<1> DEFINE i == promotion.id
           new == Patched(rows[i], patch)
           b == Patched(promotion, patch)
           held == [promotion |-> b, patch |-> patch]
<1>1. PICK outcome \in Outcomes :
        /\ rows' = IF Carried(outcome) THEN Stored(i, patch) ELSE rows
        /\ Show(c, [IF outcome = "ok" THEN Promoted(Page(c), new)
                                      ELSE Hold(Page(c), promotion, patch)
                    EXCEPT !.wrote = TRUE])
    BY DEF Settled
<1>2. Rest' /\ UNCHANGED <<place, queries, ops, writes>> /\ Stop(c)
    BY RestStays DEF Settled, Inv
<1>3. i \in 1 .. Len(rows)
    BY NowIs DEF Known
<1>4. Carried(outcome) \in BOOLEAN
    BY DEF Carried
<1>5. /\ World(Now') /\ Grows(Now, Now') /\ Keys' /\ OthersPending(c)
      /\ Carried(outcome) => rows'[i] = new /\ Landed(Now', i)
    BY <1>1, <1>2, <1>3, <1>4, RowIsPatched, OthersAre
<1>6. card' = [card EXCEPT ![c] = Idle] /\ Idle.pc \notin Owning
    BY <1>2, IdleIs, NotOwning DEF Stop
<1>7. Spares(Now, Now') /\ i \notin Taken'
    BY <1>6, Releases DEF Inv
<1>8. FlowOK(Now', OwnCard(c), Idle)
    BY <1>5, StopsOK
<1>9. ViewOK(Now', Page(c))
    BY <1>5, <1>7, OnPage, ViewStays DEF Inv
<1>10. CASE outcome = "ok"
  <2>1. Landed(Now', i) /\ rows'[i] = new
      BY <1>5, <1>10 DEF Carried
  <2>2. new \in Promotions /\ Known(Now', new) /\ Honest(Now', new) /\ new.id = i
    <3>1. i \in 1 .. Len(Now'.rows) /\ Now'.rows[i] = new
        BY <2>1, NowIs DEF Landed
    <3>2. Now'.rows[i] \in Promotions
        BY <1>5, <3>1, Lengths
    <3> QED
        BY <1>5, <3>1, <3>2 DEF World
  <2>3. IsApplied(new)
      BY <2>1, NowIs DEF Landed
  <2> HIDE DEF new
  <2>4. ViewOK(Now', [Promoted(Page(c), new) EXCEPT !.wrote = TRUE])
      BY <1>9, <2>1, <2>2, <2>3, PromotedOK DEF ShownOK
  <2>5. Show(c, [Promoted(Page(c), new) EXCEPT !.wrote = TRUE])
      BY <1>1, <1>10
  <2> QED
      BY <1>2, <1>5, <1>6, <1>7, <1>8, <2>4, <2>5, Assemble
<1>11. CASE outcome # "ok"
  <2>1. /\ Known(Now, b) /\ Honest(Now, b) /\ IsApplied(b) /\ b.id = i
      BY PatchedOK DEF Inv
  <2>2. Known(Now', b) /\ Honest(Now', b)
      BY <1>5, <2>1, PromotionStays DEF Inv
  <2>3. Fits(Now', i, patch)
      BY <1>3, <1>5, FitsStays, NowIs DEF Inv
  <2>4. held.promotion = b /\ held.patch = patch
      OBVIOUS
  <2> HIDE DEF held, b
  <2>5. HeldOK(Now', held)
      BY <1>7, <2>1, <2>2, <2>3, <2>4, NowIs DEF HeldOK
  <2>6. ViewOK(Now', [Hold(Page(c), promotion, patch) EXCEPT !.wrote = TRUE])
      BY <1>9, <2>5, HoldIsOK DEF held, b
  <2>7. Show(c, [Hold(Page(c), promotion, patch) EXCEPT !.wrote = TRUE])
      BY <1>1, <1>11
  <2> QED
      BY <1>2, <1>5, <1>6, <1>7, <1>8, <2>6, <2>7, Assemble
<1> QED
    BY <1>10, <1>11

\* A row that is failed, or left partial, by a flow that gives up.
LEMMA AbandonedKeeps ==
  ASSUME Inv, NEW c \in Cards, NEW patch \in Patches,
         NEW next \in {"idle", "conflict"}, Abandoned(c, patch, next),
         card[c].pc \in Owning,
         \/ Fits(Now, card[c].row, patch)
         \/ patch.status = "failed" /\ patch.target = 0 /\ patch.stamp = 0
  PROVE  Inv'
<1> DEFINE x == card[c]
           i == x.row
           y == [x EXCEPT !.pc = "conflict"]
<1>1. PICK outcome \in Outcomes :
        rows' = IF Carried(outcome) THEN Stored(i, patch) ELSE rows
    BY DEF Abandoned
<1>2. Rest' /\ UNCHANGED <<place, queries, ops, writes, page>>
    BY RestStays DEF Abandoned, Inv
<1>3. i \in 1 .. Len(rows) /\ rows[i].status = "pending"
    BY OwnedRows DEF Inv
<1>4. Carried(outcome) \in BOOLEAN
    BY DEF Carried
<1>5. World(Now') /\ Grows(Now, Now') /\ Keys' /\ OthersPending(c)
    BY <1>1, <1>2, <1>3, <1>4, RowIsPatched, OthersAre
<1>6. CASE next = "idle"
  <2>1. card' = [card EXCEPT ![c] = Idle] /\ Idle.pc \notin Owning
      BY <1>6, IdleIs, NotOwning DEF Stop, Abandoned
  <2>2. Spares(Now, Now')
      BY <2>1, Releases DEF Inv
  <2>3. FlowOK(Now', OwnCard(c), Idle)
      BY <1>5, StopsOK
  <2> QED
      BY <1>2, <1>5, <2>1, <2>2, <2>3, Assemble
<1>7. CASE next = "conflict"
  <2>1. FlowOK(Now, OwnCard(c), x) /\ x \in Flow
      BY FlowIs
  <2>2. card' = [card EXCEPT ![c] = y]
      BY <1>7, FlowIs DEF Abandoned, Goto
  <2> HIDE DEF x
  <2>3. /\ y \in Flow /\ y.pc = "conflict" /\ y.query = x.query /\ y.stamp = x.stamp
        /\ y.row = x.row
      BY <2>1, PcsAre DEF Flow
  <2> HIDE DEF y
  <2>4. /\ x.row \in 0 .. Len(rows') /\ x.query \in 0 .. Len(queries')
        /\ x.stamp \in 0 .. writes'
      BY <1>5, <2>1, Lengths, NowIs DEF FlowOK, Grows, Inv
  <2>5. FlowOK(Now', OwnCard(c), y)
      BY <2>3, <2>4, NowIs
      DEF FlowOK, Owning, Telling, Naming, Writing, Saving, Updating, Redrawing
  <2>6. y.pc \notin Owning
      BY <2>3, NotOwning
  <2>7. Spares(Now, Now')
      BY <2>2, <2>6, Releases DEF Inv
  <2> QED
      BY <1>2, <1>5, <2>2, <2>5, <2>6, <2>7, Assemble
<1> QED
    BY <1>6, <1>7

LEMMA PatchIs ==
  ASSUME NEW status \in Statuses, NEW target \in Nat, NEW stamp \in Nat, NEW chart \in Charts
  PROVE  LET patch == Patch(status, target, stamp, chart)
         IN /\ patch \in Patches /\ patch.status = status
            /\ patch.target = target /\ patch.stamp = stamp
BY DEF Patch, Patches

\* The row and the query of a flow that has written.
LEMMA WriterIs ==
  ASSUME Inv, NEW c \in Cards, card[c].pc \in Owning \cup Telling
  PROVE  /\ card[c].row \in 1 .. Len(rows) /\ card[c].row \in Nat
         /\ card[c].query \in Nat /\ card[c].stamp \in Nat
         /\ rows[card[c].row] \in Promotions /\ rows[card[c].row].id = card[c].row
         /\ Known(Now, rows[card[c].row]) /\ Honest(Now, rows[card[c].row])
         /\ \A status \in {"done", "partial"}, chart \in Charts :
              card[c].pc \in Writing /\ card[c].query # 0 =>
                /\ Fits(Now, card[c].row, Patch(status, card[c].query, card[c].stamp, chart))
                /\ Fits(Now, card[c].row, Patch(status, card[c].query, 0, chart))
<1> DEFINE x == card[c]
<1>1. FlowOK(Now, OwnCard(c), x) /\ x \in Flow
    BY FlowIs
<1>2. x.row \in Nat /\ x.query \in Nat /\ x.stamp \in Nat
    BY <1>1 DEF Flow
<1>3. x.row \in 1 .. Len(rows)
  <2>1. x.row \in 0 .. Len(rows) /\ x.row # 0
      BY <1>1, NowIs DEF FlowOK
  <2> QED
      BY <2>1, Lengths, NowIs DEF Inv
<1>4. /\ rows[x.row] \in Promotions /\ rows[x.row].id = x.row
      /\ Known(Now, rows[x.row]) /\ Honest(Now, rows[x.row])
    BY <1>3, Lengths, NowIs DEF Inv, World
<1>5. ASSUME NEW status \in {"done", "partial"}, NEW chart \in Charts, NEW stamp,
             x.pc \in Writing, x.query # 0, stamp \in {0, x.stamp}
      PROVE  Fits(Now, x.row, Patch(status, x.query, stamp, chart))
  <2>1. Had(Now, x.query, rows[x.row].ver)
      BY <1>1, <1>5, NowIs DEF FlowOK
  <2>2. x.query \in 0 .. Len(queries) /\ x.stamp \in 0 .. writes /\ 0 \in 0 .. writes
      BY <1>1, Lengths, NowIs DEF FlowOK, Inv
  <2> DEFINE patch == Patch(status, x.query, stamp, chart)
  <2>3. patch.status = status /\ patch.target = x.query /\ patch.stamp = stamp
      BY DEF Patch
  <2> HIDE DEF patch, x
  <2>4. Fits(Now, x.row, patch)
      BY <1>5, <2>1, <2>2, <2>3, NowIs DEF Fits
  <2> QED
      BY <2>4 DEF patch
<1> QED
    BY <1>2, <1>3, <1>4, <1>5

LEMMA SaveFinishedKeeps ==
  ASSUME Inv, NEW c \in Cards, SaveFinished(c)
  PROVE  Inv'
<1> DEFINE x == card[c]
           patch == Patch("done", x.query, x.stamp, "done")
<1>1. FlowOK(Now, OwnCard(c), x) /\ x.pc = "finish"
    BY FlowIs DEF SaveFinished
<1>2. x.query # 0 /\ x.pc \in Owning /\ x.pc \in Writing
    BY <1>1 DEF FlowOK, Naming, Owning, Writing, Saving
<1>3. /\ rows[x.row] \in Promotions /\ rows[x.row].id = x.row
      /\ Known(Now, rows[x.row]) /\ Fits(Now, x.row, patch)
      /\ x.query \in Nat /\ x.stamp \in Nat
    BY <1>2, WriterIs DEF Charts
<1>4. patch \in Patches /\ patch.target # 0
  <2>1. patch \in Patches
      BY <1>3, PatchIs DEF Statuses, Charts
  <2> QED
      BY <1>2, <2>1 DEF Patch
<1>5. Settled(c, rows[x.row], patch)
    BY DEF SaveFinished
<1> HIDE DEF patch
<1> QED
    BY <1>2, <1>3, <1>4, <1>5, SettledKeeps

LEMMA FailedPatch ==
  LET patch == Patch("failed", 0, 0, "none")
  IN patch \in Patches /\ patch.status = "failed" /\ patch.target = 0 /\ patch.stamp = 0
BY PatchIs DEF Statuses, Charts

LEMMA SaveAbandonedKeeps ==
  ASSUME Inv, NEW c \in Cards, SaveAbandoned(c)
  PROVE  Inv'
<1> DEFINE x == card[c]
           failed == Patch("failed", 0, 0, "none")
           partial == Patch("partial", x.query, 0, "failed")
<1>1. x.pc = "abandon" /\ x.pc \in Owning /\ x.pc \in Writing
    BY DEF SaveAbandoned, Owning, Writing, Saving
<1>2. CASE x.query = 0
  <2>1. Abandoned(c, failed, "idle")
      BY <1>2 DEF SaveAbandoned
  <2> QED
      BY <1>1, <2>1, FailedPatch, AbandonedKeeps
<1>3. CASE x.query # 0
  <2>1. Abandoned(c, partial, "idle")
      BY <1>3 DEF SaveAbandoned
  <2>2. Fits(Now, x.row, partial) /\ x.query \in Nat
      BY <1>1, <1>3, WriterIs DEF Charts
  <2>3. partial \in Patches
      BY <2>2, PatchIs DEF Statuses, Charts
  <2> HIDE DEF partial
  <2> QED
      BY <1>1, <2>1, <2>2, <2>3, AbandonedKeeps
<1> QED
    BY <1>2, <1>3

LEMMA UpdateAbandonedKeeps ==
  ASSUME Inv, NEW c \in Cards, UpdateAbandoned(c)
  PROVE  Inv'
<1>1. card[c].pc \in Owning
    BY DEF UpdateAbandoned, Owning
<1>2. \E next \in {"idle", "conflict"} : Abandoned(c, Patch("failed", 0, 0, "none"), next)
    BY DEF UpdateAbandoned
<1> QED
    BY <1>1, <1>2, FailedPatch, AbandonedKeeps

LEMMA ChartFailureToldKeeps ==
  ASSUME Inv, NEW c \in Cards, ChartFailureTold(c)
  PROVE  Inv'
<1> DEFINE x == card[c]
           row == rows[x.row]
           told == DonePatch(c)
           patch == Patch("partial", 0, x.stamp, "failed")
<1>1. FlowOK(Now, OwnCard(c), x) /\ x.pc = "partial"
    BY FlowIs DEF ChartFailureTold
<1>2. /\ x.query # 0 /\ x.pc \in Telling /\ x.pc \in Writing
      /\ x.row \notin Taken /\ Landed(Now, x.row)
    BY <1>1, NowIs DEF FlowOK, Naming, Telling, Writing
<1>3. /\ row \in Promotions /\ row.id = x.row /\ Known(Now, row) /\ Fits(Now, x.row, told)
      /\ x.query \in Nat /\ x.stamp \in Nat
    BY <1>2, WriterIs DEF Charts, DonePatch
<1>4. told \in Patches /\ told.target # 0
  <2>1. told \in Patches
      BY <1>3, PatchIs DEF Statuses, Charts, DonePatch
  <2> QED
      BY <1>2, <2>1 DEF Patch, DonePatch
<1>5. /\ Known(Now, Patched(row, told)) /\ Honest(Now, Patched(row, told))
      /\ IsApplied(Patched(row, told)) /\ Patched(row, told) \in Promotions
      /\ Patched(row, told).id = x.row
    BY <1>3, <1>4, PatchedOK DEF Inv
<1>6. /\ patch \in Patches /\ patch.target = 0
      /\ patch.status = "partial" /\ patch.stamp = x.stamp
    BY <1>3, PatchIs DEF Statuses, Charts
<1>7. Fits(Now, x.row, patch)
  <2>1. Backed(Now, x.row)
      BY <1>2, LandedIs
  <2>2. 0 \in 0 .. Len(queries) /\ x.stamp \in 0 .. writes
      BY <1>1, Lengths, NowIs DEF Inv, FlowOK
  <2> HIDE DEF patch
  <2> QED
      BY <1>6, <2>1, <2>2, NowIs DEF Fits
<1>8. Settled(c, Patched(row, told), patch)
    BY DEF ChartFailureTold
<1> HIDE DEF patch, told, row, x
<1> QED
    BY <1>2, <1>5, <1>6, <1>7, <1>8, SettledKeeps

LEMMA RedrawToldKeeps ==
  ASSUME Inv, NEW c \in Cards, RedrawTold(c)
  PROVE  Inv'
<1> DEFINE base == card[c].base
           target == IF OwnCard(c) THEN 0 ELSE base.target
           patch == Patch("done", target, base.stamp, "done")
<1>1. FlowOK(Now, OwnCard(c), card[c]) /\ card[c].pc = "retold"
    BY FlowIs DEF RedrawTold
<1>2. BaseOK(Now, OwnCard(c), base)
    BY <1>1 DEF FlowOK, Redrawing
<1>3. Settled(c, base, patch)
    BY DEF RedrawTold
<1> HIDE DEF base
<1>4. /\ base \in Promotions /\ Known(Now, base) /\ Honest(Now, base) /\ IsApplied(base)
      /\ base.id \notin Taken
    BY <1>2, NowIs DEF BaseOK
<1>5. target \in Nat /\ base.stamp \in Nat
    BY <1>4 DEF Promotions
<1>6. 0 \in 0 .. Len(queries) /\ target \in 0 .. Len(queries) /\ base.stamp \in 0 .. writes
    BY <1>4, Lengths, NowIs DEF Known, Inv
<1>7. IF target = 0 THEN Backed(Now, base.id) ELSE Had(Now, target, rows[base.id].ver)
  <2>1. CASE OwnCard(c)
      BY <1>2, <2>1 DEF BaseOK
  <2>2. CASE ~OwnCard(c)
      BY <1>4, <2>2, NowIs DEF Known, Honest, IsApplied
  <2> QED
      BY <2>1, <2>2
<1> HIDE DEF target
<1>8. /\ patch \in Patches /\ patch.target = target /\ patch.status = "done"
      /\ patch.stamp = base.stamp
    BY <1>5, PatchIs DEF Statuses, Charts
<1> HIDE DEF patch
<1>9. Fits(Now, base.id, patch)
    BY <1>6, <1>7, <1>8, NowIs DEF Fits
<1> QED
    BY <1>3, <1>4, <1>8, <1>9, SettledKeeps

LEMMA UpdateToldKeeps ==
  ASSUME Inv, NEW c \in Cards, UpdateTold(c)
  PROVE  Inv'
<1> DEFINE x == card[c]
           i == x.row
           patch == DonePatch(c)
           y(ok) == [x EXCEPT !.pc = "redrawn", !.synced = ok]
<1>1. PICK outcome \in Outcomes :
        /\ rows' = IF Carried(outcome) THEN Stored(i, patch) ELSE rows
        /\ card' = [card EXCEPT ![c].pc = "redrawn", ![c].synced = (outcome = "ok")]
    BY DEF UpdateTold
<1>2. Rest' /\ UNCHANGED <<place, queries, ops, writes, page>>
    BY RestStays DEF UpdateTold, Inv
<1>3. FlowOK(Now, OwnCard(c), x) /\ x \in Flow /\ x.pc = "tell"
    BY FlowIs DEF UpdateTold
<1>4. x.query # 0 /\ x.pc \in Owning /\ x.pc \in Writing
    BY <1>3 DEF FlowOK, Naming, Owning, Writing
<1>5. i \in 1 .. Len(rows) /\ Fits(Now, i, patch) /\ x.query \in Nat /\ x.stamp \in Nat
    BY <1>4, WriterIs DEF Charts, DonePatch
<1>6. patch \in Patches
    BY <1>5, PatchIs DEF Statuses, Charts, DonePatch
<1>7. Carried(outcome) \in BOOLEAN
    BY DEF Carried
<1>8. /\ World(Now') /\ Grows(Now, Now') /\ Keys' /\ OthersPending(c)
      /\ Carried(outcome) => Landed(Now', i)
    BY <1>1, <1>2, <1>4, <1>5, <1>6, <1>7, RowIsPatched, OthersAre
<1> DEFINE ok == outcome = "ok"
           z == y(ok)
<1>9. card' = [card EXCEPT ![c] = z] /\ ok \in BOOLEAN /\ (ok => Carried(outcome))
    BY <1>1, FlowIs DEF Carried
<1> HIDE DEF x, ok
<1>10. "redrawn" \in Pcs
    BY DEF Pcs, Updating
<1>11. /\ z \in Flow /\ z.pc = "redrawn" /\ z.ver = x.ver /\ z.query = x.query
       /\ z.stamp = x.stamp /\ z.row = x.row /\ z.synced = ok
    BY <1>3, <1>9, <1>10 DEF Flow
<1> HIDE DEF z
<1>12. z.pc \notin Owning
    BY <1>11 DEF Owning
<1>13. Spares(Now, Now') /\ i \notin Taken'
    BY <1>4, <1>9, <1>12, Releases DEF Inv, x
<1>14. FlowOK(Now', OwnCard(c), z)
  <2>1. /\ x.row \in 0 .. Len(rows') /\ x.query \in 0 .. Len(queries')
        /\ x.stamp \in 0 .. writes'
      BY <1>3, <1>8, Lengths, NowIs DEF FlowOK, Grows, Inv
  <2>2. x.row # 0 /\ rows'[x.row].ver = x.ver /\ x.ver \in Versions
      BY <1>3, <1>4, <1>5, <1>8, NowIs DEF FlowOK, Grows, Updating
  <2>3. Had(Now', x.query, x.ver)
      BY <1>3, <1>4, <1>8, HadStays DEF FlowOK, Inv
  <2> QED
      BY <1>4, <1>8, <1>9, <1>11, <1>12, <1>13, <2>1, <2>2, <2>3, NowIs
      DEF FlowOK, Telling, Redrawing
<1> QED
    BY <1>2, <1>8, <1>9, <1>12, <1>13, <1>14, Assemble

\* What the page then shows, or holds, of an update.
LEMMA UpdateFinishedKeeps ==
  ASSUME Inv, NEW c \in Cards, UpdateFinished(c)
  PROVE  Inv'
<1> DEFINE x == card[c]
           i == x.row
           row == rows[i]
           patch == DonePatch(c)
           done == Patched(row, patch)
           partial == Patch("partial", x.query, x.stamp, "failed")
           y == [x EXCEPT !.pc = "partial"]
           shown == [Promoted(Page(c), done) EXCEPT !.wrote = TRUE]
           kept(p) == [Hold(Page(c), done, p) EXCEPT !.wrote = TRUE]
<1>1. FlowOK(Now, OwnCard(c), x) /\ x \in Flow /\ x.pc = "redrawn"
    BY FlowIs DEF UpdateFinished
<1>2. Rest' /\ UNCHANGED <<place, rows, queries, ops, writes>>
    BY RestStays DEF UpdateFinished, serverVars, Inv
<1>3. x.query # 0 /\ x.pc \in Telling /\ x.pc \in Writing /\ i \notin Taken
    BY <1>1, NowIs DEF FlowOK, Naming, Telling, Writing
<1>4. /\ i \in 1 .. Len(rows) /\ row \in Promotions /\ row.id = i /\ Known(Now, row)
      /\ Fits(Now, i, patch) /\ Fits(Now, i, partial) /\ x.query \in Nat /\ x.stamp \in Nat
    BY <1>3, WriterIs DEF Charts, DonePatch
<1>5. patch \in Patches /\ partial \in Patches /\ patch.target # 0 /\ partial.target # 0
  <2>1. patch \in Patches /\ partial \in Patches
      BY <1>4, PatchIs DEF Statuses, Charts, DonePatch
  <2> QED
      BY <1>3, <2>1 DEF Patch, DonePatch
<1> HIDE DEF patch, partial, row
<1>6. /\ Known(Now, done) /\ Honest(Now, done) /\ IsApplied(done)
      /\ done \in Promotions /\ done.id = i
    BY <1>4, <1>5, PatchedOK DEF Inv
<1> HIDE DEF done
<1>7. World(Now') /\ Grows(Now, Now') /\ Keys' /\ OthersPending(c)
  <2>1. World(Now') /\ Grows(Now, Now')
      BY <1>2, ServersRest, NowIs DEF Inv
  <2>2. Keys'
      BY <1>2, <2>1, KeysStay DEF Inv
  <2>3. OthersPending(c)
      BY <1>2, OwnedRows DEF Inv, OthersPending
  <2> QED
      BY <2>1, <2>2, <2>3
<1>8. ASSUME NEW z, card' = [card EXCEPT ![c] = z], z.pc \notin Owning
      PROVE  Spares(Now, Now') /\ i \notin Taken' /\ ViewOK(Now', Page(c))
  <2>1. Spares(Now, Now') /\ i \notin Taken'
      BY <1>3, <1>8, Releases DEF Inv
  <2> QED
      BY <1>7, <2>1, OnPage, ViewStays DEF Inv
<1>9. ASSUME NEW p, p = patch \/ p = partial, i \notin Taken', ViewOK(Now', Page(c))
      PROVE  ViewOK(Now', kept(p))
  <2> DEFINE b == Patched(done, p)
             held == [promotion |-> b, patch |-> p]
  <2>1. p \in Patches /\ p.target # 0 /\ Fits(Now, i, p)
      BY <1>4, <1>5, <1>9
  <2>2. Known(Now, b) /\ Honest(Now, b) /\ IsApplied(b) /\ b.id = i
      BY <1>6, <2>1, PatchedOK DEF Inv
  <2>3. Known(Now', b) /\ Honest(Now', b) /\ Fits(Now', i, p)
      BY <1>4, <1>7, <2>1, <2>2, PromotionStays, FitsStays, NowIs DEF Inv
  <2>4. held.promotion = b /\ held.patch = p
      OBVIOUS
  <2> HIDE DEF held, b
  <2>5. HeldOK(Now', held)
      BY <1>9, <2>2, <2>3, <2>4, NowIs DEF HeldOK
  <2> QED
      BY <1>6, <1>9, <2>1, <2>5, HoldIsOK DEF held, b
<1>10. ASSUME x.synced, ViewOK(Now', Page(c))
       PROVE  ViewOK(Now', shown)
  <2>1. Landed(Now, i)
      BY <1>1, <1>10 DEF FlowOK
  <2>2. ShownOK(Now', done)
      BY <1>6, <1>7, <2>1, PromotionStays DEF Inv, ShownOK
  <2> QED
      BY <1>6, <1>10, <2>2, PromotedOK
<1>11. CASE Stop(c)
  <2>1. card' = [card EXCEPT ![c] = Idle] /\ Idle.pc \notin Owning
      BY <1>11, IdleIs, NotOwning DEF Stop
  <2>2. FlowOK(Now', OwnCard(c), Idle)
      BY <1>7, StopsOK
  <2>3. Spares(Now, Now') /\ i \notin Taken' /\ ViewOK(Now', Page(c))
      BY <1>8, <2>1
  <2>4. \/ x.synced /\ Show(c, shown)
        \/ Show(c, kept(patch)) \/ Show(c, kept(partial))
      BY <1>11, <1>1 DEF UpdateFinished, done, patch, partial, row, Stop, Goto
  <2> HIDE DEF shown, kept
  <2>5. \E v : Show(c, v) /\ ViewOK(Now', v)
      BY <1>9, <1>10, <2>3, <2>4
  <2> QED
      BY <1>2, <1>7, <2>1, <2>2, <2>3, <2>5, Assemble
<1>12. CASE x.synced /\ Show(c, shown) /\ Goto(c, "partial")
  <2>1. card' = [card EXCEPT ![c] = y]
      BY <1>12, FlowIs DEF Goto
  <2>2. Landed(Now, i)
      BY <1>1, <1>12 DEF FlowOK
  <2> HIDE DEF x
  <2>3. "partial" \in Pcs
      BY DEF Pcs, Updating
  <2>4. /\ y \in Flow /\ y.pc = "partial" /\ y.ver = x.ver /\ y.query = x.query
        /\ y.stamp = x.stamp /\ y.row = x.row
      BY <1>1, <2>3 DEF Flow
  <2> HIDE DEF y
  <2>5. y.pc \notin Owning
      BY <2>4 DEF Owning
  <2>6. Spares(Now, Now') /\ i \notin Taken' /\ ViewOK(Now', Page(c))
      BY <1>8, <2>1, <2>5
  <2>7. FlowOK(Now', OwnCard(c), x) /\ Landed(Now', i)
    <3>1. x.pc \notin Owning
        BY <1>1 DEF Owning
    <3>2. FlowOK(Now', OwnCard(c), x)
        BY <1>1, <1>7, <2>6, <3>1, FlowStays DEF Inv
    <3>3. Landed(Now', i)
        BY <1>4, <1>7, <2>2, NowIs DEF Grows
    <3> QED
        BY <3>2, <3>3
  <2>8. FlowOK(Now', OwnCard(c), y)
    <3>1. /\ y.pc \in Telling /\ y.pc \in Naming /\ y.pc \in Writing /\ y.pc \in Updating
          /\ x.pc \in Telling /\ x.pc \in Naming /\ x.pc \in Writing /\ x.pc \in Updating
          /\ y.pc \notin {"fetch"} \cup Redrawing
        BY <1>1, <2>4 DEF Telling, Naming, Writing, Updating, Redrawing
    <3> QED
        BY <2>4, <2>5, <2>7, <3>1 DEF FlowOK
  <2>9. ViewOK(Now', shown)
      BY <1>10, <1>12, <2>6
  <2> QED
      BY <1>2, <1>7, <1>12, <2>1, <2>5, <2>6, <2>8, <2>9, Assemble
<1>13. Stop(c) \/ (x.synced /\ Show(c, shown) /\ Goto(c, "partial"))
    BY DEF UpdateFinished, done, patch, row
<1> QED
    BY <1>11, <1>12, <1>13

\* The write of an update, under the guard.
LEMMA PostedKeeps ==
  ASSUME Inv, NEW c \in Cards, Posted(c)
  PROVE  Inv'
<1> DEFINE x == card[c]
           q == x.query
           v == x.ver
           new == [queries[q] EXCEPT !.stamp = writes + 1, !.had = @ \cup {v}]
           y == [x EXCEPT !.pc = "tell", !.stamp = writes + 1]
           z == [x EXCEPT !.pc = "giveup"]
<1>1. PICK outcome \in Outcomes :
        /\ IF Carried(outcome)
           THEN /\ queries' = [queries EXCEPT ![q].stamp = writes + 1,
                                              ![q].had = @ \cup {v}]
                /\ writes' = writes + 1
           ELSE UNCHANGED <<queries, writes>>
        /\ card' = IF outcome = "ok"
                   THEN [card EXCEPT ![c].pc = "tell", ![c].stamp = writes + 1]
                   ELSE [card EXCEPT ![c].pc = "giveup"]
    BY DEF Posted
<1>2. Rest' /\ UNCHANGED <<place, rows, ops, page>>
    BY RestStays DEF Posted, Inv
<1>3. FlowOK(Now, OwnCard(c), x) /\ x \in Flow /\ x.pc = "post"
    BY FlowIs DEF Posted
<1>4. v \in Versions /\ q \in 1 .. Len(queries) /\ Len(queries) \in Nat /\ writes \in Nat
  <2>1. q \in 0 .. Len(queries) /\ q # 0 /\ v \in Versions
      BY <1>3, NowIs DEF FlowOK, Naming, Updating
  <2> QED
      BY <2>1, Lengths, NowIs DEF Inv
<1>5. queries[q] \in Query
    BY <1>4, Lengths, NowIs DEF Inv
<1>6. /\ new \in Query /\ new.key = queries[q].key /\ new.stamp = writes + 1
      /\ queries[q].had \subseteq new.had /\ v \in new.had
  <2> DEFINE old == queries[q]
             w == writes + 1
  <2>1. /\ w \in Nat /\ w = writes + 1 /\ old \in Query
        /\ new = [old EXCEPT !.stamp = w, !.had = @ \cup {v}]
      BY <1>4, <1>5
  <2> HIDE DEF old, w, v, new
  <2>2. /\ new \in Query /\ new.key = old.key /\ new.stamp = w /\ new.had = old.had \cup {v}
      BY <1>4, <2>1 DEF Query
  <2> QED
      BY <2>1, <2>2 DEF old
<1>7. Carried(outcome) => queries' = [queries EXCEPT ![q] = new] /\ writes' = writes + 1
    BY <1>1
<1> HIDE DEF new
<1>8. /\ World(Now') /\ Grows(Now, Now') /\ Keys'
      /\ Carried(outcome) => Had(Now', q, v) /\ writes' = writes + 1
  <2>1. CASE Carried(outcome)
    <3>1. /\ World(Now) /\ q \in 1 .. Len(Now.queries) /\ new.key = Now.queries[q].key
          /\ new.stamp = Now.writes + 1 /\ Now.queries[q].had \subseteq new.had
          /\ Now'.rows = Now.rows /\ Now'.queries = [Now.queries EXCEPT ![q] = new]
          /\ Now'.writes = Now.writes + 1
        BY <1>2, <1>4, <1>6, <1>7, <2>1, NowIs DEF Inv
    <3>2. /\ World(Now') /\ Grows(Now, Now') /\ Len(Now'.queries) = Len(Now.queries)
          /\ \A r \in 1 .. Len(Now.queries) : Now'.queries[r].key = Now.queries[r].key
          /\ \A w \in new.had : Had(Now', q, w)
        BY <1>6, <3>1, QueryWritten
    <3>3. Keys'
        BY <1>2, <3>2, KeysStay, NowIs DEF Inv
    <3> QED
        BY <1>6, <1>7, <2>1, <3>2, <3>3
  <2>2. CASE ~Carried(outcome)
    <3>1. World(Now') /\ Grows(Now, Now')
        BY <1>1, <1>2, <2>2, ServersRest, NowIs DEF Inv
    <3>2. Keys'
        BY <1>1, <1>2, <2>2, <3>1, KeysStay DEF Inv
    <3> QED
        BY <2>2, <3>1, <3>2
  <2> QED
      BY <2>1, <2>2
<1>9. OthersPending(c)
    BY <1>2, OwnedRows DEF Inv, OthersPending
<1>10. "tell" \in Pcs /\ "giveup" \in Pcs
    BY DEF Pcs, Updating
<1>11. CASE outcome = "ok"
  <2>1. card' = [card EXCEPT ![c] = y] /\ Carried(outcome)
      BY <1>1, <1>11, FlowIs DEF Carried
  <2> HIDE DEF x
  <2>2. /\ y \in Flow /\ y.pc = "tell" /\ y.ver = x.ver /\ y.query = x.query
        /\ y.stamp = writes + 1 /\ y.row = x.row
    <3> DEFINE w == writes + 1
    <3>1. w \in Nat /\ y = [x EXCEPT !.pc = "tell", !.stamp = w]
        BY <1>4
    <3> HIDE DEF w, y
    <3>2. /\ y \in Flow /\ y.pc = "tell" /\ y.ver = x.ver /\ y.query = x.query
          /\ y.stamp = w /\ y.row = x.row
        BY <1>3, <1>10, <3>1 DEF Flow
    <3> QED
        BY <3>2 DEF w
  <2> HIDE DEF y
  <2>3. x.pc \in Owning /\ y.row = x.row
      BY <1>3, <2>2 DEF Owning
  <2>4. Spares(Now, Now')
      BY <2>1, <2>3, Keeps DEF Inv, x
  <2>5. FlowOK(Now', OwnCard(c), x)
    <3>1. Now'.rows[x.row].status = "pending"
        BY <1>2, <1>3, <2>3, NowIs DEF FlowOK
    <3> QED
        BY <1>3, <1>8, <2>4, <3>1, FlowStays DEF Inv
  <2>6. y.stamp \in 0 .. writes'
      BY <1>4, <1>8, <2>1, <2>2
  <2>7. FlowOK(Now', OwnCard(c), y)
      BY <1>3, <1>8, <2>1, <2>2, <2>5, <2>6, NowIs
      DEF FlowOK, Owning, Telling, Naming, Writing, Saving, Updating, Redrawing
  <2> QED
      BY <1>2, <1>8, <1>9, <2>1, <2>3, <2>4, <2>7, Assemble DEF x
<1>12. CASE outcome # "ok"
  <2>1. card' = [card EXCEPT ![c] = z]
      BY <1>1, <1>12, FlowIs
  <2> HIDE DEF x
  <2>2. /\ z \in Flow /\ z.pc = "giveup" /\ z.ver = x.ver /\ z.query = x.query
        /\ z.stamp = x.stamp /\ z.row = x.row
      BY <1>3, <1>10 DEF Flow
  <2> HIDE DEF z
  <2>3. x.pc \in Owning /\ z.row = x.row
      BY <1>3, <2>2 DEF Owning
  <2>4. Spares(Now, Now')
      BY <2>1, <2>3, Keeps DEF Inv, x
  <2>5. FlowOK(Now', OwnCard(c), x)
    <3>1. Now'.rows[x.row].status = "pending"
        BY <1>2, <1>3, <2>3, NowIs DEF FlowOK
    <3> QED
        BY <1>3, <1>8, <2>4, <3>1, FlowStays DEF Inv
  <2>6. FlowOK(Now', OwnCard(c), z)
      BY <1>3, <2>2, <2>5
      DEF FlowOK, Owning, Telling, Naming, Writing, Saving, Updating, Redrawing
  <2> QED
      BY <1>2, <1>8, <1>9, <2>1, <2>3, <2>4, <2>6, Assemble DEF x
<1> QED
    BY <1>11, <1>12
-----------------------------------------------------------------------------
(* Steps of a page, of the node, and of people who edit the query.           *)

LEMMA FlowsStay ==
  ASSUME Inv, World(Now'), Grows(Now, Now'), UNCHANGED <<place, card>>,
         \A d \in Cards : card[d].pc \in Owning => rows'[card[d].row].status = "pending"
  PROVE  Flows' /\ Spares(Now, Now')
<1>1. Taken' = Taken
    BY DEF Taken
<1>2. Spares(Now, Now')
    BY <1>1, NowIs DEF Spares
<1>3. ASSUME NEW d \in Cards PROVE FlowOK(Now', OwnCard(d)', card'[d])
  <2>1. OwnCard(d)' = OwnCard(d) /\ card'[d] = card[d] /\ FlowOK(Now, OwnCard(d), card[d])
      BY FlowIs DEF OwnCard
  <2>2. card[d].pc \in Owning => Now'.rows[card[d].row].status = "pending"
      BY NowIs
  <2>3. FlowOK(Now', OwnCard(d), card[d])
      BY <1>2, <2>1, <2>2, FlowStays DEF Inv
  <2> QED
      BY <2>1, <2>3
<1>4. Flows'
    BY <1>3 DEF Flows, Inv
<1> QED
    BY <1>2, <1>4

\* A page that changes alone.
LEMMA PageQuiet ==
  ASSUME Inv, Rest', UNCHANGED <<place, queries, ops, rows, writes, card>>,
         NEW p \in Pages, NEW v, page' = [page EXCEPT ![p] = v], ViewOK(Now, v)
  PROVE  Inv'
<1>1. World(Now') /\ Grows(Now, Now')
    BY ServersRest, NowIs DEF Inv
<1>2. \A d \in Cards : card[d].pc \in Owning => rows'[card[d].row].status = "pending"
    BY OwnedRows DEF Inv
<1>3. Flows' /\ Spares(Now, Now')
    BY <1>1, <1>2, FlowsStay
<1>4. ViewOK(Now', v)
    BY <1>1, <1>3, ViewStays DEF Inv
<1>5. Views'
    BY <1>1, <1>3, <1>4, ViewsMove DEF Inv
<1>6. Keys'
    BY <1>1, KeysStay DEF Inv
<1> QED
    BY <1>1, <1>3, <1>5, <1>6 DEF Inv

LEMMA ViewIs ==
  ASSUME Inv, NEW p \in Pages
  PROVE  ViewOK(Now, page[p]) /\ page[p] \in View /\ page = [q \in Pages |-> page[q]]
BY DEF Inv, Views, ViewOK

LEMMA RetrySyncClickedKeeps ==
  ASSUME Inv, NEW p \in Pages, RetrySyncClicked(p)
  PROVE  Inv'
<1> DEFINE v == page[p]
           w == [v EXCEPT !.sending = v.held, !.landed = FALSE]
<1>1. Rest' /\ UNCHANGED <<place, queries, ops, rows, writes, card>>
    BY RestStays DEF RetrySyncClicked, serverVars, Inv
<1>2. page' = [page EXCEPT ![p] = w]
    BY ViewIs DEF RetrySyncClicked
<1>3. ViewOK(Now, v) /\ v \in View
    BY ViewIs
<1> HIDE DEF v
<1>4. /\ w \in View /\ w.shown = v.shown /\ w.held = v.held /\ w.sending = v.held
      /\ w.landed = FALSE /\ w.wrote = v.wrote /\ w.answer = v.answer
    BY <1>3 DEF View
<1> HIDE DEF w
<1>5. ViewOK(Now, w)
    BY <1>3, <1>4 DEF ViewOK, Kept
<1> QED
    BY <1>1, <1>2, <1>5, PageQuiet

LEMMA RetrySyncFailedKeeps ==
  ASSUME Inv, NEW p \in Pages, RetrySyncFailed(p)
  PROVE  Inv'
<1> DEFINE v == page[p]
           w == [v EXCEPT !.sending = Nothing, !.landed = FALSE]
<1>1. Rest' /\ UNCHANGED <<place, queries, ops, rows, writes, card>>
    BY RestStays DEF RetrySyncFailed, serverVars, Inv
<1>2. page' = [page EXCEPT ![p] = w]
    BY ViewIs DEF RetrySyncFailed
<1>3. ViewOK(Now, v) /\ v \in View
    BY ViewIs
<1> HIDE DEF v
<1>4. /\ w \in View /\ w.shown = v.shown /\ w.held = v.held /\ w.sending = Nothing
      /\ w.landed = FALSE /\ w.wrote = v.wrote /\ w.answer = v.answer
    BY <1>3 DEF View
<1> HIDE DEF w
<1>5. ViewOK(Now, w)
    BY <1>3, <1>4 DEF ViewOK, Kept
<1> QED
    BY <1>1, <1>2, <1>5, PageQuiet

LEMMA RetrySyncLandedKeeps ==
  ASSUME Inv, NEW p \in Pages, RetrySyncLanded(p)
  PROVE  Inv'
<1> DEFINE v == page[p]
           w == [v EXCEPT !.landed = TRUE]
           i == v.sending.promotion.id
           patch == v.sending.patch
<1>1. /\ Rest' /\ UNCHANGED <<place, queries, ops, writes, card>>
      /\ rows' = Stored(i, patch) /\ v.sending # Nothing
    BY RestStays DEF RetrySyncLanded, Inv
<1>2. page' = [page EXCEPT ![p] = w]
    BY ViewIs DEF RetrySyncLanded
<1>3. ViewOK(Now, v) /\ v \in View
    BY ViewIs
<1> HIDE DEF v
<1>4. /\ w \in View /\ w.shown = v.shown /\ w.held = v.held /\ w.sending = v.sending
      /\ w.wrote = v.wrote /\ w.answer = v.answer
    BY <1>3 DEF View
<1>5. HeldOK(Now, v.sending) /\ v.sending \in Held
    BY <1>1, <1>3 DEF ViewOK, View
<1>6. /\ i \in 1 .. Len(rows) /\ i \notin Taken /\ Fits(Now, i, patch) /\ patch \in Patches
    BY <1>5, NowIs DEF HeldOK, Known, Held
<1> HIDE DEF w, i, patch
<1>7. /\ World(Now') /\ Grows(Now, Now') /\ Keys' /\ Landed(Now', i)
      /\ \A d \in Cards : card[d].pc \in Owning /\ card[d].row # i =>
           rows'[card[d].row].status = "pending"
  <2>1. rows' = IF TRUE THEN Stored(i, patch) ELSE rows
      BY <1>1
  <2> QED
      BY <1>1, <1>6, <2>1, RowIsPatched
<1>8. \A d \in Cards : card[d].pc \in Owning => card[d].row # i
    BY <1>6, OwnedRows DEF Inv
<1>9. Flows' /\ Spares(Now, Now')
    BY <1>1, <1>7, <1>8, FlowsStay
<1>10. ViewOK(Now', v)
    BY <1>3, <1>7, <1>9, ViewStays DEF Inv
<1>11. ViewOK(Now', w)
    BY <1>4, <1>7, <1>10 DEF ViewOK, Kept, i
<1>12. Views'
    BY <1>2, <1>7, <1>9, <1>11, ViewsMove DEF Inv
<1> QED
    BY <1>1, <1>7, <1>9, <1>12 DEF Inv

LEMMA RetrySyncAnsweredKeeps ==
  ASSUME Inv, NEW p \in Pages, RetrySyncAnswered(p)
  PROVE  Inv'
<1> DEFINE v == page[p]
           sent == v.sending
           synced == Patched(sent.promotion, sent.patch)
           shown == Upsert(v.shown, synced)
           done == [v EXCEPT !.sending = Nothing, !.landed = FALSE]
           all == [done EXCEPT !.held = Nothing, !.shown = shown]
           w == IF v.held = sent THEN all ELSE done
<1>1. /\ Rest' /\ UNCHANGED <<place, queries, ops, rows, writes, card>>
      /\ sent # Nothing /\ v.landed
    BY RestStays DEF RetrySyncAnswered, serverVars, Inv
<1>2. page' = [page EXCEPT ![p] = w]
    BY ViewIs DEF RetrySyncAnswered
<1>3. ViewOK(Now, v) /\ v \in View /\ v.shown \in Seq(Promotions)
    BY ViewIs, ViewFields
<1>4. HeldOK(Now, sent) /\ sent \in Held /\ Landed(Now, sent.promotion.id)
    BY <1>1, <1>3 DEF ViewOK, View
<1>5. /\ Known(Now, synced) /\ Honest(Now, synced) /\ IsApplied(synced)
      /\ synced \in Promotions /\ synced.id = sent.promotion.id
    BY <1>4, PatchedOK DEF HeldOK, Held, Inv
<1>6. ShownOK(Now, synced)
    BY <1>4, <1>5 DEF ShownOK
<1> HIDE DEF synced
<1>7. /\ shown \in Seq(Promotions)
      /\ \A i \in DOMAIN shown :
           shown[i] = synced \/ \E j \in DOMAIN v.shown : shown[i] = v.shown[j]
      /\ \E i \in DOMAIN shown : shown[i] = synced
    BY <1>3, <1>5, UpsertIs
<1> HIDE DEF shown
<1> HIDE DEF v
<1>8. /\ done \in View /\ done.shown = v.shown /\ done.held = v.held
      /\ done.sending = Nothing /\ done.landed = FALSE /\ done.wrote = v.wrote
      /\ done.answer = v.answer
    BY <1>3 DEF View
<1> HIDE DEF done
<1>9. ViewOK(Now, done)
    BY <1>3, <1>8 DEF ViewOK, Kept
<1>10. /\ all \in View /\ all.shown = shown /\ all.held = Nothing
       /\ all.sending = Nothing /\ all.wrote = v.wrote
       /\ all.answer = v.answer
    BY <1>7, <1>8 DEF View
<1> HIDE DEF all
<1>11. ViewOK(Now, all)
  <2>1. AllShownOK(Now, shown)
      BY <1>3, <1>6, <1>7 DEF ViewOK, AllShownOK
  <2>2. \E i \in 1 .. Len(Now.rows) : IsApplied(Now.rows[i])
      BY <1>4 DEF Landed
  <2> QED
      BY <1>3, <1>10, <2>1, <2>2 DEF ViewOK, Kept
<1>12. ViewOK(Now, w)
    BY <1>9, <1>11
<1> HIDE DEF w
<1> QED
    BY <1>1, <1>2, <1>12, PageQuiet

LEMMA ProposedKeeps ==
  ASSUME Inv, NEW p \in Pages, Proposed(p)
  PROVE  Inv'
<1> DEFINE v == page[p]
           next == proposed + 1
           w == [v EXCEPT !.latest = next]
<1>1. next \in Versions
    BY BoundsAreNat DEF Proposed, Inv, Rest, Versions
<1>2. Rest' /\ UNCHANGED <<place, queries, ops, rows, writes, card>>
    BY <1>1 DEF Proposed, Inv, Rest
<1>3. page' = [page EXCEPT ![p] = w]
    BY ViewIs DEF Proposed
<1>4. ViewOK(Now, v) /\ v \in View
    BY ViewIs
<1> HIDE DEF v, next
<1>5. /\ w \in View /\ w.shown = v.shown /\ w.held = v.held /\ w.sending = v.sending
      /\ w.landed = v.landed /\ w.wrote = v.wrote /\ w.answer = v.answer
    BY <1>1, <1>4, VersionsAre DEF View
<1> HIDE DEF w
<1>6. ViewOK(Now, w)
    BY <1>4, <1>5 DEF ViewOK, Kept
<1> QED
    BY <1>2, <1>3, <1>6, PageQuiet

\* The api's rows are fit to be shown.
LEMMA RowsAreShown ==
  ASSUME Inv
  PROVE  /\ rows \in Seq(Promotions)
         /\ \A i \in DOMAIN rows : ShownOK(Now, rows[i])
<1>1. rows \in Seq(Promotions) /\ DOMAIN rows = 1 .. Len(rows)
    BY Lengths, NowIs DEF Inv, World
<1>2. ASSUME NEW i \in 1 .. Len(rows) PROVE ShownOK(Now, rows[i])
  <2>1. Known(Now, rows[i]) /\ Honest(Now, rows[i]) /\ rows[i].id = i
      BY NowIs DEF Inv, World
  <2> QED
      BY <2>1, NowIs DEF ShownOK, Landed
<1> QED
    BY <1>1, <1>2

\* The answer of the api, as it leaves it.
LEMMA AnswerIs ==
  ASSUME Inv
  PROVE  Answer \in Answers /\ Answer.shown = rows /\ AllShownOK(Now, Answer.shown)
<1>1. proposed \in Versions
    BY DEF Inv, Rest
<1> QED
    BY <1>1, RowsAreShown DEF Answer, Answers, AllShownOK

LEMMA RereadKeeps ==
  ASSUME Inv, NEW p \in Pages, Reread(p)
  PROVE  Inv'
<1> DEFINE v == page[p]
           w == [v EXCEPT !.answer = Answer]
<1>1. Rest' /\ UNCHANGED <<place, queries, ops, rows, writes, card>>
    BY RestStays DEF Reread, serverVars, Inv
<1>2. page' = [page EXCEPT ![p] = w]
    BY ViewIs DEF Reread
<1>3. ViewOK(Now, v) /\ v \in View
    BY ViewIs
<1> HIDE DEF v
<1>4. /\ w \in View /\ w.shown = v.shown /\ w.held = v.held /\ w.sending = v.sending
      /\ w.landed = v.landed /\ w.wrote = v.wrote /\ w.answer = Answer
    BY <1>3, AnswerIs DEF View
<1> HIDE DEF w
<1>5. ViewOK(Now, w)
    BY <1>3, <1>4, AnswerIs DEF ViewOK, Kept
<1> QED
    BY <1>1, <1>2, <1>5, PageQuiet

LEMMA ResyncedKeeps ==
  ASSUME Inv, NEW p \in Pages, Resynced(p)
  PROVE  Inv'
<1> DEFINE v == page[p]
           answer == v.answer
           held == IF v.held # Nothing /\ SettledOnServer(answer.shown, v.held)
                   THEN Nothing ELSE v.held
           w == [v EXCEPT !.latest = answer.latest, !.shown = answer.shown,
                          !.answer = Nothing, !.held = held]
<1>1. Rest' /\ UNCHANGED <<place, queries, ops, rows, writes, card>> /\ answer # Nothing
    BY RestStays DEF Resynced, serverVars, Inv
<1>2. ViewOK(Now, v) /\ v \in View
    BY ViewIs
<1>3. page' = [page EXCEPT ![p] = w]
    BY <1>2, ViewIs DEF Resynced, View
<1>4. held \in Held \cup {Nothing} /\ (held # Nothing => held = v.held)
    BY <1>2, ViewFields
<1>5. /\ answer.latest \in 0 .. MaxVersions /\ answer.shown \in Seq(Promotions)
      /\ AllShownOK(Now, answer.shown)
  <2>1. answer \in Answers
      BY <1>1, <1>2, ViewFields
  <2> QED
      BY <1>1, <1>2, <2>1, VersionsAre DEF Answers, ViewOK
<1>6. v.wrote => held # Nothing \/ \E i \in 1 .. Len(Now.rows) : IsApplied(Now.rows[i])
  <2> SUFFICES ASSUME v.wrote, v.held # Nothing, SettledOnServer(answer.shown, v.held)
               PROVE  \E i \in 1 .. Len(Now.rows) : IsApplied(Now.rows[i])
      BY <1>2 DEF ViewOK, Kept
  <2>1. v.held.patch.status \in {"done", "partial"}
      BY <1>2 DEF ViewOK, HeldOK, Fits
  <2> QED
      BY <1>5, <2>1, SettledIsLanded
<1> HIDE DEF v, held, answer
<1>7. /\ w \in View /\ w.shown = answer.shown /\ w.held = held /\ w.sending = v.sending
      /\ w.landed = v.landed /\ w.wrote = v.wrote /\ w.answer = Nothing
    BY <1>2, <1>4, <1>5 DEF View
<1> HIDE DEF w
<1>8. ViewOK(Now, w)
    BY <1>2, <1>4, <1>5, <1>6, <1>7 DEF ViewOK, Kept
<1> QED
    BY <1>1, <1>3, <1>8, PageQuiet

\* A page that is being loaded, and one that is open when the chat begins.
LEMMA NewViewIs ==
  ASSUME NEW answer \in Answers
  PROVE  /\ LET v == [NoView EXCEPT !.answer = answer]
            IN /\ v \in View /\ v.shown = <<>> /\ v.answer = answer
               /\ v.held = Nothing /\ v.sending = Nothing /\ v.wrote = FALSE
         /\ LET v == [NoView EXCEPT !.latest = 1]
            IN /\ v \in View /\ v.shown = <<>> /\ v.answer = Nothing
               /\ v.held = Nothing /\ v.sending = Nothing /\ v.wrote = FALSE
<1> DEFINE Any == [latest : 0 .. MaxVersions, shown : {<<>>}, held : {Nothing},
                   sending : {Nothing}, landed : {FALSE},
                   answer : Answers \cup {Nothing}, wrote : {FALSE}]
<1>1. NoView \in Any /\ 1 \in 0 .. MaxVersions
    BY VersionsAre DEF NoView
<1>2. <<>> \in Seq(Promotions)
    OBVIOUS
<1>3. \A v \in Any : /\ v \in View /\ v.shown = <<>>
                     /\ v.held = Nothing /\ v.sending = Nothing /\ v.wrote = FALSE
    BY <1>2 DEF View
<1>4. /\ [NoView EXCEPT !.answer = answer] \in Any
      /\ [NoView EXCEPT !.answer = answer].answer = answer
      /\ [NoView EXCEPT !.latest = 1] \in Any
      /\ [NoView EXCEPT !.latest = 1].answer = Nothing
    BY <1>1 DEF NoView
<1> QED
    BY <1>3, <1>4

LEMMA ReloadedKeeps ==
  ASSUME Inv, NEW p \in Pages, Reloaded(p)
  PROVE  Inv'
<1> DEFINE here == {c \in Cards : place[c].page = p}
           inserting == {d \in here : card[d].pc = "insert"}
           v == [NoView EXCEPT !.answer = Answer]
<1>1. /\ UNCHANGED <<place, proposed, queries, ops, rows, writes>>
      /\ page' = [page EXCEPT ![p] = v]
      /\ card' = [c \in Cards |-> IF c \in here THEN Idle ELSE card[c]]
      /\ orphans' = orphans \cup {card[c].ver : c \in inserting}
    BY DEF Reloaded
<1>2. \A c \in inserting : card[c].ver \in Versions
    BY FlowIs DEF FlowOK, Saving
<1>3. Rest'
    BY <1>1, <1>2 DEF Inv, Rest
<1>4. World(Now') /\ Grows(Now, Now')
    BY <1>1, ServersRest, NowIs DEF Inv
<1>5. Keys'
    BY <1>1, <1>4, KeysStay DEF Inv
<1>6. \A c \in Cards : card'[c] = Idle \/ card'[c] = card[c]
    BY <1>1
<1> HIDE DEF here
<1>7. Idle.pc \notin Owning
    BY IdleIs, NotOwning
<1>8. Taken' \subseteq Taken
    BY <1>6, <1>7 DEF Taken
<1>9. Spares(Now, Now')
    BY <1>8, NowIs DEF Spares
<1>10. ASSUME NEW d \in Cards PROVE FlowOK(Now', OwnCard(d)', card'[d])
  <2>1. OwnCard(d)' = OwnCard(d)
      BY <1>1 DEF OwnCard
  <2>2. FlowOK(Now', OwnCard(d), Idle)
      BY <1>4, StopsOK
  <2>3. FlowOK(Now, OwnCard(d), card[d])
      BY FlowIs
  <2>4. card[d].pc \in Owning => Now'.rows[card[d].row].status = "pending"
      BY <1>1, OwnedRows, NowIs DEF Inv
  <2>5. FlowOK(Now', OwnCard(d), card[d])
      BY <1>4, <1>9, <2>3, <2>4, FlowStays DEF Inv
  <2> QED
      BY <1>6, <2>1, <2>2, <2>5
<1>11. \A c, d \in Cards :
         card'[c].pc \in Owning /\ card'[d].pc \in Owning /\ card'[c].row = card'[d].row
           => c = d
    BY <1>6, <1>7 DEF Inv, Flows
<1>12. card' = [c \in Cards |-> card'[c]]
    BY <1>1
<1>13. Flows'
    BY <1>10, <1>11, <1>12 DEF Flows
<1>14. ViewOK(Now', v)
  <2>1. /\ v \in View /\ v.shown = <<>> /\ v.answer = Answer /\ v.held = Nothing
        /\ v.sending = Nothing /\ v.wrote = FALSE
      BY AnswerIs, NewViewIs
  <2> HIDE DEF v
  <2>2. ViewOK(Now, v)
      BY <2>1, AnswerIs DEF ViewOK, AllShownOK
  <2> QED
      BY <1>4, <1>9, <2>2, ViewStays DEF Inv
<1> HIDE DEF v
<1>15. Views'
    BY <1>1, <1>4, <1>9, <1>14, ViewsMove DEF Inv
<1> QED
    BY <1>3, <1>4, <1>5, <1>13, <1>15 DEF Inv

\* A step of the node, or of somebody who edits the query there.
LEMMA NodeMoves ==
  ASSUME Inv, Rest', UNCHANGED <<place, rows, page, card>>,
         World(Now'), Grows(Now, Now'), Keys'
  PROVE  Inv'
<1>1. Flows' /\ Spares(Now, Now')
    BY FlowsStay, OwnedRows DEF Inv
<1>2. Views'
    BY <1>1, ViewsStay DEF Inv
<1> QED
    BY <1>1, <1>2 DEF Inv

LEMMA OrphanInsertedKeeps ==
  ASSUME Inv, NEW v \in orphans, OrphanInserted(v)
  PROVE  Inv'
<1>1. v \in Versions /\ Rest' /\ UNCHANGED <<place, rows, page, card>>
    BY DEF OrphanInserted, Inv, Rest
<1>2. CASE ops[v] = 0
  <2>1. WriteQuery(v)
      BY <1>2 DEF OrphanInserted
  <2> QED
      BY <1>1, <1>2, <2>1, WriteQueryIs, NodeMoves DEF Inv
<1>3. CASE ops[v] # 0
  <2>1. UNCHANGED <<queries, ops, writes>>
      BY <1>3 DEF OrphanInserted
  <2>2. World(Now') /\ Grows(Now, Now')
      BY <1>1, <2>1, ServersRest, NowIs DEF Inv
  <2>3. Keys'
      BY <2>1, <2>2, KeysStay DEF Inv
  <2> QED
      BY <1>1, <2>2, <2>3, NodeMoves
<1> QED
    BY <1>2, <1>3

LEMMA EditedOutsideKeeps ==
  ASSUME Inv, NEW q \in DOMAIN queries, EditedOutside(q)
  PROVE  Inv'
<1> DEFINE old == queries[q]
           w == writes + 1
           new == [old EXCEPT !.stamp = w]
<1>1. Rest' /\ UNCHANGED <<place, ops, rows, page, card>>
    BY RestStays DEF EditedOutside, Inv
<1>2. q \in 1 .. Len(queries) /\ old \in Query /\ w \in Nat /\ w = writes + 1
    BY Lengths, NowIs DEF Inv
<1>3. queries' = [queries EXCEPT ![q] = new] /\ writes' = w
    BY DEF EditedOutside
<1> HIDE DEF old, w
<1>4. new \in Query /\ new.key = old.key /\ new.stamp = w /\ new.had = old.had
    BY <1>2 DEF Query
<1> HIDE DEF new
<1>5. /\ World(Now) /\ q \in 1 .. Len(Now.queries) /\ new.key = Now.queries[q].key
      /\ new.stamp = Now.writes + 1 /\ Now.queries[q].had \subseteq new.had
      /\ Now'.rows = Now.rows /\ Now'.queries = [Now.queries EXCEPT ![q] = new]
      /\ Now'.writes = Now.writes + 1
    BY <1>1, <1>2, <1>3, <1>4, NowIs DEF Inv, old
<1>6. /\ World(Now') /\ Grows(Now, Now') /\ Len(Now'.queries) = Len(Now.queries)
      /\ \A r \in 1 .. Len(Now.queries) : Now'.queries[r].key = Now.queries[r].key
    BY <1>4, <1>5, QueryWritten
<1>7. Keys'
    BY <1>1, <1>6, KeysStay, NowIs DEF Inv
<1> QED
    BY <1>1, <1>6, <1>7, NodeMoves
-----------------------------------------------------------------------------
(* The theorems.                                                             *)

LEMMA InvInit == Init => Inv
<1> SUFFICES ASSUME Init PROVE Inv
    OBVIOUS
<1>1. Rest
    BY VersionsAre DEF Init, Rest
<1>2. rows = <<>> /\ queries = <<>> /\ writes = 0
    BY DEF Init
<1>3. World(Now)
    BY <1>2, NowIs DEF World
<1>4. Keys
    BY <1>2 DEF Init, Keys
<1>5. Flows
  <2>1. card = [c \in Cards |-> Idle]
      BY DEF Init
  <2>2. FlowOK(Now, TRUE, Idle) /\ FlowOK(Now, FALSE, Idle) /\ Idle.pc \notin Owning
      BY <1>3, StopsOK, NotOwning
  <2>3. \A c \in Cards : OwnCard(c) \in BOOLEAN
      BY DEF OwnCard
  <2>4. \A c \in Cards : FlowOK(Now, OwnCard(c), card[c])
      BY <2>1, <2>2, <2>3
  <2> QED
      BY <2>1, <2>2, <2>4 DEF Flows
<1>6. Views
  <2> DEFINE v == [NoView EXCEPT !.latest = 1]
  <2>1. page = [p \in Pages |-> v]
      BY DEF Init
  <2>2. /\ v \in View /\ v.shown = <<>> /\ v.held = Nothing /\ v.sending = Nothing
        /\ v.wrote = FALSE /\ v.answer = Nothing
    <3>1. [latest |-> 1, shown |-> <<>>] \in Answers
        BY VersionsAre DEF Answers
    <3> QED
        BY <3>1, NewViewIs
  <2> HIDE DEF v
  <2>3. ViewOK(Now, v)
      BY <2>2 DEF ViewOK, AllShownOK
  <2> QED
      BY <2>1, <2>3 DEF Views
<1> QED
    BY <1>1, <1>3, <1>4, <1>5, <1>6 DEF Inv

LEMMA InvNext == Inv /\ [Next]_vars => Inv'
<1> SUFFICES ASSUME Inv, [Next]_vars PROVE Inv'
    OBVIOUS
<1>1. ASSUME NEW c \in Cards, Click(c)
      PROVE  Inv'
    BY <1>1, SaveClickedKeeps, BoardClickedKeeps, UpdateClickedKeeps, KeepClickedKeeps,
       RetryChartClickedKeeps DEF Click
<1>2. ASSUME NEW c \in Cards, SaveStep(c)
      PROVE  Inv'
    BY <1>2, SaveRecordedKeeps, CreateLookedKeeps, InsertedKeeps, CreateFailedKeeps,
       DrawnKeeps, ReadBackKeeps, SaveFinishedKeeps, SaveAbandonedKeeps DEF SaveStep
<1>3. ASSUME NEW c \in Cards, UpdateStep(c)
      PROVE  Inv'
    BY <1>3, FetchedKeeps, UpdateRecordedKeeps, PostedKeeps, PostRefusedKeeps,
       UpdateAbandonedKeeps, UpdateToldKeeps, UpdateFinishedKeeps, ChartFailureToldKeeps
    DEF UpdateStep
<1>4. ASSUME NEW p \in Pages, PageStep(p)
      PROVE  Inv'
    BY <1>4, RetrySyncClickedKeeps, RetrySyncLandedKeeps, RetrySyncAnsweredKeeps,
       RetrySyncFailedKeeps, ProposedKeeps, RereadKeeps, ResyncedKeeps,
       ReloadedKeeps DEF PageStep
<1>5. CASE UNCHANGED vars
  <2>1. Rest' /\ UNCHANGED <<place, rows, queries, ops, writes, page, card>>
      BY <1>5, RestStays DEF Inv, vars, serverVars
  <2>2. World(Now') /\ Grows(Now, Now')
      BY <2>1, ServersRest, NowIs DEF Inv
  <2>3. Keys'
      BY <2>1, <2>2, KeysStay DEF Inv
  <2> QED
      BY <2>1, <2>2, <2>3, NodeMoves
<1> QED
    BY <1>1, <1>2, <1>3, <1>4, <1>5, RedrawnKeeps, RedrawToldKeeps, OrphanInsertedKeeps,
       EditedOutsideKeeps DEF Next

LEMMA InvAlways == Spec => []Inv
BY InvInit, InvNext, PTL DEF Spec

\* Every promotion, wherever it is kept, is of a row, of a version and of a query
\* that exist; one that is held names the query it was saved as, and so does every
\* row the api keeps as done or partial.
THEOREM TypeAlways == Spec => []TypeOK
<1>1. Inv => TypeOK
  <2> SUFFICES ASSUME Inv PROVE TypeOK
      OBVIOUS
  <2>1. \A a \in Promotions : Known(Now, a) => PromotionOK(a)
      BY NowIs DEF Known, PromotionOK
  <2>2. /\ DOMAIN rows = 1 .. Len(rows) /\ \A i \in 1 .. Len(rows) : rows[i] \in Promotions
      BY Lengths, NowIs DEF Inv
  <2>3. \A i \in DOMAIN rows :
          /\ PromotionOK(rows[i]) /\ rows[i].id = i
          /\ rows[i].status \in {"done", "partial"} => rows[i].target # 0
      BY <2>1, <2>2, NowIs DEF Inv, World, Honest
  <2>4. ASSUME NEW p \in Pages
        PROVE  /\ page[p].latest \in 0 .. MaxVersions
               /\ page[p].answer # Nothing => page[p].answer.latest \in Versions
               /\ \A i \in DOMAIN page[p].shown : PromotionOK(page[p].shown[i])
               /\ \A held \in {page[p].held, page[p].sending} \ {Nothing} :
                    PromotionOK(held.promotion) /\ IsApplied(held.promotion)
    <3>1. ViewOK(Now, page[p]) /\ page[p] \in View
        BY ViewIs
    <3>2. \A i \in DOMAIN page[p].shown : PromotionOK(page[p].shown[i])
      <4>1. page[p].shown \in Seq(Promotions)
          BY <3>1, ViewFields
      <4>2. \A i \in DOMAIN page[p].shown : page[p].shown[i] \in Promotions
          BY <4>1
      <4> QED
          BY <2>1, <3>1, <4>2 DEF ViewOK, AllShownOK, ShownOK
    <3>3. ASSUME NEW held \in {page[p].held, page[p].sending} \ {Nothing}
          PROVE  PromotionOK(held.promotion) /\ IsApplied(held.promotion)
      <4>1. HeldOK(Now, held) /\ held \in Held
          BY <3>1, ViewFields DEF ViewOK
      <4>2. held.promotion \in Promotions
          BY <4>1 DEF Held
      <4> QED
          BY <2>1, <4>1, <4>2 DEF HeldOK
    <3> QED
        BY <3>1, <3>2, <3>3, ViewFields DEF Answers
  <2>5. \A c \in Cards : card[c].row \in 0 .. Len(rows) /\ card[c].query \in 0 .. Len(queries)
      BY FlowIs, NowIs DEF FlowOK
  <2> QED
      BY <2>3, <2>4, <2>5 DEF TypeOK, Inv, Rest, Keys
<1> QED
    BY <1>1, InvAlways, PTL

\* However often a save is repeated and by whom, whatever is lost on the way, and
\* however late a create the browser gave up on comes in: the key the node keeps
\* lets a version of the draft make one query.
THEOREM OneQueryAlways == Spec => []OneQueryPerVersion
<1>1. Inv => OneQueryPerVersion
  <2> SUFFICES ASSUME Inv PROVE OneQueryPerVersion
      OBVIOUS
  <2>1. DOMAIN queries = 1 .. Len(queries)
      BY Lengths, NowIs DEF Inv
  <2> QED
      BY <2>1 DEF Inv, Keys, OneQueryPerVersion
<1> QED
    BY <1>1, InvAlways, PTL

\* Whatever promotion a page shows as applied or holds, and whatever row the api
\* keeps as done, names a query that was written with that version: no patch that
\* is retried, reordered or lost makes "Saved as query N" a lie.
THEOREM SavedAlways == Spec => []SavedIsWritten
<1>1. Inv => SavedIsWritten
  <2> SUFFICES ASSUME Inv PROVE SavedIsWritten
      OBVIOUS
  <2>1. \A a : Honest(Now, a) /\ IsApplied(a) => a.ver \in queries[a.target].had
      BY NowIs DEF Honest, IsApplied, Had
  <2>2. \A i \in DOMAIN rows : Honest(Now, rows[i])
      BY RowsAreShown DEF ShownOK
  <2>3. \A p \in Pages : \A i \in DOMAIN page[p].shown : Honest(Now, page[p].shown[i])
      BY ViewIs DEF ViewOK, AllShownOK, ShownOK
  <2>4. \A p \in Pages : page[p].held # Nothing => Honest(Now, page[p].held.promotion)
      BY ViewIs DEF ViewOK, HeldOK
  <2>5. ASSUME NEW a, a \in Said PROVE Honest(Now, a)
    <3>1. CASE a \in {rows[i] : i \in DOMAIN rows}
        BY <2>2, <3>1
    <3>2. CASE a \in UNION {{page[p].shown[i] : i \in DOMAIN page[p].shown} : p \in Pages}
      <4>1. PICK p \in Pages : a \in {page[p].shown[i] : i \in DOMAIN page[p].shown}
          BY <3>2
      <4> QED
          BY <2>3, <4>1
    <3>3. CASE a \in {page[p].held.promotion : p \in {q \in Pages : page[q].held # Nothing}}
        BY <2>4, <3>3
    <3> QED
        BY <2>5, <3>1, <3>2, <3>3 DEF Said
  <2> QED
      BY <2>1, <2>5 DEF SavedIsWritten
<1> QED
    BY <1>1, InvAlways, PTL

\* What a page has saved is not lost between it and the api while it lives: it
\* holds the patch that says so, or the api's rows say that the draft is saved,
\* through every retry, every other card and every reading of the conversation,
\* however old its answer.
THEOREM KeptAlways == Spec => []WrittenIsKept
<1>1. Inv => WrittenIsKept
  <2> SUFFICES ASSUME Inv, NEW p \in Pages, page[p].wrote, page[p].held = Nothing
               PROVE  LastApplied(rows) # Nothing
      BY DEF WrittenIsKept
  <2>1. \E i \in 1 .. Len(rows) : IsApplied(rows[i])
      BY ViewIs, NowIs DEF ViewOK, Kept
  <2>2. rows \in Seq(Promotions) /\ DOMAIN rows = 1 .. Len(rows)
      BY RowsAreShown
  <2> QED
      BY <2>1, <2>2, LastIs
<1> QED
    BY <1>1, InvAlways, PTL
=============================================================================
