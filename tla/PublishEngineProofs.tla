------------------------- MODULE PublishEngineProofs -------------------------
(***************************************************************************)
(* What holds of PublishEngine for every number of publishers and           *)
(* administrators, every set of declarations and every bound.               *)
(***************************************************************************)
EXTENDS PublishEngine, WellFoundedInduction, TLAPS

USE DEF Versions

-----------------------------------------------------------------------------
(* Lemmas about the operators that read and write publish_attempt.           *)

\* current_artifact answers with the id of a row that carries the pointer.
LEMMA ServedIdIsCurrent ==
    ASSUME Current # {}
    PROVE  \E a \in Current : ServedId = a.id
  BY DEF ServedId

\* The row read as served has an id the table could hold.
LEMMA ServedIdType ==
    ASSUME TypeOK
    PROVE  ServedId \in Nat
  <1>1. CASE Current = {}
    BY <1>1 DEF ServedId
  <1>2. CASE Current # {}
    <2>1. PICK a \in Current : ServedId = a.id
      BY <1>2, ServedIdIsCurrent
    <2> QED
      BY <2>1 DEF TypeOK, Attempt, Current
  <1> QED
    BY <1>1, <1>2

\* Clearing a pointer leaves rows of the table's type.
LEMMA ClearedType ==
    ASSUME NEW rows, rows \subseteq Attempt, NEW id
    PROVE  Cleared(rows, id) \subseteq Attempt
  BY DEF Cleared, Attempt

\* The row an attempt records has the table's type.
LEMMA RowOfType ==
    ASSUME TypeOK, NEW p \in Publishers, NEW r \in Nat,
           NEW decision \in {"published", "blocked", "failed"},
           pub[p].version \in Versions
    PROVE  RowOf(p, r, decision) \in Attempt
  BY DEF TypeOK, RowOf, Attempt, Publisher

-----------------------------------------------------------------------------
(* Type correctness.                                                         *)

Typed == TypeOK /\ Underway

\* Before the first request the tables and the processes have their types.
LEMMA TypedInit == Init => Typed
  BY DEF Init, Typed, TypeOK, Underway, Binding, IdlePublisher, IdleAdmin,
         Publisher, Admin

\* Every step of an attempt, a request or PostgreSQL keeps the types.
LEMMA TypedNext == Typed /\ [Next]_vars => Typed'
  <1> SUFFICES ASSUME Typed, [Next]_vars PROVE Typed'
    OBVIOUS
  <1>a. TypeOK /\ Underway
    BY DEF Typed
  <1>b. /\ pub \in [Publishers -> Publisher]
        /\ adm \in [Admins -> Admin]
    BY <1>a DEF TypeOK
  <1>c. /\ feed.revision \in Nat
        /\ feed.declares \in Declarations \cup {Undeclared}
        /\ lastId \in Nat
        /\ lastId + 1 \in Nat
        /\ attempts \subseteq Attempt
        /\ ServedId \in Nat
    BY <1>a, ServedIdType DEF TypeOK, Binding
  <1>0. CASE UNCHANGED vars
    BY <1>0, <1>a DEF vars, Underway, Typed, TypeOK
  <1>1. CASE Quiet
    BY <1>1, <1>a DEF Quiet, vars, Underway, Typed, TypeOK
  <1>2. ASSUME NEW p \in Publishers, Begin(p) PROVE Typed'
    <2>1. pub'[p] \in Publisher
      <3>1. PICK v \in Versions :
              pub'[p] = [IdlePublisher EXCEPT !.pc = "begun", !.version = v,
                           !.revision = feed.revision, !.declares = feed.declares]
        BY <1>2, <1>b DEF Begin
      <3>2. [IdlePublisher EXCEPT !.pc = "begun", !.version = v,
               !.revision = feed.revision, !.declares = feed.declares]
              \in Publisher
        BY <1>c DEF Publisher, IdlePublisher
      <3> QED
        BY <3>1, <3>2
    <2>2. /\ pub'[p].pc # "idle" => pub'[p].version # 0
          /\ pub'[p].pc \in {"failing", "recording"} =>
               pub'[p].decision \in {"failed", "blocked"}
      BY <1>2, <1>a, <1>b DEF Begin, Underway, Publisher, IdlePublisher
    <2>3. /\ pub' \in [Publishers -> Publisher]
          /\ \A q \in Publishers : q # p => pub'[q] = pub[q]
      BY <1>2, <1>b, <2>1 DEF Begin
    <2> QED
      BY <1>2, <1>a, <1>c, <2>2, <2>3
         DEF Begin, Underway, Typed, TypeOK
  <1>3. ASSUME NEW p \in Publishers, CannotBuild(p) PROVE Typed'
    <2>1. pub'[p] \in Publisher
      <3>1. pub[p] \in Publisher
        BY <1>b
      <3>2. pub'[p] = [pub[p] EXCEPT !.pc = "failing", !.decision = "failed"]
        BY <1>3, <1>b DEF CannotBuild
      <3> QED
        BY <1>c, <3>1, <3>2 DEF Publisher
    <2>2. /\ pub'[p].pc # "idle" => pub'[p].version # 0
          /\ pub'[p].pc \in {"failing", "recording"} =>
               pub'[p].decision \in {"failed", "blocked"}
      BY <1>3, <1>a, <1>b DEF CannotBuild, Underway, Publisher
    <2>3. /\ pub' \in [Publishers -> Publisher]
          /\ \A q \in Publishers : q # p => pub'[q] = pub[q]
      BY <1>3, <1>b, <2>1 DEF CannotBuild
    <2> QED
      BY <1>3, <1>a, <1>c, <2>2, <2>3
         DEF CannotBuild, Underway, Typed, TypeOK
  <1>4. ASSUME NEW p \in Publishers, ReadServed(p) PROVE Typed'
    <2>1. pub'[p] \in Publisher
      <3>1. pub[p] \in Publisher
        BY <1>b
      <3>2. pub'[p] = [pub[p] EXCEPT !.pc = "served", !.served = ServedId]
        BY <1>4, <1>b DEF ReadServed
      <3> QED
        BY <1>c, <3>1, <3>2 DEF Publisher
    <2>2. /\ pub'[p].pc # "idle" => pub'[p].version # 0
          /\ pub'[p].pc \in {"failing", "recording"} =>
               pub'[p].decision \in {"failed", "blocked"}
      BY <1>4, <1>a, <1>b DEF ReadServed, Underway, Publisher
    <2>3. /\ pub' \in [Publishers -> Publisher]
          /\ \A q \in Publishers : q # p => pub'[q] = pub[q]
      BY <1>4, <1>b, <2>1 DEF ReadServed
    <2> QED
      BY <1>4, <1>a, <1>c, <2>2, <2>3
         DEF ReadServed, Underway, Typed, TypeOK
  <1>5. ASSUME NEW p \in Publishers, CheckOrder(p) PROVE Typed'
    <2>1. pub'[p] \in Publisher
      <3>1. pub[p] \in Publisher
        BY <1>b
      <3>2. \/ pub'[p] = [pub[p] EXCEPT !.pc = "recording", !.decision = "failed"]
            \/ pub'[p] = [pub[p] EXCEPT !.pc = "producing"]
        BY <1>5, <1>b DEF CheckOrder
      <3>3. CASE pub'[p] = [pub[p] EXCEPT !.pc = "recording", !.decision = "failed"]
        BY <1>c, <3>1, <3>3 DEF Publisher
      <3>4. CASE pub'[p] = [pub[p] EXCEPT !.pc = "producing"]
        BY <1>c, <3>1, <3>4 DEF Publisher
      <3> QED
        BY <3>2, <3>3, <3>4
    <2>2. /\ pub'[p].pc # "idle" => pub'[p].version # 0
          /\ pub'[p].pc \in {"failing", "recording"} =>
               pub'[p].decision \in {"failed", "blocked"}
      BY <1>5, <1>a, <1>b DEF CheckOrder, Underway, Publisher
    <2>3. /\ pub' \in [Publishers -> Publisher]
          /\ \A q \in Publishers : q # p => pub'[q] = pub[q]
      BY <1>5, <1>b, <2>1 DEF CheckOrder
    <2> QED
      BY <1>5, <1>a, <1>c, <2>2, <2>3
         DEF CheckOrder, Underway, Typed, TypeOK
  <1>6. ASSUME NEW p \in Publishers, Produce(p) PROVE Typed'
    <2>1. pub'[p] \in Publisher
      BY <1>6, <1>b, <1>c DEF Produce, Publisher
    <2>2. /\ pub'[p].pc # "idle" => pub'[p].version # 0
          /\ pub'[p].pc \in {"failing", "recording"} =>
               pub'[p].decision \in {"failed", "blocked"}
      BY <1>6, <1>a, <1>b DEF Produce, Underway, Publisher
    <2>3. /\ pub' \in [Publishers -> Publisher]
          /\ \A q \in Publishers : q # p => pub'[q] = pub[q]
      BY <1>6, <1>b, <2>1 DEF Produce
    <2> QED
      BY <1>6, <1>a, <1>c, <2>2, <2>3
         DEF Produce, Underway, Typed, TypeOK
  <1>7. ASSUME NEW p \in Publishers, ChooseRetirement(p) PROVE Typed'
    <2>1. pub'[p] \in Publisher
      <3>1. \E r \in Nat : pub'[p] = [pub[p] EXCEPT !.pc = "recording",
                                                    !.retires = r]
        BY <1>7, <1>b, <1>c DEF ChooseRetirement
      <3>2. pub[p] \in Publisher
        BY <1>b
      <3> QED
        BY <3>1, <3>2 DEF Publisher
    <2>2. /\ pub'[p].pc # "idle" => pub'[p].version # 0
          /\ pub'[p].pc \in {"failing", "recording"} =>
               pub'[p].decision \in {"failed", "blocked"}
      BY <1>7, <1>a, <1>b DEF ChooseRetirement, Underway, Publisher
    <2>3. /\ pub' \in [Publishers -> Publisher]
          /\ \A q \in Publishers : q # p => pub'[q] = pub[q]
      BY <1>7, <1>b, <2>1 DEF ChooseRetirement
    <2> QED
      BY <1>7, <1>a, <1>c, <2>2, <2>3
         DEF ChooseRetirement, Underway, Typed, TypeOK
  <1>8. ASSUME NEW p \in Publishers, LockBinding(p) PROVE Typed'
    <2>1. pub'[p] \in Publisher
      <3>1. pub[p] \in Publisher
        BY <1>b
      <3>2. \/ pub'[p] = [pub[p] EXCEPT !.pc = "locked"]
            \/ pub'[p] = [pub[p] EXCEPT !.pc = "recording", !.decision = "failed"]
        BY <1>8, <1>b DEF LockBinding
      <3>3. CASE pub'[p] = [pub[p] EXCEPT !.pc = "locked"]
        BY <1>c, <3>1, <3>3 DEF Publisher
      <3>4. CASE pub'[p] = [pub[p] EXCEPT !.pc = "recording", !.decision = "failed"]
        BY <1>c, <3>1, <3>4 DEF Publisher
      <3> QED
        BY <3>2, <3>3, <3>4
    <2>2. /\ pub'[p].pc # "idle" => pub'[p].version # 0
          /\ pub'[p].pc \in {"failing", "recording"} =>
               pub'[p].decision \in {"failed", "blocked"}
      BY <1>8, <1>a, <1>b DEF LockBinding, Underway, Publisher
    <2>3. /\ pub' \in [Publishers -> Publisher]
          /\ \A q \in Publishers : q # p => pub'[q] = pub[q]
      BY <1>8, <1>b, <2>1 DEF LockBinding
    <2> QED
      BY <1>8, <1>a, <1>c, <2>2, <2>3
         DEF LockBinding, Underway, Typed, TypeOK
  <1>9. ASSUME NEW p \in Publishers, MovePointer(p) PROVE Typed'
    <2>1. pub'[p] \in Publisher
      <3>1. pub'[p] = [pub[p] EXCEPT !.pc = "pruning", !.row = lastId + 1]
        BY <1>9, <1>b DEF MovePointer
      <3>2. pub[p] \in Publisher
        BY <1>b
      <3> QED
        BY <1>c, <3>1, <3>2 DEF Publisher
    <2>2. /\ pub'[p].pc # "idle" => pub'[p].version # 0
          /\ pub'[p].pc \in {"failing", "recording"} =>
               pub'[p].decision \in {"failed", "blocked"}
      BY <1>9, <1>a, <1>b DEF MovePointer, Underway, Publisher
    <2>3. /\ pub' \in [Publishers -> Publisher]
          /\ \A q \in Publishers : q # p => pub'[q] = pub[q]
      BY <1>9, <1>b, <2>1 DEF MovePointer
    <2>4. RowOf(p, pub[p].revision, "published") \in Attempt
      BY <1>9, <1>a, <1>b, <1>c, RowOfType DEF MovePointer, Publisher, Underway
    <2>5. attempts' \subseteq Attempt
      BY <1>9, <1>c, <2>4, ClearedType DEF MovePointer
    <2> QED
      BY <1>9, <1>a, <1>c, <2>2, <2>3, <2>5
         DEF MovePointer, Underway, Typed, TypeOK
  <1>10. ASSUME NEW p \in Publishers, Superseded(p) PROVE Typed'
    <2>1. pub'[p] \in Publisher
      <3>1. pub[p] \in Publisher
        BY <1>b
      <3>2. pub'[p] = [pub[p] EXCEPT !.pc = "superseded", !.decision = "failed"]
        BY <1>10, <1>b DEF Superseded
      <3> QED
        BY <1>c, <3>1, <3>2 DEF Publisher
    <2>2. /\ pub'[p].pc # "idle" => pub'[p].version # 0
          /\ pub'[p].pc \in {"failing", "recording"} =>
               pub'[p].decision \in {"failed", "blocked"}
      BY <1>10, <1>a, <1>b DEF Superseded, Underway, Publisher
    <2>3. /\ pub' \in [Publishers -> Publisher]
          /\ \A q \in Publishers : q # p => pub'[q] = pub[q]
      BY <1>10, <1>b, <2>1 DEF Superseded
    <2> QED
      BY <1>10, <1>a, <1>c, <2>2, <2>3
         DEF Superseded, Underway, Typed, TypeOK
  <1>11. ASSUME NEW p \in Publishers, RecordSuperseded(p) PROVE Typed'
    <2>1. pub'[p] \in Publisher
      BY <1>11, <1>b, <1>c DEF RecordSuperseded, Publisher
    <2>2. /\ pub'[p].pc # "idle" => pub'[p].version # 0
          /\ pub'[p].pc \in {"failing", "recording"} =>
               pub'[p].decision \in {"failed", "blocked"}
      BY <1>11, <1>a, <1>b DEF RecordSuperseded, Underway, Publisher
    <2>3. /\ pub' \in [Publishers -> Publisher]
          /\ \A q \in Publishers : q # p => pub'[q] = pub[q]
      BY <1>11, <1>b, <2>1 DEF RecordSuperseded
    <2>4. RowOf(p, feed.revision, "failed") \in Attempt
      BY <1>11, <1>a, <1>b, <1>c, RowOfType DEF RecordSuperseded, Publisher, Underway
    <2>5. attempts' \subseteq Attempt
      BY <1>11, <1>c, <2>4 DEF RecordSuperseded
    <2> QED
      BY <1>11, <1>a, <1>c, <2>2, <2>3, <2>5
         DEF RecordSuperseded, Underway, Typed, TypeOK
  <1>12. ASSUME NEW p \in Publishers, Record(p) PROVE Typed'
    <2>1. pub'[p] \in Publisher
      <3>1. pub'[p] = [pub[p] EXCEPT !.pc = "pruning", !.row = lastId + 1,
                                     !.retires = 0]
        BY <1>12, <1>b DEF Record
      <3>2. pub[p] \in Publisher /\ lastId + 1 \in Nat
        BY <1>b, <1>c
      <3> DEFINE moved == [pub[p] EXCEPT !.pc = "pruning", !.row = lastId + 1]
      <3>3. moved \in Publisher
        BY <3>2 DEF Publisher
      <3>4. [moved EXCEPT !.retires = 0] \in Publisher
        <4> HIDE DEF moved
        <4> QED
          BY <3>3 DEF Publisher
      <3>5. pub'[p] = [moved EXCEPT !.retires = 0]
        BY <3>1, <3>2 DEF Publisher
      <3> QED
        BY <3>4, <3>5
    <2>2. /\ pub'[p].pc # "idle" => pub'[p].version # 0
          /\ pub'[p].pc \in {"failing", "recording"} =>
               pub'[p].decision \in {"failed", "blocked"}
      BY <1>12, <1>a, <1>b DEF Record, Underway, Publisher
    <2>3. /\ pub' \in [Publishers -> Publisher]
          /\ \A q \in Publishers : q # p => pub'[q] = pub[q]
      BY <1>12, <1>b, <2>1 DEF Record
    <2>4. RowOf(p, pub[p].revision, pub[p].decision) \in Attempt
      BY <1>12, <1>a, <1>b, <1>c, RowOfType DEF Record, Publisher, Underway
    <2>5. attempts' \subseteq Attempt
      BY <1>12, <1>c, <2>4, ClearedType DEF Record
    <2> QED
      BY <1>12, <1>a, <1>c, <2>2, <2>3, <2>5
         DEF Record, Underway, Typed, TypeOK
  <1>13. ASSUME NEW p \in Publishers, Prune(p) PROVE Typed'
    <2>1. pub'[p] \in Publisher
      BY <1>13, <1>b, <1>c DEF Prune, Publisher
    <2>2. /\ pub'[p].pc # "idle" => pub'[p].version # 0
          /\ pub'[p].pc \in {"failing", "recording"} =>
               pub'[p].decision \in {"failed", "blocked"}
      BY <1>13, <1>a, <1>b DEF Prune, Underway, Publisher
    <2>3. /\ pub' \in [Publishers -> Publisher]
          /\ \A q \in Publishers : q # p => pub'[q] = pub[q]
      BY <1>13, <1>b, <2>1 DEF Prune
    <2> QED
      BY <1>13, <1>a, <1>c, <2>2, <2>3
         DEF Prune, Underway, Typed, TypeOK
  <1>28. ASSUME NEW p \in Publishers, PruneRefused(p) PROVE Typed'
    <2>1. pub'[p] \in Publisher
      <3>1. pub[p] \in Publisher
        BY <1>b
      <3>2. \/ pub'[p] = [pub[p] EXCEPT !.pc = "recorded",
                            !.revision = feed.revision, !.declares = feed.declares]
            \/ pub'[p] = [pub[p] EXCEPT !.pc = "unanswered"]
        BY <1>28, <1>b DEF PruneRefused
      <3>3. CASE pub'[p] = [pub[p] EXCEPT !.pc = "recorded",
                              !.revision = feed.revision, !.declares = feed.declares]
        BY <1>c, <3>1, <3>3 DEF Publisher
      <3>4. CASE pub'[p] = [pub[p] EXCEPT !.pc = "unanswered"]
        BY <3>1, <3>4 DEF Publisher
      <3> QED
        BY <3>2, <3>3, <3>4
    <2>2. /\ pub'[p].pc # "idle" => pub'[p].version # 0
          /\ pub'[p].pc \in {"failing", "recording"} =>
               pub'[p].decision \in {"failed", "blocked"}
      BY <1>28, <1>a, <1>b DEF PruneRefused, Underway, Publisher
    <2>3. /\ pub' \in [Publishers -> Publisher]
          /\ \A q \in Publishers : q # p => pub'[q] = pub[q]
      BY <1>28, <1>b, <2>1 DEF PruneRefused
    <2> QED
      BY <1>28, <1>a, <1>c, <2>2, <2>3
         DEF PruneRefused, Underway, Typed, TypeOK
  <1>14. ASSUME NEW p \in Publishers, Answer(p) PROVE Typed'
    <2>1. pub'[p] \in Publisher
      <3>1. CASE ReadBack(p) = {}
        <4>1. pub'[p] = [pub[p] EXCEPT !.pc = "unanswered"]
          BY <1>14, <1>b, <3>1 DEF Answer
        <4> QED
          BY <1>b, <4>1 DEF Publisher
      <3>2. CASE ReadBack(p) # {}
        <4>1. PICK a \in ReadBack(p) :
                pub'[p] = [pub[p] EXCEPT !.pc = "answered", !.answer = a.id]
          BY <1>14, <1>b, <3>2 DEF Answer
        <4>2. a.id \in Nat
          BY <1>c DEF Attempt, ReadBack
        <4>3. pub[p] \in Publisher
          BY <1>b
        <4> QED
          BY <4>1, <4>2, <4>3 DEF Publisher
      <3> QED
        BY <3>1, <3>2
    <2>2. /\ pub'[p].pc # "idle" => pub'[p].version # 0
          /\ pub'[p].pc \in {"failing", "recording"} =>
               pub'[p].decision \in {"failed", "blocked"}
      BY <1>14, <1>a, <1>b DEF Answer, Underway, Publisher
    <2>3. /\ pub' \in [Publishers -> Publisher]
          /\ \A q \in Publishers : q # p => pub'[q] = pub[q]
      BY <1>14, <1>b, <2>1 DEF Answer
    <2> QED
      BY <1>14, <1>a, <1>c, <2>2, <2>3
         DEF Answer, Underway, Typed, TypeOK
  <1>15. ASSUME NEW p \in Publishers, Return(p) PROVE Typed'
    <2>1. pub'[p] \in Publisher
      BY <1>15, <1>b, <1>c DEF Return, Publisher, IdlePublisher
    <2>2. /\ pub'[p].pc # "idle" => pub'[p].version # 0
          /\ pub'[p].pc \in {"failing", "recording"} =>
               pub'[p].decision \in {"failed", "blocked"}
      BY <1>15, <1>a, <1>b DEF Return, Underway, Publisher, IdlePublisher
    <2>3. /\ pub' \in [Publishers -> Publisher]
          /\ \A q \in Publishers : q # p => pub'[q] = pub[q]
      BY <1>15, <1>b, <2>1 DEF Return
    <2> QED
      BY <1>15, <1>a, <1>c, <2>2, <2>3
         DEF Return, Underway, Typed, TypeOK
  <1>16. ASSUME NEW p \in Publishers, Die(p) PROVE Typed'
    <2>1. pub'[p] \in Publisher
      BY <1>16, <1>b, <1>c DEF Die, Publisher, IdlePublisher
    <2>2. /\ pub'[p].pc # "idle" => pub'[p].version # 0
          /\ pub'[p].pc \in {"failing", "recording"} =>
               pub'[p].decision \in {"failed", "blocked"}
      BY <1>16, <1>a, <1>b DEF Die, Underway, Publisher, IdlePublisher
    <2>3. /\ pub' \in [Publishers -> Publisher]
          /\ \A q \in Publishers : q # p => pub'[q] = pub[q]
      BY <1>16, <1>b, <2>1 DEF Die
    <2> QED
      BY <1>16, <1>a, <1>c, <2>2, <2>3
         DEF Die, Underway, Typed, TypeOK
  <1>17. ASSUME NEW p \in Publishers, DeadlockVictim(p) PROVE Typed'
    <2>1. pub'[p] \in Publisher
      BY <1>17, <1>b, <1>c DEF DeadlockVictim, Publisher
    <2>2. /\ pub'[p].pc # "idle" => pub'[p].version # 0
          /\ pub'[p].pc \in {"failing", "recording"} =>
               pub'[p].decision \in {"failed", "blocked"}
      BY <1>17, <1>a, <1>b DEF DeadlockVictim, Underway, Publisher
    <2>3. /\ pub' \in [Publishers -> Publisher]
          /\ \A q \in Publishers : q # p => pub'[q] = pub[q]
      BY <1>17, <1>b, <2>1 DEF DeadlockVictim
    <2> QED
      BY <1>17, <1>a, <1>c, <2>2, <2>3
         DEF DeadlockVictim, Underway, Typed, TypeOK
  <1>18. ASSUME NEW a \in Admins, CreateCheck(a) PROVE Typed'
    <2>1. adm'[a] \in Admin
      <3>1. PICK d \in Declarations :
              adm'[a] = [IdleAdmin EXCEPT !.pc = "creating", !.body = d]
        BY <1>18, <1>b DEF CreateCheck
      <3>2. [IdleAdmin EXCEPT !.pc = "creating", !.body = d] \in Admin
        BY DEF Admin, IdleAdmin
      <3> QED
        BY <3>1, <3>2
    <2> QED
      BY <1>18, <1>a, <1>c, <2>1 DEF CreateCheck, Underway, Typed, TypeOK
  <1>19. ASSUME NEW a \in Admins, CreateInsert(a) PROVE Typed'
    <2>1. adm'[a] \in Admin
      BY <1>19, <1>b, <1>c DEF CreateInsert, Admin, IdleAdmin
    <2> QED
      BY <1>19, <1>a, <1>c, <2>1 DEF CreateInsert, Underway, Typed, TypeOK,
          Admin, IdleAdmin, Binding
  <1>20. ASSUME NEW a \in Admins, EditLoad(a) PROVE Typed'
    <2>1. adm'[a] \in Admin
      <3>1. PICK d \in Declarations :
              adm'[a] = [IdleAdmin EXCEPT !.pc = "editing",
                           !.revision = feed.revision,
                           !.loaded = feed.declares, !.body = d]
        BY <1>20, <1>b DEF EditLoad
      <3>2. [IdleAdmin EXCEPT !.pc = "editing", !.revision = feed.revision,
               !.loaded = feed.declares, !.body = d] \in Admin
        BY <1>c DEF Admin, IdleAdmin
      <3> QED
        BY <3>1, <3>2
    <2> QED
      BY <1>20, <1>a, <1>c, <2>1 DEF EditLoad, Underway, Typed, TypeOK
  <1>21. ASSUME NEW a \in Admins, EditWrite(a) PROVE Typed'
    <2>1. adm'[a] \in Admin
      BY <1>21, <1>b, <1>c DEF EditWrite, Admin, IdleAdmin
    <2> QED
      BY <1>21, <1>a, <1>c, <2>1 DEF EditWrite, Underway, Typed, TypeOK
  <1>22. ASSUME NEW a \in Admins, EditCommit(a) PROVE Typed'
    <2>1. adm'[a] \in Admin
      BY <1>22, <1>b, <1>c DEF EditCommit, Admin, IdleAdmin
    <2> QED
      BY <1>22, <1>a, <1>c, <2>1, ClearedType
          DEF EditCommit, Underway, Typed, TypeOK, Admin, IdleAdmin, Binding
  <1>23. ASSUME NEW a \in Admins, DeleteLoad(a) PROVE Typed'
    <2>1. adm'[a] \in Admin
      BY <1>23, <1>b, <1>c DEF DeleteLoad, Admin, IdleAdmin
    <2> QED
      BY <1>23, <1>a, <1>c, <2>1 DEF DeleteLoad, Underway, Typed, TypeOK
  <1>24. ASSUME NEW a \in Admins, DeleteClear(a) PROVE Typed'
    <2>1. adm'[a] \in Admin
      BY <1>24, <1>b, <1>c DEF DeleteClear, Admin
    <2> QED
      BY <1>24, <1>a, <1>c, <2>1 DEF DeleteClear, Underway, Typed, TypeOK
  <1>25. ASSUME NEW a \in Admins, DeleteCommit(a) PROVE Typed'
    <2>1. adm'[a] \in Admin
      BY <1>25, <1>b, <1>c DEF DeleteCommit, Admin, IdleAdmin
    <2> QED
      BY <1>25, <1>a, <1>c, <2>1, ClearedType
          DEF DeleteCommit, Underway, Typed, TypeOK, Admin, IdleAdmin, NoFeed, Binding
  <1>26. ASSUME NEW a \in Admins, GiveUp(a) PROVE Typed'
    <2>1. adm'[a] \in Admin
      BY <1>26, <1>b, <1>c DEF GiveUp, Admin, IdleAdmin
    <2> QED
      BY <1>26, <1>a, <1>c, <2>1 DEF GiveUp, Underway, Typed, TypeOK
  <1>27. ASSUME NEW a \in Admins, DeadlockedRequest(a) PROVE Typed'
    <2>1. adm'[a] \in Admin
      BY <1>27, <1>b, <1>c DEF DeadlockedRequest, Admin, IdleAdmin
    <2> QED
      BY <1>27, <1>a, <1>c, <2>1 DEF DeadlockedRequest, Underway, Typed, TypeOK
  <1> QED
    BY <1>0, <1>1, <1>2, <1>3, <1>4, <1>5, <1>6, <1>7, <1>8, <1>9, <1>10,
       <1>11, <1>12, <1>13, <1>14, <1>15, <1>16, <1>17, <1>18, <1>19,
       <1>20, <1>21, <1>22, <1>23, <1>24, <1>25, <1>26, <1>27, <1>28
       DEF Next, Attempting, Requesting

\* Every reachable state has the types of the tables and of the two kinds of
\* process, and an attempt under way has a version and a verdict to record.
THEOREM TypeCorrect == Spec => []TypeOK
  <1>1. Spec => []Typed
    BY TypedInit, TypedNext, PTL DEF Spec
  <1>2. Typed => TypeOK
    BY DEF Typed
  <1> QED
    BY <1>1, <1>2, PTL

-----------------------------------------------------------------------------
(* What a commit makes of the table.                                         *)

SameAttempt(a, b) == /\ a.id = b.id
                     /\ a.revision = b.revision
                     /\ a.version = b.version
                     /\ a.decision = b.decision

\* clear_the_pointer touches nothing but the pointer: every row after it is a
\* row before it, and one that still carries the pointer is untouched.
LEMMA ClearedRow ==
    ASSUME NEW rows, rows \subseteq Attempt, NEW id, NEW b \in Cleared(rows, id)
    PROVE  \E a \in rows : /\ SameAttempt(a, b)
                           /\ b.current => a.current /\ a.id # id /\ a = b
  <1>1. PICK a \in rows :
          b = IF a.id = id THEN [a EXCEPT !.current = FALSE] ELSE a
    BY DEF Cleared
  <1>2. a \in Attempt
    OBVIOUS
  <1>3. CASE a.id = id
    BY <1>1, <1>2, <1>3 DEF Attempt, SameAttempt
  <1>4. CASE a.id # id
    BY <1>1, <1>4 DEF SameAttempt
  <1> QED
    BY <1>3, <1>4

\* ... and no row is lost.
LEMMA ClearedKeeps ==
    ASSUME NEW rows, rows \subseteq Attempt, NEW id, NEW a \in rows
    PROVE  \E b \in Cleared(rows, id) : SameAttempt(a, b)
  <1> DEFINE b == IF a.id = id THEN [a EXCEPT !.current = FALSE] ELSE a
  <1>1. b \in Cleared(rows, id)
    BY DEF Cleared
  <1>2. SameAttempt(a, b)
    BY DEF SameAttempt, Attempt
  <1> QED
    BY <1>1, <1>2

\* Clearing keeps attempt_id a key.
LEMMA ClearedKeys ==
    ASSUME NEW rows, rows \subseteq Attempt, NEW id,
           \A a, b \in rows : a.id = b.id => a = b,
           NEW c \in Cleared(rows, id), NEW d \in Cleared(rows, id), c.id = d.id
    PROVE  c = d
  <1>1. PICK a \in rows :
          c = IF a.id = id THEN [a EXCEPT !.current = FALSE] ELSE a
    BY DEF Cleared
  <1>2. PICK b \in rows :
          d = IF b.id = id THEN [b EXCEPT !.current = FALSE] ELSE b
    BY DEF Cleared
  <1>3. a.id = c.id /\ b.id = d.id
    BY <1>1, <1>2 DEF Attempt
  <1>4. a = b
    BY <1>3
  <1> QED
    BY <1>1, <1>2, <1>4

\* A step leaves the table alone, prunes it, clears a pointer, or clears one
\* and adds the row of an attempt under the next id.
Untouched == attempts' = attempts /\ lastId' = lastId
Pruned == attempts' \subseteq attempts /\ lastId' = lastId
Taken(id) == attempts' = Cleared(attempts, id) /\ lastId' = lastId
Added(id, row) == /\ attempts' = Cleared(attempts, id) \cup {row}
                  /\ row.id = lastId + 1
                  /\ lastId' = lastId + 1

\* Whatever becomes of the table, attempt_id stays a key bounded by the sequence.
LEMMA KeysPruned ==
    ASSUME Typed, IdsAreKeys, Pruned
    PROVE  IdsAreKeys'
  BY DEF IdsAreKeys, Pruned

\* Taking the pointer off a row leaves attempt_id a key.
LEMMA KeysTaken ==
    ASSUME Typed, IdsAreKeys, NEW id, Taken(id)
    PROVE  IdsAreKeys'
  <1>1. attempts \subseteq Attempt
    BY DEF Typed, TypeOK
  <1>2. \A a, b \in attempts' : a.id = b.id => a = b
    BY <1>1, ClearedKeys DEF IdsAreKeys, Taken
  <1>3. \A b \in attempts' : \E a \in attempts : SameAttempt(a, b)
    BY <1>1, ClearedRow DEF Taken
  <1> QED
    BY <1>2, <1>3 DEF IdsAreKeys, Taken, SameAttempt

\* An INSERT that takes the next number of the sequence leaves attempt_id a key.
LEMMA KeysAdded ==
    ASSUME Typed, IdsAreKeys, NEW id, NEW row, Added(id, row)
    PROVE  IdsAreKeys'
  <1>1. attempts \subseteq Attempt /\ lastId \in Nat
    BY DEF Typed, TypeOK
  <1>2. \A a, b \in Cleared(attempts, id) : a.id = b.id => a = b
    BY <1>1, ClearedKeys DEF IdsAreKeys
  <1>3. \A b \in Cleared(attempts, id) : b.id \in Nat /\ b.id =< lastId
    <2>1. \A b \in Cleared(attempts, id) :
            \E a \in attempts : SameAttempt(a, b)
      BY <1>1, ClearedRow
    <2> QED
      BY <1>1, <2>1 DEF IdsAreKeys, SameAttempt, Attempt
  <1>4. \A b \in Cleared(attempts, id) : b.id # lastId + 1
    BY <1>1, <1>3
  <1> QED
    BY <1>1, <1>2, <1>3, <1>4 DEF Added, IdsAreKeys

\* No row has id 0, so an attempt with nothing to clear clears nothing.
LEMMA ClearedNothing ==
    ASSUME NEW rows, rows \subseteq Attempt
    PROVE  Cleared(rows, 0) = rows
  BY DEF Cleared, Attempt

\* A row is added with the pointer only by a publish, and only when no row but
\* the one it clears had it.
Published(id, row) ==
    row.current => row.decision = "published" /\ \A a \in Current : a.id = id

\* A step leaves the table alone, takes the pointer off rows, prunes it, or
\* inserts one row under the next id, which carries the pointer only alone.
LEMMA TableSteps ==
    ASSUME Typed, [Next]_vars
    PROVE  \/ Untouched
           \/ Pruned /\ \E p \in Publishers : Prune(p)
           \/ \E id : Taken(id)
           \/ \E id, row : Added(id, row) /\ Published(id, row)
  <1>2. ASSUME NEW p \in Publishers, MovePointer(p)
        PROVE  \E id, row : Added(id, row) /\ Published(id, row)
    <2> DEFINE row == RowOf(p, pub[p].revision, "published")
    <2>1. Added(pub[p].served, row)
      BY <1>2 DEF MovePointer, Added, RowOf
    <2>2. Published(pub[p].served, row)
      BY <1>2 DEF MovePointer, Published, RowOf, Collides
    <2> QED
      BY <2>1, <2>2
  <1>3. ASSUME NEW p \in Publishers, RecordSuperseded(p), Exists
        PROVE  \E id, row : Added(id, row) /\ Published(id, row)
    <2> DEFINE row == RowOf(p, feed.revision, "failed")
    <2>1. Cleared(attempts, 0) = attempts
      BY ClearedNothing DEF Typed, TypeOK
    <2>2. Added(0, row)
      BY <1>3, <2>1 DEF RecordSuperseded, Added, RowOf
    <2>3. Published(0, row)
      BY DEF Published, RowOf
    <2> QED
      BY <2>2, <2>3
  <1>4. ASSUME NEW p \in Publishers, Record(p)
        PROVE  \E id, row : Added(id, row) /\ Published(id, row)
    <2> DEFINE row == RowOf(p, pub[p].revision, pub[p].decision)
    <2>1. Added(pub[p].retires, row)
      BY <1>4 DEF Record, Added, RowOf
    <2>2. pub[p].decision # "published"
      BY <1>4 DEF Typed, Underway, Record
    <2>3. Published(pub[p].retires, row)
      BY <2>2 DEF Published, RowOf
    <2> QED
      BY <2>1, <2>3
  <1>5. ASSUME NEW p \in Publishers, Prune(p) PROVE Pruned
    BY <1>5 DEF Prune, Pruned
  <1>6. ASSUME NEW a \in Admins, EditCommit(a) PROVE \E id : Taken(id)
    BY <1>6 DEF EditCommit, Taken
  <1>7. ASSUME NEW a \in Admins, DeleteCommit(a) PROVE \E id : Taken(id)
    BY <1>7 DEF DeleteCommit, Taken
  <1>8. ASSUME NEW p \in Publishers,
               \/ Begin(p) \/ CannotBuild(p) \/ ReadServed(p) \/ CheckOrder(p)
               \/ Produce(p) \/ ChooseRetirement(p) \/ LockBinding(p)
               \/ Superseded(p) \/ (RecordSuperseded(p) /\ ~Exists)
               \/ PruneRefused(p) \/ Answer(p) \/ Return(p) \/ Die(p)
               \/ DeadlockVictim(p)
        PROVE  Untouched
    BY <1>8 DEF Begin, CannotBuild, ReadServed, CheckOrder, Produce,
       ChooseRetirement, LockBinding, Superseded, RecordSuperseded,
       PruneRefused, Answer, Return, Die, DeadlockVictim, Untouched
  <1>9. ASSUME NEW a \in Admins,
               \/ CreateCheck(a) \/ CreateInsert(a) \/ EditLoad(a)
               \/ EditWrite(a) \/ DeleteLoad(a) \/ DeleteClear(a)
               \/ DeadlockedRequest(a) \/ GiveUp(a)
        PROVE  Untouched
    BY <1>9 DEF CreateCheck, CreateInsert, EditLoad, EditWrite, DeleteLoad,
       DeleteClear, DeadlockedRequest, GiveUp, Untouched
  <1>10. CASE Quiet \/ UNCHANGED vars
    BY <1>10 DEF Quiet, vars, Untouched
  <1>11. CASE \E p \in Publishers :
                Begin(p) \/ Attempting(p) \/ DeadlockVictim(p) \/ Die(p)
    <2>1. PICK p \in Publishers :
            Begin(p) \/ Attempting(p) \/ DeadlockVictim(p) \/ Die(p)
      BY <1>11
    <2>2. CASE MovePointer(p) \/ Record(p) \/ (RecordSuperseded(p) /\ Exists)
      BY <1>2, <1>3, <1>4, <2>2
    <2>3. CASE ~(\/ MovePointer(p) \/ Record(p)
                 \/ (RecordSuperseded(p) /\ Exists))
      BY <1>5, <1>8, <2>1, <2>3 DEF Attempting
    <2> QED
      BY <2>2, <2>3
  <1>12. CASE \E a \in Admins :
                \/ CreateCheck(a) \/ EditLoad(a) \/ DeleteLoad(a)
                \/ Requesting(a) \/ DeadlockedRequest(a) \/ GiveUp(a)
    BY <1>6, <1>7, <1>9, <1>12 DEF Requesting
  <1> QED
    BY <1>10, <1>11, <1>12 DEF Next

-----------------------------------------------------------------------------
(* The pointer is on one row, and that row published.                        *)

TableIsSound == IdsAreKeys /\ OnePointer

\* The empty table is sound.
LEMMA TableInit == Init => TableIsSound
  BY DEF Init, TableIsSound, IdsAreKeys, OnePointer, Current

\* Every step keeps attempt_id a key and the pointer on one published row.
LEMMA TableNext == Typed /\ TableIsSound /\ [Next]_vars => TableIsSound'
  <1> SUFFICES ASSUME Typed, TableIsSound, [Next]_vars PROVE TableIsSound'
    OBVIOUS
  <1>1. attempts \subseteq Attempt
    BY DEF Typed, TypeOK
  <1>2. CASE Pruned \/ Untouched
    <2>0. Pruned
      BY <1>2 DEF Pruned, Untouched
    <2>1. IdsAreKeys'
      BY <2>0, KeysPruned DEF TableIsSound
    <2>2. OnePointer'
      BY <2>0 DEF TableIsSound, OnePointer, Pruned, Current
    <2> QED
      BY <2>1, <2>2 DEF TableIsSound
  <1>3. ASSUME NEW id, Taken(id) PROVE TableIsSound'
    <2>1. IdsAreKeys'
      BY <1>3, KeysTaken DEF TableIsSound
    <2>2. Current' \subseteq Current
      BY <1>1, <1>3, ClearedRow DEF Taken, Current
    <2> QED
      BY <2>1, <2>2 DEF TableIsSound, OnePointer
  <1>4. ASSUME NEW id, NEW row, Added(id, row), Published(id, row)
        PROVE  TableIsSound'
    <2>1. IdsAreKeys'
      BY <1>4, KeysAdded DEF TableIsSound
    <2>2. \A b \in Cleared(attempts, id) : b.current => b \in Current /\ b.id # id
      BY <1>1, ClearedRow DEF Current
    <2>3. CASE row.current
      <3>1. Current' = {row}
        BY <1>4, <2>2, <2>3 DEF Added, Published, Current
      <3> QED
        BY <1>4, <2>1, <2>3, <3>1 DEF TableIsSound, OnePointer, Published
    <2>4. CASE ~row.current
      <3>1. Current' \subseteq Current
        BY <1>4, <2>2, <2>4 DEF Added, Current
      <3> QED
        BY <2>1, <3>1 DEF TableIsSound, OnePointer
    <2> QED
      BY <2>3, <2>4
  <1> QED
    BY <1>2, <1>3, <1>4, TableSteps

\* The table is sound in every reachable state.
LEMMA TableAlways == Spec => [](Typed /\ TableIsSound)
  <1>1. Init => Typed /\ TableIsSound
    BY TypedInit, TableInit
  <1>2. (Typed /\ TableIsSound) /\ [Next]_vars => (Typed /\ TableIsSound)'
    BY TypedNext, TableNext
  <1> QED
    BY <1>1, <1>2, PTL DEF Spec

\* At most one artifact is on the air, and it is one that passed validation:
\* what the partial unique index and the order of run_attempt's writes promise,
\* for every interleaving of publishers, edits and deletes.
THEOREM OneArtifactOnTheAir == Spec => []OnePointer
  <1>1. TableIsSound => OnePointer
    BY DEF TableIsSound
  <1> QED
    BY <1>1, TableAlways, PTL

-----------------------------------------------------------------------------
(* Pruning never lowers what the ordering guard compares with.               *)

\* A bounded, non-empty set of naturals has a largest member.
LEMMA LargestBelow ==
    ASSUME NEW N \in Nat, NEW S, S \subseteq 0 .. N, S # {}
    PROVE  \E x \in S : \A y \in S : y =< x
  <1> DEFINE T == {N - x : x \in S}
             R == OpToRel(<, Nat)
  <1>1. T \subseteq Nat /\ T # {}
    <2>1. \A x \in S : N - x \in Nat
      OBVIOUS
    <2>2. PICK x \in S : TRUE
      OBVIOUS
    <2>3. N - x \in T
      BY <2>2
    <2> QED
      BY <2>1, <2>3
  <1>2. PICK t \in T : \A u \in T : <<u, t>> \notin R
    BY <1>1, NatLessThanWellFounded, WFMin, Zenon
  <1>3. \A u \in T : ~(u < t)
    BY <1>1, <1>2 DEF OpToRel
  <1>4. PICK x \in S : t = N - x
    BY <1>2
  <1>5. \A y \in S : y =< x
    <2> SUFFICES ASSUME NEW y \in S PROVE y =< x
      OBVIOUS
    <2>1. N - y \in T
      OBVIOUS
    <2>2. ~(N - y < N - x)
      BY <1>3, <1>4, <2>1
    <2>3. x \in Nat /\ y \in Nat
      OBVIOUS
    <2> HIDE DEF T, R
    <2> QED
      BY <2>2, <2>3
  <1> QED
    BY <1>5

\* Under every revision that has published, some row is the newest of it, and
\* so is one that a prune does not touch.
LEMMA SomeRowIsNewest ==
    ASSUME Typed, IdsAreKeys, NEW a \in attempts, a.decision = "published"
    PROVE  \E b \in attempts : /\ NewestOfItsRevision(b)
                               /\ b.revision = a.revision
                               /\ b.version >= a.version
  <1> DEFINE Lineage == {b \in attempts : /\ b.decision = "published"
                                          /\ b.revision = a.revision}
             Vs == {b.version : b \in Lineage}
  <1>1. attempts \subseteq Attempt /\ lastId \in Nat
    BY DEF Typed, TypeOK
  <1>2. Vs \subseteq 0 .. MaxVersion /\ Vs # {}
    BY <1>1, BoundsAssumption DEF Attempt
  <1>3. PICK v \in Vs : \A w \in Vs : w =< v
    BY <1>2, BoundsAssumption, LargestBelow, Zenon
  <1> DEFINE Ids == {b.id : b \in {c \in Lineage : c.version = v}}
  <1>4. Ids \subseteq 0 .. lastId
    BY <1>1 DEF IdsAreKeys, Attempt
  <1>5. Ids # {}
    BY <1>3
  <1>6. PICK i \in Ids : \A j \in Ids : j =< i
    BY <1>1, <1>4, <1>5, LargestBelow, Zenon
  <1>7. PICK b \in Lineage : b.version = v /\ b.id = i
    BY <1>6
  <1>8. NewestOfItsRevision(b)
    <2> SUFFICES ASSUME NEW c \in attempts, c.decision = "published",
                        c.revision = b.revision
                 PROVE  \/ c.version < b.version
                        \/ c.version = b.version /\ c.id =< b.id
      BY <1>7 DEF NewestOfItsRevision
    <2>1. c \in Lineage /\ c.version =< v
      BY <1>3, <1>7
    <2>2. c.version \in Nat /\ v \in Nat
      BY <1>1, <1>2 DEF Attempt
    <2>3. CASE c.version = v
      BY <1>6, <1>7, <2>1, <2>3
    <2>4. CASE c.version # v
      BY <1>7, <2>1, <2>2, <2>4
    <2> QED
      BY <2>3, <2>4
  <1>9. b.version >= a.version
    BY <1>1, <1>3, <1>7 DEF Attempt
  <1> QED
    BY <1>7, <1>8, <1>9

\* No step, a prune included, lowers what a published version is compared with.
LEMMA WatermarkStep ==
    ASSUME Typed, TableIsSound, [Next]_vars,
           NEW a \in attempts, a.decision = "published"
    PROVE  NotNewer(a.revision, a.version)'
  <1>1. attempts \subseteq Attempt
    BY DEF Typed, TypeOK
  <1>2. a.version \in Nat
    BY <1>1 DEF Attempt
  <1>3. ASSUME NEW b \in attempts', SameAttempt(a, b)
        PROVE  NotNewer(a.revision, a.version)'
    BY <1>2, <1>3 DEF NotNewer, SameAttempt
  <1>4. ASSUME NEW p \in Publishers, Prune(p)
        PROVE  NotNewer(a.revision, a.version)'
    <2>1. PICK b \in attempts : /\ NewestOfItsRevision(b)
                                /\ b.revision = a.revision
                                /\ b.version >= a.version
      BY SomeRowIsNewest DEF TableIsSound
    <2>2. b \in attempts'
      BY <1>4, <2>1 DEF Prune, Prunable
    <2>3. b.decision = "published"
      BY <2>1 DEF NewestOfItsRevision
    <2> QED
      BY <2>1, <2>2, <2>3 DEF NotNewer
  <1>5. ASSUME NEW id, Taken(id) PROVE NotNewer(a.revision, a.version)'
    BY <1>1, <1>3, <1>5, ClearedKeeps DEF Taken
  <1>6. ASSUME NEW id, NEW row, Added(id, row)
        PROVE  NotNewer(a.revision, a.version)'
    BY <1>1, <1>3, <1>6, ClearedKeeps DEF Added
  <1>7. CASE Untouched
    BY <1>3, <1>7 DEF SameAttempt, Untouched
  <1> QED
    BY <1>4, <1>5, <1>6, <1>7, TableSteps

\* Once a version has been published under a revision, every later attempt
\* under that revision with a version that is not newer is refused, whatever
\* retention deletes and whatever edits and deletes do to the pointer.
THEOREM WatermarkHolds == Spec => WatermarkNeverFalls
  <1>1. (Typed /\ TableIsSound) /\ [Next]_vars =>
          [\A a \in attempts : a.decision = "published" =>
             NotNewer(a.revision, a.version)']_vars
    BY WatermarkStep
  <1> QED
    BY <1>1, TableAlways, PTL DEF Spec, WatermarkNeverFalls

-----------------------------------------------------------------------------
(* A failing attempt retires only what it is entitled to.                    *)

\* Nobody has chosen a retirement yet.
LEMMA EntitledInit == Init => RetirementIsEntitled
  BY DEF Init, RetirementIsEntitled, IdlePublisher

\* A commit of anybody's leaves a retirement that was chosen entitled: the row
\* under its id keeps its revision and version, and a new row has a new id.
LEMMA EntitledRowKept ==
    ASSUME Typed, TableIsSound, [Next]_vars, NEW r \in Nat, r =< lastId,
           NEW b \in attempts', b.id = r
    PROVE  \E a \in attempts : SameAttempt(a, b)
  <1>1. attempts \subseteq Attempt /\ lastId \in Nat
    BY DEF Typed, TypeOK
  <1>2. CASE Untouched \/ Pruned
    BY <1>2 DEF Untouched, Pruned, SameAttempt
  <1>3. ASSUME NEW id, Taken(id) PROVE \E a \in attempts : SameAttempt(a, b)
    BY <1>1, <1>3, ClearedRow DEF Taken
  <1>4. ASSUME NEW id, NEW row, Added(id, row)
        PROVE  \E a \in attempts : SameAttempt(a, b)
    <2>1. b # row
      BY <1>1, <1>4 DEF Added
    <2> QED
      BY <1>1, <1>4, <2>1, ClearedRow DEF Added
  <1> QED
    BY <1>2, <1>3, <1>4, TableSteps

\* The sequence behind attempt_id never goes back.
LEMMA SequenceGrows ==
    ASSUME Typed, [Next]_vars
    PROVE  lastId \in Nat /\ lastId =< lastId'
  <1>1. lastId \in Nat
    BY DEF Typed, TypeOK
  <1> QED
    BY <1>1, TableSteps DEF Untouched, Pruned, Taken, Added

SameRetirement(q) == /\ pub'[q].retires = pub[q].retires
                     /\ pub'[q].revision = pub[q].revision
                     /\ pub'[q].version = pub[q].version
                     /\ pub'[q].declares = pub[q].declares
                     /\ pub'[q].pc = pub[q].pc

\* What a step does to one publisher's retirement: keeps it, drops it, or it is
\* the step that chooses it.
LEMMA PublisherSteps ==
    ASSUME Typed, RetirementIsEntitled, [Next]_vars, NEW q \in Publishers
    PROVE  SameRetirement(q) \/ pub'[q].retires = 0 \/ ChooseRetirement(q)
  <1>1. pub \in [Publishers -> Publisher]
    BY DEF Typed, TypeOK
  <1>2. CASE UNCHANGED pub
    BY <1>2 DEF SameRetirement
  <1>3. CASE Quiet \/ UNCHANGED vars
    BY <1>2, <1>3 DEF Quiet, vars
  <1>4. CASE \E a \in Admins :
               \/ CreateCheck(a) \/ EditLoad(a) \/ DeleteLoad(a)
               \/ Requesting(a) \/ DeadlockedRequest(a) \/ GiveUp(a)
    BY <1>2, <1>4 DEF CreateCheck, EditLoad, DeleteLoad, Requesting,
       DeadlockedRequest, GiveUp, CreateInsert, EditWrite, EditCommit,
       DeleteClear, DeleteCommit
  <1>5. ASSUME NEW p \in Publishers,
               Begin(p) \/ Attempting(p) \/ DeadlockVictim(p) \/ Die(p)
        PROVE  SameRetirement(q) \/ pub'[q].retires = 0 \/ ChooseRetirement(q)
    <2>1. CASE p # q
      <3>1. pub'[q] = pub[q]
        BY <1>1, <1>5, <2>1 DEF Begin, Attempting, DeadlockVictim, Die,
           CannotBuild, ReadServed, CheckOrder, Produce, ChooseRetirement,
           LockBinding, MovePointer, Superseded, RecordSuperseded, Record,
           Prune, PruneRefused, Answer, Return
      <3> QED
        BY <3>1 DEF SameRetirement
    <2>2. ASSUME Begin(q) \/ Return(q) \/ Die(q) PROVE pub'[q].retires = 0
      <3>1. CASE Begin(q)
        <4>1. PICK v \in Versions :
                pub'[q] = [IdlePublisher EXCEPT !.pc = "begun", !.version = v,
                             !.revision = feed.revision,
                             !.declares = feed.declares]
          BY <1>1, <3>1 DEF Begin
        <4> QED
          BY <4>1 DEF IdlePublisher
      <3>2. CASE Return(q) \/ Die(q)
        BY <1>1, <3>2 DEF Return, Die, IdlePublisher
      <3> QED
        BY <2>2, <3>1, <3>2
    <2>3. ASSUME Record(q) PROVE pub'[q].retires = 0
      BY <1>1, <2>3 DEF Record, Publisher
    <2>4. ASSUME pub'[q].retires = pub[q].retires, pub[q].pc # "recording"
          PROVE  pub'[q].retires = 0
      BY <2>4 DEF RetirementIsEntitled
    <2>5. ASSUME \/ CannotBuild(q) \/ ReadServed(q) \/ Produce(q)
                 \/ Superseded(q) \/ DeadlockVictim(q) \/ CheckOrder(q)
                 \/ LockBinding(q) \/ PruneRefused(q)
          PROVE  pub'[q].retires = 0
      BY <1>1, <2>4, <2>5 DEF CannotBuild, ReadServed, Produce, Superseded,
         DeadlockVictim, CheckOrder, LockBinding, PruneRefused, Publisher
    <2>6. ASSUME MovePointer(q) PROVE pub'[q].retires = 0
      BY <1>1, <2>4, <2>6 DEF MovePointer, Publisher
    <2>7. ASSUME Prune(q) PROVE pub'[q].retires = 0
      <3>1. pub'[q] = [pub[q] EXCEPT !.pc = "recorded"] /\ pub[q].pc = "pruning"
        BY <1>1, <2>7 DEF Prune
      <3>2. pub'[q].retires = pub[q].retires
        BY <1>1, <3>1 DEF Publisher
      <3> QED
        BY <2>4, <3>1, <3>2
    <2>8. ASSUME Answer(q) PROVE pub'[q].retires = 0
      <3>1. /\ pub[q].pc = "recorded"
            /\ \/ \E i : pub'[q] = [pub[q] EXCEPT !.pc = "answered", !.answer = i]
               \/ pub'[q] = [pub[q] EXCEPT !.pc = "unanswered"]
        BY <1>1, <2>8 DEF Answer
      <3>2. pub'[q].retires = pub[q].retires
        BY <1>1, <3>1 DEF Publisher
      <3> QED
        BY <2>4, <3>1, <3>2
    <2>9. ASSUME RecordSuperseded(q) PROVE pub'[q].retires = 0
      BY <1>1, <2>4, <2>9 DEF RecordSuperseded, Publisher
    <2> QED
      BY <1>5, <2>1, <2>2, <2>3, <2>5, <2>6, <2>7, <2>8, <2>9 DEF Attempting
  <1> QED
    BY <1>3, <1>4, <1>5 DEF Next

\* Every step keeps every chosen retirement entitled.
LEMMA EntitledNext ==
    ASSUME Typed, TableIsSound, RetirementIsEntitled, [Next]_vars
    PROVE  RetirementIsEntitled'
  <1> SUFFICES ASSUME NEW q \in Publishers, pub'[q].retires # 0
               PROVE  /\ pub'[q].pc = "recording"
                      /\ pub'[q].retires =< lastId'
                      /\ pub'[q].declares \in Retiring
                      /\ \A b \in attempts' : b.id = pub'[q].retires =>
                           /\ b.revision = pub'[q].revision
                           /\ b.version =< pub'[q].version
    BY DEF RetirementIsEntitled
  <1>1. attempts \subseteq Attempt /\ lastId \in Nat /\ lastId =< lastId'
    BY SequenceGrows DEF Typed, TypeOK
  <1>2. lastId' \in Nat
    BY TypedNext DEF Typed, TypeOK
  <1>3. CASE SameRetirement(q)
    <2>1. /\ pub[q].pc = "recording"
          /\ pub[q].retires =< lastId
          /\ pub[q].declares \in Retiring
          /\ \A a \in attempts : a.id = pub[q].retires =>
               a.revision = pub[q].revision /\ a.version =< pub[q].version
      BY <1>3 DEF SameRetirement, RetirementIsEntitled
    <2>2. pub[q].retires \in Nat
      BY DEF Typed, TypeOK, Publisher
    <2>3. ASSUME NEW b \in attempts', b.id = pub[q].retires
          PROVE  b.revision = pub[q].revision /\ b.version =< pub[q].version
      <3>1. PICK a \in attempts : SameAttempt(a, b)
        BY <2>1, <2>2, <2>3, EntitledRowKept
      <3> QED
        BY <2>1, <2>3, <3>1 DEF SameAttempt
    <2> QED
      BY <1>1, <1>2, <1>3, <2>1, <2>2, <2>3 DEF SameRetirement
  <1>4. CASE ChooseRetirement(q)
    <2>1. pub \in [Publishers -> Publisher]
      BY DEF Typed, TypeOK
    <2>2. /\ pub'[q].pc = "recording"
          /\ pub'[q].retires = IF pub[q].declares \in Retiring /\ Entitled(q) # {}
                               THEN ServedId ELSE 0
          /\ pub'[q].revision = pub[q].revision
          /\ pub'[q].version = pub[q].version
          /\ pub'[q].declares = pub[q].declares
      BY <1>4, <2>1 DEF ChooseRetirement, Publisher
    <2>3. pub[q].declares \in Retiring /\ pub'[q].retires = ServedId
      BY <2>2
    <2>4. PICK a \in Entitled(q) : TRUE
      BY <2>2
    <2>5. a \in Current /\ ServedId = a.id
      BY <2>4, ServedIdIsCurrent DEF Entitled, TableIsSound, OnePointer
    <2>6. \A b \in attempts : b.id = ServedId => b = a
      BY <2>5 DEF TableIsSound, IdsAreKeys, Current
    <2>7. attempts' = attempts /\ lastId' = lastId
      BY <1>4 DEF ChooseRetirement
    <2>8. a.id =< lastId
      BY <2>5 DEF TableIsSound, IdsAreKeys, Current
    <2> QED
      BY <2>2, <2>3, <2>4, <2>5, <2>6, <2>7, <2>8 DEF Entitled
  <1> QED
    BY <1>3, <1>4, PublisherSteps

\* Whatever step takes the feed dark while an attempt moves on is that attempt's
\* record, and the row it clears is the one it was entitled to.
LEMMA RetirementStep ==
    ASSUME Typed, TableIsSound, RetirementIsEntitled, [Next]_vars,
           NEW p \in Publishers,
           pub[p].pc # "idle", pub'[p].pc # pub[p].pc, Current' = {},
           NEW a \in Current
    PROVE  /\ pub[p].declares \in Retiring
           /\ a.revision = pub[p].revision
           /\ a.version =< pub[p].version
  <1>1. attempts \subseteq Attempt /\ a \in attempts /\ a.current
    BY DEF Typed, TypeOK, Current
  <1>2. \A b \in attempts' : ~b.current
    BY DEF Current
  <1>3. ASSUME NEW q \in Publishers,
               \/ Begin(q) \/ CannotBuild(q) \/ ReadServed(q) \/ CheckOrder(q)
               \/ Produce(q) \/ ChooseRetirement(q) \/ LockBinding(q)
               \/ Superseded(q) \/ PruneRefused(q) \/ Answer(q)
               \/ Return(q) \/ Die(q) \/ DeadlockVictim(q)
        PROVE  FALSE
    <2>1. attempts' = attempts
      BY <1>3 DEF Begin, CannotBuild, ReadServed, CheckOrder, Produce,
         ChooseRetirement, LockBinding, Superseded, PruneRefused, Answer,
         Return, Die, DeadlockVictim
    <2> QED
      BY <1>1, <1>2, <2>1
  <1>4. ASSUME NEW q \in Publishers, MovePointer(q) PROVE FALSE
    <2>1. RowOf(q, pub[q].revision, "published") \in attempts'
      BY <1>4 DEF MovePointer
    <2>2. RowOf(q, pub[q].revision, "published").current
      BY DEF RowOf
    <2> QED
      BY <1>2, <2>1, <2>2
  <1>5. ASSUME NEW q \in Publishers, RecordSuperseded(q) \/ Prune(q)
        PROVE  FALSE
    <2>1. a \in attempts'
      BY <1>1, <1>5 DEF RecordSuperseded, Prune, Prunable
    <2> QED
      BY <1>1, <1>2, <2>1
  <1>6. ASSUME NEW q \in Publishers, Record(q)
        PROVE  q = p /\ a.id = pub[q].retires
    <2>1. q = p
      BY <1>6 DEF Record, Typed, TypeOK
    <2>2. CASE a.id # pub[q].retires
      <3>1. a \in Cleared(attempts, pub[q].retires)
        BY <1>1, <2>2 DEF Cleared
      <3> QED
        BY <1>1, <1>2, <1>6, <3>1 DEF Record
    <2> QED
      BY <2>1, <2>2
  <1>7. ASSUME UNCHANGED pub PROVE FALSE
    BY <1>7
  <1>8. ASSUME NEW d \in Admins,
               \/ CreateCheck(d) \/ EditLoad(d) \/ DeleteLoad(d)
               \/ Requesting(d) \/ DeadlockedRequest(d) \/ GiveUp(d)
        PROVE  FALSE
    BY <1>7, <1>8 DEF CreateCheck, EditLoad, DeleteLoad, Requesting,
       DeadlockedRequest, GiveUp, CreateInsert, EditWrite, EditCommit,
       DeleteClear, DeleteCommit
  <1>9. ASSUME Quiet \/ UNCHANGED vars PROVE FALSE
    BY <1>7, <1>9 DEF Quiet, vars
  <1>10. Record(p) /\ a.id = pub[p].retires
    <2>1. PICK q \in Publishers :
            Begin(q) \/ Attempting(q) \/ DeadlockVictim(q) \/ Die(q)
      BY <1>8, <1>9 DEF Next
    <2>2. Record(q)
      BY <1>3, <1>4, <1>5, <2>1 DEF Attempting
    <2> QED
      BY <1>6, <2>2
  <1>11. a.id # 0
    BY <1>1 DEF Attempt
  <1> QED
    BY <1>1, <1>10, <1>11 DEF RetirementIsEntitled

\* An attempt that does not publish never takes down an artifact of another
\* revision or a newer one, however long it ran and whatever was published,
\* edited or deleted meanwhile, and none at all under a binding that keeps its
\* last artifact.
THEOREM OnlyEntitledRetirement == Spec => FailureRetiresOnlyItsOwn
  <1>1. Init => RetirementIsEntitled
    BY EntitledInit
  <1>2. (Typed /\ TableIsSound) /\ RetirementIsEntitled /\ [Next]_vars =>
          RetirementIsEntitled'
    BY EntitledNext
  <1>3. (Typed /\ TableIsSound) /\ RetirementIsEntitled /\ [Next]_vars =>
          [\A p \in Publishers :
             (pub[p].pc # "idle" /\ pub'[p].pc # pub[p].pc /\ Current' = {}) =>
                \A a \in Current :
                    /\ pub[p].declares \in Retiring
                    /\ a.revision = pub[p].revision
                    /\ a.version =< pub[p].version]_vars
    BY RetirementStep
  <1> QED
    BY <1>1, <1>2, <1>3, TableAlways, PTL DEF Spec, FailureRetiresOnlyItsOwn

-----------------------------------------------------------------------------
(* Whoever holds the binding's lock is in the transaction that took it.      *)

\* A step of one publisher, as the others and the administrators see it.
StepOf(q) == /\ feed' = feed /\ adm' = adm
             /\ pub' \in [Publishers -> Publisher]
             /\ \A p \in Publishers : p # q => pub'[p] = pub[p]

\* Every step of an attempt is one of three kinds: it neither takes nor frees
\* the binding's lock, it leaves the transaction that may hold it, or it is the
\* locked re-read.
LEMMA PublisherAndLock ==
    ASSUME Typed, LockIsOwned, NEW q \in Publishers,
           Begin(q) \/ Attempting(q) \/ DeadlockVictim(q) \/ Die(q),
           pub' \in [Publishers -> Publisher]
    PROVE  /\ StepOf(q)
           /\ \/ /\ lock' = lock
                 /\ pub[q].pc \notin {"locked", "recording"}
                 /\ pub'[q].pc # "locked"
              \/ /\ lock' = IF lock = q \/ pub[q].pc = "locked"
                            THEN Nobody ELSE lock
                 /\ pub'[q].pc \notin {"locked", "recording"}
              \/ LockBinding(q)
  <1>1. pub \in [Publishers -> Publisher]
    BY DEF Typed, TypeOK
  <1>2. StepOf(q)
    BY <1>1 DEF StepOf, Begin, Attempting, DeadlockVictim, Die, CannotBuild,
       ReadServed, CheckOrder, Produce, ChooseRetirement, LockBinding,
       MovePointer, Superseded, RecordSuperseded, Record, Prune, PruneRefused,
       Answer, Return
  <1>3. ASSUME \/ Begin(q) \/ CannotBuild(q) \/ ReadServed(q) \/ CheckOrder(q)
               \/ Produce(q) \/ ChooseRetirement(q) \/ RecordSuperseded(q)
               \/ Prune(q) \/ PruneRefused(q) \/ Answer(q) \/ Return(q)
        PROVE  /\ lock' = lock
               /\ pub[q].pc \notin {"locked", "recording"}
               /\ pub'[q].pc # "locked"
    <2>1. CASE Begin(q)
      BY <1>1, <2>1 DEF Begin, IdlePublisher
    <2>2. CASE Answer(q)
      <3>1. \/ \E i : pub'[q] = [pub[q] EXCEPT !.pc = "answered", !.answer = i]
            \/ pub'[q] = [pub[q] EXCEPT !.pc = "unanswered"]
        BY <1>1, <2>2 DEF Answer
      <3>2. pub'[q].pc \in {"answered", "unanswered"}
        BY <1>1, <3>1 DEF Publisher
      <3> QED
        BY <2>2, <3>2 DEF Answer
    <2>3. CASE CannotBuild(q) \/ ReadServed(q) \/ CheckOrder(q) \/ Produce(q)
      BY <1>1, <2>3 DEF CannotBuild, ReadServed, CheckOrder, Produce, Publisher
    <2>4. CASE ChooseRetirement(q) \/ RecordSuperseded(q)
      BY <1>1, <2>4 DEF ChooseRetirement, RecordSuperseded, Publisher
    <2>5. CASE Prune(q) \/ PruneRefused(q) \/ Return(q)
      BY <1>1, <2>5 DEF Prune, PruneRefused, Return, Publisher, IdlePublisher
    <2> QED
      BY <1>3, <2>1, <2>2, <2>3, <2>4, <2>5
  <1>4. ASSUME \/ MovePointer(q) \/ Superseded(q) \/ Record(q)
               \/ DeadlockVictim(q) \/ Die(q)
        PROVE  pub'[q].pc \notin {"locked", "recording"}
    BY <1>1, <1>4 DEF MovePointer, Superseded, Record, DeadlockVictim, Die,
       Publisher, IdlePublisher
  <1>5. ASSUME MovePointer(q) \/ Superseded(q) \/ DeadlockVictim(q)
        PROVE  lock' = Nobody /\ pub[q].pc = "locked"
    BY <1>5 DEF MovePointer, Superseded, DeadlockVictim
  <1>6. ASSUME Record(q)
        PROVE  lock' = IF lock = q \/ pub[q].pc = "locked" THEN Nobody ELSE lock
    BY <1>6 DEF Record
  <1>7. ASSUME Die(q)
        PROVE  lock' = IF lock = q \/ pub[q].pc = "locked" THEN Nobody ELSE lock
    BY <1>7 DEF Die, LockIsOwned
  <1> QED
    BY <1>2, <1>3, <1>4, <1>5, <1>6, <1>7 DEF Attempting

\* Every step of a request is one of five kinds: it holds no lock before or
\* after, it creates the binding, it takes the lock, it leaves the transaction
\* that may hold it, or it deletes a binding nobody has locked.
LEMMA RequestAndLock ==
    ASSUME Typed, LockIsOwned, NEW a \in Admins,
           \/ CreateCheck(a) \/ EditLoad(a) \/ DeleteLoad(a)
           \/ Requesting(a) \/ DeadlockedRequest(a) \/ GiveUp(a)
    PROVE  /\ pub' = pub
           /\ \A b \in Admins : b # a => adm'[b] = adm[b]
           /\ \/ /\ lock' = lock /\ feed' = feed
                 /\ adm[a].pc # "offair" /\ adm'[a].pc # "offair"
              \/ /\ lock' = lock /\ lock = Nobody
                 /\ adm[a].pc # "offair" /\ adm'[a].pc # "offair"
              \/ /\ lock = Nobody /\ lock' = a /\ feed' = feed /\ Exists
                 /\ adm'[a].pc = "offair"
              \/ /\ lock' = (IF lock = a THEN Nobody ELSE lock) /\ feed' = feed
                 /\ adm'[a].pc # "offair"
              \/ /\ lock = a /\ lock' = Nobody
                 /\ adm'[a].pc # "offair"
  <1>1. adm \in [Admins -> Admin] /\ a # Nobody
    BY ActorsAssumption DEF Typed, TypeOK
  <1>2. pub' = pub /\ \A b \in Admins : b # a => adm'[b] = adm[b]
    BY <1>1 DEF CreateCheck, EditLoad, DeleteLoad, Requesting,
       DeadlockedRequest, GiveUp, CreateInsert, EditWrite, EditCommit,
       DeleteClear, DeleteCommit
  <1>3. ASSUME CreateCheck(a) \/ EditLoad(a) \/ DeleteLoad(a) \/ DeleteClear(a)
        PROVE  /\ lock' = lock /\ feed' = feed
               /\ adm[a].pc # "offair" /\ adm'[a].pc # "offair"
    <2>1. CASE CreateCheck(a)
      <3>1. PICK d \in Declarations :
              adm'[a] = [IdleAdmin EXCEPT !.pc = "creating", !.body = d]
        BY <1>1, <2>1 DEF CreateCheck
      <3> QED
        BY <2>1, <3>1 DEF CreateCheck, IdleAdmin
    <2>2. CASE EditLoad(a)
      <3>1. PICK d \in Declarations :
              adm'[a] = [IdleAdmin EXCEPT !.pc = "editing",
                           !.revision = feed.revision,
                           !.loaded = feed.declares, !.body = d]
        BY <1>1, <2>2 DEF EditLoad
      <3> QED
        BY <2>2, <3>1 DEF EditLoad, IdleAdmin
    <2>3. CASE DeleteLoad(a) \/ DeleteClear(a)
      BY <1>1, <2>3 DEF DeleteLoad, DeleteClear, IdleAdmin, Admin
    <2> QED
      BY <1>3, <2>1, <2>2, <2>3
  <1>4. ASSUME CreateInsert(a)
        PROVE  /\ lock' = lock /\ (feed' = feed \/ lock = Nobody)
               /\ adm[a].pc # "offair" /\ adm'[a].pc # "offair"
    BY <1>1, <1>4 DEF CreateInsert, IdleAdmin, LockIsOwned
  <1>5. ASSUME EditWrite(a)
        PROVE  /\ lock = Nobody /\ feed' = feed /\ adm[a].pc # "offair"
               /\ \/ lock' = a /\ Exists /\ adm'[a].pc = "offair"
                  \/ lock' = lock /\ adm'[a].pc # "offair"
    BY <1>1, <1>5 DEF EditWrite, IdleAdmin, Admin
  <1>6. ASSUME EditCommit(a)
        PROVE  lock = a /\ lock' = Nobody /\ adm'[a].pc # "offair"
    BY <1>1, <1>6 DEF EditCommit, IdleAdmin, LockIsOwned
  <1>7. ASSUME DeleteCommit(a)
        PROVE  /\ lock' = lock /\ lock = Nobody
               /\ adm[a].pc # "offair" /\ adm'[a].pc # "offair"
    BY <1>1, <1>7 DEF DeleteCommit, IdleAdmin
  <1>8. ASSUME GiveUp(a) \/ DeadlockedRequest(a)
        PROVE  /\ lock' = (IF lock = a THEN Nobody ELSE lock) /\ feed' = feed
               /\ adm'[a].pc # "offair"
    BY <1>1, <1>8 DEF GiveUp, DeadlockedRequest, IdleAdmin
  <1> QED
    BY <1>2, <1>3, <1>4, <1>5, <1>6, <1>7, <1>8 DEF Requesting

\* Every step leaves the lock with whoever is in the transaction that took it,
\* and the binding as it was under a publisher about to move the pointer.
LEMMA LockNext ==
    ASSUME Typed, Loaded, LockIsOwned, [Next]_vars
    PROVE  LockIsOwned'
  <1>1. pub' \in [Publishers -> Publisher] /\ pub \in [Publishers -> Publisher]
    BY TypedNext DEF Typed, TypeOK
  <1>2. CASE Quiet \/ UNCHANGED vars
    BY <1>2 DEF Quiet, vars, LockIsOwned, Exists
  <1>3. ASSUME NEW q \in Publishers,
               Begin(q) \/ Attempting(q) \/ DeadlockVictim(q) \/ Die(q)
        PROVE  LockIsOwned'
    <2>1. /\ feed' = feed /\ adm' = adm
          /\ \A p \in Publishers : p # q => pub'[p] = pub[p]
      BY <1>1, <1>3, PublisherAndLock DEF StepOf
    <2>2. q \notin Admins /\ q # Nobody
      BY ActorsAssumption
    <2>3. CASE /\ lock' = lock
               /\ pub[q].pc \notin {"locked", "recording"}
               /\ pub'[q].pc # "locked"
      BY <2>1, <2>2, <2>3 DEF LockIsOwned, Exists
    <2>4. CASE /\ lock' = IF lock = q \/ pub[q].pc = "locked"
                          THEN Nobody ELSE lock
               /\ pub'[q].pc \notin {"locked", "recording"}
      <3>1. \A p \in Publishers : pub'[p].pc = "locked" => p # q /\ lock = p
        BY <2>1, <2>4 DEF LockIsOwned
      <3> QED
        BY <2>1, <2>2, <2>4, <3>1, ActorsAssumption DEF LockIsOwned, Exists
    <2>5. CASE LockBinding(q)
      <3>1. pub[q].revision # 0 /\ lock = Nobody
        BY <2>5 DEF LockBinding, Loaded
      <3>2. /\ pub'[q].revision = pub[q].revision
            /\ \/ pub'[q].pc = "locked" /\ feed.revision = pub[q].revision
               \/ pub'[q].pc = "recording"
        BY <1>1, <2>5 DEF LockBinding, Publisher
      <3>3. lock' = IF Exists THEN q ELSE Nobody
        BY <2>5 DEF LockBinding
      <3>4. \A p \in Publishers : p # q => pub'[p].pc # "locked"
        BY <2>1, <3>1, ActorsAssumption DEF LockIsOwned
      <3> QED
        BY <2>1, <2>2, <3>1, <3>2, <3>3, <3>4, ActorsAssumption
           DEF LockIsOwned, Exists
    <2> QED
      BY <1>1, <1>3, <2>3, <2>4, <2>5, PublisherAndLock
  <1>4. ASSUME NEW a \in Admins,
               \/ CreateCheck(a) \/ EditLoad(a) \/ DeleteLoad(a)
               \/ Requesting(a) \/ DeadlockedRequest(a) \/ GiveUp(a)
        PROVE  LockIsOwned'
    <2>1. pub' = pub /\ \A b \in Admins : b # a => adm'[b] = adm[b]
      BY <1>4, RequestAndLock
    <2>2. a \notin Publishers /\ a # Nobody
      BY ActorsAssumption
    <2>3. CASE /\ lock' = lock /\ feed' = feed
               /\ adm[a].pc # "offair" /\ adm'[a].pc # "offair"
      BY <2>1, <2>3 DEF LockIsOwned, Exists
    <2>4. CASE /\ lock' = lock /\ lock = Nobody
               /\ adm[a].pc # "offair" /\ adm'[a].pc # "offair"
      BY <2>1, <2>4, ActorsAssumption DEF LockIsOwned, Exists
    <2>5. CASE /\ lock = Nobody /\ lock' = a /\ feed' = feed /\ Exists
               /\ adm'[a].pc = "offair"
      BY <2>1, <2>2, <2>5, ActorsAssumption DEF LockIsOwned, Exists
    <2>6. CASE /\ lock' = (IF lock = a THEN Nobody ELSE lock) /\ feed' = feed
               /\ adm'[a].pc # "offair"
      BY <2>1, <2>2, <2>6, ActorsAssumption DEF LockIsOwned, Exists
    <2>7. CASE /\ lock = a /\ lock' = Nobody
               /\ adm'[a].pc # "offair"
      BY <2>1, <2>2, <2>7, ActorsAssumption DEF LockIsOwned, Exists
    <2> QED
      BY <1>4, <2>3, <2>4, <2>5, <2>6, <2>7, RequestAndLock
  <1> QED
    BY <1>2, <1>3, <1>4 DEF Next

\* An attempt loads a binding that exists, and reloads only one that does.
LEMMA LoadedNext == Typed /\ Loaded /\ [Next]_vars => Loaded'
  <1> SUFFICES ASSUME Typed, Loaded, [Next]_vars,
                      NEW q \in Publishers, pub'[q].pc # "idle"
               PROVE  pub'[q].revision # 0
    BY DEF Loaded
  <1>1. pub \in [Publishers -> Publisher]
    BY DEF Typed, TypeOK
  <1>2. CASE pub'[q] = pub[q]
    BY <1>2 DEF Loaded
  <1>3. CASE pub' = pub
    BY <1>2, <1>3
  <1>4. CASE Quiet \/ UNCHANGED vars
    BY <1>3, <1>4 DEF Quiet, vars
  <1>5. CASE \E a \in Admins :
               \/ CreateCheck(a) \/ EditLoad(a) \/ DeleteLoad(a)
               \/ Requesting(a) \/ DeadlockedRequest(a) \/ GiveUp(a)
    BY <1>3, <1>5 DEF CreateCheck, EditLoad, DeleteLoad, Requesting,
       DeadlockedRequest, GiveUp, CreateInsert, EditWrite, EditCommit,
       DeleteClear, DeleteCommit
  <1>6. ASSUME NEW p \in Publishers,
               Begin(p) \/ Attempting(p) \/ DeadlockVictim(p) \/ Die(p)
        PROVE  pub'[q].revision # 0
    <2>1. CASE p # q
      BY <1>1, <1>2, <1>6, <2>1 DEF Begin, Attempting, DeadlockVictim, Die,
         CannotBuild, ReadServed, CheckOrder, Produce, ChooseRetirement,
         LockBinding, MovePointer, Superseded, RecordSuperseded, Record,
         Prune, PruneRefused, Answer, Return
    <2>2. ASSUME Begin(q) PROVE pub'[q].revision # 0
      <3>1. PICK v \in Versions :
              pub'[q] = [IdlePublisher EXCEPT !.pc = "begun", !.version = v,
                           !.revision = feed.revision,
                           !.declares = feed.declares]
        BY <1>1, <2>2 DEF Begin
      <3> QED
        BY <2>2, <3>1 DEF Begin, IdlePublisher, Exists
    <2>3. ASSUME Return(q) \/ Die(q) PROVE FALSE
      BY <1>1, <2>3 DEF Return, Die, IdlePublisher
    <2>4. ASSUME pub[q].pc # "idle", pub'[q].revision = pub[q].revision
          PROVE  pub'[q].revision # 0
      BY <2>4 DEF Loaded
    <2>5. ASSUME RecordSuperseded(q) \/ PruneRefused(q)
          PROVE  pub'[q].revision # 0
      BY <1>1, <2>4, <2>5
         DEF RecordSuperseded, PruneRefused, Exists, Publisher
    <2>6. ASSUME Answer(q) PROVE pub'[q].revision = pub[q].revision
      <3>1. \/ \E i : pub'[q] = [pub[q] EXCEPT !.pc = "answered", !.answer = i]
            \/ pub'[q] = [pub[q] EXCEPT !.pc = "unanswered"]
        BY <1>1, <2>6 DEF Answer
      <3> QED
        BY <1>1, <3>1 DEF Publisher
    <2>7. ASSUME \/ CannotBuild(q) \/ ReadServed(q) \/ CheckOrder(q)
                 \/ Produce(q) \/ ChooseRetirement(q) \/ LockBinding(q)
                 \/ MovePointer(q) \/ Superseded(q) \/ Record(q) \/ Prune(q)
                 \/ DeadlockVictim(q)
          PROVE  pub'[q].revision = pub[q].revision
      BY <1>1, <2>7 DEF CannotBuild, ReadServed, CheckOrder, Produce,
         ChooseRetirement, LockBinding, MovePointer, Superseded, Record,
         Prune, DeadlockVictim, Publisher
    <2>8. ASSUME Attempting(q) \/ DeadlockVictim(q) PROVE pub[q].pc # "idle"
      BY <2>8 DEF Attempting, CannotBuild, ReadServed, CheckOrder, Produce,
         ChooseRetirement, LockBinding, MovePointer, Superseded,
         RecordSuperseded, Record, Prune, PruneRefused, Answer, Return,
         DeadlockVictim
    <2> QED
      BY <1>6, <2>1, <2>2, <2>3, <2>4, <2>5, <2>6, <2>7, <2>8 DEF Attempting
  <1> QED
    BY <1>4, <1>5, <1>6 DEF Next

\* Every reachable state is consistent: rows and processes have their types,
\* attempt_id is a key, the pointer is on one published row, the binding's lock
\* is with the transaction that took it, a publisher about to move the pointer
\* holds it on the revision it loaded, and retirements stay entitled.
THEOREM ConsistentAlways == Spec => []Consistent
  <1>1. Init => /\ Typed /\ TableIsSound /\ RetirementIsEntitled
                /\ Loaded /\ LockIsOwned
    <2>1. Init => Typed /\ TableIsSound /\ RetirementIsEntitled
      BY TypedInit, TableInit, EntitledInit
    <2>2. Init => Loaded /\ LockIsOwned
      BY ActorsAssumption
         DEF Init, Loaded, LockIsOwned, IdlePublisher, IdleAdmin
    <2> QED
      BY <2>1, <2>2
  <1>2. /\ Typed /\ TableIsSound /\ RetirementIsEntitled
        /\ Loaded /\ LockIsOwned
        /\ [Next]_vars
        => (/\ Typed /\ TableIsSound /\ RetirementIsEntitled
            /\ Loaded /\ LockIsOwned)'
    BY TypedNext, TableNext, EntitledNext, LoadedNext, LockNext
  <1>3. /\ Typed /\ TableIsSound /\ RetirementIsEntitled
        /\ Loaded /\ LockIsOwned
        => Consistent
    BY DEF Consistent, Typed, TableIsSound
  <1> QED
    BY <1>1, <1>2, <1>3, PTL DEF Spec

-----------------------------------------------------------------------------
(* With one editor, the served bytes are those of the present declaration.   *)

\* Administrators only edit, and never two of them at once.
OneEditor == /\ Operations \subseteq {"edit"}
             /\ \A a, b \in Admins : a = b

\* An attempt that carries the binding's revision carries its declaration, no
\* attempt is ahead of the binding, and the editor's copy of it is current.
InStep ==
    /\ Exists
    /\ \A p \in Publishers :
         pub[p].pc # "idle" =>
             /\ pub[p].revision =< feed.revision
             /\ pub[p].revision = feed.revision => pub[p].declares = feed.declares
    /\ \A a \in Admins :
         /\ adm[a].pc \in {"idle", "editing", "offair"}
         /\ adm[a].pc # "idle" => /\ adm[a].revision = feed.revision
                                  /\ adm[a].loaded = feed.declares

\* An attempt copies the binding's revision and declaration together.
CopyIsKept(q) ==
    \/ pub'[q].pc = "idle"
    \/ /\ pub[q].pc # "idle"
       /\ pub'[q].revision = pub[q].revision
       /\ pub'[q].declares = pub[q].declares
    \/ /\ pub'[q].revision = feed.revision
       /\ pub'[q].declares = feed.declares

\* No step of an attempt changes one without the other.
LEMMA CopyAlwaysKept ==
    ASSUME Typed, NEW q \in Publishers,
           Begin(q) \/ Attempting(q) \/ DeadlockVictim(q) \/ Die(q)
    PROVE  CopyIsKept(q)
  <1>1. pub \in [Publishers -> Publisher]
    BY DEF Typed, TypeOK
  <1>2. ASSUME Begin(q) PROVE CopyIsKept(q)
    <2>1. PICK v \in Versions :
            pub'[q] = [IdlePublisher EXCEPT !.pc = "begun", !.version = v,
                         !.revision = feed.revision,
                         !.declares = feed.declares]
      BY <1>1, <1>2 DEF Begin
    <2> QED
      BY <2>1 DEF IdlePublisher, CopyIsKept
  <1>3. ASSUME Return(q) \/ Die(q) PROVE CopyIsKept(q)
    BY <1>1, <1>3 DEF Return, Die, IdlePublisher, CopyIsKept
  <1>4. ASSUME RecordSuperseded(q) \/ PruneRefused(q) PROVE CopyIsKept(q)
    BY <1>1, <1>4 DEF RecordSuperseded, PruneRefused, Publisher, CopyIsKept
  <1>5. ASSUME Answer(q) PROVE CopyIsKept(q)
    <2>1. \/ \E i : pub'[q] = [pub[q] EXCEPT !.pc = "answered", !.answer = i]
          \/ pub'[q] = [pub[q] EXCEPT !.pc = "unanswered"]
      BY <1>1, <1>5 DEF Answer
    <2> QED
      BY <1>1, <1>5, <2>1 DEF Answer, Publisher, CopyIsKept
  <1>6. ASSUME \/ CannotBuild(q) \/ ReadServed(q) \/ CheckOrder(q)
               \/ Produce(q) \/ ChooseRetirement(q) \/ LockBinding(q)
        PROVE  CopyIsKept(q)
    BY <1>1, <1>6 DEF CannotBuild, ReadServed, CheckOrder, Produce,
       ChooseRetirement, LockBinding, Publisher, CopyIsKept
  <1>7. ASSUME \/ MovePointer(q) \/ Superseded(q) \/ Record(q) \/ Prune(q)
               \/ DeadlockVictim(q)
        PROVE  CopyIsKept(q)
    BY <1>1, <1>7 DEF MovePointer, Superseded, Record, Prune, DeadlockVictim,
       Publisher, CopyIsKept
  <1> QED
    BY <1>2, <1>3, <1>4, <1>5, <1>6, <1>7 DEF Attempting

\* With one editor, a step leaves attempts and editor in step with the binding.
LEMMA InStepNext ==
    ASSUME OneEditor, Typed, LockIsOwned, InStep, [Next]_vars
    PROVE  InStep'
  <1>1. /\ pub \in [Publishers -> Publisher] /\ pub' \in [Publishers -> Publisher]
        /\ adm \in [Admins -> Admin] /\ feed \in Binding
    BY TypedNext DEF Typed, TypeOK
  <1>2. CASE Quiet \/ UNCHANGED vars
    BY <1>2 DEF Quiet, vars, InStep, Exists
  <1>3. ASSUME NEW q \in Publishers,
               Begin(q) \/ Attempting(q) \/ DeadlockVictim(q) \/ Die(q)
        PROVE  InStep'
    <2>1. /\ feed' = feed /\ adm' = adm
          /\ \A p \in Publishers : p # q => pub'[p] = pub[p]
      BY <1>1, <1>3, PublisherAndLock DEF StepOf
    <2>2. pub'[q].pc # "idle" =>
             /\ pub'[q].revision =< feed.revision
             /\ pub'[q].revision = feed.revision => pub'[q].declares = feed.declares
      BY <1>1, <1>3, CopyAlwaysKept DEF CopyIsKept, InStep, Binding
    <2> QED
      BY <2>1, <2>2 DEF InStep, Exists
  <1>4. ASSUME NEW a \in Admins,
               \/ CreateCheck(a) \/ EditLoad(a) \/ DeleteLoad(a)
               \/ Requesting(a) \/ DeadlockedRequest(a) \/ GiveUp(a)
        PROVE  InStep'
    <2>1. Admins = {a}
      BY DEF OneEditor
    <2>2. CASE EditLoad(a)
      <3>1. PICK d \in Declarations :
              adm'[a] = [IdleAdmin EXCEPT !.pc = "editing",
                           !.revision = feed.revision,
                           !.loaded = feed.declares, !.body = d]
        BY <1>1, <2>2 DEF EditLoad
      <3>2. feed' = feed /\ pub' = pub
        BY <2>2 DEF EditLoad
      <3>3. /\ adm'[a].pc = "editing" /\ adm'[a].revision = feed.revision
            /\ adm'[a].loaded = feed.declares
        BY <3>1 DEF IdleAdmin
      <3> QED
        BY <2>1, <3>2, <3>3 DEF InStep, Exists
    <2>3. CASE EditWrite(a)
      BY <1>1, <2>1, <2>3 DEF EditWrite, InStep, Exists, IdleAdmin, Admin
    <2>4. CASE EditCommit(a)
      <3>1. /\ feed'.revision = feed.revision + 1 /\ pub' = pub
            /\ adm'[a].pc = "idle"
        BY <1>1, <2>4 DEF EditCommit, InStep, IdleAdmin
      <3>2. \A p \in Publishers : pub[p].revision \in Nat
        BY <1>1 DEF Publisher
      <3>3. feed.revision \in Nat
        BY <1>1 DEF Binding
      <3> QED
        BY <2>1, <3>1, <3>2, <3>3 DEF InStep, Exists
    <2>5. CASE GiveUp(a) \/ DeadlockedRequest(a)
      BY <1>1, <2>1, <2>5 DEF GiveUp, DeadlockedRequest, InStep, Exists, IdleAdmin
    <2>6. CASE \/ CreateCheck(a) \/ DeleteLoad(a) \/ CreateInsert(a)
               \/ DeleteClear(a) \/ DeleteCommit(a)
      BY <2>6 DEF CreateCheck, DeleteLoad, CreateInsert, DeleteClear,
         DeleteCommit, InStep, OneEditor
    <2> QED
      BY <1>4, <2>2, <2>3, <2>4, <2>5, <2>6 DEF Requesting
  <1> QED
    BY <1>2, <1>3, <1>4 DEF Next

\* With one editor, a step puts on the air only bytes of the declaration the
\* binding has then, and an edit takes down the ones it withdraws.
LEMMA ServedNext ==
    ASSUME OneEditor, Typed, TableIsSound, LockIsOwned, InStep,
           ServesTheDeclaredBinding, [Next]_vars
    PROVE  ServesTheDeclaredBinding'
  <1>0. Exists' /\ attempts \subseteq Attempt
    BY InStepNext DEF InStep, Typed, TypeOK
  <1>1. SUFFICES ASSUME NEW b \in Current'
                 PROVE  b.revision = feed'.revision /\ b.built = feed'.declares
    BY <1>0 DEF ServesTheDeclaredBinding
  <1>2. b \in attempts' /\ b.current
    BY DEF Current
  <1>3. ASSUME b \in attempts, feed' = feed
        PROVE  b.revision = feed'.revision /\ b.built = feed'.declares
    BY <1>2, <1>3 DEF ServesTheDeclaredBinding, Current
  <1>4. ASSUME NEW id, b \in Cleared(attempts, id) PROVE b \in attempts
    BY <1>0, <1>2, <1>4, ClearedRow
  <1>5. CASE Quiet \/ UNCHANGED vars
    BY <1>2, <1>3, <1>5 DEF Quiet, vars
  <1>6. ASSUME NEW q \in Publishers,
               Begin(q) \/ Attempting(q) \/ DeadlockVictim(q) \/ Die(q)
        PROVE  b.revision = feed'.revision /\ b.built = feed'.declares
    <2>1. feed' = feed
      BY <1>6, TypedNext, PublisherAndLock DEF StepOf, Typed, TypeOK
    <2>2. CASE MovePointer(q)
      <3>1. pub[q].revision = feed.revision /\ pub[q].declares = feed.declares
        BY <2>2 DEF MovePointer, LockIsOwned, InStep
      <3>2. CASE b = RowOf(q, pub[q].revision, "published")
        BY <2>1, <3>1, <3>2 DEF RowOf
      <3> QED
        BY <1>2, <1>3, <1>4, <2>1, <2>2, <3>2 DEF MovePointer
    <2>3. CASE Record(q)
      <3>1. ~RowOf(q, pub[q].revision, pub[q].decision).current
        BY <2>3 DEF Record, RowOf, Typed, Underway
      <3> QED
        BY <1>2, <1>3, <1>4, <2>1, <2>3, <3>1 DEF Record
    <2>4. CASE RecordSuperseded(q)
      <3>1. ~RowOf(q, feed.revision, "failed").current
        BY DEF RowOf
      <3> QED
        BY <1>2, <1>3, <2>1, <2>4, <3>1 DEF RecordSuperseded
    <2>5. CASE Prune(q)
      BY <1>2, <1>3, <2>1, <2>5 DEF Prune
    <2>6. CASE \/ Begin(q) \/ CannotBuild(q) \/ ReadServed(q) \/ CheckOrder(q)
               \/ Produce(q) \/ ChooseRetirement(q) \/ LockBinding(q)
               \/ Superseded(q) \/ PruneRefused(q) \/ Answer(q) \/ Return(q)
               \/ Die(q) \/ DeadlockVictim(q)
      BY <1>2, <1>3, <2>1, <2>6 DEF Begin, CannotBuild, ReadServed, CheckOrder,
         Produce, ChooseRetirement, LockBinding, Superseded, PruneRefused,
         Answer, Return, Die, DeadlockVictim
    <2> QED
      BY <1>6, <2>2, <2>3, <2>4, <2>5, <2>6 DEF Attempting
  <1>7. ASSUME NEW a \in Admins,
               \/ CreateCheck(a) \/ EditLoad(a) \/ DeleteLoad(a)
               \/ Requesting(a) \/ DeadlockedRequest(a) \/ GiveUp(a)
        PROVE  b.revision = feed'.revision /\ b.built = feed'.declares
    <2>1. ASSUME EditCommit(a) PROVE FALSE
      <3>1. b \in Cleared(attempts, ServedId)
        BY <1>2, <2>1 DEF EditCommit
      <3>2. b \in Current /\ b.id # ServedId
        BY <1>0, <1>2, <3>1, ClearedRow DEF Current
      <3> QED
        BY <3>2, ServedIdIsCurrent DEF TableIsSound, OnePointer
    <2>2. ASSUME EditLoad(a) \/ EditWrite(a) \/ GiveUp(a) \/ DeadlockedRequest(a)
          PROVE  attempts' = attempts /\ feed' = feed
      BY <2>2 DEF EditLoad, EditWrite, GiveUp, DeadlockedRequest
    <2>3. ASSUME \/ CreateCheck(a) \/ DeleteLoad(a) \/ CreateInsert(a)
                 \/ DeleteClear(a) \/ DeleteCommit(a)
          PROVE  FALSE
      BY <2>3 DEF CreateCheck, DeleteLoad, CreateInsert, DeleteClear,
         DeleteCommit, InStep, OneEditor
    <2> QED
      BY <1>2, <1>3, <1>7, <2>1, <2>2, <2>3 DEF Requesting
  <1> QED
    BY <1>5, <1>6, <1>7 DEF Next

\* With administrators who only edit, one at a time, whatever is on the air was
\* validated under the declaration and revision the binding has at that moment,
\* for any number of publishers and any order of their steps.
THEOREM EditsNeverServeStale ==
    ASSUME OneEditor
    PROVE  Spec => []ServesTheDeclaredBinding
  <1> DEFINE I == /\ Typed /\ TableIsSound /\ Loaded /\ LockIsOwned
                  /\ InStep /\ ServesTheDeclaredBinding
  <1>1. Init => I
    <2>1. Init => Typed /\ TableIsSound
      BY TypedInit, TableInit
    <2>2. Init => /\ Loaded /\ LockIsOwned
      BY ActorsAssumption
         DEF Init, Loaded, LockIsOwned, IdlePublisher, IdleAdmin
    <2>3. Init => InStep /\ ServesTheDeclaredBinding
      BY DEF Init, InStep, Exists, IdlePublisher, IdleAdmin,
         ServesTheDeclaredBinding, Current
    <2> QED
      BY <2>1, <2>2, <2>3
  <1>2. I /\ [Next]_vars => I'
    BY OneEditor, TypedNext, TableNext, LoadedNext, LockNext, InStepNext, ServedNext
  <1>3. I => ServesTheDeclaredBinding
    OBVIOUS
  <1> QED
    BY <1>1, <1>2, <1>3, PTL DEF Spec

-----------------------------------------------------------------------------
(* With one editor and nothing retired, the pointer never goes back.         *)

\* No declaration asks for a failure to take its artifact down.
NothingRetires == Retiring = {}

\* An attempt that has passed the ordering guard, and may yet publish.
PastTheGuard(p) == pub[p].pc \in {"producing", "clean", "locked"}

\* While its revision is the binding's, such an attempt either is still newer
\* than all that was published, or will meet the pointer on a row it does not
\* clear: the partial unique index stands in for a second look at the order.
InOrder ==
    \A p \in Publishers :
        /\ pub[p].served =< lastId
        /\ PastTheGuard(p) /\ pub[p].revision = feed.revision =>
             Collides(p) \/ ~NotNewer(pub[p].revision, pub[p].version)

\* A step that keeps every row with the pointer and publishes nothing.
KeepsTheOrder ==
    /\ lastId =< lastId'
    /\ \A a \in Current : \E b \in Current' : a.id = b.id
    /\ \A b \in attempts' :
         b.decision = "published" => \E a \in attempts : SameAttempt(a, b)

\* What the guard found, or the index will, is the same after such a step.
LEMMA OrderKept ==
    ASSUME Typed, InOrder, KeepsTheOrder, lastId' \in Nat, feed' = feed,
           NEW p \in Publishers, pub'[p] = pub[p]
    PROVE  /\ pub'[p].served =< lastId'
           /\ PastTheGuard(p)' /\ pub'[p].revision = feed'.revision =>
                Collides(p)' \/ ~NotNewer(pub[p].revision, pub[p].version)'
  <1>1. pub[p].served \in Nat /\ lastId \in Nat
    BY DEF Typed, TypeOK, Publisher
  <1>2. pub'[p].served =< lastId'
    BY <1>1 DEF InOrder, KeepsTheOrder
  <1>3. Collides(p) => Collides(p)'
    BY DEF KeepsTheOrder, Collides
  <1>4. NotNewer(pub[p].revision, pub[p].version)'
          => NotNewer(pub[p].revision, pub[p].version)
    BY DEF KeepsTheOrder, NotNewer, SameAttempt
  <1> QED
    BY <1>2, <1>3, <1>4 DEF InOrder, PastTheGuard

\* Every step of an attempt but the publish itself is such a step: with nothing
\* to retire, what fails is recorded and takes nothing down.
LEMMA OnlyPublishesMove ==
    ASSUME NothingRetires, Typed, TableIsSound, RetirementIsEntitled,
           NEW q \in Publishers, [Next]_vars,
           Begin(q) \/ Attempting(q) \/ DeadlockVictim(q) \/ Die(q),
           ~MovePointer(q)
    PROVE  KeepsTheOrder
  <1>1. attempts \subseteq Attempt /\ lastId \in Nat /\ lastId =< lastId'
    BY SequenceGrows DEF Typed, TypeOK
  <1>2. ASSUME NEW row, attempts' = attempts \cup {row}, row.decision # "published"
        PROVE  KeepsTheOrder
    BY <1>1, <1>2 DEF KeepsTheOrder, Current, SameAttempt
  <1>3. CASE Record(q)
    <2>1. pub[q].retires = 0
      BY DEF NothingRetires, RetirementIsEntitled
    <2>2. Cleared(attempts, pub[q].retires) = attempts
      BY <1>1, <2>1, ClearedNothing
    <2>3. RowOf(q, pub[q].revision, pub[q].decision).decision # "published"
      BY <1>3 DEF Record, RowOf, Typed, Underway
    <2> QED
      BY <1>2, <1>3, <2>2, <2>3 DEF Record
  <1>4. CASE RecordSuperseded(q)
    <2>1. RowOf(q, feed.revision, "failed").decision # "published"
      BY DEF RowOf
    <2> QED
      BY <1>1, <1>2, <1>4, <2>1 DEF RecordSuperseded, KeepsTheOrder, Current, SameAttempt
  <1>5. CASE Prune(q)
    BY <1>1, <1>5 DEF Prune, Prunable, KeepsTheOrder, Current, SameAttempt
  <1>6. CASE \/ Begin(q) \/ CannotBuild(q) \/ ReadServed(q) \/ CheckOrder(q)
             \/ Produce(q) \/ ChooseRetirement(q) \/ LockBinding(q)
             \/ Superseded(q) \/ PruneRefused(q) \/ Answer(q) \/ Return(q)
             \/ Die(q) \/ DeadlockVictim(q)
    <2>1. attempts' = attempts
      BY <1>6 DEF Begin, CannotBuild, ReadServed, CheckOrder, Produce,
         ChooseRetirement, LockBinding, Superseded, PruneRefused, Answer, Return,
         Die, DeadlockVictim
    <2> QED
      BY <1>1, <2>1 DEF KeepsTheOrder, Current, SameAttempt
  <1> QED
    BY <1>3, <1>4, <1>5, <1>6 DEF Attempting

\* A publish puts the pointer on a row nobody has read yet, so every other
\* attempt of the revision will collide.
LEMMA PublishStopsOthers ==
    ASSUME Typed, InOrder, NEW q \in Publishers, MovePointer(q),
           NEW p \in Publishers, pub'[p] = pub[p]
    PROVE  pub'[p].served =< lastId' /\ Collides(p)'
  <1> DEFINE row == RowOf(q, pub[q].revision, "published")
  <1>1. pub[p].served \in Nat /\ lastId \in Nat /\ pub[p].served =< lastId
    BY DEF Typed, TypeOK, Publisher, InOrder
  <1>2. row \in attempts' /\ row.current /\ row.id = lastId + 1 /\ lastId' = lastId + 1
    BY DEF MovePointer, RowOf
  <1> QED
    BY <1>1, <1>2 DEF Collides, Current

\* An attempt's own steps: the guard is passed only by a version newer than all
\* that was published, and what an attempt read as served has an id by then.
LEMMA OwnOrder ==
    ASSUME Typed, TableIsSound, InOrder, NEW q \in Publishers, [Next]_vars,
           Begin(q) \/ Attempting(q) \/ DeadlockVictim(q) \/ Die(q),
           ~MovePointer(q), KeepsTheOrder, feed' = feed
    PROVE  /\ pub'[q].served =< lastId'
           /\ PastTheGuard(q)' /\ pub'[q].revision = feed'.revision =>
                \/ Collides(q)'
                \/ ~NotNewer(pub[q].revision, pub[q].version)'
  <1>1. /\ pub \in [Publishers -> Publisher] /\ lastId \in Nat /\ lastId' \in Nat
        /\ lastId =< lastId' /\ pub[q] \in Publisher
    BY SequenceGrows, TypedNext DEF Typed, TypeOK
  <1>2. pub[q].served \in Nat /\ pub[q].served =< lastId /\ pub[q].served =< lastId'
    BY <1>1 DEF Publisher, InOrder, KeepsTheOrder
  <1>3. ASSUME Return(q) \/ Die(q)
        PROVE  pub'[q].served = 0 /\ ~PastTheGuard(q)'
    BY <1>1, <1>3 DEF Return, Die, IdlePublisher, PastTheGuard
  <1>4. ASSUME Begin(q) PROVE pub'[q].served = 0 /\ ~PastTheGuard(q)'
    <2>1. PICK v \in Versions :
            pub'[q] = [IdlePublisher EXCEPT !.pc = "begun", !.version = v,
                         !.revision = feed.revision, !.declares = feed.declares]
      BY <1>1, <1>4 DEF Begin
    <2> QED
      BY <2>1 DEF IdlePublisher, PastTheGuard
  <1>5. ASSUME ReadServed(q) PROVE pub'[q].served =< lastId' /\ ~PastTheGuard(q)'
    <2>1. ServedId \in Nat /\ ServedId =< lastId
      <3>1. CASE Current = {}
        BY <1>1, <3>1 DEF ServedId
      <3>2. CASE Current # {}
        BY <1>1, <3>2, ServedIdIsCurrent
           DEF Current, TableIsSound, IdsAreKeys, Typed, TypeOK, Attempt
      <3> QED
        BY <3>1, <3>2
    <2>2. pub'[q].served = ServedId /\ pub'[q].pc = "served" /\ lastId' = lastId
      BY <1>1, <1>5 DEF ReadServed, Publisher
    <2> QED
      BY <1>1, <2>1, <2>2 DEF PastTheGuard
  <1>6. ASSUME CheckOrder(q)
        PROVE  /\ pub'[q].served = pub[q].served
               /\ PastTheGuard(q)' => ~NotNewer(pub[q].revision, pub[q].version)'
    <2>1. CASE NotNewer(pub[q].revision, pub[q].version)
      BY <1>1, <1>6, <2>1 DEF CheckOrder, PastTheGuard, Publisher
    <2>2. CASE ~NotNewer(pub[q].revision, pub[q].version)
      <3>1. /\ pub'[q].served = pub[q].served /\ pub'[q].revision = pub[q].revision
            /\ pub'[q].version = pub[q].version /\ attempts' = attempts
        BY <1>1, <1>6, <2>2 DEF CheckOrder, Publisher
      <3> QED
        BY <2>2, <3>1 DEF NotNewer
    <2> QED
      BY <2>1, <2>2
  <1>7. ASSUME \/ CannotBuild(q) \/ ChooseRetirement(q) \/ Superseded(q)
               \/ RecordSuperseded(q) \/ Record(q) \/ Prune(q) \/ PruneRefused(q)
               \/ Answer(q) \/ DeadlockVictim(q)
        PROVE  pub'[q].served = pub[q].served /\ ~PastTheGuard(q)'
    <2>1. CASE Answer(q)
      <3>1. \/ \E i : pub'[q] = [pub[q] EXCEPT !.pc = "answered", !.answer = i]
            \/ pub'[q] = [pub[q] EXCEPT !.pc = "unanswered"]
        BY <1>1, <2>1 DEF Answer
      <3> QED
        BY <1>1, <3>1 DEF Publisher, PastTheGuard
    <2>2. CASE RecordSuperseded(q) \/ PruneRefused(q)
      BY <1>1, <2>2 DEF RecordSuperseded, PruneRefused, Publisher, PastTheGuard
    <2> QED
      BY <1>1, <1>7, <2>1, <2>2 DEF CannotBuild, ChooseRetirement, Superseded, Record,
         Prune, DeadlockVictim, Publisher, PastTheGuard
  <1>8. ASSUME Produce(q) \/ LockBinding(q)
        PROVE  /\ pub'[q].served = pub[q].served /\ PastTheGuard(q)
               /\ pub'[q].revision = pub[q].revision
               /\ pub'[q].version = pub[q].version
               /\ attempts' = attempts
    BY <1>1, <1>8 DEF Produce, LockBinding, Publisher, PastTheGuard
  <1>9. CASE Produce(q) \/ LockBinding(q)
    <2>1. Collides(q)' <=> Collides(q)
      BY <1>8, <1>9 DEF Collides, Current
    <2>2. NotNewer(pub[q].revision, pub[q].version)'
            <=> NotNewer(pub[q].revision, pub[q].version)
      BY <1>8, <1>9 DEF NotNewer
    <2> QED
      BY <1>2, <1>8, <1>9, <2>1, <2>2 DEF InOrder
  <1> QED
    BY <1>1, <1>2, <1>3, <1>4, <1>5, <1>6, <1>7, <1>9 DEF Attempting

\* With one editor and nothing retired, every step keeps attempts in order; an
\* edit leaves no attempt with the new revision.
LEMMA InOrderNext ==
    ASSUME OneEditor, NothingRetires, Typed, TableIsSound, LockIsOwned, InStep,
           RetirementIsEntitled, InOrder, [Next]_vars
    PROVE  InOrder'
  <1>1. /\ pub \in [Publishers -> Publisher] /\ pub' \in [Publishers -> Publisher]
        /\ adm \in [Admins -> Admin] /\ feed \in Binding
        /\ lastId \in Nat /\ lastId' \in Nat /\ lastId =< lastId'
    BY TypedNext, SequenceGrows DEF Typed, TypeOK
  <1>2. CASE attempts' = attempts /\ feed' = feed /\ pub' = pub
    BY <1>1, <1>2, OrderKept DEF KeepsTheOrder, Current, SameAttempt, InOrder
  <1>3. CASE Quiet \/ UNCHANGED vars
    BY <1>2, <1>3 DEF Quiet, vars
  <1>4. ASSUME NEW q \in Publishers,
               Begin(q) \/ Attempting(q) \/ DeadlockVictim(q) \/ Die(q)
        PROVE  InOrder'
    <2>1. /\ feed' = feed
          /\ \A p \in Publishers : p # q => pub'[p] = pub[p]
      BY <1>1, <1>4, PublisherAndLock DEF StepOf
    <2>2. CASE MovePointer(q)
      <3>1. \A p \in Publishers : p # q => pub'[p].served =< lastId' /\ Collides(p)'
        BY <2>1, <2>2, PublishStopsOthers
      <3>2. pub'[q].served = pub[q].served /\ ~PastTheGuard(q)'
        BY <1>1, <2>2 DEF MovePointer, Publisher, PastTheGuard
      <3>3. pub'[q].served =< lastId'
        BY <1>1, <3>2 DEF InOrder, Publisher
      <3> QED
        BY <3>1, <3>2, <3>3 DEF InOrder
    <2>3. CASE ~MovePointer(q)
      <3>1. KeepsTheOrder
        BY <1>4, <2>3, OnlyPublishesMove
      <3>2. /\ pub'[q].served =< lastId'
            /\ PastTheGuard(q)' /\ pub'[q].revision = feed'.revision =>
                 \/ Collides(q)'
                 \/ ~NotNewer(pub[q].revision, pub[q].version)'
        BY <1>4, <2>1, <2>3, <3>1, OwnOrder
      <3>3. ASSUME NEW p \in Publishers, p # q
            PROVE  /\ pub'[p].served =< lastId'
                   /\ PastTheGuard(p)' /\ pub'[p].revision = feed'.revision =>
                        \/ Collides(p)'
                        \/ ~NotNewer(pub[p].revision, pub[p].version)'
        BY <1>1, <2>1, <3>1, <3>3, OrderKept
      <3> QED
        BY <3>2, <3>3 DEF InOrder
    <2> QED
      BY <2>2, <2>3
  <1>5. ASSUME NEW a \in Admins,
               \/ CreateCheck(a) \/ EditLoad(a) \/ DeleteLoad(a)
               \/ Requesting(a) \/ DeadlockedRequest(a) \/ GiveUp(a)
        PROVE  InOrder'
    <2>1. CASE EditCommit(a)
      <3>1. /\ feed'.revision = feed.revision + 1 /\ pub' = pub /\ lastId' = lastId
        BY <1>1, <2>1 DEF EditCommit, InStep
      <3>2. feed.revision \in Nat /\ \A p \in Publishers : pub[p].revision \in Nat
        BY <1>1 DEF Binding, Publisher
      <3>3. \A p \in Publishers : PastTheGuard(p)' => pub'[p].revision # feed'.revision
        BY <3>1, <3>2 DEF InStep, PastTheGuard
      <3> QED
        BY <3>1, <3>3 DEF InOrder
    <2>2. CASE EditLoad(a) \/ EditWrite(a) \/ GiveUp(a) \/ DeadlockedRequest(a)
      BY <1>2, <2>2 DEF EditLoad, EditWrite, GiveUp, DeadlockedRequest
    <2>3. CASE \/ CreateCheck(a) \/ DeleteLoad(a) \/ CreateInsert(a)
               \/ DeleteClear(a) \/ DeleteCommit(a)
      BY <2>3 DEF CreateCheck, DeleteLoad, CreateInsert, DeleteClear,
         DeleteCommit, InStep, OneEditor
    <2> QED
      BY <1>5, <2>1, <2>2, <2>3 DEF Requesting
  <1> QED
    BY <1>3, <1>4, <1>5 DEF Next

\* A publish is the only step that puts the pointer on a row, and by then no
\* version as new has been published under the revision.
LEMMA NoRegression ==
    ASSUME Typed, TableIsSound, LockIsOwned, InOrder, [Next]_vars,
           NEW new \in attempts' \ attempts, NEW old \in attempts, new.current,
           old.decision = "published", old.revision = new.revision
    PROVE  old.version < new.version
  <1>1. attempts \subseteq Attempt /\ pub \in [Publishers -> Publisher]
    BY DEF Typed, TypeOK
  <1>2. ASSUME NEW id, new \in Cleared(attempts, id) PROVE FALSE
    BY <1>1, <1>2, ClearedRow
  <1>3. ~Untouched /\ ~Pruned /\ ~\E id : Taken(id)
    BY <1>2 DEF Untouched, Pruned, Taken
  <1>4. ASSUME NEW q \in Publishers, MovePointer(q) PROVE old.version < new.version
    <2>1. new = RowOf(q, pub[q].revision, "published")
      BY <1>2, <1>4 DEF MovePointer
    <2>2. new.revision = pub[q].revision /\ new.version = pub[q].version
      BY <2>1 DEF RowOf
    <2>3. ~NotNewer(pub[q].revision, pub[q].version)
      BY <1>4 DEF MovePointer, InOrder, PastTheGuard, LockIsOwned
    <2>4. ~(old.version >= new.version)
      BY <2>2, <2>3 DEF NotNewer
    <2>5. old.version \in Nat /\ new.version \in Nat
      BY <1>1, <2>2, BoundsAssumption DEF Attempt, Publisher, Versions
    <2> QED
      BY <2>4, <2>5
  <1>5. ASSUME NEW q \in Publishers, Record(q) PROVE FALSE
    <2>1. ~RowOf(q, pub[q].revision, pub[q].decision).current
      BY <1>5 DEF Record, RowOf, Typed, Underway
    <2> QED
      BY <1>2, <1>5, <2>1 DEF Record
  <1>6. ASSUME NEW q \in Publishers, RecordSuperseded(q) PROVE FALSE
    <2>1. ~RowOf(q, feed.revision, "failed").current
      BY DEF RowOf
    <2> QED
      BY <1>6, <2>1 DEF RecordSuperseded
  <1>7. \/ \E q \in Publishers : MovePointer(q) \/ Record(q) \/ RecordSuperseded(q)
        \/ Untouched \/ Pruned \/ \E id : Taken(id)
    <2>1. CASE Quiet \/ UNCHANGED vars
      BY <2>1 DEF Quiet, vars, Untouched
    <2>2. ASSUME NEW q \in Publishers, ~MovePointer(q), ~Record(q),
                 ~RecordSuperseded(q),
                 Begin(q) \/ Attempting(q) \/ DeadlockVictim(q) \/ Die(q)
          PROVE  Untouched \/ Pruned
      BY <2>2 DEF Attempting, Begin, CannotBuild, ReadServed, CheckOrder, Produce,
         ChooseRetirement, LockBinding, Superseded, Prune, PruneRefused, Answer,
         Return, Die, DeadlockVictim, Untouched, Pruned
    <2>3. ASSUME NEW a \in Admins,
                 \/ CreateCheck(a) \/ EditLoad(a) \/ DeleteLoad(a)
                 \/ Requesting(a) \/ DeadlockedRequest(a) \/ GiveUp(a)
          PROVE  Untouched \/ \E id : Taken(id)
      BY <2>3 DEF Requesting, CreateCheck, CreateInsert, EditLoad, EditWrite,
         EditCommit, DeleteLoad, DeleteClear, DeleteCommit, DeadlockedRequest,
         GiveUp, Untouched, Taken
    <2> QED
      BY <2>1, <2>2, <2>3 DEF Next
  <1> QED
    BY <1>3, <1>4, <1>5, <1>6, <1>7

\* With one administrator who only edits and declarations that retire nothing,
\* the pointer moves only to versions newer than all published before under the
\* revision, however attempts with old and new data overtake each other between
\* the ordering guard and the commit.
THEOREM PointerOnlyAdvances ==
    ASSUME OneEditor, NothingRetires
    PROVE  Spec => PointerNeverRegresses
  <1> DEFINE I == /\ Typed /\ TableIsSound /\ Loaded /\ LockIsOwned
                  /\ RetirementIsEntitled /\ InStep /\ InOrder
             Advances ==
               \A new \in attempts' \ attempts, old \in attempts :
                 (/\ new.current
                  /\ old.decision = "published"
                  /\ old.revision = new.revision) => old.version < new.version
  <1>1. Init => I
    <2>1. Init => Typed /\ TableIsSound /\ RetirementIsEntitled
      BY TypedInit, TableInit, EntitledInit
    <2>2. Init => Loaded /\ LockIsOwned
      BY ActorsAssumption
         DEF Init, Loaded, LockIsOwned, IdlePublisher, IdleAdmin
    <2>3. Init => InStep
      BY DEF Init, InStep, Exists, IdlePublisher, IdleAdmin
    <2>4. Init => InOrder
      BY DEF Init, InOrder, IdlePublisher, PastTheGuard
    <2> QED
      BY <2>1, <2>2, <2>3, <2>4
  <1>2. I /\ [Next]_vars => I'
    BY OneEditor, NothingRetires, TypedNext, TableNext, LoadedNext, LockNext,
       EntitledNext, InStepNext, InOrderNext
  <1>3. I /\ [Next]_vars => [Advances]_vars
    BY NoRegression
  <1> QED
    BY <1>1, <1>2, <1>3, PTL DEF Spec, PointerNeverRegresses

-----------------------------------------------------------------------------
(* What readers are shown: FeedPromise.                                       *)

Shown(rows) == {[id |-> a.id, revision |-> a.revision] : a \in {b \in rows : b.current}}
PromiseVars == <<Shown(attempts), lastId, feed.revision>>

\* Clearing shows what was shown, or nothing.
LEMMA ClearedShows ==
    ASSUME Typed, TableIsSound, NEW id
    PROVE  Shown(Cleared(attempts, id)) \in {Shown(attempts), {}}
  <1>1. attempts \subseteq Attempt
    BY DEF Typed, TypeOK
  <1>2. \A b \in Cleared(attempts, id) : b.current => b \in Current
    BY <1>1, ClearedRow DEF Current
  <1>3. CASE \E a \in Current : a.id # id
    <2>1. PICK a \in Current : a.id # id
      BY <1>3
    <2>2. a \in Cleared(attempts, id) /\ a.current
      BY <2>1 DEF Cleared, Current
    <2>3. \A b \in attempts : b.current => b = a
      BY <2>1 DEF TableIsSound, OnePointer, Current
    <2>4. {b \in Cleared(attempts, id) : b.current} = {b \in attempts : b.current}
      BY <1>2, <2>2, <2>3 DEF Current
    <2> QED
      BY <2>4 DEF Shown
  <1>4. CASE \A a \in Current : a.id = id
    <2>1. \A b \in Cleared(attempts, id) : b.current => b.id # id
      BY <1>1, ClearedRow
    <2>2. {b \in Cleared(attempts, id) : b.current} = {}
      BY <1>2, <1>4, <2>1
    <2> QED
      BY <2>2 DEF Shown
  <1> QED
    BY <1>3, <1>4

\* Clearing the row that is served shows nothing.
LEMMA ServedCleared ==
    ASSUME Typed, TableIsSound
    PROVE  Shown(Cleared(attempts, ServedId)) = {}
  <1>1. attempts \subseteq Attempt
    BY DEF Typed, TypeOK
  <1>2. \A b \in Cleared(attempts, ServedId) : b.current => b \in Current /\ b.id # ServedId
    BY <1>1, ClearedRow DEF Current
  <1>3. \A b \in Current : b.id = ServedId
    BY ServedIdIsCurrent DEF TableIsSound, OnePointer
  <1>4. {b \in Cleared(attempts, ServedId) : b.current} = {}
    BY <1>2, <1>3
  <1> QED
    BY <1>4 DEF Shown

\* A publish shows the new row alone: under the lock, its revision is the binding's.
LEMMA PublishShows ==
    ASSUME Typed, TableIsSound, LockIsOwned, NEW p \in Publishers, MovePointer(p)
    PROVE  /\ feed.revision # 0 /\ feed' = feed /\ lastId' = lastId + 1
           /\ Shown(attempts') = {[id |-> lastId', revision |-> feed.revision]}
  <1> DEFINE row == RowOf(p, pub[p].revision, "published")
  <1>1. attempts \subseteq Attempt /\ p # Nobody
    BY ActorsAssumption DEF Typed, TypeOK
  <1>2. feed.revision # 0 /\ feed.revision = pub[p].revision
    BY <1>1 DEF LockIsOwned, MovePointer, Exists
  <1>3. /\ row.id = lastId + 1 /\ row.revision = pub[p].revision /\ row.current
        /\ lastId' = lastId + 1 /\ feed' = feed
        /\ attempts' = Cleared(attempts, pub[p].served) \cup {row}
    BY DEF MovePointer, RowOf
  <1>4. \A b \in Cleared(attempts, pub[p].served) : ~b.current
    <2>1. \A b \in Cleared(attempts, pub[p].served) :
             b.current => b \in Current /\ b.id # pub[p].served
      BY <1>1, ClearedRow DEF Current
    <2>2. \A a \in Current : a.id = pub[p].served
      BY DEF MovePointer, Collides
    <2> QED
      BY <2>1, <2>2
  <1>5. {b \in attempts' : b.current} = {row}
    BY <1>3, <1>4
  <1> QED
    BY <1>2, <1>3, <1>5 DEF Shown

\* An attempt that fails shows what was shown, or retires it.
LEMMA FailShows ==
    ASSUME Typed, TableIsSound, NEW id, NEW row, ~row.current, Added(id, row)
    PROVE  Shown(attempts') \in {Shown(attempts), {}} /\ lastId' = lastId + 1
  <1>1. {b \in attempts' : b.current} = {b \in Cleared(attempts, id) : b.current}
    BY DEF Added
  <1>2. Shown(attempts') = Shown(Cleared(attempts, id))
    BY <1>1 DEF Shown
  <1> QED
    BY <1>2, ClearedShows DEF Added

\* Every step is one of the promise's, or shows readers nothing new.
LEMMA PromiseStep ==
    ASSUME Typed, TableIsSound, LockIsOwned, [Next]_vars
    PROVE  [Promise!Next]_PromiseVars
  <1> USE DEF Promise!Next
  <1>1. Shown(attempts) = {[id |-> a.id, revision |-> a.revision] : a \in Current}
    BY DEF Shown, Current
  <1>2. Shown(attempts)' = Shown(attempts')
    BY DEF Shown
  <1>3. CASE UNCHANGED <<attempts, lastId, feed>>
    BY <1>3 DEF PromiseVars, Shown
  <1>4. ASSUME NEW p \in Publishers, MovePointer(p) PROVE Promise!Publish
    BY <1>1, <1>2, <1>4, PublishShows DEF Promise!Publish, Shown, Current
  <1>5. ASSUME NEW p \in Publishers, Record(p) \/ RecordSuperseded(p), lastId' # lastId
        PROVE  Promise!Fail
    <2>1. CASE Record(p)
      <3> DEFINE row == RowOf(p, pub[p].revision, pub[p].decision)
      <3>1. Added(pub[p].retires, row) /\ feed' = feed
        BY <2>1 DEF Record, Added, RowOf
      <3>2. ~row.current
        BY <2>1 DEF Typed, Underway, Record, RowOf
      <3> QED
        BY <1>1, <1>2, <3>1, <3>2, FailShows DEF Promise!Fail, Shown, Current
    <2>2. CASE RecordSuperseded(p)
      <3> DEFINE row == RowOf(p, feed.revision, "failed")
      <3>1. Cleared(attempts, 0) = attempts
        BY ClearedNothing DEF Typed, TypeOK
      <3>2. Added(0, row) /\ feed' = feed
        BY <1>5, <2>2, <3>1 DEF RecordSuperseded, Added, RowOf
      <3>3. ~row.current
        BY DEF RowOf
      <3> QED
        BY <1>1, <1>2, <3>2, <3>3, FailShows DEF Promise!Fail, Shown, Current
    <2> QED
      BY <1>5, <2>1, <2>2
  <1>6. ASSUME NEW p \in Publishers, RecordSuperseded(p), lastId' = lastId
        PROVE  UNCHANGED <<attempts, lastId, feed>>
    <2>1. lastId \in Nat
      BY DEF Typed, TypeOK
    <2> QED
      BY <1>6, <2>1 DEF RecordSuperseded
  <1>7. ASSUME NEW p \in Publishers, Prune(p) PROVE UNCHANGED PromiseVars
    <2>1. {b \in attempts' : b.current} = {b \in attempts : b.current}
      BY <1>7 DEF Prune, Prunable
    <2> QED
      BY <1>7, <2>1 DEF Prune, PromiseVars, Shown
  <1>8. ASSUME NEW a \in Admins, EditCommit(a) PROVE Promise!Edit
    <2>1. feed.revision # 0
      BY <1>8, ActorsAssumption DEF LockIsOwned, EditCommit, Exists
    <2>2. feed'.revision = adm[a].revision + 1 /\ adm[a].revision \in Nat
      BY <1>8 DEF EditCommit, Typed, TypeOK, Admin
    <2>3. Shown(attempts') = {} /\ lastId' = lastId
      BY <1>8, ServedCleared DEF EditCommit
    <2> QED
      BY <1>2, <2>1, <2>2, <2>3 DEF Promise!Edit, Shown, Current
  <1>9. ASSUME NEW a \in Admins, DeleteCommit(a) PROVE Promise!Delete
    <2>1. feed'.revision = 0 /\ lastId' = lastId
      BY <1>9 DEF DeleteCommit, NoFeed
    <2>2. Shown(attempts') \in {Shown(attempts), {}}
      BY <1>9, ClearedShows DEF DeleteCommit
    <2> QED
      BY <1>1, <1>2, <2>1, <2>2 DEF Promise!Delete, Shown, Current
  <1>10. ASSUME NEW a \in Admins, CreateInsert(a)
         PROVE  Promise!Create \/ UNCHANGED <<attempts, lastId, feed>>
    BY <1>10 DEF CreateInsert, Exists, Promise!Create, Current
  <1>11. ASSUME NEW p \in Publishers,
                \/ Begin(p) \/ CannotBuild(p) \/ ReadServed(p) \/ CheckOrder(p)
                \/ Produce(p) \/ ChooseRetirement(p) \/ LockBinding(p) \/ Superseded(p)
                \/ PruneRefused(p) \/ Answer(p) \/ Return(p) \/ Die(p) \/ DeadlockVictim(p)
         PROVE  UNCHANGED <<attempts, lastId, feed>>
    BY <1>11 DEF Begin, CannotBuild, ReadServed, CheckOrder, Produce, ChooseRetirement,
       LockBinding, Superseded, PruneRefused, Answer, Return, Die, DeadlockVictim
  <1>12. ASSUME NEW a \in Admins,
                \/ CreateCheck(a) \/ EditLoad(a) \/ EditWrite(a) \/ DeleteLoad(a)
                \/ DeleteClear(a) \/ DeadlockedRequest(a) \/ GiveUp(a)
         PROVE  UNCHANGED <<attempts, lastId, feed>>
    BY <1>12 DEF CreateCheck, EditLoad, EditWrite, DeleteLoad, DeleteClear,
       DeadlockedRequest, GiveUp
  <1>13. CASE Quiet \/ UNCHANGED vars
    BY <1>3, <1>13 DEF Quiet, vars
  <1>14. ASSUME NEW p \in Publishers, Record(p) PROVE lastId' # lastId
    <2>1. lastId \in Nat
      BY DEF Typed, TypeOK
    <2> QED
      BY <1>14, <2>1 DEF Record
  <1>15. CASE \E p \in Publishers :
                Begin(p) \/ Attempting(p) \/ DeadlockVictim(p) \/ Die(p)
    BY <1>3, <1>4, <1>5, <1>6, <1>7, <1>11, <1>14, <1>15 DEF Attempting
  <1>16. CASE \E a \in Admins :
                \/ CreateCheck(a) \/ EditLoad(a) \/ DeleteLoad(a)
                \/ Requesting(a) \/ DeadlockedRequest(a) \/ GiveUp(a)
    BY <1>3, <1>8, <1>9, <1>10, <1>12, <1>16 DEF Requesting
  <1> QED
    BY <1>13, <1>15, <1>16 DEF Next

\* PublishEngine implements FeedPromise: whatever overlaps, dies, deadlocks or is
\* pruned, readers are shown one artifact at a time, none comes back, a new one
\* belongs to the binding's present revision, and no edit leaves one on the air.
THEOREM PromiseIsKept == Spec => PromiseKept
  <1>1. Init => Promise!Init
    BY DEF Init, Promise!Init, Current
  <1>2. Consistent /\ [Next]_vars => [Promise!Next]_Promise!vars
    BY PromiseStep DEF Consistent, Typed, TableIsSound, PromiseVars, Shown, Promise!vars,
       Current
  <1> QED
    BY <1>1, <1>2, ConsistentAlways, PTL DEF Spec, PromiseKept, Promise!Spec
=============================================================================
