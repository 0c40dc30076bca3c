---------------------------- MODULE PublishEngine ----------------------------
(***************************************************************************)
(* One published feed of veodyn-api: its binding row (published_feed), the  *)
(* attempts recorded against it (publish_attempt), the publishers that run  *)
(* services/publish_engine.run_attempt for it, and the administrators whose *)
(* requests create, edit and delete the binding.                            *)
(*                                                                          *)
(* PostgreSQL runs READ COMMITTED: a statement sees what has been committed *)
(* when it starts.  A step here is one statement whose result is used later,*)
(* or the tail of a transaction from its first write to its commit when     *)
(* nothing in that tail is read or waited for by anyone else.  Two locks    *)
(* outlive a step: `lock', on the binding row, and the lock a delete takes  *)
(* on the attempt row whose pointer it clears (RowLocked).                  *)
(***************************************************************************)
EXTENDS Naturals, FiniteSets

CONSTANTS
    Publishers,      \* threads and workers that run attempts for this feed
    Admins,          \* requests of administrators
    Nobody,          \* holds the binding's lock when no transaction does
    Operations,      \* the requests administrators make
    Declarations,    \* what a binding can declare: query, mapping, mode ...
    Undeclared,      \* the declaration of a binding that does not exist
    Retiring,        \* the declarations with retire_on_failure set
    MaxVersion,      \* bound: source versions are 1 .. MaxVersion
    MaxRevision,     \* bound: an edit is loaded only below this revision
    MaxAttempts      \* bound: attempts begun in one behaviour

ASSUME ActorsAssumption ==
    /\ Publishers \cap Admins = {}
    /\ Nobody \notin Publishers \cup Admins

ASSUME DeclarationsAssumption ==
    /\ Undeclared \notin Declarations
    /\ Retiring \subseteq Declarations
    /\ Operations \subseteq {"create", "edit", "delete"}

ASSUME BoundsAssumption ==
    /\ MaxVersion \in Nat
    /\ MaxRevision \in Nat
    /\ MaxAttempts \in Nat

VARIABLES
    feed,       \* the committed binding row
    lock,       \* who holds the row lock on it
    attempts,   \* the committed rows of publish_attempt
    lastId,     \* the attempt_id last handed out
    begun,      \* how many attempts have been begun (bounds the model)
    pub,        \* where each publisher is in its attempt
    adm         \* where each administrator is in their request

vars == <<feed, lock, attempts, lastId, begun, pub, adm>>

-----------------------------------------------------------------------------
(* The rows.  Revision 0 stands for no row.  `built' is the declaration the  *)
(* bytes of a published attempt were made under: the content of feed_bytes.  *)

Versions == 1 .. MaxVersion
Binding  == [revision : Nat, declares : Declarations \cup {Undeclared}]
NoFeed   == [revision |-> 0, declares |-> Undeclared]
Exists   == feed.revision # 0

Attempt == [id : Nat \ {0}, revision : Nat, version : Versions,
            decision : {"published", "blocked", "failed"},
            built : Declarations \cup {Undeclared}, current : BOOLEAN]

Publisher ==
    [pc : {"idle", "begun", "served", "producing", "clean", "failing",
           "recording", "locked", "superseded", "pruning", "recorded",
           "answered", "unanswered", "raised"},
     revision : Nat, declares : Declarations \cup {Undeclared},
     version : Versions \cup {0}, served : Nat, retires : Nat,
     decision : {"none", "published", "blocked", "failed"},
     row : Nat, answer : Nat]

Admin ==
    [pc : {"idle", "creating", "editing", "offair", "deleting", "delclear"},
     revision : Nat, loaded : Declarations \cup {Undeclared},
     body : Declarations \cup {Undeclared}, served : Nat]

IdlePublisher ==
    [pc |-> "idle", revision |-> 0, declares |-> Undeclared, version |-> 0,
     served |-> 0, retires |-> 0, decision |-> "none", row |-> 0, answer |-> 0]

IdleAdmin ==
    [pc |-> "idle", revision |-> 0, loaded |-> Undeclared,
     body |-> Undeclared, served |-> 0]

TypeOK ==
    /\ feed \in Binding
    /\ lock \in Publishers \cup Admins \cup {Nobody}
    /\ attempts \subseteq Attempt
    /\ lastId \in Nat
    /\ begun \in Nat
    /\ pub \in [Publishers -> Publisher]
    /\ adm \in [Admins -> Admin]

-----------------------------------------------------------------------------
(* Reads of publish_attempt.                                                 *)

Current == {a \in attempts : a.current}

\* current_artifact: the id of the row the pointer is on, 0 when there is none.
ServedId == IF Current = {} THEN 0 ELSE (CHOOSE a \in Current : TRUE).id

\* Slip: an equal version does not count.
NotNewerButEqual(revision, version) ==
    \E a \in attempts : /\ a.decision = "published"
                        /\ a.revision = revision
                        /\ a.version > version

\* published_high_water_mark >= version, under one revision.
NotNewer(revision, version) ==
    \E a \in attempts : /\ a.decision = "published"
                        /\ a.revision = revision
                        /\ a.version >= version

\* clear_the_pointer, by attempt_id: the row read earlier, whatever it is now.
Cleared(rows, id) ==
    {IF a.id = id THEN [a EXCEPT !.current = FALSE] ELSE a : a \in rows}

\* The row lock of a delete that has cleared a pointer and not committed; a
\* row that is not there (0, or pruned since it was read) is not locked.
RowLocked(id) ==
    /\ \E a \in attempts : a.id = id
    /\ \E d \in Admins : adm[d].pc = "delclear" /\ adm[d].served = id

\* Slip: any artifact of the attempt's revision, a newer one too.
EntitledToAnyVersion(p) == {a \in Current : a.revision = pub[p].revision}

\* the_artifact_this_attempt_is_entitled_to_retire, for publisher p.
Entitled(p) == {a \in Current : /\ a.revision = pub[p].revision
                                /\ a.version =< pub[p].version}

\* Slip: one keeper for the feed, not one for each revision.
NewestOfTheFeed(a) ==
    /\ a.decision = "published"
    /\ \A b \in attempts :
         b.decision = "published" => \/ b.version < a.version
                                     \/ b.version = a.version /\ b.id =< a.id

\* the_newest_version_published_under_each_revision.
NewestOfItsRevision(a) ==
    /\ a.decision = "published"
    /\ \A b \in attempts :
         (b.decision = "published" /\ b.revision = a.revision) =>
             \/ b.version < a.version
             \/ b.version = a.version /\ b.id =< a.id

\* _expired_batch.  Which rows are older than the window is left open, except
\* that the window is a day at least, so the row of an attempt still in flight
\* is inside it; a row a delete has locked is skipped.
Prunable == {a \in attempts : /\ ~a.current
                              /\ ~NewestOfItsRevision(a)
                              /\ ~RowLocked(a.id)
                              /\ \A q \in Publishers : pub[q].row # a.id}

-----------------------------------------------------------------------------
(* An attempt: routers/published_feed_attempts.publish_now, and the worker's *)
(* call of run_attempt, which starts from a binding it loaded the same way.  *)

\* The row `record' writes for p, under revision r.
RowOf(p, r, decision) ==
    [id |-> lastId + 1, revision |-> r, version |-> pub[p].version,
     decision |-> decision, current |-> decision = "published",
     built |-> IF decision = "published" THEN pub[p].declares ELSE Undeclared]

\* load_feed, then the source: any version may turn up, since a retry, a
\* worker and a rebound query all bring old ones.
Begin(p) ==
    /\ pub[p].pc = "idle"
    /\ begun < MaxAttempts
    /\ Exists
    /\ begun' = begun + 1
    /\ \E v \in Versions :
         pub' = [pub EXCEPT ![p] = [IdlePublisher EXCEPT
                    !.pc = "begun", !.version = v,
                    !.revision = feed.revision, !.declares = feed.declares]]
    /\ UNCHANGED <<feed, lock, attempts, lastId, adm>>

\* Slip: the early return forgets to say how the attempt was decided.
CannotBuildUndecided(p) ==
    /\ pub[p].pc = "begun"
    /\ pub' = [pub EXCEPT ![p].pc = "failing"]
    /\ UNCHANGED <<feed, lock, attempts, lastId, begun, adm>>

\* Nothing in this process builds the binding's standard and entity.
CannotBuild(p) ==
    /\ pub[p].pc = "begun"
    /\ pub' = [pub EXCEPT ![p].pc = "failing", ![p].decision = "failed"]
    /\ UNCHANGED <<feed, lock, attempts, lastId, begun, adm>>

ReadServed(p) ==
    /\ pub[p].pc = "begun"
    /\ pub' = [pub EXCEPT ![p].pc = "served", ![p].served = ServedId]
    /\ UNCHANGED <<feed, lock, attempts, lastId, begun, adm>>

\* A version that is not newer is recorded, and never retires anything.
CheckOrder(p) ==
    /\ pub[p].pc = "served"
    /\ pub' = IF NotNewer(pub[p].revision, pub[p].version)
              THEN [pub EXCEPT ![p].pc = "recording", ![p].decision = "failed"]
              ELSE [pub EXCEPT ![p].pc = "producing"]
    /\ UNCHANGED <<feed, lock, attempts, lastId, begun, adm>>

\* Serialize and validate: refused (or judged by no rule), blocked, or clean.
Produce(p) ==
    /\ pub[p].pc = "producing"
    /\ \E verdict \in {"failed", "blocked", "published"} :
         pub' = [pub EXCEPT ![p].decision = verdict,
                   ![p].pc = IF verdict = "published" THEN "clean" ELSE "failing"]
    /\ UNCHANGED <<feed, lock, attempts, lastId, begun, adm>>

\* record_and_retire_if_the_binding_says_to, up to the row it will clear.
ChooseRetirement(p) ==
    /\ pub[p].pc = "failing"
    /\ pub' = [pub EXCEPT ![p].pc = "recording",
                 ![p].retires = IF pub[p].declares \in Retiring /\ Entitled(p) # {}
                                THEN ServedId ELSE 0]
    /\ UNCHANGED <<feed, lock, attempts, lastId, begun, adm>>

\* Slip: the locked row is not compared with the binding the attempt loaded.
LockAnyRevision(p) ==
    /\ pub[p].pc = "clean"
    /\ lock = Nobody
    /\ lock' = IF Exists THEN p ELSE Nobody
    /\ pub' = [pub EXCEPT ![p].pc = "locked"]
    /\ UNCHANGED <<feed, attempts, lastId, begun, adm>>

\* SELECT revision ... FOR UPDATE.  A row that is gone leaves nothing to lock;
\* one that moved stays locked until the attempt is recorded.
LockBinding(p) ==
    /\ pub[p].pc = "clean"
    /\ lock = Nobody
    /\ lock' = IF Exists THEN p ELSE Nobody
    /\ pub' = IF feed.revision = pub[p].revision
              THEN [pub EXCEPT ![p].pc = "locked"]
              ELSE [pub EXCEPT ![p].pc = "recording", ![p].decision = "failed"]
    /\ UNCHANGED <<feed, attempts, lastId, begun, adm>>

\* Rows the transaction of a publisher at "locked" writes or collides with.
RowsItWaitsFor(p) == {pub[p].served, ServedId}

\* Slip: the partial unique index is missing.
NothingCollides(p) == FALSE

\* The unique index: the pointer is on a row this attempt does not clear.
Collides(p) == \E a \in Current : a.id # pub[p].served

\* clear_the_pointer(served), record(..., "published"), COMMIT.
MovePointer(p) ==
    /\ pub[p].pc = "locked"
    /\ \A id \in RowsItWaitsFor(p) : ~RowLocked(id)
    /\ ~Collides(p)
    /\ attempts' = Cleared(attempts, pub[p].served)
                     \cup {RowOf(p, pub[p].revision, "published")}
    /\ lastId' = lastId + 1
    /\ pub' = [pub EXCEPT ![p].pc = "pruning", ![p].row = lastId + 1]
    /\ lock' = Nobody
    /\ UNCHANGED <<feed, begun, adm>>

\* IntegrityError on uq_publish_attempt_current: ROLLBACK, which frees the lock
\* and expires the loaded binding.
Superseded(p) ==
    /\ pub[p].pc = "locked"
    /\ \A id \in RowsItWaitsFor(p) : ~RowLocked(id)
    /\ Collides(p)
    /\ pub' = [pub EXCEPT ![p].pc = "superseded", ![p].decision = "failed"]
    /\ lock' = Nobody
    /\ UNCHANGED <<feed, attempts, lastId, begun, adm>>

\* The record after the rollback reloads the expired binding: the row is
\* written under the revision it finds, and a deleted binding raises.
RecordSuperseded(p) ==
    /\ pub[p].pc = "superseded"
    /\ IF Exists
       THEN /\ attempts' = attempts \cup {RowOf(p, feed.revision, "failed")}
            /\ lastId' = lastId + 1
            /\ pub' = [pub EXCEPT ![p].pc = "pruning", ![p].row = lastId + 1,
                                  ![p].revision = feed.revision,
                                  ![p].declares = feed.declares]
       ELSE /\ pub' = [pub EXCEPT ![p].pc = "raised"]
            /\ UNCHANGED <<attempts, lastId>>
    /\ UNCHANGED <<feed, lock, begun, adm>>

\* record(...) of a failed or blocked attempt, with the retirement chosen
\* before it, in one transaction.
Record(p) ==
    /\ pub[p].pc = "recording"
    /\ ~RowLocked(pub[p].retires)
    /\ attempts' = Cleared(attempts, pub[p].retires)
                     \cup {RowOf(p, pub[p].revision, pub[p].decision)}
    /\ lastId' = lastId + 1
    /\ pub' = [pub EXCEPT ![p].pc = "pruning", ![p].row = lastId + 1,
                          ![p].retires = 0]
    /\ lock' = IF lock = p THEN Nobody ELSE lock
    /\ UNCHANGED <<feed, begun, adm>>

\* prune_without_failing_the_attempt, a transaction of its own; it may delete
\* nothing (no window is set, or nothing has expired) ...
Prune(p) ==
    /\ pub[p].pc = "pruning"
    /\ \E doomed \in SUBSET Prunable : attempts' = attempts \ doomed
    /\ pub' = [pub EXCEPT ![p].pc = "recorded"]
    /\ UNCHANGED <<feed, lock, lastId, begun, adm>>

\* ... or the database refuses it: the error is swallowed, but the ROLLBACK
\* expires the loaded binding, so publish_now reads it again, if it is there.
PruneRefused(p) ==
    /\ pub[p].pc = "pruning"
    /\ pub' = IF Exists
              THEN [pub EXCEPT ![p].pc = "recorded", ![p].revision = feed.revision,
                               ![p].declares = feed.declares]
              ELSE [pub EXCEPT ![p].pc = "unanswered"]
    /\ UNCHANGED <<feed, lock, attempts, lastId, begun, adm>>

\* What publish_now reads back: the rows of its revision and result id.
ReadBack(p) == {a \in attempts : /\ a.revision = pub[p].revision
                                 /\ a.version = pub[p].version}

\* The newest of them is the answer; when there is none the request fails.
Answer(p) ==
    /\ pub[p].pc = "recorded"
    /\ \/ \E a \in ReadBack(p) :
            /\ \A b \in ReadBack(p) : b.id =< a.id
            /\ pub' = [pub EXCEPT ![p].pc = "answered", ![p].answer = a.id]
       \/ /\ ReadBack(p) = {}
          /\ pub' = [pub EXCEPT ![p].pc = "unanswered"]
    /\ UNCHANGED <<feed, lock, attempts, lastId, begun, adm>>

Return(p) ==
    /\ pub[p].pc \in {"answered", "unanswered", "raised"}
    /\ pub' = [pub EXCEPT ![p] = IdlePublisher]
    /\ UNCHANGED <<feed, lock, attempts, lastId, begun, adm>>

\* The process dies, or the source cannot be read: what was not committed goes.
Die(p) ==
    /\ pub[p].pc \notin {"idle", "answered", "unanswered", "raised"}
    /\ pub' = [pub EXCEPT ![p] = IdlePublisher]
    /\ lock' = IF lock = p THEN Nobody ELSE lock
    /\ UNCHANGED <<feed, attempts, lastId, begun, adm>>

-----------------------------------------------------------------------------
(* An administrator's request: routers/published_feeds.py.                   *)

\* create_feed: the slug is free when it is looked up ...
CreateCheck(a) ==
    /\ adm[a].pc = "idle"
    /\ "create" \in Operations
    /\ ~Exists
    /\ \E d \in Declarations :
         adm' = [adm EXCEPT ![a] = [IdleAdmin EXCEPT !.pc = "creating", !.body = d]]
    /\ UNCHANGED <<feed, lock, attempts, lastId, begun, pub>>

\* ... and the INSERT, after the calls to Redash, takes it or finds it taken.
CreateInsert(a) ==
    /\ adm[a].pc = "creating"
    /\ feed' = IF Exists THEN feed
               ELSE [revision |-> 1, declares |-> adm[a].body]
    /\ adm' = [adm EXCEPT ![a] = IdleAdmin]
    /\ UNCHANGED <<lock, attempts, lastId, begun, pub>>

\* update_feed: the binding is loaded before the calls to Redash ...
EditLoad(a) ==
    /\ adm[a].pc = "idle"
    /\ "edit" \in Operations
    /\ Exists
    /\ feed.revision < MaxRevision
    /\ \E d \in Declarations :
         adm' = [adm EXCEPT ![a] = [IdleAdmin EXCEPT
                    !.pc = "editing", !.revision = feed.revision,
                    !.loaded = feed.declares, !.body = d]]
    /\ UNCHANGED <<feed, lock, attempts, lastId, begun, pub>>

\* ... and written after them: the SELECT of take_the_feed_off_the_air flushes
\* the UPDATE first, so the row is locked before the pointer is read.  An
\* UPDATE of a row that is gone raises.
EditWrite(a) ==
    /\ adm[a].pc = "editing"
    /\ lock = Nobody
    /\ IF Exists
       THEN /\ lock' = a
            /\ adm' = [adm EXCEPT ![a].pc = "offair"]
       ELSE /\ adm' = [adm EXCEPT ![a] = IdleAdmin]
            /\ UNCHANGED lock
    /\ UNCHANGED <<feed, attempts, lastId, begun, pub>>

\* Slip: the artifact stays on the air until its successor is published.
EditOnTheAir(a) ==
    /\ adm[a].pc = "offair"
    /\ feed' = [revision |-> adm[a].revision + 1,
                declares |-> IF adm[a].body = adm[a].loaded
                             THEN feed.declares ELSE adm[a].body]
    /\ lock' = Nobody
    /\ adm' = [adm EXCEPT ![a] = IdleAdmin]
    /\ UNCHANGED <<attempts, lastId, begun, pub>>

\* The revision is the loaded one plus one, and only the columns the body
\* changes from what was loaded are written.
EditCommit(a) ==
    /\ adm[a].pc = "offair"
    /\ ~RowLocked(ServedId)
    /\ feed' = [revision |-> adm[a].revision + 1,
                declares |-> IF adm[a].body = adm[a].loaded
                             THEN feed.declares ELSE adm[a].body]
    /\ attempts' = Cleared(attempts, ServedId)
    /\ lock' = Nobody
    /\ adm' = [adm EXCEPT ![a] = IdleAdmin]
    /\ UNCHANGED <<lastId, begun, pub>>

\* delete_feed: the binding is loaded and the pointer read, with no lock ...
DeleteLoad(a) ==
    /\ adm[a].pc = "idle"
    /\ "delete" \in Operations
    /\ Exists
    /\ adm' = [adm EXCEPT ![a] = [IdleAdmin EXCEPT
                   !.pc = "deleting", !.served = ServedId]]
    /\ UNCHANGED <<feed, lock, attempts, lastId, begun, pub>>

\* ... the pointer cleared on the row that was read, which locks that row ...
DeleteClear(a) ==
    /\ adm[a].pc = "deleting"
    /\ ~RowLocked(adm[a].served)
    /\ adm' = [adm EXCEPT ![a].pc = "delclear"]
    /\ UNCHANGED <<feed, lock, attempts, lastId, begun, pub>>

\* ... and the DELETE of the binding, which waits for its lock, committed.
DeleteCommit(a) ==
    /\ adm[a].pc = "delclear"
    /\ lock = Nobody
    /\ feed' = NoFeed
    /\ attempts' = Cleared(attempts, adm[a].served)
    /\ adm' = [adm EXCEPT ![a] = IdleAdmin]
    /\ UNCHANGED <<lock, lastId, begun, pub>>

\* Slip: no rollback, so the transaction and its lock stay open.
GiveUpStillOpen(a) ==
    /\ adm[a].pc # "idle"
    /\ adm' = [adm EXCEPT ![a] = IdleAdmin]
    /\ UNCHANGED <<feed, lock, attempts, lastId, begun, pub>>

\* A refused column map, a public address that is taken, or a dead process:
\* the request rolls back.
GiveUp(a) ==
    /\ adm[a].pc # "idle"
    /\ adm' = [adm EXCEPT ![a] = IdleAdmin]
    /\ lock' = IF lock = a THEN Nobody ELSE lock
    /\ UNCHANGED <<feed, attempts, lastId, begun, pub>>

-----------------------------------------------------------------------------
(* PostgreSQL breaks a deadlock: the holder of the binding's lock waits for  *)
(* a row a delete has locked, and that delete waits for the binding.  One of *)
(* them is rolled back, the holder or the delete.  A publisher gets an       *)
(* OperationalError, which run_attempt does not catch.                       *)
DeadlockVictim(p) ==
    /\ pub[p].pc = "locked"
    /\ \E id \in RowsItWaitsFor(p) : RowLocked(id)
    /\ pub' = [pub EXCEPT ![p].pc = "raised"]
    /\ lock' = Nobody
    /\ UNCHANGED <<feed, attempts, lastId, begun, adm>>

DeadlockedRequest(a) ==
    /\ \/ /\ adm[a].pc = "offair"
          /\ RowLocked(ServedId)
       \/ /\ adm[a].pc = "delclear"
          /\ \/ \E p \in Publishers : /\ pub[p].pc = "locked"
                                      /\ adm[a].served \in RowsItWaitsFor(p)
             \/ \E b \in Admins : adm[b].pc = "offair" /\ adm[a].served = ServedId
          /\ RowLocked(adm[a].served)
    /\ adm' = [adm EXCEPT ![a] = IdleAdmin]
    /\ lock' = IF lock = a THEN Nobody ELSE lock
    /\ UNCHANGED <<feed, attempts, lastId, begun, pub>>

Init ==
    /\ \E d \in Declarations : feed = [revision |-> 1, declares |-> d]
    /\ lock = Nobody
    /\ attempts = {}
    /\ lastId = 0
    /\ begun = 0
    /\ pub = [p \in Publishers |-> IdlePublisher]
    /\ adm = [a \in Admins |-> IdleAdmin]

\* What an attempt does until it returns.
Attempting(p) ==
    \/ CannotBuild(p) \/ ReadServed(p) \/ CheckOrder(p) \/ Produce(p)
    \/ ChooseRetirement(p) \/ LockBinding(p) \/ MovePointer(p)
    \/ Superseded(p) \/ RecordSuperseded(p) \/ Record(p) \/ Prune(p)
    \/ PruneRefused(p) \/ Answer(p) \/ Return(p)

\* What a request does once it has been taken up.
Requesting(a) ==
    \/ CreateInsert(a) \/ EditWrite(a) \/ EditCommit(a)
    \/ DeleteClear(a) \/ DeleteCommit(a)

\* Nobody is in the middle of anything: with the bounds used up, that is the end.
Quiet ==
    /\ \A p \in Publishers : pub[p].pc = "idle"
    /\ \A a \in Admins : adm[a].pc = "idle"
    /\ UNCHANGED vars

Next ==
    \/ Quiet
    \/ \E p \in Publishers :
         Begin(p) \/ Attempting(p) \/ DeadlockVictim(p) \/ Die(p)
    \/ \E a \in Admins :
         \/ CreateCheck(a) \/ EditLoad(a) \/ DeleteLoad(a)
         \/ Requesting(a) \/ DeadlockedRequest(a) \/ GiveUp(a)

Spec == Init /\ [][Next]_vars

-----------------------------------------------------------------------------
(* Fairness.  A thread that has begun goes on, and PostgreSQL queues the     *)
(* waiters for a row lock, so a lock that is freed again and again comes to  *)
(* each of them: strong fairness, per thread, since at any point of its code *)
(* a thread waits for one thing only.  Nobody has to die, give up or begin.  *)
Fairness ==
    /\ \A p \in Publishers : SF_vars(Attempting(p) \/ DeadlockVictim(p))
    /\ \A a \in Admins : SF_vars(Requesting(a) \/ DeadlockedRequest(a))

FairSpec == Spec /\ Fairness

-----------------------------------------------------------------------------
(* Properties.                                                               *)

\* The served bytes belong to a binding that exists, in its present revision
\* and under its present declaration: nothing that no validator saw in the
\* feed's current shape is on the air (published_feed_lifecycle).
ServesTheDeclaredBinding ==
    \A a \in Current : /\ Exists
                       /\ a.revision = feed.revision
                       /\ a.built = feed.declares

\* Within one revision the pointer never moves to a version that is not newer
\* than every version published before it (run_attempt's ordering guard, across
\* attempts that finish out of order).
PointerNeverRegresses ==
    [][\A new \in attempts' \ attempts, old \in attempts :
          (/\ new.current
           /\ old.decision = "published"
           /\ old.revision = new.revision) => old.version < new.version]_vars

\* What the ordering guard compares with is never lost: whatever is pruned, a
\* version refused as not newer goes on being refused (publish_retention).
WatermarkNeverFalls ==
    [][\A a \in attempts : a.decision = "published" =>
          NotNewer(a.revision, a.version)']_vars

\* An attempt that does not publish takes down an artifact only when its own
\* binding declares retire_on_failure, and then only one of its own revision
\* that is not newer than itself, however the pointer moved while it ran.
FailureRetiresOnlyItsOwn ==
    [][\A p \in Publishers :
          (pub[p].pc # "idle" /\ pub'[p].pc # pub[p].pc /\ Current' = {}) =>
              \A a \in Current :
                  /\ pub[p].declares \in Retiring
                  /\ a.revision = pub[p].revision
                  /\ a.version =< pub[p].version]_vars

\* Readers are shown one artifact at a time, none comes back, a new one belongs to
\* the present revision of a binding that is there, and no edit leaves one on the
\* air, whatever commits in between: the promise of FeedPromise.
Promise == INSTANCE FeedPromise WITH
               shown <- {[id |-> a.id, revision |-> a.revision] : a \in Current},
               last <- lastId,
               revision <- feed.revision
PromiseKept == Promise!Spec

\* Every attempt returns, whoever it had to wait for.
EveryAttemptReturns ==
    \A p \in Publishers : pub[p].pc # "idle" ~> pub[p].pc = "idle"

-----------------------------------------------------------------------------
(* The inductive invariant.                                                  *)

\* An attempt under way has a version, and one that has failed says how.
Underway ==
    \A p \in Publishers :
        /\ pub[p].pc # "idle" => pub[p].version # 0
        /\ pub[p].pc \in {"failing", "recording"} =>
             pub[p].decision \in {"failed", "blocked"}

\* An attempt under way carries the revision of a binding that existed.
Loaded == \A p \in Publishers : pub[p].pc # "idle" => pub[p].revision # 0

\* attempt_id is a key, handed out in order.
IdsAreKeys ==
    /\ \A a \in attempts : a.id =< lastId
    /\ \A a, b \in attempts : a.id = b.id => a = b

\* uq_publish_attempt_current: the pointer is on one row, which published.
OnePointer ==
    /\ \A a, b \in Current : a = b
    /\ \A a \in Current : a.decision = "published"

\* Whoever holds the binding's lock is in the transaction that took it, and a
\* publisher about to move the pointer holds it on the revision it started from.
LockIsOwned ==
    /\ lock # Nobody => Exists
    /\ \A p \in Publishers :
         /\ lock = p => pub[p].pc \in {"locked", "recording"}
         /\ pub[p].pc = "locked" =>
              lock = p /\ feed.revision = pub[p].revision
    /\ \A a \in Admins : lock = a <=> adm[a].pc = "offair"

\* A retirement that has been chosen stays one the attempt is entitled to,
\* whatever other transactions commit before it is recorded.
RetirementIsEntitled ==
    \A p \in Publishers :
        pub[p].retires # 0 =>
            /\ pub[p].pc = "recording"
            /\ pub[p].retires =< lastId
            /\ pub[p].declares \in Retiring
            /\ \A a \in attempts : a.id = pub[p].retires =>
                 /\ a.revision = pub[p].revision
                 /\ a.version =< pub[p].version

Consistent ==
    /\ TypeOK
    /\ Underway
    /\ Loaded
    /\ IdsAreKeys
    /\ OnePointer
    /\ LockIsOwned
    /\ RetirementIsEntitled

=============================================================================
