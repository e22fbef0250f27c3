------------------------------ MODULE Attempts ------------------------------
(***************************************************************************)
(* Comparison attempts on one dance: comparison/usecase/usecase.go over    *)
(* the tables compare_tasks, dance_attempts and saved_attempts and the     *)
(* videos and ML results in the object store.  A request takes several     *)
(* statements and object-store calls, and every replica sweeps expired     *)
(* videos meanwhile.  Attempts made without an account keep their files    *)
(* under a folder of their own and may be saved by a user who signs in     *)
(* afterwards.                                                             *)
(***************************************************************************)
EXTENDS Integers, FiniteSets

CONSTANTS
  Users,     \* accounts
  Attempts,  \* ids of attempts
  Slots,     \* slots for requests being handled at the same time
  Sweepers,  \* processes of the backend; each sweeps expired videos
  Fragile,   \* bound: the slots and sweepers whose failing calls are explored
  Maker,     \* Maker[a]: who uploads attempt a, None without an account
  Score,     \* Score[a]: the score ML computes for it
  Claims,    \* scores a client may report when it saves an attempt
  None       \* Go's nil

ASSUME AttemptsAssumption ==
  /\ Maker \in [Attempts -> Users \cup {None}]
  /\ Score \in [Attempts -> Nat]
  /\ Claims \subseteq Nat
  /\ IsFiniteSet(Slots)
  /\ Slots \cap Sweepers = {}
  /\ None \notin Users \cup Attempts \cup Nat

NobodyTold == [u \in Users |-> 0]

NoRow == [user |-> None, score |-> None]
NotSaved == [user |-> None, score |-> None, video |-> FALSE]

RecordedRow == [user : Users, score : Nat] \cup {NoRow}
SavedRow == [user : Users, score : Nat, video : BOOLEAN] \cup {NotSaved}

\* A slot: where its request is, for whom, on which attempt, and what it has read.
Request == [pc : {"idle", "enqueue", "task", "discard", "claimed", "load", "note", "look",
                  "upsert", "prune", "tell", "delete", "erase"},
            user : Users \cup {None},
            att : Attempts \cup {None},
            video : BOOLEAN,
            claim : Claims \cup {None},
            score : Nat,
            existed : BOOLEAN]

NewRequest(pc, u, a, v, c, score) ==
  [pc |-> pc, user |-> u, att |-> a, video |-> v, claim |-> c, score |-> score,
   existed |-> FALSE]

Idle == NewRequest("idle", None, None, FALSE, None, 0)

VARIABLES
  video,      \* video[a]: the user's video.mp4 is in the object store
  aged,       \* the attempts whose video is older than the time to live
  ml,         \* ml[a]: what ML has made of it; comparison_result.json exists when "done"
  task,       \* task[a]: its row of compare_tasks
  recorded,   \* recorded[a]: its row of dance_attempts
  saved,      \* saved[a]: its row of saved_attempts
  req,        \* req[s]: what slot s is doing
  sweep,      \* sweep[p]: the attempt whose video p is about to delete
  told,       \* history: announcements to each user since the saved row was made
  claimedBy,  \* history: who claimed the finalization of the task
  unmeasured, \* history: attempts somebody saved before ML had a result
  foreign,    \* history: attempts somebody saved that lie in another account's folder
  overtaken   \* history: calls that began before the attempt they work on was saved

histories == <<told, claimedBy, unmeasured, foreign, overtaken>>

vars == <<video, aged, ml, task, recorded, saved, req, sweep, histories>>

Init == /\ video = [a \in Attempts |-> FALSE]
        /\ aged = {}
        /\ ml = [a \in Attempts |-> "none"]
        /\ task = [a \in Attempts |-> "none"]
        /\ recorded = [a \in Attempts |-> NoRow]
        /\ saved = [a \in Attempts |-> NotSaved]
        /\ req = [s \in Slots |-> Idle]
        /\ sweep = [p \in Sweepers |-> None]
        /\ told = [a \in Attempts |-> NobodyTold]
        /\ claimedBy = [a \in Attempts |-> None]
        /\ unmeasured = {}
        /\ foreign = {}
        /\ overtaken = {}

Goto(s, pc) == req' = [req EXCEPT ![s].pc = pc]

Done(s) == req' = [req EXCEPT ![s] = Idle]

\* What a read of slot s may also give because it fails.
IfFailing(s, value) == IF s \in Fragile THEN {value} ELSE {}

\* The folder users/<id>/<attempt> is the maker's, or the attempt's own without an account.
InFolderOf(a, u) == Maker[a] = u

\* The two folders in which loadAuthoritativeResult looks for u: nobody else's attempts.
MayFind(a, u) == Maker[a] \in {u, None}

\* The calls that work on attempt a.
WorkingOn(a) == {s \in Slots : req[s].att = a} \cup {p \in Sweepers : sweep[p] = a}

-----------------------------------------------------------------------------
(* CompareDanceFromBuffer. *)

\* A new attempt: its video is uploaded under a fresh id.
Upload(s) ==
  /\ req[s].pc = "idle"
  /\ \E a \in Attempts :
       /\ ml[a] = "none" /\ ~video[a]
       /\ \A t \in Slots : req[t].att # a
       /\ video' = [video EXCEPT ![a] = TRUE]
       /\ req' = [req EXCEPT ![s] = NewRequest("enqueue", None, a, FALSE, None, 0)]
  /\ UNCHANGED <<aged, ml, task, recorded, saved, sweep, histories>>

\* ML takes the comparison, or the call fails, with or without ML having taken it.
Enqueue(s) ==
  LET a == req[s].att
  IN  /\ req[s].pc = "enqueue"
      /\ \/ ml' = [ml EXCEPT ![a] = "queued"] /\ Goto(s, "task")
         \/ /\ s \in Fragile
            /\ \E m \in {"queued", "failed"} : ml' = [ml EXCEPT ![a] = m]
            /\ Goto(s, "discard")
      /\ UNCHANGED <<video, aged, task, recorded, saved, sweep, histories>>

\* CreateCompareTask; its failure is logged and the client gets its task all the same.
PersistTask(s) ==
  /\ req[s].pc = "task"
  /\ \/ task' = [task EXCEPT ![req[s].att] = "open"]
     \/ s \in Fragile /\ UNCHANGED task
  /\ Done(s)
  /\ UNCHANGED <<video, aged, ml, recorded, saved, sweep, histories>>

\* The video of a comparison ML did not confirm is deleted again.
DiscardVideo(s) ==
  /\ req[s].pc = "discard"
  /\ \/ video' = [video EXCEPT ![req[s].att] = FALSE]
     \/ s \in Fragile /\ UNCHANGED video
  /\ Done(s)
  /\ UNCHANGED <<aged, ml, task, recorded, saved, sweep, histories>>

\* The ML service finishes a comparison.
MLFinish(a) ==
  /\ ml[a] = "queued"
  /\ \E m \in {"done", "failed"} : ml' = [ml EXCEPT ![a] = m]
  /\ UNCHANGED <<video, aged, task, recorded, saved, req, sweep, histories>>

-----------------------------------------------------------------------------
(* GetTaskStatus: the first poll after ML is done claims the task. *)

\* Mutant of AfterClaim: only the maker's own poll records the attempt.
AfterClaimOwn(a, u) == IF u # None /\ InFolderOf(a, u) THEN "claimed" ELSE "idle"

\* Without an account nothing is recorded, and the claim is gone.
AfterClaim(a, u) == IF u # None THEN "claimed" ELSE "idle"

PollClaim(s) ==
  /\ req[s].pc = "idle"
  /\ \E a \in Attempts, u \in Users \cup {None} :
       /\ ml[a] = "done"
       /\ task[a] = "open"
       /\ task' = [task EXCEPT ![a] = "finalized"]
       /\ claimedBy' = [claimedBy EXCEPT ![a] = u]
       /\ req' = [req EXCEPT ![s] =
                    IF AfterClaim(a, u) = "idle" THEN Idle
                    ELSE NewRequest(AfterClaim(a, u), u, a, FALSE, None, 0)]
  /\ UNCHANGED <<video, aged, ml, recorded, saved, sweep, told, unmeasured, foreign,
                 overtaken>>

\* RecordDanceAttempt: attempt_id is unique, a second INSERT fails and is only logged.
Recorded(a, u, score) ==
  [recorded EXCEPT ![a] = IF @ = NoRow THEN [user |-> u, score |-> score] ELSE @]

RecordPolled(s) ==
  /\ req[s].pc = "claimed"
  /\ recorded' = Recorded(req[s].att, req[s].user, Score[req[s].att])
  /\ Done(s)
  /\ UNCHANGED <<video, aged, ml, task, saved, sweep, histories>>

-----------------------------------------------------------------------------
(* SaveAttempt: a read that fails counts as having found nothing. *)

\* Any user may save any attempt of which it has the id, and the feed of reels and the
\* duels show the ids of others.  The score to fall back to is read first: the best
\* recorded one of the user.
BestOf(u) ==
  LET mine == {0} \cup {recorded[a].score : a \in {b \in Attempts : recorded[b].user = u}}
  IN  {x \in mine : \A y \in mine : y <= x}

SaveBegin(s) ==
  /\ req[s].pc = "idle"
  /\ \E a \in Attempts, u \in Users, v \in BOOLEAN, c \in Claims \cup {None} :
       /\ ml[a] # "none"
       /\ \E best \in BestOf(u) \cup IfFailing(s, 0) :
            req' = [req EXCEPT ![s] = NewRequest("load", u, a, v, c, best)]
  /\ overtaken' = overtaken \ {s}
  /\ UNCHANGED <<video, aged, ml, task, recorded, saved, sweep, told, claimedBy,
                 unmeasured, foreign>>

\* Mutant of Loaded: what the client reports comes first.
LoadedClaim(q, found) ==
  IF q.claim # None THEN [q EXCEPT !.pc = "note", !.score = q.claim]
  ELSE IF found THEN [q EXCEPT !.pc = "note", !.score = Score[q.att]]
  ELSE [q EXCEPT !.pc = "look"]

\* ML's result first, else what the client reports, else the best so far; a
\* score that is only the best so far is not recorded again.
Loaded(q, found) ==
  IF found THEN [q EXCEPT !.pc = "note", !.score = Score[q.att]]
  ELSE IF q.claim # None THEN [q EXCEPT !.pc = "note", !.score = q.claim]
  ELSE [q EXCEPT !.pc = "look"]

\* The result is there, and where request q looks for it.
ResultThere(q) == ml[q.att] = "done" /\ MayFind(q.att, q.user)

\* loadAuthoritativeResult: any error of the object store counts as no result, and so
\* does a result in another account's folder.
SaveLoad(s) ==
  LET q == req[s]
  IN  /\ q.pc = "load"
      /\ \E found \in BOOLEAN :
           /\ found => ResultThere(q)
           /\ ~found => ~ResultThere(q) \/ s \in Fragile
           /\ req' = [req EXCEPT ![s] = Loaded(q, found)]
      /\ unmeasured' = IF ml[q.att] = "done" THEN unmeasured ELSE unmeasured \cup {q.att}
      /\ foreign' = IF MayFind(q.att, q.user) THEN foreign ELSE foreign \cup {q.att}
      /\ UNCHANGED <<video, aged, ml, task, recorded, saved, sweep, told, claimedBy,
                     overtaken>>

\* Mutant of Noted: an attempt that is saved is not recorded.
NotedNever(s) == recorded

Noted(s) == Recorded(req[s].att, req[s].user, req[s].score)

SaveNote(s) ==
  /\ req[s].pc = "note"
  /\ \/ recorded' = Noted(s)
     \/ s \in Fragile /\ UNCHANGED recorded
  /\ Goto(s, "look")
  /\ UNCHANGED <<video, aged, ml, task, saved, sweep, histories>>

\* Mutant of Existed: the result is announced with every save.
ExistedNever(q) == FALSE

\* savedAttemptExistsQuery.sql
Existed(q) == saved[q.att] # NotSaved /\ saved[q.att].user = q.user

SaveLook(s) ==
  /\ req[s].pc = "look"
  /\ \E e \in {Existed(req[s])} \cup IfFailing(s, FALSE) :
       req' = [req EXCEPT ![s] = [req[s] EXCEPT !.pc = "upsert", !.existed = e]]
  /\ UNCHANGED <<video, aged, ml, task, recorded, saved, sweep, histories>>

\* Mutant of Upserted: the row changes hands.
UpsertedOver(row, q) == [user |-> q.user, score |-> q.score, video |-> q.video]

\* Mutant of Upserted: a new row is written like an old one.
UpsertedUpdate(row, q) == [row EXCEPT !.score = q.score, !.video = q.video]

\* saveAttemptQuery.sql: ON CONFLICT keeps the user and the dance of the row.
Upserted(row, q) ==
  IF row = NotSaved THEN [user |-> q.user, score |-> q.score, video |-> q.video]
                    ELSE [row EXCEPT !.score = q.score, !.video = q.video]

SaveUpsert(s) ==
  LET q == req[s]
  IN  /\ q.pc = "upsert"
      /\ saved' = [saved EXCEPT ![q.att] = Upserted(@, q)]
      /\ overtaken' = overtaken \cup (WorkingOn(q.att) \ {s})
      /\ Goto(s, IF q.video THEN "tell" ELSE "prune")
      /\ UNCHANGED <<video, aged, ml, task, recorded, sweep, told, claimedBy,
                 unmeasured, foreign>>

\* Deleting users/<u>/<attempt>/video.mp4, after which the request goes on at pc.
DropVideo(s, pc) ==
  LET q == req[s]
  IN  /\ \/ video' = [video EXCEPT ![q.att] = @ /\ ~InFolderOf(q.att, q.user)]
         \/ s \in Fragile /\ UNCHANGED video
      /\ IF pc = "idle" THEN Done(s) ELSE Goto(s, pc)

SavePrune(s) ==
  /\ req[s].pc = "prune"
  /\ DropVideo(s, "tell")
  /\ UNCHANGED <<aged, ml, task, recorded, saved, sweep, histories>>

\* Bound of the history: announcements are counted up to one more than the slots.
TellBound == Cardinality(Slots) + 1
ToldAgain(a, u) == [told[a] EXCEPT ![u] = IF @ < TellBound THEN @ + 1 ELSE @]

\* The result is announced to the caller (bot and event stream) when no row of the caller
\* was there before.
SaveTell(s) ==
  LET q == req[s]
  IN  /\ q.pc = "tell"
      /\ told' = IF q.existed \/ saved[q.att] = NotSaved THEN told
                 ELSE [told EXCEPT ![q.att] = ToldAgain(q.att, q.user)]
      /\ Done(s)
      /\ UNCHANGED <<video, aged, ml, task, recorded, saved, sweep, claimedBy, unmeasured,
                     foreign, overtaken>>

-----------------------------------------------------------------------------
(* UnsaveAttempt, the duels' own way of saving, and the sweep. *)

UnsaveBegin(s) ==
  /\ req[s].pc = "idle"
  /\ \E a \in Attempts, u \in Users :
       /\ ml[a] # "none"
       /\ \E v \in {saved[a].user = u /\ saved[a].video} \cup IfFailing(s, FALSE) :
            req' = [req EXCEPT ![s] = NewRequest("delete", u, a, v, None, 0)]
  /\ overtaken' = overtaken \ {s}
  /\ UNCHANGED <<video, aged, ml, task, recorded, saved, sweep, told, claimedBy,
                 unmeasured, foreign>>

UnsaveDelete(s) ==
  LET q == req[s]
  IN  /\ q.pc = "delete"
      /\ IF saved[q.att].user = q.user
           THEN /\ saved' = [saved EXCEPT ![q.att] = NotSaved]
                /\ told' = [told EXCEPT ![q.att] = NobodyTold]
           ELSE UNCHANGED <<saved, told>>
      /\ IF q.video THEN Goto(s, "erase") ELSE Done(s)
      /\ UNCHANGED <<video, aged, ml, task, recorded, sweep, claimedBy, unmeasured,
                     foreign, overtaken>>

UnsaveErase(s) ==
  /\ req[s].pc = "erase"
  /\ DropVideo(s, "idle")
  /\ UNCHANGED <<aged, ml, task, recorded, saved, sweep, histories>>

\* EnsureSavedAttemptForDuel, for a recorded attempt of the user with a result.
EnsureSaved(a) ==
  /\ ml[a] = "done"
  /\ recorded[a].user # None
  /\ InFolderOf(a, recorded[a].user)
  /\ saved[a] = NotSaved
  /\ saved' = [saved EXCEPT ![a] = [user |-> recorded[a].user, score |-> Score[a],
                                    video |-> TRUE]]
  /\ overtaken' = overtaken \cup WorkingOn(a)
  /\ UNCHANGED <<video, aged, ml, task, recorded, req, sweep, told, claimedBy,
                 unmeasured, foreign>>

\* The time to live of a video runs out.
MayAge(a) == video[a] /\ a \notin aged

Age(a) ==
  /\ MayAge(a)
  /\ aged' = aged \cup {a}
  /\ UNCHANGED <<video, ml, task, recorded, saved, req, sweep, histories>>

\* Mutants of Spared: every saved attempt, and nothing that has expired.
SparedSaved(a) == saved[a] # NotSaved
SparedYoung(a) == a \notin aged

\* isSavedAttemptWithVideoQuery.sql, asked with the owner of the video's folder.
Spared(a) == saved[a].video /\ InFolderOf(a, saved[a].user)

\* CleanupExpiredUserVideos, one video of its list: the check ...
MayCheck(p, a) == sweep[p] = None /\ video[a] /\ a \in aged /\ ~Spared(a)

SweepCheck(p, a) ==
  /\ MayCheck(p, a)
  /\ sweep' = [sweep EXCEPT ![p] = a]
  /\ overtaken' = overtaken \ {p}
  /\ UNCHANGED <<video, aged, ml, task, recorded, saved, req, told, claimedBy,
                 unmeasured, foreign>>

\* ... and the deletion.
SweepDelete(p) ==
  /\ sweep[p] # None
  /\ video' = [video EXCEPT ![sweep[p]] = FALSE]
  /\ sweep' = [sweep EXCEPT ![p] = None]
  /\ UNCHANGED <<aged, ml, task, recorded, saved, req, histories>>

\* The deletion fails, or the replica stops, until a later pass.
SweepFail(p) ==
  /\ p \in Fragile
  /\ sweep[p] # None
  /\ sweep' = [sweep EXCEPT ![p] = None]
  /\ UNCHANGED <<video, aged, ml, task, recorded, saved, req, histories>>

\* A statement fails and ends the request, or the process stops.
Fail(s) ==
  /\ s \in Fragile
  /\ req[s].pc # "idle"
  /\ Done(s)
  /\ UNCHANGED <<video, aged, ml, task, recorded, saved, sweep, histories>>

Save(s) == SaveBegin(s) \/ SaveLoad(s) \/ SaveNote(s) \/ SaveLook(s) \/ SaveUpsert(s)
             \/ SavePrune(s) \/ SaveTell(s)

Next ==
  \/ \E s \in Slots :
       \/ Upload(s) \/ Enqueue(s) \/ PersistTask(s) \/ DiscardVideo(s)
       \/ PollClaim(s) \/ RecordPolled(s)
       \/ Save(s)
       \/ UnsaveBegin(s) \/ UnsaveDelete(s) \/ UnsaveErase(s)
       \/ Fail(s)
  \/ \E p \in Sweepers :
       \/ \E a \in Attempts : SweepCheck(p, a)
       \/ SweepDelete(p) \/ SweepFail(p)
  \/ \E a \in Attempts : MLFinish(a) \/ EnsureSaved(a) \/ Age(a)

Spec == Init /\ [][Next]_vars

\* A pass of the sweep comes again and again and looks at every video; every deletion
\* ends, and that of one video does not fail every time.  Nothing is assumed of the
\* requests.  The two weak and two strong fairness conditions have the guards of their
\* actions where WF_vars and SF_vars have ENABLED, so that proofs can use them.
Fairness ==
  /\ \A a \in Attempts : []<>~MayAge(a) \/ []<><<Age(a)>>_vars
  /\ \A p \in Sweepers :
       /\ []<>(sweep[p] = None) \/ []<><<SweepDelete(p) \/ SweepFail(p)>>_vars
       /\ \A a \in Attempts :
            /\ <>[]~MayCheck(p, a) \/ []<><<SweepCheck(p, a)>>_vars
            /\ <>[](sweep[p] # a) \/ []<><<sweep[p] = a /\ SweepDelete(p)>>_vars

FairSpec == Spec /\ Fairness

\* The rows as the duels see them, which take no notice of users, scores and videos.
theDance == "the_dance"
recordedAttempts == {a \in Attempts : recorded[a] # NoRow}
savedUnder == [a \in Attempts |-> IF saved[a] = NotSaved THEN "not_saved" ELSE theDance]

Tables == INSTANCE AttemptRows
            WITH recorded <- recordedAttempts, saved <- savedUnder,
                 NotSaved <- "not_saved", AttemptDance <- [a \in Attempts |-> theDance]

-----------------------------------------------------------------------------
(* Properties. *)

\* Every variable has its type.
TypeOK == /\ video \in [Attempts -> BOOLEAN]
          /\ aged \in SUBSET Attempts
          /\ ml \in [Attempts -> {"none", "queued", "done", "failed"}]
          /\ task \in [Attempts -> {"none", "open", "finalized"}]
          /\ recorded \in [Attempts -> RecordedRow]
          /\ saved \in [Attempts -> SavedRow]
          /\ req \in [Slots -> Request]
          /\ sweep \in [Sweepers -> Attempts \cup {None}]
          /\ told \in [Attempts -> [Users -> Nat]]
          /\ claimedBy \in [Attempts -> Users \cup {None}]
          /\ unmeasured \in SUBSET Attempts
          /\ foreign \in SUBSET Attempts
          /\ overtaken \in SUBSET (Slots \cup Sweepers)

\* The rows of attempt a hold the score ML computed for it.
Measured(a) == /\ saved[a] # NotSaved => saved[a].score = Score[a]
               /\ recorded[a] # NoRow => recorded[a].score = Score[a]

\* Once ML has scored an attempt no other score is stored for it, whatever the
\* client reports: save_attempt_test.go:73 calls it the leaderboard's integrity.
\* Excepted are attempts somebody saved before ML had a result, and attempts somebody
\* saved that lie in another account's folder: nothing keeps one user from saving
\* an attempt of another, and then the result is not looked for where it is, although
\* usecase.go:250 means to use the client's score only where there is no result.
MeasuredScoresStay ==
  \A a \in Attempts : ml[a] = "done" /\ a \notin unmeasured \cup foreign => Measured(a)

\* An attempt that is saved with a measured score also counts: the duels ask
\* dance_attempts who owns it, and the poll that should record it may come from
\* a client without an account.  The exceptions are those of MeasuredScoresStay.
SavedIsRecorded ==
  \A a \in Attempts :
    saved[a] # NotSaved /\ a \notin unmeasured \cup foreign => recorded[a] # NoRow

\* The task is finalized before the attempt is recorded, and later polls find it
\* finalized: the poll that claimed it for a user is recording it or has done so.
ClaimedIsRecorded ==
  \A a \in Attempts : claimedBy[a] # None =>
    \/ recorded[a] # NoRow
    \/ \E s \in Slots : req[s].pc = "claimed" /\ req[s].att = a

\* Checking for the row, writing it and announcing the result are separate steps; the
\* user whose row it is is not told of it more often than the requests that were under
\* way could, and without concurrency once.  A user who saves the attempt of another
\* has no row, and is told with every save.
ResultToldBounded ==
  \A a \in Attempts, u \in Users : saved[a].user = u => told[a][u] <= Cardinality(Slots)

\* No row changes hands, though any two users may save the same attempt, and a
\* recorded attempt never changes at all.
RowsKeepTheirUser ==
  [][\A a \in Attempts :
       /\ recorded[a] # NoRow => recorded'[a] = recorded[a]
       /\ saved[a] # NotSaved /\ saved'[a] # NotSaved => saved'[a].user = saved[a].user]_vars

\* The profile shows the video of attempt a.
Promised(a) == saved[a].video /\ InFolderOf(a, saved[a].user)

\* A video the profile shows disappears only through a call that was already under
\* way when the attempt was saved: the sweep, UnsaveAttempt and saving without the
\* video all decide first and delete later.
ShownVideosTakenOnlyByOvertaken ==
  [][\A a \in Attempts : video[a] /\ ~video'[a] /\ Promised(a) =>
       WorkingOn(a) \cap overtaken # {}]_vars

\* No video that no profile shows stays in the object store for ever, whichever
\* comparison, save or removal failed half way.
VideosAreSwept ==
  \A a \in Attempts : video[a] ~> ~video[a] \/ Promised(a)
=============================================================================
