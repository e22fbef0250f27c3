-------------------------------- MODULE Duel --------------------------------
(***************************************************************************)
(* The duel service: users/usecase/duel_usecase.go over the tables duels   *)
(* and saved_attempts.  Each HTTP request runs in its own goroutine and    *)
(* takes several database statements, so a request is a process with a     *)
(* program counter; between its read of the duel row and its write other   *)
(* requests, the expiry jobs, the owner of an attempt and the owner of a   *)
(* dance may all act.  Every statement is atomic, as PostgreSQL makes it.  *)
(***************************************************************************)
EXTENDS Integers, FiniteSets

CONSTANTS
  Users,         \* accounts
  Dances,        \* the dance catalogue
  Duels,         \* ids that rows of duels may get
  Attempts,      \* attempts whose comparison_result.json is in the object store
  Requests,      \* slots for requests being handled at the same time
  Replicas,      \* processes of the backend; each runs its own expiry job
  Fragile,       \* bound: the requests and replicas whose failures are explored
  AttemptOwner,  \* AttemptOwner[a]: the user the attempt is recorded for
  AttemptDance,  \* AttemptDance[a]: the dance it was recorded for
  ResultDance,   \* ResultDance[a]: the dance id inside its result, or None
  AttemptScore,  \* AttemptScore[a]: the comparison score inside its result
  None           \* SQL's NULL, Go's nil

ASSUME DuelAssumption ==
  /\ AttemptOwner \in [Attempts -> Users]
  /\ AttemptDance \in [Attempts -> Dances]
  /\ ResultDance \in [Attempts -> Dances \cup {None}]
  /\ AttemptScore \in [Attempts -> Nat]
  /\ None \notin Users \cup Dances \cup Duels \cup Attempts \cup Nat
  /\ IsFiniteSet(Requests)

Sides == {"challenger", "opponent"}
Other(side) == IF side = "challenger" THEN "opponent" ELSE "challenger"

DoneStatus(side) == IF side = "challenger" THEN "challenger_done" ELSE "opponent_done"
DoneNotif(side) ==
  IF side = "challenger" THEN "duel_challenger_done" ELSE "duel_opponent_done"

OpenStatuses == {"pending", "active", "challenger_done", "opponent_done"}
PlayStatuses == {"active", "challenger_done", "opponent_done"}
Terminal == {"completed", "expired", "declined"}

\* A row of duels; "none" is an id no row has yet.  overdue: expires_at < NOW().
Row == [status : {"none"} \cup OpenStatuses \cup Terminal,
        player : [Sides -> Users \cup {None}],
        dance : Dances \cup {None},
        attempt : [Sides -> Attempts \cup {None}],
        score : [Sides -> Nat \cup {None}],
        winner : Users \cup {None},
        consent : [Sides -> BOOLEAN],
        isPublic : BOOLEAN,
        overdue : BOOLEAN]

BothNone == [s \in Sides |-> None]
NoRow == [status |-> "none", player |-> BothNone, dance |-> None, attempt |-> BothNone,
          score |-> BothNone, winner |-> None, consent |-> [s \in Sides |-> FALSE],
          isPublic |-> FALSE, overdue |-> FALSE]

\* A request: what it does, where it is, its arguments and the row it read.
Request == [pc : {"idle", "next", "insert", "save", "write", "notify"},
            op : {"none", "create", "accept", "decline", "submit"},
            user : Users \cup {None},
            duel : Duels \cup {None},
            attempt : Attempts \cup {None},
            consent : BOOLEAN,
            snap : Row,
            rest : SUBSET Duels]

Idle == [pc |-> "idle", op |-> "none", user |-> None, duel |-> None, attempt |-> None,
         consent |-> FALSE, snap |-> NoRow, rest |-> {}]

Kinds == {"duel_challenge_received", "duel_accepted", "duel_declined",
          "duel_challenger_done", "duel_opponent_done", "duel_completed",
          "duel_expired", "event_duel_completed"}
Notice == [kind : Kinds, duel : Duels, to : Users]

NotSaved == "not_saved"

VARIABLES
  duels,     \* duels[d]: the row of duel d
  saved,     \* saved[a]: the dance under which saved_attempts holds a, or NotSaved
  recorded,  \* the attempts that have a row in dance_attempts
  catalog,   \* catalog[dn]: the status of dance dn
  req,       \* req[r]: what request slot r is doing
  job,       \* job[p]: duels replica p expired and has not told the players yet
  notes,     \* notices and duel.completed events handed over
  repeated,  \* those of them handed over more than once
  credited,  \* history: credited[d][s], the attempt last stored for side s of d
  accepted   \* history: duels whose opponent accepted

vars == <<duels, saved, recorded, catalog, req, job, notes, repeated, credited,
          accepted>>

\* What the other components do to the variables they share with the duels.
Catalog == INSTANCE Catalogue
Tables == INSTANCE AttemptRows

Init == /\ duels = [d \in Duels |-> NoRow]
        /\ Tables!Init
        /\ Catalog!Init
        /\ req = [r \in Requests |-> Idle]
        /\ job = [p \in Replicas |-> {}]
        /\ notes = {}
        /\ repeated = {}
        /\ credited = [d \in Duels |-> BothNone]
        /\ accepted = {}

-----------------------------------------------------------------------------
(* The SQL statements. *)

SideOf(row, u) == IF row.player["challenger"] = u THEN "challenger" ELSE "opponent"
IsPlayer(row, u) == \E s \in Sides : row.player[s] = u

\* Mutant of HasOpenDuel: an accepted duel no longer counts as open.
HasPendingDuel(u, o, dn) ==
  \E d \in Duels : /\ duels[d].status = "pending"
                   /\ duels[d].player = [s \in Sides |-> IF s = "challenger" THEN u ELSE o]
                   /\ duels[d].dance = dn

\* hasOpenDuelQuery.sql
HasOpenDuel(u, o, dn) ==
  \E d \in Duels : /\ duels[d].status \in OpenStatuses
                   /\ duels[d].player["challenger"] = u
                   /\ duels[d].player["opponent"] = o
                   /\ duels[d].dance = dn

\* getActiveDuelsForUserDanceQuery.sql
ActiveDuels(u, dn) ==
  {d \in Duels : /\ duels[d].status \in PlayStatuses
                 /\ duels[d].dance = dn
                 /\ ~duels[d].overdue
                 /\ \E s \in Sides : /\ duels[d].player[s] = u
                                     /\ duels[d].attempt[s] = None}

\* Mutants of Updatable: without the test of the status, and accepting twice.
UpdatableAnyStatus(row, side) ==
  /\ side = None => row.status = "pending"
  /\ side # None => row.attempt[side] = None
UpdatableAgain(row, side) ==
  /\ row.status \in OpenStatuses
  /\ side # None => row.attempt[side] = None

\* The WHERE clause of update_duel_status.sql; side is None unless it is a submission.
Updatable(row, side) ==
  /\ row.status \in OpenStatuses
  /\ side = None => row.status = "pending"
  /\ side # None => row.attempt[side] = None

\* Mutant of Updated: public as soon as the second player agrees.
UpdatedLastConsent(row, new, side, consent) ==
  [row EXCEPT !.status = new.status, !.attempt = new.attempt, !.score = new.score,
              !.winner = new.winner,
              !.consent = IF side = None THEN @ ELSE [@ EXCEPT ![side] = consent],
              !.isPublic = IF new.status = "completed" THEN consent ELSE @]

\* Its SET clause: every result column is overwritten by a parameter.
Updated(row, new, side, consent) ==
  LET agreed == IF side = None THEN row.consent
                               ELSE [row.consent EXCEPT ![side] = consent]
  IN  [row EXCEPT !.status = new.status,
                  !.attempt = new.attempt,
                  !.score = new.score,
                  !.winner = new.winner,
                  !.consent = agreed,
                  !.isPublic = IF new.status = "completed"
                                 THEN \A s \in Sides : agreed[s] ELSE @]

\* Mutant of Answer: a status the table does not know.
AnswerAccepted(status) ==
  [status |-> IF status = "active" THEN "accepted" ELSE status,
   attempt |-> BothNone, score |-> BothNone, winner |-> None]

\* The parameters of AcceptDuel and DeclineDuel: a status and NULLs.
Answer(status) ==
  [status |-> status, attempt |-> BothNone, score |-> BothNone, winner |-> None]

\* Mutants of Submission: the submitter always wins; the second of two submissions
\* to an active duel completes it.
SubmissionWins(snap, side, a) ==
  LET both == snap.status = DoneStatus(Other(side))
  IN  [status  |-> IF both THEN "completed" ELSE DoneStatus(side),
       attempt |-> [s \in Sides |-> IF s = side THEN a
                                    ELSE IF both THEN snap.attempt[s] ELSE None],
       score   |-> [s \in Sides |-> IF s = side THEN AttemptScore[a]
                                    ELSE IF both THEN snap.score[s] ELSE None],
       winner  |-> IF both THEN snap.player[side] ELSE None]
SubmissionHasty(snap, side, a) ==
  [status  |-> IF side = "opponent" THEN "completed" ELSE "challenger_done",
   attempt |-> [s \in Sides |-> IF s = side THEN a ELSE snap.attempt[s]],
   score   |-> [s \in Sides |-> IF s = side THEN AttemptScore[a] ELSE snap.score[s]],
   winner  |-> IF side = "opponent" THEN snap.player[side] ELSE None]

\* What SubmitDuelAttempt computes from the row it read: the first submission
\* leaves the other side NULL, the second carries it over and picks the winner.
Submission(snap, side, a) ==
  LET rival == Other(side)
      both  == snap.status = DoneStatus(rival)
  IN  [status  |-> IF both THEN "completed" ELSE DoneStatus(side),
       attempt |-> [s \in Sides |-> IF s = side THEN a
                                    ELSE IF both THEN snap.attempt[s] ELSE None],
       score   |-> [s \in Sides |-> IF s = side THEN AttemptScore[a]
                                    ELSE IF both THEN snap.score[s] ELSE None],
       winner  |-> IF ~both THEN None
                   ELSE IF snap.score[rival] # None /\ snap.score[rival] > AttemptScore[a]
                          THEN snap.player[rival] ELSE snap.player[side]]

SubmissionOf(q) == Submission(q.snap, SideOf(q.snap, q.user), q.attempt)

-----------------------------------------------------------------------------
(* Notices: sendDuelNotif and publishDuelCompleted hand them over to gRPC, *)
(* Kafka or the table and swallow every error; a handler or a job that     *)
(* stops before that point never announces what it has written.            *)

To(kind, d, u) == [kind |-> kind, duel |-> d, to |-> u]

Outcome(q) == IF q.op = "submit" THEN SubmissionOf(q) ELSE Answer("none")

NoticesOf(q) ==
  LET player == q.snap.player
      side   == SideOf(q.snap, q.user)
  IN  CASE q.op = "create"  -> {To("duel_challenge_received", q.duel, player["opponent"])}
        [] q.op = "accept"  -> {To("duel_accepted", q.duel, player["challenger"])}
        [] q.op = "decline" -> {To("duel_declined", q.duel, player["challenger"])}
        [] OTHER ->
             IF Outcome(q).status = "completed"
               THEN {To("duel_completed", q.duel, player[s]) : s \in Sides}
                      \cup {To("event_duel_completed", q.duel, Outcome(q).winner)}
               ELSE {To(DoneNotif(side), q.duel, player[Other(side)])}

HandOver(ns) == /\ notes' = notes \cup ns
                /\ repeated' = repeated \cup (notes \cap ns)

-----------------------------------------------------------------------------
(* Requests. *)

Goto(r, pc) == req' = [req EXCEPT ![r].pc = pc]

\* A handler is done with one duel; the fan-out goes on with the next.
Finish(r) == req' = [req EXCEPT ![r] = IF @.rest = {} THEN Idle ELSE [@ EXCEPT !.pc = "next"]]

\* CreateDuel up to the check for an open duel.
CreateCheck(r) ==
  /\ req[r].pc = "idle"
  /\ \E u \in Users, o \in Users, dn \in Dances :
       /\ u # o
       /\ catalog[dn] = "published"
       /\ ~HasOpenDuel(u, o, dn)
       /\ req' = [req EXCEPT ![r] =
            [Idle EXCEPT !.pc = "insert", !.op = "create", !.user = u,
                         !.snap = [NoRow EXCEPT !.status = "pending", !.dance = dn,
                                    !.player = [s \in Sides |-> IF s = "challenger" THEN u
                                                                                    ELSE o]]]]
  /\ UNCHANGED <<duels, saved, recorded, catalog, job, notes, repeated, credited, accepted>>

\* CreateDuel's INSERT; it fails when the dance has gone (foreign key).
CreateInsert(r) ==
  /\ req[r].pc = "insert"
  /\ IF catalog[req[r].snap.dance] = "deleted"
       THEN Finish(r) /\ UNCHANGED duels
       ELSE \E d \in Duels :
              /\ duels[d].status = "none"
              /\ duels' = [duels EXCEPT ![d] = req[r].snap]
              /\ req' = [req EXCEPT ![r].pc = "notify", ![r].duel = d]
  /\ UNCHANGED <<saved, recorded, catalog, job, notes, repeated, credited, accepted>>

\* AcceptDuel and DeclineDuel read the row and check it; only accepting looks at the deadline.
AnswerRead(r) ==
  /\ req[r].pc = "idle"
  /\ \E d \in Duels, op \in {"accept", "decline"} :
       /\ duels[d].status = "pending"
       /\ op = "accept" => ~duels[d].overdue
       /\ req' = [req EXCEPT ![r] =
            [Idle EXCEPT !.pc = "write", !.op = op, !.duel = d, !.snap = duels[d],
                         !.user = duels[d].player["opponent"]]]
  /\ UNCHANGED <<duels, saved, recorded, catalog, job, notes, repeated, credited, accepted>>

\* Their UPDATE; no row updated is a conflict and ends the request.
AnswerWrite(r) ==
  LET d  == req[r].duel
      op == req[r].op
  IN  /\ req[r].pc = "write"
      /\ op \in {"accept", "decline"}
      /\ IF Updatable(duels[d], None)
           THEN /\ duels' = [duels EXCEPT ![d] = Updated(@,
                       Answer(IF op = "accept" THEN "active" ELSE "declined"), None, FALSE)]
                /\ accepted' = IF op = "accept" THEN accepted \cup {d} ELSE accepted
                /\ Goto(r, "notify")
           ELSE Finish(r) /\ UNCHANGED <<duels, accepted>>
      /\ UNCHANGED <<saved, recorded, catalog, job, notes, repeated, credited>>

\* A submission: SaveAttempt names one duel, SubmitAttemptToActiveDuels lists them.
SubmitBegin(r) ==
  /\ req[r].pc = "idle"
  /\ \E u \in Users, a \in Attempts, c \in BOOLEAN :
       \E ds \in {{d} : d \in Duels} \cup {ActiveDuels(u, dn) : dn \in Dances} :
         /\ ds # {}
         /\ req' = [req EXCEPT ![r] = [Idle EXCEPT !.pc = "next", !.op = "submit", !.user = u,
                                         !.attempt = a, !.consent = c, !.rest = ds]]
  /\ UNCHANGED <<duels, saved, recorded, catalog, job, notes, repeated, credited, accepted>>

\* Mutants of MaySubmit: a pending duel takes submissions; anyone's attempt will do.
MaySubmitEarly(row, u, a) ==
  /\ a \in recorded /\ AttemptOwner[a] = u
  /\ ResultDance[a] # None => ResultDance[a] = row.dance
  /\ row.status \in OpenStatuses
  /\ IsPlayer(row, u)
  /\ row.attempt[SideOf(row, u)] = None
MaySubmitForOthers(row, u, a) ==
  /\ a \in recorded
  /\ row.status \in PlayStatuses
  /\ IsPlayer(row, u)
  /\ row.attempt[SideOf(row, u)] = None

\* The checks of SubmitDuelAttempt, on the row it has just read.
MaySubmit(row, u, a) ==
  /\ a \in recorded /\ AttemptOwner[a] = u
  /\ ResultDance[a] # None => ResultDance[a] = row.dance
  /\ row.status \in PlayStatuses
  /\ IsPlayer(row, u)
  /\ row.attempt[SideOf(row, u)] = None

SubmitRead(r) ==
  /\ req[r].pc = "next"
  /\ \E d \in req[r].rest :
       LET q == [req[r] EXCEPT !.rest = @ \ {d}] IN
       req' = [req EXCEPT ![r] =
         IF MaySubmit(duels[d], q.user, q.attempt)
           THEN [q EXCEPT !.pc = "save", !.duel = d, !.snap = duels[d]]
           ELSE IF q.rest = {} THEN Idle ELSE q]
  /\ UNCHANGED <<duels, saved, recorded, catalog, job, notes, repeated, credited, accepted>>

\* ensureSavedAttemptForDuelQuery.sql: INSERT ... ON CONFLICT DO NOTHING.
EnsureSaved(r) ==
  /\ req[r].pc = "save"
  /\ saved' = [saved EXCEPT ![req[r].attempt] =
                 IF @ = NotSaved THEN req[r].snap.dance ELSE @]
  /\ Goto(r, "write")
  /\ UNCHANGED <<duels, recorded, catalog, job, notes, repeated, credited, accepted>>

\* The UPDATE of a submission; it fails when an attempt it stores is not saved
\* any more (foreign key) and conflicts when the row has moved on.
SubmitWrite(r) ==
  LET q    == req[r]
      d    == q.duel
      side == SideOf(q.snap, q.user)
      new  == SubmissionOf(q)
      ok   == /\ Updatable(duels[d], side)
              /\ \A s \in Sides : new.attempt[s] # None => saved[new.attempt[s]] # NotSaved
  IN  /\ q.pc = "write"
      /\ q.op = "submit"
      /\ IF ok
           THEN /\ duels' = [duels EXCEPT ![d] = Updated(@, new, side, q.consent)]
                /\ credited' = [credited EXCEPT ![d][side] = q.attempt]
                /\ Goto(r, "notify")
           ELSE Finish(r) /\ UNCHANGED <<duels, credited>>
      /\ UNCHANGED <<saved, recorded, catalog, job, notes, repeated, accepted>>

\* The notices that follow a successful write.
Notify(r) ==
  /\ req[r].pc = "notify"
  /\ HandOver(NoticesOf(req[r]))
  /\ Finish(r)
  /\ UNCHANGED <<duels, saved, recorded, catalog, job, credited, accepted>>

\* A statement fails, or its answer is lost after it took effect.
RequestError(r) ==
  /\ r \in Fragile
  /\ req[r].pc \in {"insert", "save", "write", "notify"}
  /\ Finish(r)
  /\ UNCHANGED <<duels, saved, recorded, catalog, job, notes, repeated, credited, accepted>>

-----------------------------------------------------------------------------
(* Expiry, time and the rest of the system. *)

\* Mutants of Late: finished duels expire too; challenges nobody answers do not.
LateEver == {d \in Duels : duels[d].overdue /\ duels[d].status # "expired"}
LateInPlay == {d \in Duels : duels[d].overdue /\ duels[d].status \in PlayStatuses}

\* The WHERE clause of expire_duels.sql.
Late == {d \in Duels : duels[d].overdue /\ duels[d].status \in OpenStatuses}

\* RunExpireJob's UPDATE ... RETURNING id.
MayExpire(p) == job[p] = {} /\ Late # {}

ExpireDuels(p) ==
  /\ MayExpire(p)
  /\ duels' = [d \in Duels |-> IF d \in Late THEN [duels[d] EXCEPT !.status = "expired"]
                                             ELSE duels[d]]
  /\ job' = [job EXCEPT ![p] = Late]
  /\ UNCHANGED <<saved, recorded, catalog, req, notes, repeated, credited, accepted>>

\* It reads the players back and tells both; when that read fails nobody is told.
MayTell(p) == job[p] # {}

ExpireNotify(p) ==
  /\ MayTell(p)
  /\ \/ HandOver({To("duel_expired", d, duels[d].player[s]) : d \in job[p], s \in Sides})
     \/ UNCHANGED <<notes, repeated>>
  /\ job' = [job EXCEPT ![p] = {}]
  /\ UNCHANGED <<duels, saved, recorded, catalog, req, credited, accepted>>

\* A day goes by since duel d was created.
MayPass(d) == duels[d].status \in OpenStatuses /\ ~duels[d].overdue

PassDeadline(d) ==
  /\ MayPass(d)
  /\ duels' = [duels EXCEPT ![d].overdue = TRUE]
  /\ UNCHANGED <<saved, recorded, catalog, req, job, notes, repeated, credited, accepted>>

\* ON DELETE SET NULL on the attempt columns.
Forget(row, gone) ==
  [row EXCEPT !.attempt = [s \in Sides |-> IF @[s] \in gone THEN None ELSE @[s]]]

\* An attempt is recorded for its owner, by a poll or a save.
RecordAttempt(a) ==
  /\ Tables!Record(a)
  /\ UNCHANGED <<duels, catalog, req, job, notes, repeated, credited, accepted>>

\* The owner saves an attempt to the profile.
SaveAttempt(a) ==
  /\ Tables!Save(a)
  /\ UNCHANGED <<duels, catalog, req, job, notes, repeated, credited, accepted>>

\* The owner removes it; the duels that show it lose the reference, not the score.
UnsaveAttempt(a) ==
  /\ Tables!Unsave(a)
  /\ duels' = [d \in Duels |-> Forget(duels[d], {a})]
  /\ credited' = [d \in Duels |-> [s \in Sides |->
                    IF credited[d][s] = a THEN None ELSE credited[d][s]]]
  /\ UNCHANGED <<catalog, req, job, notes, repeated, accepted>>

\* PublishDance and UnpublishDance.
SetDanceStatus(dn) ==
  /\ Catalog!SetStatus(dn)
  /\ UNCHANGED <<duels, saved, recorded, req, job, notes, repeated, credited, accepted>>

\* DeleteDanceAndRelated, one transaction: attempts, saved attempts and the
\* dance itself go; duels keep their row and lose both references.
DeleteDance(dn) ==
  LET gone == {a \in Attempts : saved[a] = dn}
  IN  /\ Catalog!Delete(dn)
      /\ recorded' = {a \in recorded : AttemptDance[a] # dn}
      /\ saved' = [a \in Attempts |-> IF a \in gone THEN NotSaved ELSE saved[a]]
      /\ duels' = [d \in Duels |->
           [Forget(duels[d], gone) EXCEPT !.dance = IF @ = dn THEN None ELSE @]]
      /\ credited' = [d \in Duels |-> [s \in Sides |->
                        IF credited[d][s] \in gone THEN None ELSE credited[d][s]]]
      /\ UNCHANGED <<req, job, notes, repeated, accepted>>

\* Replica p stops: its expiry pass and the requests it was handling are lost.
Crash(p) ==
  /\ p \in Fragile
  /\ \E lost \in SUBSET {r \in Requests : req[r] # Idle} :
       /\ lost # {} \/ job[p] # {}
       /\ req' = [r \in Requests |-> IF r \in lost THEN Idle ELSE req[r]]
  /\ job' = [job EXCEPT ![p] = {}]
  /\ UNCHANGED <<duels, saved, recorded, catalog, notes, repeated, credited, accepted>>

RequestStep(r) ==
  \/ CreateCheck(r)  \/ CreateInsert(r)
  \/ AnswerRead(r)   \/ AnswerWrite(r)
  \/ SubmitBegin(r)  \/ SubmitRead(r)  \/ EnsureSaved(r) \/ SubmitWrite(r)
  \/ Notify(r)       \/ RequestError(r)

Next ==
  \/ \E r \in Requests : RequestStep(r)
  \/ \E p \in Replicas : ExpireDuels(p) \/ ExpireNotify(p) \/ Crash(p)
  \/ \E d \in Duels : PassDeadline(d)
  \/ \E a \in Attempts : RecordAttempt(a) \/ SaveAttempt(a) \/ UnsaveAttempt(a)
  \/ \E dn \in Dances : SetDanceStatus(dn) \/ DeleteDance(dn)

Spec == Init /\ [][Next]_vars

\* The ticker of runDuelExpireJob keeps calling RunExpireJob, and time passes: weak
\* fairness of the three actions.  Each May... is the whole guard of its action and
\* stands where WF_vars has ENABLED, so that proofs can use the assumption.
Fairness ==
  /\ \A p \in Replicas : /\ []<>~MayExpire(p) \/ []<><<ExpireDuels(p)>>_vars
                         /\ []<>~MayTell(p) \/ []<><<ExpireNotify(p)>>_vars
  /\ \A d \in Duels : []<>~MayPass(d) \/ []<><<PassDeadline(d)>>_vars

FairSpec == Spec /\ Fairness

-----------------------------------------------------------------------------
(* Properties. *)

\* Every variable has its type.
TypeOK == /\ duels \in [Duels -> Row]
          /\ saved \in [Attempts -> Dances \cup {None, NotSaved}]
          /\ recorded \in SUBSET Attempts
          /\ catalog \in [Dances -> {"published", "private", "deleted"}]
          /\ req \in [Requests -> Request]
          /\ job \in [Replicas -> SUBSET Duels]
          /\ notes \in SUBSET Notice
          /\ repeated \in SUBSET Notice
          /\ credited \in [Duels -> [Sides -> Attempts \cup {None}]]
          /\ accepted \in SUBSET Duels

\* A completed duel has both scores and the winner is the player nobody beats:
\* the second SubmitDuelAttempt decides from a row it read earlier, and FK
\* actions, competing submissions and the expiry job may come in between.
WinnerIsNotBeaten ==
  \A d \in Duels : duels[d].status = "completed" =>
    /\ \A s \in Sides : duels[d].score[s] # None
    /\ \E s \in Sides : /\ duels[d].winner = duels[d].player[s]
                       /\ duels[d].score[Other(s)] <= duels[d].score[s]

\* Every score in a duel is the score of an attempt of that very player, and of
\* the attempt the row shows for that side as long as it shows one: scores and
\* attempt ids are carried over from snapshots and nulled by foreign keys.
ScoresComeFromOwnAttempts ==
  \A d \in Duels, s \in Sides :
    /\ duels[d].score[s] # None =>
         \E a \in Attempts : /\ AttemptOwner[a] = duels[d].player[s]
                             /\ AttemptScore[a] = duels[d].score[s]
    /\ duels[d].attempt[s] # None =>
         /\ AttemptOwner[duels[d].attempt[s]] = duels[d].player[s]
         /\ duels[d].score[s] = AttemptScore[duels[d].attempt[s]]

\* Nothing is ever scored in a duel its opponent did not accept, whatever the
\* order in which accepting, declining, expiring and submitting reach the row.
NoScoreBeforeAcceptance ==
  \A d \in Duels :
    \/ \E s \in Sides : duels[d].score[s] # None
    \/ duels[d].status \in PlayStatuses \cup {"completed"}
    => d \in accepted

\* A duel is listed in public only when it is completed and both players agreed.
PublicNeedsBothConsents ==
  \A d \in Duels : duels[d].isPublic =>
    /\ duels[d].status = "completed"
    /\ \A s \in Sides : duels[d].consent[s]

\* What the players and the Kafka consumers were told is what the row says: a
\* handler announces an outcome some time after its UPDATE, from its own copy.
NoticesTellTheOutcome ==
  \A n \in notes :
    /\ n.kind \in {"duel_completed", "event_duel_completed"} =>
         duels[n.duel].status = "completed"
    /\ n.kind = "event_duel_completed" => n.to = duels[n.duel].winner
    /\ n.kind = "duel_expired" => duels[n.duel].status = "expired"
    /\ n.kind = "duel_declined" => duels[n.duel].status = "declined"
    /\ n.kind = "duel_accepted" => n.duel \in accepted

\* No player hears twice that a duel was accepted or how it ended, although two
\* requests may race for the last step and every replica runs the expiry job.
OutcomeToldOnce ==
  \A n \in repeated : n.kind \in {"duel_challenger_done", "duel_opponent_done"}

\* CreateDuel checks and inserts in two statements; the open duels of one
\* challenger against one opponent on one dance never outnumber the requests
\* that run at the same time (with one request: never two).
OpenTwinsBounded ==
  \A u \in Users, o \in Users, dn \in Dances :
    Cardinality({d \in Duels : /\ duels[d].status \in OpenStatuses
                               /\ duels[d].player["challenger"] = u
                               /\ duels[d].player["opponent"] = o
                               /\ duels[d].dance = dn}) <= Cardinality(Requests)

\* The columns that say how a duel ended.
Ending(row) == <<row.status, row.player, row.score, row.winner, row.consent, row.isPublic>>

\* A duel that is over stays as it is, however stale the writes that still arrive.
EndedDuelsKeepTheirEnding ==
  [][\A d \in Duels : duels[d].status \in Terminal =>
       Ending(duels'[d]) = Ending(duels[d])]_vars

\* Every challenge comes to an end: completed, declined or expired.
EveryDuelEnds ==
  \A d \in Duels : duels[d].status # "none" ~> duels[d].status \in Terminal

\* A player whose submission is stored and still saved is not asked for another:
\* duel_handlers.go:90 says /duels/active lists duels where it is the user's turn.
NotAskedTwice ==
  \A d \in Duels, s \in Sides, dn \in Dances :
    credited[d][s] # None => d \notin ActiveDuels(duels[d].player[s], dn)

-----------------------------------------------------------------------------
(* The duel service keeps the promises of DuelLifecycle. *)

PhaseOf(row)  == IF row.status \in PlayStatuses THEN "live" ELSE row.status
ResultOf(row) == IF row.status = "completed"
                   THEN [player |-> row.player, score |-> row.score, winner |-> row.winner]
                   ELSE None

phaseBar  == [d \in Duels |-> PhaseOf(duels[d])]
resultBar == [d \in Duels |-> ResultOf(duels[d])]

Lifecycle == INSTANCE DuelLifecycle
               WITH phase <- phaseBar, result <- resultBar, Scores <- Nat, NoResult <- None

\* Every run of the service is a run of the abstract life cycle.
LifecycleSpec == Lifecycle!Spec
=============================================================================
