------------------------------- MODULE Uploads -------------------------------
(***************************************************************************)
(* The life of uploaded dances: dance/usecase/usecase.go over the tables   *)
(* dances, dance_uploads and notifications, the results in the object      *)
(* store and the ML service.  The status of a dance is written by the      *)
(* upload, by the polls of clients, by moderators and by the uploaders,    *)
(* each with an UPDATE that does not look at the status it replaces; what  *)
(* checks there are look at a status read some statements earlier.         *)
(***************************************************************************)
EXTENDS FiniteSets

CONSTANTS
  Users,    \* accounts
  Dances,   \* ids of dances, drawn at random by the uploads
  Slots,    \* slots for requests (and the work they leave behind) running at a time
  Rework,   \* bound: ids of the processing tasks that approvals may start
  Fragile,  \* bound: the slots whose failing calls are explored
  None      \* no account

ASSUME UploadsAssumption == None \notin Users \cup Dances \cup Rework /\ "upload" \notin Rework

Listed == {"pending", "processing", "private", "published", "rejected"}
Tasks == {"upload"} \cup Rework
NoticeKinds == {"dance_approved", "dance_rejected"}

\* A slot: where its request is, for whom, on which dance, and what it has read.
Request == [pc : {"idle", "moderate", "enqueue", "create", "link", "settle", "hold", "announce",
                  "decide", "path", "requeue", "wait", "tell", "insert", "own", "purge"},
            op : {"none", "upload", "poll", "approved", "rejected", "publish", "unpublish",
                  "delete"},
            user : Users \cup {None},
            dance : Dances \cup {None},
            status : Listed \cup {"none"},
            task : Rework \cup {None},
            to : SUBSET Users]

NewRequest(pc, op, u, d, st) ==
  [pc |-> pc, op |-> op, user |-> u, dance |-> d, status |-> st, task |-> None, to |-> {}]

Idle == NewRequest("idle", "none", None, None, "none")

VARIABLES
  status,    \* status[d]: of its row; "none" before and "deleted" after there is one
  files,     \* the dances uploaded as a file; the row of one loaded by URL has no video_path
  maker,     \* maker[d]: who uploads d, None without an account
  uploaders, \* uploaders[d]: its rows of dance_uploads
  ml,        \* ml[d][k]: the processing task k of d at the ML service
  results,   \* the dances with results/<id>/ in the object store
  late,      \* history: those whose results came after the dance was deleted
  failed,    \* history: those some call failed for that nobody will repeat
  notices,   \* rows of notifications about the decision of moderators
  req        \* req[s]: what slot s is doing

vars == <<status, files, maker, uploaders, ml, results, late, failed, notices, req>>

Init == /\ status = [d \in Dances |-> "none"]
        /\ files = {}
        /\ maker = [d \in Dances |-> None]
        /\ uploaders = [d \in Dances |-> {}]
        /\ ml = [d \in Dances |-> [k \in Tasks |-> "none"]]
        /\ results = {}
        /\ late = {}
        /\ failed = {}
        /\ notices = {}
        /\ req = [s \in Slots |-> Idle]

Goto(s, pc) == req' = [req EXCEPT ![s].pc = pc]
Done(s) == req' = [req EXCEPT ![s] = Idle]

\* A call of slot s for dance d fails and is not repeated.
Miss(s, d) == s \in Fragile /\ failed' = failed \cup {d}

HasRow(d) == status[d] \in Listed

\* UPDATE dances SET status = new WHERE id = d: no row, no effect and no error.
SetStatus(d, new) == status' = [status EXCEPT ![d] = IF @ \in Listed THEN new ELSE @]

-----------------------------------------------------------------------------
(* UploadDance and UploadDanceByURL. *)

\* A new id; a file is moderated first, a URL goes to processing at once.
Upload(s) ==
  /\ req[s].pc = "idle"
  /\ \E d \in Dances, u \in Users \cup {None}, file \in BOOLEAN :
       /\ status[d] = "none"
       /\ ml[d]["upload"] = "none"
       /\ d \notin files
       /\ \A t \in Slots : req[t].dance # d
       /\ files' = IF file THEN files \cup {d} ELSE files
       /\ maker' = [maker EXCEPT ![d] = u]
       /\ req' = [req EXCEPT ![s] =
            NewRequest(IF file THEN "moderate" ELSE "enqueue", "upload", u, d, "processing")]
  /\ UNCHANGED <<status, uploaders, ml, results, late, failed, notices>>

\* callModerate: the video is held back, or not; an error counts as not.
Moderate(s) ==
  /\ req[s].pc = "moderate"
  /\ \/ req' = [req EXCEPT ![s] = [@ EXCEPT !.pc = "create", !.status = "pending"]]
     \/ Goto(s, "enqueue")
  /\ UNCHANGED <<status, files, maker, uploaders, ml, results, late, failed, notices>>

\* enqueueProcessing; when it fails, with or without ML having taken the task,
\* the upload fails and no row is made.
Enqueue(s) ==
  LET d == req[s].dance
  IN  /\ req[s].pc = "enqueue"
      /\ \/ ml' = [ml EXCEPT ![d]["upload"] = "queued"] /\ Goto(s, "create")
         \/ /\ s \in Fragile
            /\ \E m \in {"queued", "failed"} : ml' = [ml EXCEPT ![d]["upload"] = m]
            /\ Done(s)
      /\ UNCHANGED <<status, files, maker, uploaders, results, late, failed, notices>>

\* Mutant of AfterCreate: what moderation holds back is not linked to its uploader.
AfterCreateProcessing(q) ==
  IF q.user = None \/ q.status = "pending" THEN "idle" ELSE "link"

\* linkUploaderIfPresent
AfterCreate(q) == IF q.user = None THEN "idle" ELSE "link"

\* CreateDance, ON CONFLICT DO NOTHING; its failure is only logged and the client gets
\* its task all the same.
Create(s) ==
  LET q == req[s]
  IN  /\ q.pc = "create"
      /\ \/ /\ status' = [status EXCEPT ![q.dance] = IF @ = "none" THEN q.status ELSE @]
            /\ UNCHANGED failed
         \/ Miss(s, q.dance) /\ UNCHANGED status
      /\ IF AfterCreate(q) = "idle" THEN Done(s) ELSE Goto(s, AfterCreate(q))
      /\ UNCHANGED <<files, maker, uploaders, ml, results, late, notices>>

\* INSERT INTO dance_uploads: without the dance it fails (foreign key), and that is logged.
LinkTo(d, u) ==
  uploaders' = [uploaders EXCEPT ![d] = IF HasRow(d) THEN @ \cup {u} ELSE @]

\* LinkDanceUpload, after an upload or in a poll that has finalized one.
Link(s) ==
  LET q == req[s]
  IN  /\ q.pc = "link"
      /\ \/ LinkTo(q.dance, q.user) /\ UNCHANGED failed
         \/ Miss(s, q.dance) /\ UNCHANGED uploaders
      /\ IF q.op = "poll" THEN Goto(s, "announce") ELSE Done(s)
      /\ UNCHANGED <<status, files, maker, ml, results, late, notices>>

\* ClaimDanceUploads is there for what a device uploaded before its user signed in, but
\* links the user to whatever dances the request names.
Claim(d, u) ==
  /\ HasRow(d)
  /\ u \notin uploaders[d]
  /\ LinkTo(d, u)
  /\ UNCHANGED <<status, files, maker, ml, results, late, failed, notices, req>>

\* The ML service finishes a task: it stores results, holds the dance back or gives up.
MLFinish(d, k) ==
  /\ ml[d][k] = "queued"
  /\ \E m \in {"done", "held", "failed"} :
       /\ ml' = [ml EXCEPT ![d][k] = m]
       /\ results' = IF m = "done" THEN results \cup {d} ELSE results
       /\ late' = IF m = "done" /\ status[d] = "deleted" THEN late \cup {d} ELSE late
  /\ UNCHANGED <<status, files, maker, uploaders, failed, notices, req>>

-----------------------------------------------------------------------------
(* GetTaskStatus and FinalizeUploadTask: a client asks for the upload task. *)

\* Mutant of Final: only a private dance is left alone.
FinalPrivate(st) == st = "private"

\* The statuses a poll leaves alone.
Final(st) == st \in {"private", "published"}

\* The request names a task and a dance, which need not belong together: a finished task
\* of any kind counts for the dance, and only a processing task comes back held.
MayHold == \E d \in Dances, k \in Tasks : ml[d][k] = "held"

PollRead(s) ==
  /\ req[s].pc = "idle"
  /\ \E d \in Dances, u \in Users \cup {None}, pc \in {"settle", "hold"} :
       /\ pc = "hold" => MayHold
       /\ HasRow(d)
       /\ ~Final(status[d])
       /\ req' = [req EXCEPT ![s] = NewRequest(pc, "poll", u, d, status[d])]
  /\ UNCHANGED <<status, files, maker, uploaders, ml, results, late, failed, notices>>

\* The UPDATE: processed and private; whoever polls is linked next ...
PollSettle(s) ==
  LET q == req[s]
  IN  /\ q.pc = "settle"
      /\ SetStatus(q.dance, "private")
      /\ IF q.user = None THEN Done(s) ELSE Goto(s, "link")
      /\ UNCHANGED <<files, maker, uploaders, ml, results, late, failed, notices>>

\* ... or back to the moderators.
PollHold(s) ==
  /\ req[s].pc = "hold"
  /\ SetStatus(req[s].dance, "pending")
  /\ Done(s)
  /\ UNCHANGED <<files, maker, uploaders, ml, results, late, failed, notices>>

\* dance.uploaded is published, without waiting for Kafka.
PollAnnounce(s) ==
  /\ req[s].pc = "announce"
  /\ Done(s)
  /\ UNCHANGED <<status, files, maker, uploaders, ml, results, late, failed, notices>>

-----------------------------------------------------------------------------
(* UpdateDanceStatus: the moderators decide. *)

DecideRead(s) ==
  /\ req[s].pc = "idle"
  /\ \E d \in Dances, op \in {"approved", "rejected"} :
       /\ HasRow(d)
       /\ req' = [req EXCEPT ![s] = NewRequest("decide", op, None, d, status[d])]
  /\ UNCHANGED <<status, files, maker, uploaders, ml, results, late, failed, notices>>

\* Approving publishes first; a dance that was pending is processed afterwards.
DecideWrite(s) ==
  LET q == req[s]
  IN  /\ q.pc = "decide"
      /\ SetStatus(q.dance, IF q.op = "approved" THEN "published" ELSE "rejected")
      /\ IF q.op = "rejected" THEN Goto(s, "tell")
         ELSE IF q.status = "pending" THEN Goto(s, "path")
         ELSE Done(s)
      /\ UNCHANGED <<files, maker, uploaders, ml, results, late, failed, notices>>

\* GetDanceVideoPath; without a path, or without the dance, there is no processing.
DecidePath(s) ==
  LET d == req[s].dance
  IN  /\ req[s].pc = "path"
      /\ IF HasRow(d) /\ d \in files THEN Goto(s, "requeue") ELSE Done(s)
      /\ UNCHANGED <<status, files, maker, uploaders, ml, results, late, failed, notices>>

\* From here on a goroutine of its own.  ML takes the task, or the call fails, with
\* or without ML having taken it.
Requeue(s) ==
  /\ req[s].pc = "requeue"
  /\ \/ Done(s) /\ UNCHANGED ml
     \/ \E k \in Rework :
          /\ ml[req[s].dance][k] = "none"
          /\ ml' = [ml EXCEPT ![req[s].dance][k] = "queued"]
          /\ \/ req' = [req EXCEPT ![s] = [@ EXCEPT !.pc = "wait", !.task = k]]
             \/ s \in Fragile /\ Done(s)
  /\ UNCHANGED <<status, files, maker, uploaders, results, late, failed, notices>>

\* Mutant of Processed: a dance that processing holds back again counts as processed.
ProcessedHeld(q) == ml[q.dance][q.task] \in {"done", "held"}

Processed(q) == ml[q.dance][q.task] = "done"

\* waitForProcessing: done, or held, failed or taking more than ten minutes.
Wait(s) ==
  /\ req[s].pc = "wait"
  /\ \/ Processed(req[s]) /\ Goto(s, "tell")
     \/ ml[req[s].dance][req[s].task] # "done" /\ Done(s)
  /\ UNCHANGED <<status, files, maker, uploaders, ml, results, late, failed, notices>>

\* notifyDanceUploaders reads the uploaders ...
Tell(s) ==
  LET us == uploaders[req[s].dance]
  IN  /\ req[s].pc = "tell"
      /\ IF us = {} THEN Done(s)
         ELSE req' = [req EXCEPT ![s] = [@ EXCEPT !.pc = "insert", !.to = us]]
      /\ UNCHANGED <<status, files, maker, uploaders, ml, results, late, failed, notices>>

\* Mutant of NoticeOf: a type the CHECK of the table does not know.
NoticeOfStatus(q, u) == [kind |-> q.op, dance |-> q.dance, to |-> u]

NoticeOf(q, u) ==
  [kind |-> IF q.op = "rejected" THEN "dance_rejected" ELSE "dance_approved",
   dance |-> q.dance, to |-> u]

\* ... and inserts one notification after the other.
Insert(s) ==
  /\ req[s].pc = "insert"
  /\ \E u \in req[s].to :
       /\ notices' = notices \cup {NoticeOf(req[s], u)}
       /\ IF req[s].to = {u} THEN Done(s)
          ELSE req' = [req EXCEPT ![s].to = @ \ {u}]
  /\ UNCHANGED <<status, files, maker, uploaders, ml, results, late, failed>>

-----------------------------------------------------------------------------
(* PublishDance, UnpublishDance and DeleteDance. *)

\* They read the uploaders and go on for one of them.
OwnerRead(s) ==
  /\ req[s].pc = "idle"
  /\ \E d \in Dances, op \in {"publish", "unpublish", "delete"} :
       \E u \in uploaders[d] :
         req' = [req EXCEPT ![s] = NewRequest("own", op, u, d, "none")]
  /\ UNCHANGED <<status, files, maker, uploaders, ml, results, late, failed, notices>>

OwnerSet(s) ==
  LET q == req[s]
  IN  /\ q.pc = "own"
      /\ q.op # "delete"
      /\ SetStatus(q.dance, IF q.op = "publish" THEN "published" ELSE "private")
      /\ Done(s)
      /\ UNCHANGED <<files, maker, uploaders, ml, results, late, failed, notices>>

\* DeleteDanceAndRelated, one transaction; the links go with the row (ON DELETE CASCADE).
OwnerDelete(s) ==
  LET d == req[s].dance
  IN  /\ req[s].pc = "own"
      /\ req[s].op = "delete"
      /\ SetStatus(d, "deleted")
      /\ uploaders' = [uploaders EXCEPT ![d] = {}]
      /\ notices' = {n \in notices : n.dance # d}
      /\ Goto(s, "purge")
      /\ UNCHANGED <<files, maker, ml, results, late, failed>>

\* Mutant of Purged: the results stay.
PurgedNothing(d) == results

Purged(d) == results \ {d}

\* DeleteByPrefix of results/<id>/; its failure is only logged.
Purge(s) ==
  /\ req[s].pc = "purge"
  /\ \/ results' = Purged(req[s].dance) /\ UNCHANGED failed
     \/ Miss(s, req[s].dance) /\ UNCHANGED results
  /\ Done(s)
  /\ UNCHANGED <<status, files, maker, uploaders, ml, late, notices>>

\* A statement fails and ends the request, or the process stops.
Fail(s) ==
  /\ req[s].pc # "idle"
  /\ Miss(s, req[s].dance)
  /\ Done(s)
  /\ UNCHANGED <<status, files, maker, uploaders, ml, results, late, notices>>

Next ==
  \/ \E s \in Slots :
       \/ Upload(s) \/ Moderate(s) \/ Enqueue(s) \/ Create(s) \/ Link(s)
       \/ PollRead(s) \/ PollSettle(s) \/ PollHold(s) \/ PollAnnounce(s)
       \/ DecideRead(s) \/ DecideWrite(s) \/ DecidePath(s) \/ Requeue(s) \/ Wait(s)
       \/ Tell(s) \/ Insert(s)
       \/ OwnerRead(s) \/ OwnerSet(s) \/ OwnerDelete(s) \/ Purge(s)
       \/ Fail(s)
  \/ \E d \in Dances :
       \/ \E u \in Users : Claim(d, u)
       \/ \E k \in Tasks : MLFinish(d, k)

Spec == Init /\ [][Next]_vars

\* What the duels see of a status: CreateDuel asks whether the dance is published, and the
\* foreign key of its INSERT whether it is there.
Seen(st) == IF st \in {"published", "deleted"} THEN st ELSE "private"

seen == [d \in Dances |-> Seen(status[d])]
Catalog == INSTANCE Catalogue WITH catalog <- seen

-----------------------------------------------------------------------------
(* Properties. *)

\* Every variable has its type.
TypeOK == /\ status \in [Dances -> Listed \cup {"none", "deleted"}]
          /\ files \in SUBSET Dances
          /\ maker \in [Dances -> Users \cup {None}]
          /\ uploaders \in [Dances -> SUBSET Users]
          /\ ml \in [Dances -> [Tasks -> {"none", "queued", "done", "held", "failed"}]]
          /\ results \in SUBSET Dances
          /\ late \in SUBSET Dances
          /\ failed \in SUBSET Dances
          /\ notices \in SUBSET [kind : NoticeKinds, dance : Dances, to : Users]
          /\ req \in [Slots -> Request]

\* A published dance is withdrawn only by a moderator who rejects it, by an account
\* that is linked to it as an uploader at that moment, which was checked in an earlier
\* statement, or by a poll that read the status before the dance was published: the
\* UPDATEs of FinalizeUploadTask write over whatever the status is by then.  Who is
\* linked is another matter: claiming and polling link any account to any dance.
PublicationKept ==
  [][\A d \in Dances : status[d] = "published" /\ status'[d] # "published" =>
       \E s \in Slots :
         /\ req[s].dance = d /\ req'[s] # req[s]
         /\ \/ req[s].op = "rejected"
            \/ req[s].op \in {"unpublish", "delete"} /\ req[s].user \in uploaders[d]
            \/ req[s].op = "poll" /\ req[s].status # "published"]_vars

\* What an account uploads can be named, published and deleted by that account: the
\* link is made by another statement than the row, in every branch of the upload.
\* Excepted are uploads of which a call failed.
UploadsHaveUploader ==
  \A d \in Dances : HasRow(d) /\ maker[d] # None =>
    \/ maker[d] \in uploaders[d] \/ d \in failed
    \/ \E s \in Slots : /\ req[s].pc = "link"
                        /\ req[s].dance = d
                        /\ req[s].user = maker[d]

\* Who is told that a dance was approved can watch it, unless it was deleted since:
\* the notice is sent by a goroutine long after the decision.
ApprovedToldWhenWatchable ==
  [][\A n \in notices' \ notices :
       n.kind = "dance_approved" => n.dance \in results \/ status[n.dance] = "deleted"]_vars

\* The results that are left of a deleted dance are those of a task ML finished after
\* the deletion; all others are purged, though the purge is a step of its own, unless
\* a call of the deletion failed.
LeftoversAreLate ==
  \A d \in Dances : status[d] = "deleted" /\ d \in results =>
    \/ d \in late \/ d \in failed
    \/ \E s \in Slots : req[s].pc = "purge" /\ req[s].dance = d

\* getHistoryQuery.sql:1-4 says that "published" drops the dances that are still
\* processing and have no playable results.
PublishedIsWatchable ==
  \A d \in Dances : status[d] = "published" => d \in results
=============================================================================
