--------------------------- MODULE UploadsProofs ---------------------------
(***************************************************************************)
(* Proofs about Uploads, for any number of users, dances and requests, and *)
(* whatever calls fail; and that Uploads implements Catalogue.             *)
(***************************************************************************)
EXTENDS Uploads, TLAPS

-----------------------------------------------------------------------------
(* The inductive invariant. *)

Statuses == Listed \cup {"none", "deleted"}
MLStates == {"none", "queued", "done", "held", "failed"}
Notices == [kind : NoticeKinds, dance : Dances, to : Users]

\* A dance has results, unless it is deleted.
Available(d) == d \in results \/ status[d] = "deleted"

\* What the place of a request says about its own fields.
Plain(q) ==
  /\ q \in Request
  /\ q.pc # "idle" => q.dance \in Dances
  /\ q.pc \in {"moderate", "enqueue", "create"} =>
       q.op = "upload" /\ q.status \in {"pending", "processing"}
  /\ q.pc = "link" => q.op \in {"upload", "poll"} /\ q.user \in Users
  /\ q.pc \in {"settle", "hold"} => q.op = "poll" /\ q.status # "published"
  /\ q.pc \in {"path", "requeue", "wait"} => q.op = "approved"
  /\ q.pc = "wait" => q.task \in Rework
  /\ q.pc \in {"decide", "tell", "insert"} => q.op \in {"approved", "rejected"}
  /\ q.pc = "own" => q.op \in {"publish", "unpublish", "delete"}

\* An account stays linked to a dance until the dance is deleted.
Linked(u, d) == u \in uploaders[d] \/ status[d] = "deleted"

\* What it says about the dance it works on.
Apt(q) ==
  /\ q.pc \in {"moderate", "enqueue", "create"} => q.user = maker[q.dance]
  /\ q.pc \in {"tell", "insert"} /\ q.op = "approved" => Available(q.dance)
  /\ q.pc = "own" => status[q.dance] # "none" /\ Linked(q.user, q.dance)
  /\ q.pc = "purge" => status[q.dance] = "deleted"

SlotsOK == /\ req \in [Slots -> Request]
           /\ \A s \in Slots : Plain(req[s]) /\ Apt(req[s])

DancesOK == \A d \in Dances :
  /\ uploaders[d] # {} => status[d] # "none"
  /\ \A k \in Tasks : ml[d][k] = "done" => Available(d)

IInv == TypeOK /\ SlotsOK /\ DancesOK /\ UploadsHaveUploader /\ LeftoversAreLate

-----------------------------------------------------------------------------
(* Requests. *)

\* A request begins proper if its fields are.
LEMMA NewRequestPlain ==
  ASSUME NEW pc, NEW op, NEW u \in Users \cup {None}, NEW d \in Dances,
         NEW st \in Listed \cup {"none"},
         \/ pc \in {"moderate", "enqueue"} /\ op = "upload" /\ st = "processing"
         \/ pc \in {"settle", "hold"} /\ op = "poll" /\ st # "published"
         \/ pc = "decide" /\ op \in {"approved", "rejected"}
         \/ pc = "own" /\ op \in {"publish", "unpublish", "delete"}
  PROVE  Plain(NewRequest(pc, op, u, d, st))
  BY DEF NewRequest, Request, Plain

\* An idle slot is a request without work.
LEMMA IdlePlain == Plain(Idle) /\ Apt(Idle) /\ Apt(Idle)' /\ Idle.pc = "idle"
  BY DEF Idle, NewRequest, Request, Plain, Apt, Listed

\* A request that goes on to another place keeps its fields.
LEMMA GoesOn ==
  ASSUME NEW q, Plain(q), q.pc # "idle",
         NEW pc \in {"enqueue", "create", "link", "announce", "path", "requeue", "tell",
                     "purge"},
         pc = "enqueue" => q.pc = "moderate",
         pc = "create" => q.pc \in {"moderate", "enqueue"},
         pc = "link" => q.pc \in {"create", "settle"} /\ q.user # None,
         pc = "path" => q.pc = "decide" /\ q.op = "approved",
         pc = "requeue" => q.pc = "path",
         pc = "tell" => q.pc \in {"decide", "wait"}
  PROVE  Plain([q EXCEPT !.pc = pc])
  BY DEF Plain, Request

\* Other steps leave a request proper as long as rows, results, links and makers stay.
LEMMA SlotSet ==
  ASSUME SlotsOK, NEW s \in Slots, NEW q, Plain(q), Apt(q)',
         req' = [req EXCEPT ![s] = q],
         maker' = maker,
         \A d \in Dances : /\ status[d] # "none" => status'[d] # "none"
                           /\ status[d] = "deleted" => status'[d] = "deleted"
                           /\ Available(d) => Available(d)'
                           /\ uploaders[d] \subseteq uploaders'[d]
                              \/ status'[d] = "deleted"
  PROVE  SlotsOK'
  <1>1. req' \in [Slots -> Request]
    BY DEF SlotsOK, Plain
  <1>2. ASSUME NEW t \in Slots
        PROVE  Plain(req'[t]) /\ Apt(req[t])'
    <2>1. CASE t = s
      <3>1. req'[t] = q
        BY <2>1 DEF SlotsOK
      <3> QED
        BY <3>1 DEF Apt
    <2>2. CASE t # s
      <3>1. req'[t] = req[t]
        BY <2>2 DEF SlotsOK
      <3>2. Plain(req[t]) /\ Apt(req[t]) /\ (req[t].pc # "idle" => req[t].dance \in Dances)
        BY DEF SlotsOK, Plain
      <3> QED
        BY <3>1, <3>2 DEF Apt, Linked
    <2> QED
      BY <2>1, <2>2
  <1> QED
    BY <1>1, <1>2 DEF SlotsOK, Plain

\* Links and purges under way stay under way while another slot moves.
LEMMA LinksKept ==
  ASSUME TypeOK, UploadsHaveUploader, NEW s \in Slots, NEW q,
         req' = [req EXCEPT ![s] = q], req[s].pc # "link",
         maker' = maker, failed \subseteq failed',
         \A d \in Dances : HasRow(d)' => HasRow(d) /\ uploaders'[d] = uploaders[d]
  PROVE  UploadsHaveUploader'
  <1> SUFFICES ASSUME NEW d \in Dances, HasRow(d)', maker[d] # None,
                      ~(maker[d] \in uploaders'[d] \/ d \in failed')
               PROVE  \E t \in Slots : /\ req'[t].pc = "link"
                                       /\ req'[t].dance = d
                                       /\ req'[t].user = maker[d]
    BY DEF UploadsHaveUploader
  <1>1. PICK t \in Slots : req[t].pc = "link" /\ req[t].dance = d /\ req[t].user = maker[d]
    BY DEF UploadsHaveUploader
  <1>2. req'[t] = req[t]
    BY <1>1 DEF TypeOK
  <1> QED
    BY <1>1, <1>2

\* The same for what deletions leave behind.
LEMMA LeftoversKept ==
  ASSUME TypeOK, LeftoversAreLate, NEW s \in Slots, NEW q,
         req' = [req EXCEPT ![s] = q], req[s].pc # "purge",
         results' \subseteq results, late \subseteq late', failed \subseteq failed',
         \A d \in Dances : status'[d] = "deleted" => status[d] = "deleted"
  PROVE  LeftoversAreLate'
  <1> SUFFICES ASSUME NEW d \in Dances, status'[d] = "deleted", d \in results',
                      ~(d \in late' \/ d \in failed')
               PROVE  \E t \in Slots : req'[t].pc = "purge" /\ req'[t].dance = d
    BY DEF LeftoversAreLate
  <1>1. PICK t \in Slots : req[t].pc = "purge" /\ req[t].dance = d
    BY DEF LeftoversAreLate
  <1>2. req'[t] = req[t]
    BY <1>1 DEF TypeOK
  <1> QED
    BY <1>1, <1>2

\* Most steps make no row, link or results and take none away.
LEMMA QuietStep ==
  ASSUME IInv, NEW s \in Slots, NEW q, Plain(q), Apt(q)',
         req' = [req EXCEPT ![s] = q],
         req[s].pc \notin {"link", "purge"},
         status' \in [Dances -> Statuses],
         \A d \in Dances : /\ HasRow(d)' <=> HasRow(d)
                           /\ status'[d] = "none" <=> status[d] = "none",
         ml' \in [Dances -> [Tasks -> MLStates]],
         \A d \in Dances, k \in Tasks : ml'[d][k] = "done" => ml[d][k] = "done",
         notices' \in SUBSET Notices,
         UNCHANGED <<files, maker, uploaders, results, late, failed>>
  PROVE  IInv'
  <1>1. \A d \in Dances : status'[d] = "deleted" <=> status[d] = "deleted"
    BY DEF IInv, TypeOK, HasRow, Statuses, Listed
  <1>2. \A d \in Dances : Available(d)' <=> Available(d)
    BY <1>1 DEF Available
  <1>3. SlotsOK'
    BY <1>1, <1>2, SlotSet DEF IInv
  <1>4. TypeOK'
    BY <1>3 DEF IInv, TypeOK, SlotsOK, Statuses, MLStates, Notices
  <1>5. DancesOK'
    BY <1>2 DEF IInv, DancesOK
  <1>6. UploadsHaveUploader'
    BY LinksKept DEF IInv
  <1>7. LeftoversAreLate'
    BY <1>1, LeftoversKept DEF IInv
  <1> QED
    BY <1>3, <1>4, <1>5, <1>6, <1>7 DEF IInv

\* An UPDATE of the status is quiet, unless it deletes.
LEMMA SetStatusQuiet ==
  ASSUME TypeOK, NEW d \in Dances, NEW st \in Listed, SetStatus(d, st)
  PROVE  /\ status' \in [Dances -> Statuses]
         /\ \A c \in Dances : /\ HasRow(c)' <=> HasRow(c)
                              /\ status'[c] = "none" <=> status[c] = "none"
  BY DEF TypeOK, SetStatus, HasRow, Statuses, Listed

\* A request that goes on is one that differs in its place only.
LEMMA RequestGoes ==
  ASSUME SlotsOK, NEW s \in Slots, req[s].pc # "idle",
         NEW pc \in {"enqueue", "create", "link", "announce", "path", "requeue", "tell",
                     "purge"},
         Goto(s, pc),
         pc = "enqueue" => req[s].pc = "moderate",
         pc = "create" => req[s].pc \in {"moderate", "enqueue"},
         pc = "link" => req[s].pc \in {"create", "settle"} /\ req[s].user # None,
         pc = "path" => req[s].pc = "decide" /\ req[s].op = "approved",
         pc = "requeue" => req[s].pc = "path",
         pc = "tell" => req[s].pc \in {"decide", "wait"}
  PROVE  \E q : /\ Plain(q)
               /\ req' = [req EXCEPT ![s] = q]
               /\ q.pc = pc
               /\ q.op = req[s].op /\ q.user = req[s].user /\ q.dance = req[s].dance
  <1>1. PICK q : q = [req[s] EXCEPT !.pc = pc]
    OBVIOUS
  <1>2. Plain(req[s]) /\ req[s] \in Request
    BY DEF SlotsOK, Plain
  <1>3. Plain(q)
    BY <1>1, <1>2, GoesOn
  <1>4. req' = [req EXCEPT ![s] = q]
    BY <1>1 DEF Goto
  <1>5. q.pc = pc /\ q.op = req[s].op /\ q.user = req[s].user /\ q.dance = req[s].dance
    BY <1>1, <1>2 DEF Request
  <1> QED
    BY <1>3, <1>4, <1>5

\* A quiet step that ends its request.
LEMMA QuietEnd ==
  ASSUME IInv, NEW s \in Slots, Done(s), req[s].pc \notin {"link", "purge"},
         status' \in [Dances -> Statuses],
         \A d \in Dances : /\ HasRow(d)' <=> HasRow(d)
                           /\ status'[d] = "none" <=> status[d] = "none",
         ml' \in [Dances -> [Tasks -> MLStates]],
         \A d \in Dances, k \in Tasks : ml'[d][k] = "done" => ml[d][k] = "done",
         notices' \in SUBSET Notices,
         UNCHANGED <<files, maker, uploaders, results, late, failed>>
  PROVE  IInv'
  BY IdlePlain, QuietStep DEF Done

\* What a quiet step finds and leaves when it changes nothing but its request.
LEMMA Still ==
  ASSUME IInv, UNCHANGED <<status, ml, notices>>
  PROVE  /\ status' \in [Dances -> Statuses]
         /\ \A d \in Dances : /\ HasRow(d)' <=> HasRow(d)
                              /\ status'[d] = "none" <=> status[d] = "none"
         /\ ml' \in [Dances -> [Tasks -> MLStates]]
         /\ \A d \in Dances, k \in Tasks : ml'[d][k] = "done" => ml[d][k] = "done"
         /\ notices' \in SUBSET Notices
  BY DEF IInv, TypeOK, HasRow, Statuses, MLStates, Notices

-----------------------------------------------------------------------------
(* The invariant holds at first and after every step. *)

\* The initial state.
LEMMA Initially == Init => IInv
  BY IdlePlain
  DEF Init, IInv, TypeOK, SlotsOK, DancesOK, UploadsHaveUploader, LeftoversAreLate, HasRow,
      Listed, Plain, Apt

\* A new upload.
LEMMA UploadStep ==
  ASSUME IInv, NEW s \in Slots, Upload(s)
  PROVE  IInv'
  <1>1. PICK d \in Dances, u \in Users \cup {None}, file \in BOOLEAN :
          /\ status[d] = "none"
          /\ \A t \in Slots : req[t].dance # d
          /\ files' = IF file THEN files \cup {d} ELSE files
          /\ maker' = [maker EXCEPT ![d] = u]
          /\ req' = [req EXCEPT ![s] = NewRequest(IF file THEN "moderate" ELSE "enqueue",
                                                 "upload", u, d, "processing")]
    BY DEF Upload
  <1>2. PICK q : q = NewRequest(IF file THEN "moderate" ELSE "enqueue", "upload", u, d,
                                "processing")
    OBVIOUS
  <1>3. Plain(q) /\ q.pc \in {"moderate", "enqueue"} /\ q.user = u /\ q.dance = d
    <2>1. Plain(q)
      BY <1>2, NewRequestPlain DEF Listed
    <2> QED
      BY <1>2, <2>1 DEF NewRequest
  <1>4. UNCHANGED <<status, uploaders, ml, results, late, failed, notices>>
    BY DEF Upload
  <1>5. TypeOK
    BY DEF IInv
  <1>6. SlotsOK'
    <2>1. \A t \in Slots : t # s => req'[t] = req[t] /\ Plain(req[t]) /\ Apt(req[t])
                                    /\ req[t].dance # d
      BY <1>1, <1>5 DEF IInv, SlotsOK, TypeOK
    <2>2. req'[s] = q /\ req' \in [Slots -> Request]
      BY <1>1, <1>2, <1>3, <1>5 DEF TypeOK, Plain
    <2>3. \A c \in Dances : c # d => maker'[c] = maker[c]
      BY <1>1, <1>5 DEF TypeOK
    <2>4. maker'[d] = u
      BY <1>1, <1>5 DEF TypeOK
    <2>5. ASSUME NEW t \in Slots
          PROVE  Plain(req'[t]) /\ Apt(req[t])'
      <3>1. CASE t = s
        BY <1>3, <2>2, <2>4, <3>1 DEF Apt
      <3>2. CASE t # s
        BY <1>4, <2>1, <2>3, <3>2 DEF Apt, Plain, Available, Linked
      <3> QED
        BY <3>1, <3>2
    <2> QED
      BY <2>2, <2>5 DEF SlotsOK, Plain
  <1>7. TypeOK'
    BY <1>1, <1>4, <1>5, <1>6 DEF TypeOK, SlotsOK
  <1>8. DancesOK'
    BY <1>4 DEF IInv, DancesOK, Available
  <1>9. UploadsHaveUploader'
    <2> SUFFICES ASSUME NEW c \in Dances, HasRow(c)', maker'[c] # None,
                        ~(maker'[c] \in uploaders'[c] \/ c \in failed')
                 PROVE  \E t \in Slots : /\ req'[t].pc = "link"
                                         /\ req'[t].dance = c
                                         /\ req'[t].user = maker'[c]
      BY DEF UploadsHaveUploader
    <2>1. HasRow(c) /\ c # d
      BY <1>1, <1>4 DEF HasRow, Listed
    <2>2. maker'[c] = maker[c]
      BY <1>1, <1>5, <2>1 DEF TypeOK
    <2>3. PICK t \in Slots : req[t].pc = "link" /\ req[t].dance = c /\ req[t].user = maker[c]
      BY <1>4, <2>1, <2>2 DEF IInv, UploadsHaveUploader
    <2>4. t # s
      BY <2>3 DEF Upload
    <2>5. req'[t] = req[t]
      BY <1>1, <1>5, <2>4 DEF TypeOK
    <2> QED
      BY <2>2, <2>3, <2>5
  <1>10. LeftoversAreLate'
    <2>1. req[s].pc # "purge"
      BY DEF Upload
    <2>2. req' = [req EXCEPT ![s] = q]
      BY <1>1, <1>2
    <2> QED
      BY <1>4, <1>5, <2>1, <2>2, LeftoversKept DEF IInv
  <1> QED
    BY <1>6, <1>7, <1>8, <1>9, <1>10 DEF IInv

\* Moderation, enqueueing and polls.
LEMMA UploadQuietSteps ==
  ASSUME IInv, NEW s \in Slots,
         \/ Moderate(s) \/ Enqueue(s)
         \/ PollRead(s) \/ PollSettle(s) \/ PollHold(s) \/ PollAnnounce(s)
  PROVE  IInv'
  <1>0. TypeOK /\ SlotsOK /\ Plain(req[s]) /\ Apt(req[s])
    BY DEF IInv, SlotsOK
  <1>1. CASE Moderate(s)
    <2>1. /\ req[s].pc = "moderate"
          /\ UNCHANGED <<status, files, maker, uploaders, ml, results, late, failed, notices>>
      BY <1>1 DEF Moderate
    <2>2. CASE Goto(s, "enqueue")
      <3>1. PICK q : Plain(q) /\ req' = [req EXCEPT ![s] = q] /\ q.pc = "enqueue"
                     /\ q.user = req[s].user /\ q.dance = req[s].dance
        BY <1>0, <2>1, <2>2, RequestGoes
      <3>2. Apt(q)'
        BY <1>0, <2>1, <3>1 DEF Apt
      <3> QED
        BY <2>1, <3>1, <3>2, Still, QuietStep
    <2>3. CASE req' = [req EXCEPT ![s] = [@ EXCEPT !.pc = "create", !.status = "pending"]]
      <3>1. PICK q : q = [req[s] EXCEPT !.pc = "create", !.status = "pending"]
        OBVIOUS
      <3>2. Plain(q)
        BY <1>0, <2>1, <3>1 DEF Plain, Request, Listed
      <3>3. q.pc = "create" /\ q.user = req[s].user /\ q.dance = req[s].dance
        BY <1>0, <3>1 DEF Plain, Request
      <3>4. Apt(q)'
        BY <1>0, <2>1, <3>3 DEF Apt
      <3>5. req' = [req EXCEPT ![s] = q]
        BY <2>3, <3>1
      <3> QED
        BY <2>1, <3>2, <3>4, <3>5, Still, QuietStep
    <2> QED
      BY <1>1, <2>2, <2>3 DEF Moderate
  <1>2. CASE Enqueue(s)
    <2> DEFINE d == req[s].dance
    <2>1. /\ req[s].pc = "enqueue"
          /\ UNCHANGED <<status, files, maker, uploaders, results, late, failed, notices>>
          /\ d \in Dances
      BY <1>0, <1>2 DEF Enqueue, Plain
    <2>2. PICK m \in {"queued", "failed"} : ml' = [ml EXCEPT ![d]["upload"] = m]
      BY <1>2 DEF Enqueue
    <2>3. /\ ml' \in [Dances -> [Tasks -> MLStates]]
          /\ \A c \in Dances, k \in Tasks : ml'[c][k] = "done" => ml[c][k] = "done"
      BY <1>0, <2>1, <2>2 DEF TypeOK, Tasks, MLStates
    <2>4. /\ status' \in [Dances -> Statuses]
          /\ \A c \in Dances : /\ HasRow(c)' <=> HasRow(c)
                               /\ status'[c] = "none" <=> status[c] = "none"
          /\ notices' \in SUBSET Notices
      BY <1>0, <2>1 DEF TypeOK, HasRow, Statuses, Notices
    <2>5. CASE Goto(s, "create")
      <3>1. PICK q : Plain(q) /\ req' = [req EXCEPT ![s] = q] /\ q.pc = "create"
                     /\ q.user = req[s].user /\ q.dance = req[s].dance
        BY <1>0, <2>1, <2>5, RequestGoes
      <3>2. Apt(q)'
        BY <1>0, <2>1, <3>1 DEF Apt
      <3> QED
        BY <2>1, <2>3, <2>4, <3>1, <3>2, QuietStep
    <2>6. CASE Done(s)
      BY <2>1, <2>3, <2>4, <2>6, QuietEnd
    <2> QED
      BY <1>2, <2>5, <2>6 DEF Enqueue
  <1>3. CASE PollRead(s)
    <2>1. PICK d \in Dances, u \in Users \cup {None}, pc \in {"settle", "hold"} :
            /\ HasRow(d) /\ ~Final(status[d])
            /\ req' = [req EXCEPT ![s] = NewRequest(pc, "poll", u, d, status[d])]
      BY <1>3 DEF PollRead
    <2>2. /\ req[s].pc = "idle"
          /\ UNCHANGED <<status, files, maker, uploaders, ml, results, late, failed, notices>>
      BY <1>3 DEF PollRead
    <2>3. PICK q : q = NewRequest(pc, "poll", u, d, status[d])
      OBVIOUS
    <2>4. Plain(q) /\ Apt(q)'
      <3>1. Plain(q)
        BY <2>1, <2>3, NewRequestPlain DEF HasRow, Final
      <3>2. q.pc \in {"settle", "hold"}
        BY <2>3 DEF NewRequest
      <3> QED
        BY <3>1, <3>2 DEF Apt
    <2> QED
      BY <2>1, <2>2, <2>3, <2>4, Still, QuietStep
  <1>4. CASE PollSettle(s)
    <2>1. /\ req[s].pc = "settle" /\ req[s].dance \in Dances
          /\ UNCHANGED <<files, maker, uploaders, ml, results, late, failed, notices>>
      BY <1>0, <1>4 DEF PollSettle, Plain
    <2>2. PICK st \in Listed : SetStatus(req[s].dance, st)
      BY <1>4 DEF PollSettle, Listed
    <2>3. /\ ml' \in [Dances -> [Tasks -> MLStates]]
          /\ notices' \in SUBSET Notices
      BY <1>0, <2>1 DEF TypeOK, MLStates, Notices
    <2>4. CASE Done(s)
      BY <1>0, <2>1, <2>2, <2>3, <2>4, SetStatusQuiet, QuietEnd
    <2>5. CASE req[s].user # None /\ Goto(s, "link")
      <3>1. PICK q : Plain(q) /\ req' = [req EXCEPT ![s] = q] /\ q.pc = "link"
        BY <1>0, <2>1, <2>5, RequestGoes
      <3>2. Apt(q)'
        BY <3>1 DEF Apt
      <3> QED
        BY <1>0, <2>1, <2>2, <2>3, <3>1, <3>2, SetStatusQuiet, QuietStep
    <2> QED
      BY <1>4, <2>4, <2>5 DEF PollSettle
  <1>5. CASE PollHold(s)
    <2>1. /\ req[s].pc = "hold" /\ req[s].dance \in Dances
          /\ SetStatus(req[s].dance, "pending") /\ Done(s)
          /\ UNCHANGED <<files, maker, uploaders, ml, results, late, failed, notices>>
      BY <1>0, <1>5 DEF PollHold, Plain
    <2>2. /\ ml' \in [Dances -> [Tasks -> MLStates]]
          /\ notices' \in SUBSET Notices
          /\ "pending" \in Listed
      BY <1>0, <2>1 DEF TypeOK, MLStates, Notices, Listed
    <2> QED
      BY <1>0, <2>1, <2>2, SetStatusQuiet, QuietEnd
  <1>6. CASE PollAnnounce(s)
    BY <1>6, Still, QuietEnd DEF PollAnnounce
  <1> QED
    BY <1>1, <1>2, <1>3, <1>4, <1>5, <1>6

\* The moderators' decision and what follows it, up to the notices.
LEMMA DecisionQuietSteps ==
  ASSUME IInv, NEW s \in Slots,
         DecideRead(s) \/ DecideWrite(s) \/ DecidePath(s) \/ Requeue(s) \/ Wait(s)
  PROVE  IInv'
  <1>0. TypeOK /\ SlotsOK /\ Plain(req[s]) /\ Apt(req[s])
    BY DEF IInv, SlotsOK
  <1>1. CASE DecideRead(s)
    <2>1. PICK d \in Dances, op \in {"approved", "rejected"} :
            /\ HasRow(d)
            /\ req' = [req EXCEPT ![s] = NewRequest("decide", op, None, d, status[d])]
      BY <1>1 DEF DecideRead
    <2>2. /\ req[s].pc = "idle"
          /\ UNCHANGED <<status, files, maker, uploaders, ml, results, late, failed, notices>>
      BY <1>1 DEF DecideRead
    <2>3. PICK q : q = NewRequest("decide", op, None, d, status[d])
      OBVIOUS
    <2>4. Plain(q) /\ Apt(q)'
      <3>1. Plain(q)
        BY <2>1, <2>3, NewRequestPlain DEF HasRow
      <3>2. q.pc = "decide"
        BY <2>3 DEF NewRequest
      <3> QED
        BY <3>1, <3>2 DEF Apt
    <2> QED
      BY <2>1, <2>2, <2>3, <2>4, Still, QuietStep
  <1>2. CASE DecideWrite(s)
    <2>1. /\ req[s].pc = "decide" /\ req[s].dance \in Dances
          /\ req[s].op \in {"approved", "rejected"}
          /\ UNCHANGED <<files, maker, uploaders, ml, results, late, failed, notices>>
      BY <1>0, <1>2 DEF DecideWrite, Plain
    <2>2. PICK st \in Listed : SetStatus(req[s].dance, st)
      BY <1>2 DEF DecideWrite, Listed
    <2>3. /\ ml' \in [Dances -> [Tasks -> MLStates]]
          /\ notices' \in SUBSET Notices
      BY <1>0, <2>1 DEF TypeOK, MLStates, Notices
    <2>4. CASE Done(s)
      BY <1>0, <2>1, <2>2, <2>3, <2>4, SetStatusQuiet, QuietEnd
    <2>5. CASE req[s].op = "rejected" /\ Goto(s, "tell")
      <3>1. PICK q : Plain(q) /\ req' = [req EXCEPT ![s] = q] /\ q.pc = "tell"
                     /\ q.op = req[s].op
        BY <1>0, <2>1, <2>5, RequestGoes
      <3>2. Apt(q)'
        BY <2>5, <3>1 DEF Apt
      <3> QED
        BY <1>0, <2>1, <2>2, <2>3, <3>1, <3>2, SetStatusQuiet, QuietStep
    <2>6. CASE req[s].op = "approved" /\ Goto(s, "path")
      <3>1. PICK q : Plain(q) /\ req' = [req EXCEPT ![s] = q] /\ q.pc = "path"
        BY <1>0, <2>1, <2>6, RequestGoes
      <3>2. Apt(q)'
        BY <3>1 DEF Apt
      <3> QED
        BY <1>0, <2>1, <2>2, <2>3, <3>1, <3>2, SetStatusQuiet, QuietStep
    <2> QED
      BY <1>2, <2>1, <2>4, <2>5, <2>6 DEF DecideWrite
  <1>3. CASE DecidePath(s)
    <2>1. /\ req[s].pc = "path"
          /\ UNCHANGED <<status, files, maker, uploaders, ml, results, late, failed, notices>>
      BY <1>3 DEF DecidePath
    <2>2. CASE Goto(s, "requeue")
      <3>1. PICK q : Plain(q) /\ req' = [req EXCEPT ![s] = q] /\ q.pc = "requeue"
        BY <1>0, <2>1, <2>2, RequestGoes
      <3>2. Apt(q)'
        BY <3>1 DEF Apt
      <3> QED
        BY <2>1, <3>1, <3>2, Still, QuietStep
    <2>3. CASE Done(s)
      BY <2>1, <2>3, Still, QuietEnd
    <2> QED
      BY <1>3, <2>2, <2>3 DEF DecidePath
  <1>4. CASE Requeue(s)
    <2> DEFINE d == req[s].dance
    <2>1. /\ req[s].pc = "requeue" /\ d \in Dances /\ req[s].op = "approved"
          /\ UNCHANGED <<status, files, maker, uploaders, results, late, failed, notices>>
      BY <1>0, <1>4 DEF Requeue, Plain
    <2>2. /\ status' \in [Dances -> Statuses]
          /\ \A c \in Dances : /\ HasRow(c)' <=> HasRow(c)
                               /\ status'[c] = "none" <=> status[c] = "none"
          /\ notices' \in SUBSET Notices
      BY <1>0, <2>1 DEF TypeOK, HasRow, Statuses, Notices
    <2>3. CASE Done(s) /\ UNCHANGED ml
      BY <2>1, <2>3, Still, QuietEnd
    <2>4. ASSUME NEW k \in Rework, ml' = [ml EXCEPT ![d][k] = "queued"],
                 \/ req' = [req EXCEPT ![s] = [@ EXCEPT !.pc = "wait", !.task = k]]
                 \/ Done(s)
          PROVE  IInv'
      <3>1. /\ ml' \in [Dances -> [Tasks -> MLStates]]
            /\ \A c \in Dances, j \in Tasks : ml'[c][j] = "done" => ml[c][j] = "done"
        BY <1>0, <2>1, <2>4 DEF TypeOK, Tasks, MLStates
      <3>2. PICK q : q = [req[s] EXCEPT !.pc = "wait", !.task = k]
        OBVIOUS
      <3>3. Plain(q) /\ q.pc = "wait"
        BY <1>0, <2>1, <3>2 DEF Plain, Request
      <3>4. Apt(q)'
        BY <3>3 DEF Apt
      <3>5. CASE Done(s)
        BY <2>1, <2>2, <3>1, <3>5, QuietEnd
      <3>6. CASE req' = [req EXCEPT ![s] = [@ EXCEPT !.pc = "wait", !.task = k]]
        <4>1. req' = [req EXCEPT ![s] = q]
          BY <3>2, <3>6
        <4> QED
          BY <2>1, <2>2, <3>1, <3>3, <3>4, <4>1, QuietStep
      <3> QED
        BY <2>4, <3>5, <3>6
    <2> QED
      BY <1>4, <2>3, <2>4 DEF Requeue
  <1>5. CASE Wait(s)
    <2>1. /\ req[s].pc = "wait" /\ req[s].dance \in Dances /\ req[s].task \in Tasks
          /\ UNCHANGED <<status, files, maker, uploaders, ml, results, late, failed, notices>>
      BY <1>0, <1>5 DEF Wait, Plain, Tasks
    <2>2. CASE Processed(req[s]) /\ Goto(s, "tell")
      <3>1. Available(req[s].dance)
        BY <2>1, <2>2 DEF IInv, DancesOK, Processed
      <3>2. PICK q : Plain(q) /\ req' = [req EXCEPT ![s] = q] /\ q.pc = "tell"
                     /\ q.dance = req[s].dance
        BY <1>0, <2>1, <2>2, RequestGoes
      <3>3. Apt(q)'
        BY <2>1, <3>1, <3>2 DEF Apt, Available
      <3> QED
        BY <2>1, <3>2, <3>3, Still, QuietStep
    <2>3. CASE Done(s)
      BY <2>1, <2>3, Still, QuietEnd
    <2> QED
      BY <1>5, <2>2, <2>3 DEF Wait
  <1> QED
    BY <1>1, <1>2, <1>3, <1>4, <1>5

\* Telling the uploaders, and what uploaders begin and set themselves.
LEMMA NoticeAndOwnerQuietSteps ==
  ASSUME IInv, NEW s \in Slots,
         Tell(s) \/ Insert(s) \/ OwnerRead(s) \/ OwnerSet(s)
  PROVE  IInv'
  <1>0. TypeOK /\ SlotsOK /\ Plain(req[s]) /\ Apt(req[s])
    BY DEF IInv, SlotsOK
  <1>1. CASE Tell(s)
    <2>1. /\ req[s].pc = "tell" /\ req[s].dance \in Dances
          /\ UNCHANGED <<status, files, maker, uploaders, ml, results, late, failed, notices>>
      BY <1>0, <1>1 DEF Tell, Plain
    <2>2. CASE Done(s)
      BY <2>1, <2>2, Still, QuietEnd
    <2>3. CASE req' = [req EXCEPT ![s] = [@ EXCEPT !.pc = "insert",
                                                 !.to = uploaders[req[s].dance]]]
      <3>1. PICK q : q = [req[s] EXCEPT !.pc = "insert", !.to = uploaders[req[s].dance]]
        OBVIOUS
      <3>2. uploaders[req[s].dance] \in SUBSET Users
        BY <1>0, <2>1 DEF TypeOK
      <3>3. Plain(q) /\ q.pc = "insert" /\ q.op = req[s].op /\ q.dance = req[s].dance
        BY <1>0, <2>1, <3>1, <3>2 DEF Plain, Request
      <3>4. Apt(q)'
        BY <1>0, <2>1, <3>3 DEF Apt, Available
      <3>5. req' = [req EXCEPT ![s] = q]
        BY <2>3, <3>1
      <3> QED
        BY <2>1, <3>3, <3>4, <3>5, Still, QuietStep
    <2> QED
      BY <1>1, <2>2, <2>3 DEF Tell
  <1>2. CASE Insert(s)
    <2>1. PICK u \in req[s].to :
            /\ notices' = notices \cup {NoticeOf(req[s], u)}
            /\ Done(s) \/ req' = [req EXCEPT ![s].to = @ \ {u}]
      BY <1>2 DEF Insert
    <2>2. /\ req[s].pc = "insert" /\ req[s].dance \in Dances
          /\ req[s].to \in SUBSET Users
          /\ UNCHANGED <<status, files, maker, uploaders, ml, results, late, failed>>
      BY <1>0, <1>2 DEF Insert, Plain, Request
    <2>3. /\ notices' \in SUBSET Notices
          /\ status' \in [Dances -> Statuses]
          /\ \A c \in Dances : /\ HasRow(c)' <=> HasRow(c)
                               /\ status'[c] = "none" <=> status[c] = "none"
          /\ ml' \in [Dances -> [Tasks -> MLStates]]
          /\ \A c \in Dances, j \in Tasks : ml'[c][j] = "done" => ml[c][j] = "done"
      <3>1. NoticeOf(req[s], u) \in Notices
        BY <2>1, <2>2 DEF NoticeOf, Notices, NoticeKinds
      <3> QED
        BY <1>0, <2>1, <2>2, <3>1 DEF TypeOK, HasRow, Statuses, Notices, MLStates
    <2>4. CASE Done(s)
      BY <2>2, <2>3, <2>4, QuietEnd
    <2>5. CASE req' = [req EXCEPT ![s].to = @ \ {u}]
      <3>1. PICK q : q = [req[s] EXCEPT !.to = @ \ {u}]
        OBVIOUS
      <3>2. Plain(q) /\ q.pc = "insert" /\ q.op = req[s].op /\ q.dance = req[s].dance
        BY <1>0, <2>2, <3>1 DEF Plain, Request
      <3>3. Apt(q)'
        BY <1>0, <2>2, <3>2 DEF Apt, Available
      <3>4. req' = [req EXCEPT ![s] = q]
        BY <2>5, <3>1
      <3> QED
        BY <2>2, <2>3, <3>2, <3>3, <3>4, QuietStep
    <2> QED
      BY <2>1, <2>4, <2>5
  <1>3. CASE OwnerRead(s)
    <2>1. PICK d \in Dances, op \in {"publish", "unpublish", "delete"} :
            \E u \in uploaders[d] :
              req' = [req EXCEPT ![s] = NewRequest("own", op, u, d, "none")]
      BY <1>3 DEF OwnerRead
    <2>2. PICK u \in uploaders[d] :
            req' = [req EXCEPT ![s] = NewRequest("own", op, u, d, "none")]
      BY <2>1
    <2>3. /\ req[s].pc = "idle" /\ u \in Users /\ status[d] # "none"
          /\ UNCHANGED <<status, files, maker, uploaders, ml, results, late, failed, notices>>
      BY <1>0, <1>3, <2>2 DEF OwnerRead, IInv, DancesOK, TypeOK
    <2>4. PICK q : q = NewRequest("own", op, u, d, "none")
      OBVIOUS
    <2>5. Plain(q) /\ Apt(q)'
      <3>1. Plain(q)
        BY <2>3, <2>4, NewRequestPlain
      <3>2. q.pc = "own" /\ q.dance = d /\ q.user = u
        BY <2>4 DEF NewRequest
      <3> QED
        BY <2>3, <3>1, <3>2 DEF Apt, Linked
    <2> QED
      BY <2>2, <2>3, <2>4, <2>5, Still, QuietStep
  <1>4. CASE OwnerSet(s)
    <2>1. /\ req[s].pc = "own" /\ req[s].dance \in Dances /\ Done(s)
          /\ UNCHANGED <<files, maker, uploaders, ml, results, late, failed, notices>>
      BY <1>0, <1>4 DEF OwnerSet, Plain
    <2>2. PICK st \in Listed : SetStatus(req[s].dance, st)
      BY <1>4 DEF OwnerSet, Listed
    <2>3. /\ ml' \in [Dances -> [Tasks -> MLStates]]
          /\ notices' \in SUBSET Notices
      BY <1>0, <2>1 DEF TypeOK, MLStates, Notices
    <2> QED
      BY <1>0, <2>1, <2>2, <2>3, SetStatusQuiet, QuietEnd
  <1> QED
    BY <1>1, <1>2, <1>3, <1>4

\* The row is made, or is not and the dance counts as failed.
LEMMA CreateStep ==
  ASSUME IInv, NEW s \in Slots, Create(s)
  PROVE  IInv'
  <1> DEFINE d == req[s].dance
  <1>0. TypeOK /\ SlotsOK /\ Plain(req[s]) /\ Apt(req[s])
    BY DEF IInv, SlotsOK
  <1>1. /\ req[s].pc = "create" /\ d \in Dances /\ req[s].status \in Listed
        /\ req[s].user = maker[d]
        /\ UNCHANGED <<files, maker, uploaders, ml, results, late, notices>>
    BY <1>0 DEF Create, Plain, Apt, Listed
  <1>2. /\ status' \in [Dances -> Statuses]
        /\ failed' \in SUBSET Dances /\ failed \subseteq failed'
        /\ \A c \in Dances : /\ status[c] # "none" => status'[c] = status[c]
                             /\ c # d => status'[c] = status[c]
                             /\ status'[c] = "deleted" => status[c] = "deleted"
    <2>1. CASE /\ status' = [status EXCEPT ![d] = IF @ = "none" THEN req[s].status ELSE @]
               /\ UNCHANGED failed
      BY <1>0, <1>1, <2>1 DEF TypeOK, Statuses, Listed
    <2>2. CASE Miss(s, d) /\ UNCHANGED status
      BY <1>0, <1>1, <2>2 DEF TypeOK, Statuses, Miss
    <2> QED
      BY <2>1, <2>2 DEF Create
  <1>3. \A c \in Dances : /\ status[c] # "none" => status'[c] # "none"
                          /\ status[c] = "deleted" => status'[c] = "deleted"
                          /\ Available(c) => Available(c)'
    BY <1>1, <1>2 DEF Available
  <1>4. PICK q : /\ Plain(q) /\ Apt(q)' /\ req' = [req EXCEPT ![s] = q]
                 /\ maker[d] # None => q.pc = "link" /\ q.dance = d /\ q.user = maker[d]
    <2>1. CASE req[s].user = None
      <3>1. Done(s)
        BY <2>1 DEF Create, AfterCreate
      <3> QED
        BY <1>1, <2>1, <3>1, IdlePlain DEF Done
    <2>2. CASE req[s].user # None
      <3>1. Goto(s, "link")
        BY <2>2 DEF Create, AfterCreate
      <3>2. PICK q : Plain(q) /\ req' = [req EXCEPT ![s] = q] /\ q.pc = "link"
                     /\ q.user = req[s].user /\ q.dance = req[s].dance
        BY <1>0, <1>1, <2>2, <3>1, RequestGoes
      <3>3. Apt(q)'
        BY <3>2 DEF Apt
      <3> QED
        BY <1>1, <3>2, <3>3
    <2> QED
      BY <2>1, <2>2
  <1>5. SlotsOK'
    BY <1>0, <1>1, <1>3, <1>4, SlotSet
  <1>6. TypeOK'
    BY <1>0, <1>1, <1>2, <1>5 DEF TypeOK, SlotsOK, Statuses
  <1>7. DancesOK'
    BY <1>1, <1>3 DEF IInv, DancesOK
  <1>8. UploadsHaveUploader'
    <2> SUFFICES ASSUME NEW c \in Dances, HasRow(c)', maker[c] # None,
                        ~(maker[c] \in uploaders[c] \/ c \in failed')
                 PROVE  \E t \in Slots : /\ req'[t].pc = "link"
                                         /\ req'[t].dance = c
                                         /\ req'[t].user = maker[c]
      BY <1>1 DEF UploadsHaveUploader
    <2>1. CASE c = d
      <3>1. req'[s] = q
        BY <1>0, <1>4 DEF TypeOK
      <3> QED
        BY <1>4, <2>1, <3>1
    <2>2. CASE c # d
      <3>1. HasRow(c)
        BY <1>2, <2>2 DEF HasRow
      <3>2. PICK t \in Slots : /\ req[t].pc = "link"
                              /\ req[t].dance = c
                              /\ req[t].user = maker[c]
        BY <1>2, <3>1 DEF IInv, UploadsHaveUploader
      <3>3. req'[t] = req[t]
        BY <1>0, <1>1, <1>4, <3>2 DEF TypeOK
      <3> QED
        BY <3>2, <3>3
    <2> QED
      BY <2>1, <2>2
  <1>9. LeftoversAreLate'
    BY <1>0, <1>1, <1>2, <1>4, LeftoversKept DEF IInv
  <1> QED
    BY <1>5, <1>6, <1>7, <1>8, <1>9 DEF IInv

\* The uploader is linked, or the link fails and the dance counts as failed.
LEMMA LinkStep ==
  ASSUME IInv, NEW s \in Slots, Link(s)
  PROVE  IInv'
  <1> DEFINE d == req[s].dance
             u == req[s].user
  <1>0. TypeOK /\ SlotsOK /\ Plain(req[s]) /\ Apt(req[s])
    BY DEF IInv, SlotsOK
  <1>1. /\ req[s].pc = "link" /\ d \in Dances /\ u \in Users
        /\ UNCHANGED <<status, files, maker, ml, results, late, notices>>
    BY <1>0 DEF Link, Plain
  <1>2. /\ uploaders' \in [Dances -> SUBSET Users]
        /\ failed' \in SUBSET Dances /\ failed \subseteq failed'
        /\ \A c \in Dances : /\ uploaders[c] \subseteq uploaders'[c]
                             /\ ~HasRow(c) => uploaders'[c] = uploaders[c]
        /\ HasRow(d) => u \in uploaders'[d] \/ d \in failed'
    <2>1. CASE LinkTo(d, u) /\ UNCHANGED failed
      BY <1>0, <1>1, <2>1 DEF TypeOK, LinkTo
    <2>2. CASE Miss(s, d) /\ UNCHANGED uploaders
      BY <1>0, <1>1, <2>2 DEF TypeOK, Miss
    <2> QED
      BY <2>1, <2>2 DEF Link
  <1>3. \A c \in Dances : Available(c) => Available(c)'
    BY <1>1 DEF Available
  <1>4. PICK q : Plain(q) /\ Apt(q)' /\ req' = [req EXCEPT ![s] = q]
    <2>1. CASE Done(s)
      BY <2>1, IdlePlain DEF Done
    <2>2. CASE Goto(s, "announce")
      <3>1. PICK q : Plain(q) /\ req' = [req EXCEPT ![s] = q] /\ q.pc = "announce"
        BY <1>0, <1>1, <2>2, RequestGoes
      <3>2. Apt(q)'
        BY <3>1 DEF Apt
      <3> QED
        BY <3>1, <3>2
    <2> QED
      BY <2>1, <2>2 DEF Link
  <1>5. SlotsOK'
    BY <1>0, <1>1, <1>2, <1>3, <1>4, SlotSet
  <1>6. TypeOK'
    BY <1>0, <1>1, <1>2, <1>5 DEF TypeOK, SlotsOK
  <1>7. DancesOK'
    BY <1>1, <1>2, <1>3 DEF IInv, DancesOK, HasRow, Listed
  <1>8. UploadsHaveUploader'
    <2> SUFFICES ASSUME NEW c \in Dances, HasRow(c), maker[c] # None,
                        ~(maker[c] \in uploaders'[c] \/ c \in failed')
                 PROVE  \E t \in Slots : /\ req'[t].pc = "link"
                                         /\ req'[t].dance = c
                                         /\ req'[t].user = maker[c]
      BY <1>1 DEF UploadsHaveUploader, HasRow
    <2>1. PICK t \in Slots : /\ req[t].pc = "link"
                            /\ req[t].dance = c
                            /\ req[t].user = maker[c]
      BY <1>2 DEF IInv, UploadsHaveUploader
    <2>2. t # s
      BY <1>2, <2>1
    <2>3. req'[t] = req[t]
      BY <1>0, <1>4, <2>2 DEF TypeOK
    <2> QED
      BY <2>1, <2>3
  <1>9. LeftoversAreLate'
    BY <1>0, <1>1, <1>2, <1>4, LeftoversKept DEF IInv
  <1> QED
    BY <1>5, <1>6, <1>7, <1>8, <1>9 DEF IInv

\* A user who signs in claims a dance.
LEMMA ClaimStep ==
  ASSUME IInv, NEW d \in Dances, NEW u \in Users, Claim(d, u)
  PROVE  IInv'
  <1>0. TypeOK /\ SlotsOK
    BY DEF IInv
  <1>1. /\ HasRow(d)
        /\ uploaders' = [uploaders EXCEPT ![d] = @ \cup {u}]
        /\ UNCHANGED <<status, files, maker, ml, results, late, failed, notices, req>>
    BY DEF Claim, LinkTo
  <1>2. /\ uploaders' \in [Dances -> SUBSET Users]
        /\ \A c \in Dances : /\ uploaders[c] \subseteq uploaders'[c]
                             /\ ~HasRow(c) => uploaders'[c] = uploaders[c]
    BY <1>0, <1>1 DEF TypeOK
  <1>3. TypeOK'
    BY <1>0, <1>1, <1>2 DEF TypeOK
  <1>4. SlotsOK'
    <2>1. ASSUME NEW s \in Slots
          PROVE  Plain(req[s]) /\ Apt(req[s])'
      BY <1>0, <1>1, <1>2 DEF SlotsOK, Plain, Apt, Available, Linked
    <2> QED
      BY <1>0, <1>1, <2>1 DEF SlotsOK, Plain
  <1>5. DancesOK'
    BY <1>1, <1>2 DEF IInv, DancesOK, HasRow, Listed, Available
  <1>6. UploadsHaveUploader'
    BY <1>1, <1>2 DEF IInv, UploadsHaveUploader, HasRow
  <1>7. LeftoversAreLate'
    BY <1>1 DEF IInv, LeftoversAreLate
  <1> QED
    BY <1>3, <1>4, <1>5, <1>6, <1>7 DEF IInv

\* ML finishes a task, perhaps of a dance that has been deleted meanwhile.
LEMMA MLFinishStep ==
  ASSUME IInv, NEW d \in Dances, NEW k \in Tasks, MLFinish(d, k)
  PROVE  IInv'
  <1>0. TypeOK /\ SlotsOK
    BY DEF IInv
  <1>1. PICK m \in {"done", "held", "failed"} :
          /\ ml' = [ml EXCEPT ![d][k] = m]
          /\ results' = IF m = "done" THEN results \cup {d} ELSE results
          /\ late' = IF m = "done" /\ status[d] = "deleted" THEN late \cup {d} ELSE late
    BY DEF MLFinish
  <1>2. UNCHANGED <<status, files, maker, uploaders, failed, notices, req>>
    BY DEF MLFinish
  <1>3. TypeOK'
    BY <1>0, <1>1, <1>2 DEF TypeOK
  <1>4. \A c \in Dances : Available(c) => Available(c)'
    BY <1>1, <1>2 DEF Available
  <1>5. SlotsOK'
    BY <1>0, <1>2, <1>4 DEF SlotsOK, Plain, Apt, Linked
  <1>6. \A c \in Dances, j \in Tasks : ml'[c][j] = "done" =>
          ml[c][j] = "done" \/ (d = c /\ c \in results')
    BY <1>0, <1>1 DEF TypeOK
  <1>7. DancesOK'
    BY <1>2, <1>4, <1>6 DEF IInv, DancesOK, Available
  <1>8. UploadsHaveUploader'
    BY <1>2 DEF IInv, UploadsHaveUploader, HasRow
  <1>9. LeftoversAreLate'
    BY <1>1, <1>2 DEF IInv, LeftoversAreLate
  <1> QED
    BY <1>3, <1>5, <1>7, <1>8, <1>9 DEF IInv

\* An uploader deletes the dance; its results are still to be purged.
LEMMA OwnerDeleteStep ==
  ASSUME IInv, NEW s \in Slots, OwnerDelete(s)
  PROVE  IInv'
  <1> DEFINE d == req[s].dance
  <1>0. TypeOK /\ SlotsOK /\ Plain(req[s]) /\ Apt(req[s])
    BY DEF IInv, SlotsOK
  <1>1. /\ req[s].pc = "own" /\ d \in Dances /\ status[d] # "none"
        /\ uploaders' = [uploaders EXCEPT ![d] = {}]
        /\ notices' = {n \in notices : n.dance # d}
        /\ Goto(s, "purge")
        /\ UNCHANGED <<files, maker, ml, results, late, failed>>
    BY <1>0 DEF OwnerDelete, Plain, Apt
  <1>2. status' = [status EXCEPT ![d] = "deleted"]
    BY <1>0, <1>1 DEF OwnerDelete, SetStatus, TypeOK
  <1>3. \A c \in Dances : /\ status[c] # "none" => status'[c] # "none"
                          /\ status[c] = "deleted" => status'[c] = "deleted"
                          /\ Available(c) => Available(c)'
                          /\ c # d => status'[c] = status[c] /\ uploaders'[c] = uploaders[c]
    BY <1>0, <1>1, <1>2 DEF Available, TypeOK
  <1>4. PICK q : /\ Plain(q) /\ req' = [req EXCEPT ![s] = q]
                 /\ q.pc = "purge" /\ q.dance = d
    BY <1>0, <1>1, RequestGoes
  <1>5. status'[d] = "deleted" /\ uploaders'[d] = {}
    BY <1>0, <1>1, <1>2 DEF TypeOK
  <1>6. Apt(q)'
    BY <1>4, <1>5 DEF Apt
  <1>7. SlotsOK'
    BY <1>0, <1>1, <1>3, <1>4, <1>5, <1>6, SlotSet
  <1>8. TypeOK'
    BY <1>0, <1>1, <1>2, <1>7 DEF TypeOK, SlotsOK
  <1>9. DancesOK'
    BY <1>1, <1>3, <1>5 DEF IInv, DancesOK
  <1>10. UploadsHaveUploader'
    <2>1. \A c \in Dances : HasRow(c)' => HasRow(c) /\ uploaders'[c] = uploaders[c]
      BY <1>3, <1>5 DEF HasRow, Listed
    <2> QED
      BY <1>0, <1>1, <1>4, <2>1, LinksKept DEF IInv
  <1>11. LeftoversAreLate'
    <2> SUFFICES ASSUME NEW c \in Dances, status'[c] = "deleted", c \in results,
                        ~(c \in late \/ c \in failed)
                 PROVE  \E t \in Slots : req'[t].pc = "purge" /\ req'[t].dance = c
      BY <1>1 DEF LeftoversAreLate
    <2>1. req'[s] = q /\ \A t \in Slots : t # s => req'[t] = req[t]
      BY <1>0, <1>4 DEF TypeOK
    <2>2. CASE c = d
      BY <1>4, <2>1, <2>2
    <2>3. CASE c # d
      <3>1. PICK t \in Slots : req[t].pc = "purge" /\ req[t].dance = c
        BY <1>3, <2>3 DEF IInv, LeftoversAreLate
      <3> QED
        BY <1>1, <2>1, <3>1
    <2> QED
      BY <2>2, <2>3
  <1> QED
    BY <1>7, <1>8, <1>9, <1>10, <1>11 DEF IInv

\* The results are purged, the purge fails, or any request dies.
LEMMA PurgeAndFailSteps ==
  ASSUME IInv, NEW s \in Slots, Purge(s) \/ Fail(s)
  PROVE  IInv'
  <1> DEFINE d == req[s].dance
  <1>0. TypeOK /\ SlotsOK /\ Plain(req[s]) /\ Apt(req[s])
    BY DEF IInv, SlotsOK
  <1>1. /\ d \in Dances /\ Done(s)
        /\ UNCHANGED <<status, files, maker, uploaders, ml, late, notices>>
    BY <1>0 DEF Purge, Fail, Plain
  <1>2. /\ results' \subseteq results /\ failed' \in SUBSET Dances
        /\ failed \subseteq failed'
        /\ \/ req[s].pc = "purge" /\ results' = results \ {d}
           \/ results' = results /\ d \in failed'
    BY <1>0, <1>1 DEF Purge, Fail, Purged, Miss, TypeOK
  <1>3. req[s].pc = "purge" => status[d] = "deleted"
    BY <1>0 DEF Apt
  <1>4. \A c \in Dances : Available(c) => Available(c)'
    BY <1>1, <1>2, <1>3 DEF Available
  <1>5. SlotsOK'
    BY <1>0, <1>1, <1>4, IdlePlain, SlotSet DEF Done
  <1>6. TypeOK'
    BY <1>0, <1>1, <1>2, <1>5 DEF TypeOK, SlotsOK
  <1>7. DancesOK'
    BY <1>1, <1>4 DEF IInv, DancesOK
  <1>8. UploadsHaveUploader'
    <2> SUFFICES ASSUME NEW c \in Dances, HasRow(c), maker[c] # None,
                        ~(maker[c] \in uploaders[c] \/ c \in failed')
                 PROVE  \E t \in Slots : /\ req'[t].pc = "link"
                                         /\ req'[t].dance = c
                                         /\ req'[t].user = maker[c]
      BY <1>1 DEF UploadsHaveUploader, HasRow
    <2>1. PICK t \in Slots : /\ req[t].pc = "link"
                            /\ req[t].dance = c
                            /\ req[t].user = maker[c]
      BY <1>2 DEF IInv, UploadsHaveUploader
    <2>2. t # s
      BY <1>2, <2>1
    <2>3. req'[t] = req[t]
      BY <1>0, <1>1, <2>2 DEF TypeOK, Done
    <2> QED
      BY <2>1, <2>3
  <1>9. LeftoversAreLate'
    <2> SUFFICES ASSUME NEW c \in Dances, status[c] = "deleted", c \in results',
                        ~(c \in late \/ c \in failed')
                 PROVE  \E t \in Slots : req'[t].pc = "purge" /\ req'[t].dance = c
      BY <1>1 DEF LeftoversAreLate
    <2>1. PICK t \in Slots : req[t].pc = "purge" /\ req[t].dance = c
      BY <1>2 DEF IInv, LeftoversAreLate
    <2>2. t # s
      BY <1>2, <2>1
    <2>3. req'[t] = req[t]
      BY <1>0, <1>1, <2>2 DEF TypeOK, Done
    <2> QED
      BY <2>1, <2>3
  <1> QED
    BY <1>5, <1>6, <1>7, <1>8, <1>9 DEF IInv

\* Every step keeps the invariant.
LEMMA Inductive == IInv /\ [Next]_vars => IInv'
  <1> SUFFICES ASSUME IInv, [Next]_vars
               PROVE  IInv'
    OBVIOUS
  <1>1. ASSUME NEW s \in Slots,
               \/ Upload(s) \/ Moderate(s) \/ Enqueue(s) \/ Create(s) \/ Link(s)
               \/ PollRead(s) \/ PollSettle(s) \/ PollHold(s) \/ PollAnnounce(s)
        PROVE  IInv'
    BY <1>1, UploadStep, CreateStep, LinkStep, UploadQuietSteps
  <1>2. ASSUME NEW s \in Slots,
               \/ DecideRead(s) \/ DecideWrite(s) \/ DecidePath(s) \/ Requeue(s) \/ Wait(s)
               \/ Tell(s) \/ Insert(s)
        PROVE  IInv'
    BY <1>2, DecisionQuietSteps, NoticeAndOwnerQuietSteps
  <1>3. ASSUME NEW s \in Slots,
               OwnerRead(s) \/ OwnerSet(s) \/ OwnerDelete(s) \/ Purge(s) \/ Fail(s)
        PROVE  IInv'
    BY <1>3, OwnerDeleteStep, PurgeAndFailSteps, NoticeAndOwnerQuietSteps
  <1>4. ASSUME NEW d \in Dances, NEW u \in Users, Claim(d, u)
        PROVE  IInv'
    BY <1>4, ClaimStep
  <1>5. ASSUME NEW d \in Dances, NEW k \in Tasks, MLFinish(d, k)
        PROVE  IInv'
    BY <1>5, MLFinishStep
  <1>6. CASE UNCHANGED vars
    BY <1>6 DEF vars, IInv, TypeOK, SlotsOK, Plain, Apt, Available, Linked, DancesOK,
                HasRow, UploadsHaveUploader, LeftoversAreLate
  <1> QED
    BY <1>1, <1>2, <1>3, <1>4, <1>5, <1>6 DEF Next

-----------------------------------------------------------------------------
(* The theorems. *)

\* The invariant holds in every reachable state.
THEOREM Invariance == Spec => []IInv
  <1>1. Init => IInv
    BY Initially
  <1>2. IInv /\ [Next]_vars => IInv'
    BY Inductive
  <1> QED
    BY <1>1, <1>2, PTL DEF Spec

\* Every variable keeps its type.
THEOREM TypeCorrect == Spec => []TypeOK
  <1>1. IInv => TypeOK
    BY DEF IInv
  <1> QED
    BY <1>1, Invariance, PTL

\* UploadDance and FinalizeUploadTask link what an account uploads to that account,
\* unless a call fails.
THEOREM UploadersCorrect == Spec => []UploadsHaveUploader
  <1>1. IInv => UploadsHaveUploader
    BY DEF IInv
  <1> QED
    BY <1>1, Invariance, PTL

\* DeleteDance leaves no results but those that ML stores afterwards, unless a call fails.
THEOREM LeftoversCorrect == Spec => []LeftoversAreLate
  <1>1. IInv => LeftoversAreLate
    BY DEF IInv
  <1> QED
    BY <1>1, Invariance, PTL

\* One step of an action that withdraws a published dance.
LEMMA WithdrawStep ==
  ASSUME IInv, [Next]_vars, NEW d \in Dances, status[d] = "published",
         status'[d] # "published"
  PROVE  \E s \in Slots :
           /\ req[s].dance = d /\ req'[s] # req[s]
           /\ \/ req[s].op = "rejected"
              \/ req[s].op \in {"unpublish", "delete"} /\ req[s].user \in uploaders[d]
              \/ req[s].op = "poll" /\ req[s].status # "published"
  <1>0. TypeOK /\ \A s \in Slots : Plain(req[s]) /\ Apt(req[s])
    BY DEF IInv, SlotsOK
  <1>1. PICK s \in Slots : \/ Create(s) \/ PollSettle(s) \/ PollHold(s) \/ DecideWrite(s)
                            \/ OwnerSet(s) \/ OwnerDelete(s)
    BY DEF Next, vars, Upload, Moderate, Enqueue, Link, Claim, MLFinish, PollRead,
           PollAnnounce, DecideRead, DecidePath, Requeue, Wait, Tell, Insert, OwnerRead,
           Purge, Fail
  <1>2. req' \in [Slots -> Request] /\ (Done(s) => req'[s].pc = "idle")
    BY Inductive, <1>0 DEF IInv, TypeOK, Done, Idle, NewRequest
  <1>3. \A pc : Goto(s, pc) => req'[s].pc = pc
    BY <1>0 DEF TypeOK, Goto, Request
  <1>4. CASE Create(s)
    BY <1>0, <1>4 DEF Create, TypeOK
  <1>5. CASE PollSettle(s)
    <2>1. req[s].pc = "settle" /\ req'[s].pc # "settle"
      BY <1>2, <1>3, <1>5 DEF PollSettle
    <2>2. req[s].dance = d
      BY <1>0, <1>5 DEF PollSettle, SetStatus, TypeOK
    <2> QED
      BY <1>0, <2>1, <2>2 DEF Plain
  <1>9. CASE PollHold(s)
    <2>1. req[s].pc = "hold" /\ req'[s].pc # "hold"
      BY <1>2, <1>9 DEF PollHold
    <2>2. req[s].dance = d
      BY <1>0, <1>9 DEF PollHold, SetStatus, TypeOK
    <2> QED
      BY <1>0, <2>1, <2>2 DEF Plain
  <1>6. CASE DecideWrite(s)
    <2>1. req[s].pc = "decide" /\ req'[s].pc # "decide"
      BY <1>2, <1>3, <1>6 DEF DecideWrite
    <2>2. req[s].dance = d /\ req[s].op # "approved"
      BY <1>0, <1>6 DEF DecideWrite, SetStatus, TypeOK
    <2> QED
      BY <1>0, <2>1, <2>2 DEF Plain
  <1>7. CASE OwnerSet(s)
    <2>1. req[s].pc = "own" /\ req'[s].pc # "own"
      BY <1>2, <1>3, <1>7 DEF OwnerSet
    <2>2. req[s].dance = d /\ req[s].op # "publish"
      BY <1>0, <1>7 DEF OwnerSet, SetStatus, TypeOK
    <2>3. req[s].op = "unpublish" /\ req[s].user \in uploaders[d]
      BY <1>0, <1>7, <2>1, <2>2 DEF OwnerSet, Plain, Apt, Linked
    <2> QED
      BY <2>1, <2>2, <2>3
  <1>8. CASE OwnerDelete(s)
    <2>1. req[s].pc = "own" /\ req'[s].pc # "own" /\ req[s].op = "delete"
      BY <1>2, <1>3, <1>8 DEF OwnerDelete
    <2>2. req[s].dance = d
      BY <1>0, <1>8 DEF OwnerDelete, SetStatus, TypeOK
    <2>3. req[s].user \in uploaders[d]
      BY <1>0, <2>1, <2>2 DEF Apt, Linked
    <2> QED
      BY <2>1, <2>2, <2>3
  <1> QED
    BY <1>1, <1>4, <1>5, <1>6, <1>7, <1>8, <1>9

\* A published dance is withdrawn by a moderator, by an account that is linked to it as
\* an uploader at that moment (whoever claimed or polled it is), or by a poll that read
\* its status before it was published: the UPDATEs of the dance use case do not look at
\* the status they replace.
THEOREM PublicationCorrect == Spec => PublicationKept
  <1>1. IInv /\ [Next]_vars =>
          [\A d \in Dances : status[d] = "published" /\ status'[d] # "published" =>
             \E s \in Slots :
               /\ req[s].dance = d /\ req'[s] # req[s]
               /\ \/ req[s].op = "rejected"
                  \/ req[s].op \in {"unpublish", "delete"} /\ req[s].user \in uploaders[d]
                  \/ req[s].op = "poll" /\ req[s].status # "published"]_vars
    BY WithdrawStep
  <1> QED
    BY <1>1, Invariance, PTL DEF Spec, PublicationKept

\* One step of an action that stores a notice of approval.
LEMMA NoticeStep ==
  ASSUME IInv, [Next]_vars, NEW n \in notices' \ notices, n.kind = "dance_approved"
  PROVE  n.dance \in results \/ status[n.dance] = "deleted"
  <1>1. PICK s \in Slots : Insert(s)
    BY DEF Next, vars, Upload, Moderate, Enqueue, Create, Link, Claim, MLFinish, PollRead,
           PollSettle, PollHold, PollAnnounce, DecideRead, DecideWrite, DecidePath, Requeue,
           Wait, Tell, OwnerRead, OwnerSet, OwnerDelete, Purge, Fail
  <1>2. PICK u \in req[s].to : n = NoticeOf(req[s], u)
    BY <1>1 DEF Insert
  <1>3. n.dance = req[s].dance /\ req[s].op # "rejected" /\ req[s].pc = "insert"
    BY <1>1, <1>2 DEF Insert, NoticeOf
  <1> QED
    BY <1>3 DEF IInv, SlotsOK, Plain, Apt, Available

\* Uploaders are told of an approval when there is something to watch.
THEOREM ApprovalCorrect == Spec => ApprovedToldWhenWatchable
  <1>1. IInv /\ [Next]_vars =>
          [\A n \in notices' \ notices : n.kind = "dance_approved" =>
             n.dance \in results \/ status[n.dance] = "deleted"]_vars
    BY NoticeStep
  <1> QED
    BY <1>1, Invariance, PTL DEF Spec, ApprovedToldWhenWatchable

-----------------------------------------------------------------------------
(* The catalogue that the duels are built over. *)

\* A step that gives one dance another status changes what is seen of that dance only.
LEMMA SeenStep ==
  ASSUME IInv, NEW d \in Dances, NEW new \in Listed \cup {"deleted"},
         HasRow(d), status' = [status EXCEPT ![d] = new]
  PROVE  [Catalog!Next]_seen
  <1>1. /\ status \in [Dances -> Statuses] /\ status[d] \in Listed
        /\ seen' = [seen EXCEPT ![d] = Seen(new)]
    BY DEF IInv, TypeOK, Statuses, HasRow, seen
  <1>2. seen[d] = Seen(status[d]) /\ seen[d] \in {"published", "private"}
    BY <1>1 DEF Seen, Listed, seen
  <1>3. CASE new = "deleted"
    <2>1. Catalog!Delete(d)
      BY <1>1, <1>2, <1>3 DEF Catalog!Delete, Seen
    <2> QED
      BY <2>1 DEF Catalog!Next
  <1>4. CASE new # "deleted" /\ Seen(new) = seen[d]
    BY <1>1, <1>4 DEF seen
  <1>5. CASE new # "deleted" /\ Seen(new) # seen[d]
    <2>1. Seen(new) = IF seen[d] = "published" THEN "private" ELSE "published"
      BY <1>2, <1>5 DEF Seen, Listed
    <2>2. Catalog!SetStatus(d)
      BY <1>1, <1>2, <2>1 DEF Catalog!SetStatus
    <2> QED
      BY <2>2 DEF Catalog!Next
  <1> QED
    BY <1>3, <1>4, <1>5

\* Whatever writes the status, the catalogue that is seen takes a step of its own or none.
LEMMA CatalogueStep ==
  ASSUME IInv, [Next]_vars
  PROVE  [Catalog!Next]_seen
  <1>0. status \in [Dances -> Statuses] /\ \A s \in Slots : Plain(req[s])
    BY DEF IInv, TypeOK, SlotsOK, Statuses
  <1>1. ASSUME NEW d, NEW new \in Listed \cup {"deleted"}, SetStatus(d, new), d \in Dances
        PROVE  [Catalog!Next]_seen
    <2>1. CASE HasRow(d)
      <3>1. status' = [status EXCEPT ![d] = new]
        BY <1>0, <1>1, <2>1 DEF SetStatus, HasRow
      <3> QED
        BY <1>1, <2>1, <3>1, SeenStep
    <2>2. CASE ~HasRow(d)
      <3>1. UNCHANGED status
        BY <1>0, <1>1, <2>2 DEF SetStatus, HasRow
      <3> QED
        BY <3>1 DEF seen
    <2> QED
      BY <2>1, <2>2
  <1>2. CASE UNCHANGED status
    BY <1>2 DEF seen
  <1>3. ASSUME NEW s \in Slots, Create(s)
        PROVE  [Catalog!Next]_seen
    <2>1. req[s].status \in {"pending", "processing"} /\ req[s].dance \in Dances
      BY <1>0, <1>3 DEF Create, Plain
    <2>2. \A c \in Dances : Seen(status'[c]) = Seen(status[c])
      BY <1>0, <1>3, <2>1 DEF Create, Miss, Seen, Statuses
    <2> QED
      BY <2>2 DEF seen
  <1>4. ASSUME NEW s \in Slots,
               \/ PollSettle(s) \/ PollHold(s)
               \/ DecideWrite(s) \/ OwnerSet(s) \/ OwnerDelete(s)
        PROVE  [Catalog!Next]_seen
    <2>1. req[s].dance \in Dances
      BY <1>0, <1>4 DEF PollSettle, PollHold, DecideWrite, OwnerSet, OwnerDelete, Plain
    <2> QED
      BY <1>1, <1>4, <2>1 DEF PollSettle, PollHold, DecideWrite, OwnerSet, OwnerDelete, Listed
  <1> QED
    BY <1>2, <1>3, <1>4
    DEF Next, vars, Upload, Moderate, Enqueue, Link, Claim, MLFinish, PollRead,
        PollAnnounce, DecideRead, DecidePath, Requeue, Wait, Tell, Insert, OwnerRead,
        Purge, Fail

\* Uploads implements Catalogue: whichever of the unguarded UPDATEs of PublishDance,
\* UnpublishDance, UpdateDanceStatus and FinalizeUploadTask come in whatever order, a
\* dance that is deleted is never seen again, and no step touches two dances.
THEOREM CatalogueImplemented == Spec => Catalog!Spec
  <1>1. Init => Catalog!Init
    BY DEF Init, Catalog!Init, Seen, seen
  <1>2. IInv /\ [Next]_vars => [Catalog!Next]_seen
    BY CatalogueStep
  <1> QED
    BY <1>1, <1>2, Invariance, PTL DEF Spec, Catalog!Spec
=============================================================================
