----------------------------- MODULE DuelProofs -----------------------------
(***************************************************************************)
(* Proofs about Duel for every number of users, duels, requests, replicas  *)
(* and attempts: the inductive invariant IInv, the safety properties it    *)
(* implies, the refinement of DuelLifecycle, and that every duel ends.     *)
(***************************************************************************)
EXTENDS Duel, FiniteSetTheorems, TLAPS

(***************************************************************************)
(* The invariant.  What a row guarantees is kept apart from the row, as    *)
(* requests carry copies of rows: the decisive fact is that a copy, however*)
(* old, still satisfies RowOK and shows the players the row has now.       *)
(***************************************************************************)

PlayersOK(row) == row.status # "none" =>
  /\ row.player \in [Sides -> Users]
  /\ row.player["challenger"] # row.player["opponent"]

\* A player marked as done has a score.
DoneOK(row) == \A s \in Sides : row.status = DoneStatus(s) => row.score[s] # None

ResultOK(row) == row.status = "completed" =>
  /\ \A s \in Sides : row.score[s] # None
  /\ \E s \in Sides : /\ row.winner = row.player[s]
                      /\ row.score[Other(s)] <= row.score[s]

SourceOK(row) == \A s \in Sides :
  /\ row.score[s] # None => \E a \in Attempts : /\ AttemptOwner[a] = row.player[s]
                                                /\ AttemptScore[a] = row.score[s]
  /\ row.attempt[s] # None => /\ AttemptOwner[row.attempt[s]] = row.player[s]
                              /\ row.score[s] = AttemptScore[row.attempt[s]]

PublicOK(row) == row.isPublic => /\ row.status = "completed"
                                 /\ \A s \in Sides : row.consent[s]

RowOK(row) == /\ PlayersOK(row)
              /\ DoneOK(row)
              /\ ResultOK(row)
              /\ SourceOK(row)
              /\ PublicOK(row)

\* A request between its read and the end of its handler.
UnderWay == {"save", "write", "notify"}

SubmitOK(q, rows, acc) ==
  /\ q.attempt \in Attempts
  /\ q.user \in Users
  /\ q.pc \in UnderWay =>
       /\ AttemptOwner[q.attempt] = q.user
       /\ IsPlayer(q.snap, q.user)
       /\ q.snap.status \in PlayStatuses
       /\ q.duel \in acc
       /\ rows[q.duel].player = q.snap.player

RequestOK(q, rows, acc) ==
  /\ RowOK(q.snap)
  /\ q.op = "submit" => SubmitOK(q, rows, acc)
  /\ q.pc \in {"next", "save"} \/ q.rest # {} => q.op = "submit"
  /\ q.pc = "insert" => /\ q.op = "create"
                        /\ q.snap.status = "pending"
                        /\ q.snap.score = BothNone
  /\ q.pc \in UnderWay => q.op # "none" /\ q.duel \in Duels /\ q.snap.status # "none"

AcceptedOK(row, was) ==
  /\ \/ \E s \in Sides : row.score[s] # None
     \/ row.status \in PlayStatuses \cup {"completed"}
     => was
  /\ was => row.status \notin {"none", "pending"}

IInv == /\ TypeOK
        /\ \A d \in Duels : RowOK(duels[d])
        /\ \A d \in Duels : AcceptedOK(duels[d], d \in accepted)
        /\ \A r \in Requests : RequestOK(req[r], duels, accepted)
        /\ \A p \in Replicas : \A d \in job[p] : duels[d].status # "none"

-----------------------------------------------------------------------------
(* The operators behind the two writes. *)

\* What one UPDATE of a duel may store.
Change == [status : {"active", "declined", "challenger_done", "opponent_done", "completed"},
           attempt : [Sides -> Attempts \cup {None}],
           score : [Sides -> Nat \cup {None}],
           winner : Users \cup {None}]

\* The side a user is looked up on is one of the two, and is the player's own.
LEMMA SideOfPlayer ==
  ASSUME NEW row, NEW u
  PROVE  /\ SideOf(row, u) \in Sides
         /\ IsPlayer(row, u) => row.player[SideOf(row, u)] = u
  BY DEF SideOf, IsPlayer, Sides

\* The other side is the only other one.
LEMMA OtherSide ==
  ASSUME NEW s \in Sides
  PROVE  /\ Other(s) \in Sides /\ Other(s) # s /\ Other(Other(s)) = s
         /\ \A t \in Sides : t = s \/ t = Other(s)
  BY DEF Sides, Other

\* An UPDATE writes a row, and column by column what its parameters say.
LEMMA UpdatedRow ==
  ASSUME NEW row \in Row, NEW new \in Change, NEW side \in Sides \cup {None},
         NEW c \in BOOLEAN
  PROVE  LET up == Updated(row, new, side, c) IN
         /\ up \in Row
         /\ up.status = new.status /\ up.attempt = new.attempt /\ up.score = new.score
         /\ up.winner = new.winner /\ up.player = row.player
         /\ new.status = "completed" => (up.isPublic => \A s \in Sides : up.consent[s])
         /\ new.status # "completed" => up.isPublic = row.isPublic
<1> DEFINE agreed == IF side = None THEN row.consent
                                   ELSE [row.consent EXCEPT ![side] = c]
           pub    == IF new.status = "completed" THEN \A s \in Sides : agreed[s]
                                                  ELSE row.isPublic
           up     == Updated(row, new, side, c)
<1>1. agreed \in [Sides -> BOOLEAN]
  BY DEF Row
<1>2. pub \in BOOLEAN
  BY DEF Row
<1>3. up = [row EXCEPT !.status = new.status, !.attempt = new.attempt,
                       !.score = new.score, !.winner = new.winner,
                       !.consent = agreed, !.isPublic = pub]
  BY Zenon DEF Updated
<1>4. /\ new.status = "completed" => (pub <=> \A s \in Sides : agreed[s])
      /\ new.status # "completed" => pub = row.isPublic
  OBVIOUS
<1> HIDE DEF agreed, pub, up
<1>5. up \in Row
  BY <1>1, <1>2, <1>3 DEF Row, Change, OpenStatuses, Terminal
<1>6. /\ up.status = new.status /\ up.attempt = new.attempt /\ up.score = new.score
      /\ up.winner = new.winner /\ up.player = row.player
      /\ up.consent = agreed /\ up.isPublic = pub
  BY <1>3 DEF Row
<1> QED
  BY <1>4, <1>5, <1>6 DEF up

\* An answer is such a change.
LEMMA AnswerChange ==
  ASSUME NEW st \in {"active", "declined"}
  PROVE  Answer(st) \in Change
  BY DEF Answer, Change, BothNone, Sides

\* A submission to a duel in play is one too, and names what it stores.
LEMMA SubmissionChange ==
  ASSUME NEW snap \in Row, NEW side \in Sides, NEW a \in Attempts
  PROVE  LET new  == Submission(snap, side, a)
             both == snap.status = DoneStatus(Other(side))
         IN  /\ new \in Change
             /\ new.status = IF both THEN "completed" ELSE DoneStatus(side)
             /\ new.attempt[side] = a /\ new.score[side] = AttemptScore[a]
             /\ new.attempt[Other(side)] = IF both THEN snap.attempt[Other(side)] ELSE None
             /\ new.score[Other(side)] = IF both THEN snap.score[Other(side)] ELSE None
             /\ both => new.winner =
                  IF snap.score[Other(side)] # None
                     /\ snap.score[Other(side)] > AttemptScore[a]
                    THEN snap.player[Other(side)] ELSE snap.player[side]
  BY OtherSide, DuelAssumption DEF Submission, Change, Row, DoneStatus, Sides

\* The foreign-key action keeps the row a row and touches nothing but attempts.
LEMMA ForgetRow ==
  ASSUME NEW row \in Row, NEW gone
  PROVE  LET f == Forget(row, gone) IN
         /\ f \in Row
         /\ f = [row EXCEPT !.attempt = f.attempt]
         /\ \A s \in Sides : f.attempt[s] = row.attempt[s] \/ f.attempt[s] = None
<1> DEFINE left == [s \in Sides |-> IF row.attempt[s] \in gone THEN None ELSE row.attempt[s]]
           f    == Forget(row, gone)
<1>1. f = [row EXCEPT !.attempt = left]
  BY Zenon DEF Forget
<1>2. /\ left \in [Sides -> Attempts \cup {None}]
      /\ \A s \in Sides : left[s] = row.attempt[s] \/ left[s] = None
  BY DEF Row
<1> HIDE DEF left, f
<1>3. f \in Row /\ f.attempt = left
  BY <1>1, <1>2 DEF Row
<1> QED
  BY <1>1, <1>2, <1>3 DEF f

-----------------------------------------------------------------------------
(* What the writes preserve of a row. *)

\* A change that neither touches the result columns nor adds an attempt.
SameColumns(new, row) ==
  /\ new.status = row.status /\ new.player = row.player /\ new.score = row.score
  /\ new.winner = row.winner /\ new.consent = row.consent
  /\ new.isPublic = row.isPublic
  /\ \A s \in Sides : new.attempt[s] = row.attempt[s] \/ new.attempt[s] = None

\* It preserves what a row guarantees.
LEMMA SameResult ==
  ASSUME NEW row \in Row, NEW new \in Row, SameColumns(new, row)
  PROVE  /\ RowOK(row) => RowOK(new)
         /\ \A w : AcceptedOK(row, w) => AcceptedOK(new, w)
<1>1. RowOK(row) => RowOK(new)
  BY DEF SameColumns, RowOK, PlayersOK, DoneOK, ResultOK, SourceOK, PublicOK
<1>2. \A w : AcceptedOK(row, w) => AcceptedOK(new, w)
  BY DEF SameColumns, AcceptedOK
<1> QED
  BY <1>1, <1>2

\* Expiring an open duel.
LEMMA ExpiredRow ==
  ASSUME NEW row \in Row, RowOK(row), row.status \in OpenStatuses
  PROVE  LET new == [row EXCEPT !.status = "expired"] IN
         /\ new \in Row /\ new.status = "expired" /\ new.player = row.player
         /\ new.score = row.score
         /\ RowOK(new)
         /\ \A w : AcceptedOK(row, w) => AcceptedOK(new, w)
<1> DEFINE new == [row EXCEPT !.status = "expired"]
<1>1. /\ new \in Row /\ new.status = "expired" /\ new.player = row.player
      /\ new.score = row.score /\ new.attempt = row.attempt
      /\ new.isPublic = row.isPublic /\ new.consent = row.consent
  BY DEF Row, Terminal
<1> HIDE DEF new
<1>2. RowOK(new)
  BY <1>1 DEF RowOK, PlayersOK, DoneOK, ResultOK, SourceOK, PublicOK, OpenStatuses, DoneStatus
<1>3. \A w : AcceptedOK(row, w) => AcceptedOK(new, w)
  BY <1>1 DEF AcceptedOK, PlayStatuses
<1> QED
  BY <1>1, <1>2, <1>3 DEF new

\* Accepting or declining a pending duel.
LEMMA AnsweredRow ==
  ASSUME NEW row \in Row, RowOK(row), Updatable(row, None), NEW st \in {"active", "declined"}
  PROVE  LET new == Updated(row, Answer(st), None, FALSE) IN
         /\ new \in Row /\ new.status = st /\ new.player = row.player
         /\ new.score = BothNone
         /\ RowOK(new)
<1> DEFINE ans == Answer(st)
           new == Updated(row, ans, None, FALSE)
<1>1. /\ ans \in Change
      /\ ans.status = st /\ ans.score = BothNone /\ ans.attempt = BothNone
  BY AnswerChange DEF Answer
<1> HIDE DEF ans
<1>2. /\ new \in Row /\ new.status = st /\ new.player = row.player
      /\ new.score = BothNone /\ new.attempt = BothNone /\ new.isPublic = row.isPublic
  <2> SUFFICES \A c \in BOOLEAN :
         LET up == Updated(row, ans, None, c) IN
         /\ up \in Row /\ up.status = st /\ up.player = row.player
         /\ up.score = BothNone /\ up.attempt = BothNone /\ up.isPublic = row.isPublic
    BY Zenon DEF new
  <2> QED
    BY <1>1, UpdatedRow
<1>3. row.status = "pending" /\ ~row.isPublic
  BY DEF Updatable, RowOK, PublicOK
<1> HIDE DEF new
<1>4. RowOK(new)
  BY <1>2, <1>3
  DEF RowOK, PlayersOK, DoneOK, ResultOK, SourceOK, PublicOK, DoneStatus, BothNone
<1> QED
  BY <1>2, <1>4 DEF new, ans

\* Submitting: the row read earlier, the row found now and the row written.
LEMMA SubmittedRow ==
  ASSUME NEW row \in Row, RowOK(row), NEW snap \in Row, RowOK(snap),
         snap.status \in PlayStatuses, snap.player = row.player,
         NEW side \in Sides, NEW a \in Attempts, AttemptOwner[a] = snap.player[side],
         Updatable(row, side), NEW c \in BOOLEAN
  PROVE  LET new == Updated(row, Submission(snap, side, a), side, c) IN
         /\ new \in Row /\ new.player = row.player
         /\ new.status = Submission(snap, side, a).status
         /\ new.status \in PlayStatuses \cup {"completed"}
         /\ RowOK(new)
<1> DEFINE sub == Submission(snap, side, a)
           new == Updated(row, sub, side, c)
           both == snap.status = DoneStatus(Other(side))
<1>1. /\ sub \in Change
      /\ sub.status = IF both THEN "completed" ELSE DoneStatus(side)
      /\ sub.attempt[side] = a /\ sub.score[side] = AttemptScore[a]
      /\ sub.attempt[Other(side)] = IF both THEN snap.attempt[Other(side)] ELSE None
      /\ sub.score[Other(side)] = IF both THEN snap.score[Other(side)] ELSE None
      /\ both => sub.winner =
           IF snap.score[Other(side)] # None /\ snap.score[Other(side)] > AttemptScore[a]
             THEN snap.player[Other(side)] ELSE snap.player[side]
  BY SubmissionChange
<1>2. /\ new \in Row
      /\ new.status = sub.status /\ new.attempt = sub.attempt /\ new.score = sub.score
      /\ new.winner = sub.winner /\ new.player = row.player
      /\ sub.status = "completed" => (new.isPublic => \A s \in Sides : new.consent[s])
      /\ sub.status # "completed" => new.isPublic = row.isPublic
  BY <1>1, UpdatedRow
<1>3. /\ row.status \in OpenStatuses
      /\ ~row.isPublic
  BY DEF Updatable, RowOK, PublicOK, OpenStatuses
<1>4. /\ Other(side) \in Sides /\ Other(side) # side /\ Other(Other(side)) = side
      /\ \A t \in Sides : t = side \/ t = Other(side)
  BY OtherSide
<1>5. AttemptScore[a] \in Nat /\ AttemptScore[a] # None
  BY DuelAssumption
<1>6. both => snap.score[Other(side)] # None /\ snap.score[Other(side)] \in Nat
  BY <1>4 DEF RowOK, DoneOK, Row
<1>7. PlayersOK(row) /\ SourceOK(snap)
  BY DEF RowOK
<1>8. new.status \in PlayStatuses \cup {"completed"}
  BY <1>1, <1>2 DEF PlayStatuses, DoneStatus
<1> HIDE DEF sub, new, both
<1>9. PlayersOK(new)
  BY <1>2, <1>3, <1>7 DEF PlayersOK, OpenStatuses
<1>10. DoneOK(new)
  <2>1. new.status = DoneStatus(Other(side)) => FALSE
    BY <1>1, <1>2, <1>4 DEF DoneStatus, Sides, Other
  <2> QED
    BY <2>1, <1>1, <1>2, <1>4, <1>5 DEF DoneOK
<1>11. ResultOK(new)
  <2> SUFFICES ASSUME new.status = "completed" PROVE ResultOK(new)
    BY DEF ResultOK
  <2>1. both
    BY <1>1, <1>2 DEF DoneStatus
  <2>2. /\ new.score[side] = AttemptScore[a]
        /\ new.score[Other(side)] = snap.score[Other(side)]
    BY <2>1, <1>1, <1>2
  <2>3. \A s \in Sides : new.score[s] # None
    BY <2>1, <2>2, <1>4, <1>5, <1>6
  <2>4. CASE snap.score[Other(side)] > AttemptScore[a]
    <3>1. new.winner = new.player[Other(side)]
      BY <2>1, <2>4, <1>1, <1>2, <1>6
    <3>2. new.score[Other(Other(side))] <= new.score[Other(side)]
      BY <2>1, <2>2, <2>4, <1>4, <1>5, <1>6
    <3> QED
      BY <2>3, <3>1, <3>2, <1>4 DEF ResultOK
  <2>5. CASE ~(snap.score[Other(side)] > AttemptScore[a])
    <3>1. new.winner = new.player[side]
      BY <2>1, <2>5, <1>1, <1>2
    <3>2. new.score[Other(side)] <= new.score[side]
      BY <2>1, <2>2, <2>5, <1>5, <1>6
    <3> QED
      BY <2>3, <3>1, <3>2 DEF ResultOK
  <2> QED
    BY <2>4, <2>5
<1>12. SourceOK(new)
  <2>1. CASE both
    BY <2>1, <1>1, <1>2, <1>4, <1>5, <1>7 DEF SourceOK
  <2>2. CASE ~both
    BY <2>2, <1>1, <1>2, <1>4, <1>5 DEF SourceOK
  <2> QED
    BY <2>1, <2>2
<1>13. PublicOK(new)
  BY <1>2, <1>3 DEF PublicOK
<1> QED
  BY <1>2, <1>8, <1>9, <1>10, <1>11, <1>12, <1>13 DEF RowOK, new, sub

-----------------------------------------------------------------------------
(* What the steps of a request preserve of it. *)

\* The facts about a request survive what others do: they only ever accept more
\* duels, and the players of an accepted duel do not change.
LEMMA RequestMonotone ==
  ASSUME NEW q, NEW rows, NEW acc, NEW rows2, NEW acc2,
         RequestOK(q, rows, acc),
         acc \subseteq acc2,
         \A d \in acc : rows2[d].player = rows[d].player
  PROVE  RequestOK(q, rows2, acc2)
  BY DEF RequestOK, SubmitOK

\* A row no duel has yet guarantees everything.
LEMMA NoRowOK == NoRow \in Row /\ RowOK(NoRow)
<1>1. NoRow \in Row
  BY DEF NoRow, Row, BothNone, OpenStatuses, Terminal
<1>2. RowOK(NoRow)
  BY DEF NoRow, BothNone, RowOK, PlayersOK, DoneOK, ResultOK, SourceOK, PublicOK, DoneStatus
<1> QED
  BY <1>1, <1>2

\* An idle slot does too.
LEMMA IdleOK ==
  ASSUME NEW rows, NEW acc
  PROVE  Idle \in Request /\ RequestOK(Idle, rows, acc)
  BY NoRowOK DEF Idle, Request, RequestOK, UnderWay

\* Moving on within a handler.
LEMMA GotoRequest ==
  ASSUME NEW q \in Request, NEW rows, NEW acc, RequestOK(q, rows, acc),
         NEW pc \in {"write", "notify"}, q.pc \in UnderWay
  PROVE  LET new == [q EXCEPT !.pc = pc] IN new \in Request /\ RequestOK(new, rows, acc)
<1> DEFINE new == [q EXCEPT !.pc = pc]
<1>1. /\ new \in Request /\ new.pc = pc /\ new.op = q.op /\ new.user = q.user
      /\ new.duel = q.duel /\ new.attempt = q.attempt /\ new.snap = q.snap
      /\ new.rest = q.rest
  BY DEF Request
<1> HIDE DEF new
<1>2. RequestOK(new, rows, acc)
  BY <1>1 DEF RequestOK, SubmitOK, UnderWay
<1> QED
  BY <1>1, <1>2 DEF new

\* Ending one duel's part of a handler.
LEMMA FinishedRequest ==
  ASSUME NEW q \in Request, NEW rows, NEW acc, RequestOK(q, rows, acc)
  PROVE  LET new == IF q.rest = {} THEN Idle ELSE [q EXCEPT !.pc = "next"]
         IN  new \in Request /\ RequestOK(new, rows, acc)
<1> DEFINE new == [q EXCEPT !.pc = "next"]
<1>1. /\ new \in Request /\ new.pc = "next" /\ new.op = q.op /\ new.user = q.user
      /\ new.duel = q.duel /\ new.attempt = q.attempt /\ new.snap = q.snap
      /\ new.rest = q.rest
  BY DEF Request
<1> HIDE DEF new
<1>2. q.rest # {} => RequestOK(new, rows, acc)
  BY <1>1 DEF RequestOK, SubmitOK, UnderWay
<1> QED
  BY <1>1, <1>2, IdleOK DEF new

-----------------------------------------------------------------------------
(* What a step of the system must show for the invariant to hold after it. *)

\* Rows stay sound, players stay, acceptances accumulate, and every slot of req
\* is either untouched or sound in the new state.
LEMMA Preserved ==
  ASSUME IInv,
         accepted \subseteq accepted',
         \A d \in Duels : /\ RowOK(duels'[d])
                          /\ AcceptedOK(duels'[d], d \in accepted')
                          /\ duels[d].status # "none" =>
                               /\ duels'[d].status # "none"
                               /\ duels'[d].player = duels[d].player,
         \A r \in Requests : \/ req'[r] = req[r]
                             \/ RequestOK(req'[r], duels', accepted'),
         \A p \in Replicas : \A d \in job'[p] : d \in job[p] \/ duels'[d].status # "none",
         TypeOK'
  PROVE  IInv'
<1>1. \A d \in accepted : duels[d].status # "none" /\ d \in Duels
  BY DEF IInv, TypeOK, AcceptedOK
<1>2. \A d \in accepted : duels'[d].player = duels[d].player
  BY <1>1
<1>3. \A r \in Requests : RequestOK(req[r], duels', accepted')
  BY <1>2, RequestMonotone DEF IInv
<1>4. \A r \in Requests : RequestOK(req'[r], duels', accepted')
  BY <1>3
<1>5. \A p \in Replicas : \A d \in job'[p] : duels'[d].status # "none"
  BY DEF IInv, TypeOK
<1> QED
  BY <1>4, <1>5 DEF IInv

\* The special case of a step that changes one request, and perhaps the notices
\* or what is saved, but no duel.
LEMMA OneRequest ==
  ASSUME IInv, NEW r \in Requests, NEW q \in Request, RequestOK(q, duels, accepted),
         req' = [req EXCEPT ![r] = q],
         UNCHANGED <<duels, accepted, recorded, catalog, job, credited>>,
         saved' \in [Attempts -> Dances \cup {None, NotSaved}],
         notes' \in SUBSET Notice, repeated' \in SUBSET Notice
  PROVE  IInv'
<1>1. /\ TypeOK
      /\ \A d \in Duels : RowOK(duels[d]) /\ AcceptedOK(duels[d], d \in accepted)
  BY DEF IInv
<1>2. req' \in [Requests -> Request]
  BY <1>1 DEF TypeOK
<1>3. TypeOK'
  BY <1>1, <1>2 DEF TypeOK
<1>4. \A i \in Requests : req'[i] = req[i] \/ RequestOK(req'[i], duels', accepted')
  BY <1>1 DEF TypeOK
<1> QED
  BY <1>1, <1>3, <1>4, Preserved

-----------------------------------------------------------------------------
(* The actions, one lemma each. *)

\* The initial state.
LEMMA InitInv == Init => IInv
<1> SUFFICES ASSUME Init PROVE IInv
  OBVIOUS
<1>1. TypeOK
  BY NoRowOK, IdleOK DEF Init, Tables!Init, Catalog!Init, TypeOK, BothNone, NotSaved
<1>2. \A d \in Duels : RowOK(duels[d])
  BY NoRowOK DEF Init, Tables!Init, Catalog!Init
<1>3. \A d \in Duels : AcceptedOK(duels[d], d \in accepted)
  BY DEF Init, Tables!Init, Catalog!Init, AcceptedOK, NoRow, BothNone, PlayStatuses
<1>4. \A r \in Requests : RequestOK(req[r], duels, accepted)
  BY IdleOK DEF Init, Tables!Init, Catalog!Init
<1> QED
  BY <1>1, <1>2, <1>3, <1>4 DEF IInv, Init, Tables!Init, Catalog!Init

\* A challenge is checked.
LEMMA CreateCheckInv ==
  ASSUME IInv, NEW r \in Requests, CreateCheck(r)
  PROVE  IInv'
<1>1. PICK u \in Users, o \in Users, dn \in Dances :
        /\ u # o
        /\ req' = [req EXCEPT ![r] =
            [Idle EXCEPT !.pc = "insert", !.op = "create", !.user = u,
                         !.snap = [NoRow EXCEPT !.status = "pending", !.dance = dn,
                                    !.player = [s \in Sides |-> IF s = "challenger" THEN u
                                                                                    ELSE o]]]]
  BY DEF CreateCheck
<1> DEFINE pl == [s \in Sides |-> IF s = "challenger" THEN u ELSE o]
           row == [NoRow EXCEPT !.status = "pending", !.dance = dn, !.player = pl]
           q == [Idle EXCEPT !.pc = "insert", !.op = "create", !.user = u, !.snap = row]
<1>2. pl \in [Sides -> Users] /\ pl["challenger"] # pl["opponent"]
  BY <1>1 DEF Sides
<1>3. /\ row \in Row /\ row.status = "pending" /\ row.player = pl /\ row.score = BothNone
      /\ row.attempt = BothNone /\ row.isPublic = FALSE
  BY <1>2, NoRowOK DEF Row, NoRow, OpenStatuses
<1> HIDE DEF pl
<1>4. RowOK(row)
  BY <1>2, <1>3 DEF RowOK, PlayersOK, DoneOK, ResultOK, SourceOK, PublicOK, DoneStatus, BothNone
<1>5. req' = [req EXCEPT ![r] = q]
  BY <1>1 DEF pl
<1> HIDE DEF row
<1>6. /\ q \in Request /\ q.pc = "insert" /\ q.op = "create" /\ q.snap = row /\ q.rest = {}
  BY <1>3, IdleOK DEF Request, Idle
<1> HIDE DEF q
<1>7. RequestOK(q, duels, accepted)
  BY <1>3, <1>4, <1>6 DEF RequestOK, UnderWay
<1>8. IInv => TypeOK
  BY DEF IInv
<1> QED
  BY <1>5, <1>6, <1>7, <1>8, OneRequest DEF CreateCheck, TypeOK

\* An answer has read its row.
LEMMA AnswerReadInv ==
  ASSUME IInv, NEW r \in Requests, AnswerRead(r)
  PROVE  IInv'
<1>1. PICK d \in Duels, op \in {"accept", "decline"} :
        /\ duels[d].status = "pending"
        /\ req' = [req EXCEPT ![r] =
            [Idle EXCEPT !.pc = "write", !.op = op, !.duel = d, !.snap = duels[d],
                         !.user = duels[d].player["opponent"]]]
  BY DEF AnswerRead
<1> DEFINE q == [Idle EXCEPT !.pc = "write", !.op = op, !.duel = d, !.snap = duels[d],
                             !.user = duels[d].player["opponent"]]
<1>2. TypeOK /\ RowOK(duels[d])
  BY DEF IInv
<1>3. duels[d] \in Row /\ duels[d].player["opponent"] \in Users
  BY <1>1, <1>2 DEF TypeOK, RowOK, PlayersOK, Sides
<1>4. /\ q \in Request /\ q.pc = "write" /\ q.op = op /\ q.duel = d /\ q.snap = duels[d]
      /\ q.rest = {}
  BY <1>3, IdleOK DEF Request, Idle
<1> HIDE DEF q
<1>5. RequestOK(q, duels, accepted)
  BY <1>1, <1>2, <1>4 DEF RequestOK, UnderWay
<1>6. req' = [req EXCEPT ![r] = q]
  BY <1>1 DEF q
<1> QED
  BY <1>2, <1>4, <1>5, <1>6, OneRequest DEF AnswerRead, TypeOK

\* A submission begins.
LEMMA SubmitBeginInv ==
  ASSUME IInv, NEW r \in Requests, SubmitBegin(r)
  PROVE  IInv'
<1>1. PICK u \in Users, a \in Attempts, c \in BOOLEAN :
       \E ds \in {{d} : d \in Duels} \cup {ActiveDuels(u, dn) : dn \in Dances} :
        req' = [req EXCEPT ![r] = [Idle EXCEPT !.pc = "next", !.op = "submit", !.user = u,
                                         !.attempt = a, !.consent = c, !.rest = ds]]
  BY DEF SubmitBegin
<1>2. PICK ds \in {{d} : d \in Duels} \cup {ActiveDuels(u, dn) : dn \in Dances} :
        req' = [req EXCEPT ![r] = [Idle EXCEPT !.pc = "next", !.op = "submit", !.user = u,
                                         !.attempt = a, !.consent = c, !.rest = ds]]
  BY <1>1
<1>3. ds \in SUBSET Duels
  BY <1>2 DEF ActiveDuels
<1> DEFINE q == [Idle EXCEPT !.pc = "next", !.op = "submit", !.user = u,
                             !.attempt = a, !.consent = c, !.rest = ds]
<1>4. /\ q \in Request /\ q.pc = "next" /\ q.op = "submit" /\ q.user = u /\ q.attempt = a
      /\ q.snap = NoRow
  BY <1>3, IdleOK, NoRowOK DEF Request, Idle
<1> HIDE DEF q
<1>5. RequestOK(q, duels, accepted)
  BY <1>4, NoRowOK DEF RequestOK, SubmitOK, UnderWay
<1>6. req' = [req EXCEPT ![r] = q]
  BY <1>2 DEF q
<1>7. TypeOK
  BY DEF IInv
<1> QED
  BY <1>4, <1>5, <1>6, <1>7, OneRequest DEF SubmitBegin, TypeOK

\* A submission has read a row: its player, its attempt and the acceptance are known.
LEMMA SubmitReadInv ==
  ASSUME IInv, NEW r \in Requests, SubmitRead(r)
  PROVE  IInv'
<1>1. PICK d \in req[r].rest :
       LET q == [req[r] EXCEPT !.rest = @ \ {d}] IN
       req' = [req EXCEPT ![r] =
         IF MaySubmit(duels[d], q.user, q.attempt)
           THEN [q EXCEPT !.pc = "save", !.duel = d, !.snap = duels[d]]
           ELSE IF q.rest = {} THEN Idle ELSE q]
  BY DEF SubmitRead
<1> DEFINE q == [req[r] EXCEPT !.rest = @ \ {d}]
           q2 == [q EXCEPT !.pc = "save", !.duel = d, !.snap = duels[d]]
<1>2. /\ TypeOK /\ req[r] \in Request /\ RequestOK(req[r], duels, accepted)
      /\ req[r].pc = "next" /\ d \in Duels
  BY DEF IInv, TypeOK, SubmitRead, Request
<1>3. /\ duels[d] \in Row /\ RowOK(duels[d]) /\ AcceptedOK(duels[d], d \in accepted)
  BY <1>2 DEF IInv, TypeOK
<1>4. /\ q \in Request /\ q.pc = "next" /\ q.op = req[r].op /\ q.user = req[r].user
      /\ q.attempt = req[r].attempt /\ q.snap = req[r].snap
  BY <1>2 DEF Request
<1> HIDE DEF q
<1>5. RequestOK(q, duels, accepted) /\ q.op = "submit"
  BY <1>2, <1>4 DEF RequestOK, SubmitOK, UnderWay
<1>6. /\ q2 \in Request /\ q2.pc = "save" /\ q2.op = q.op /\ q2.user = q.user
      /\ q2.attempt = q.attempt /\ q2.snap = duels[d] /\ q2.duel = d
  BY <1>2, <1>3, <1>4 DEF Request
<1> HIDE DEF q2
<1>7. CASE MaySubmit(duels[d], q.user, q.attempt)
  <2>1. /\ duels[d].status \in PlayStatuses /\ IsPlayer(duels[d], q.user)
        /\ AttemptOwner[q.attempt] = q.user
    BY <1>7 DEF MaySubmit
  <2>2. duels[d].status # "none" /\ d \in accepted
    BY <2>1, <1>3 DEF AcceptedOK, PlayStatuses
  <2>3. RequestOK(q2, duels, accepted)
    BY <1>2, <1>3, <1>5, <1>6, <2>1, <2>2 DEF RequestOK, SubmitOK
  <2>4. req' = [req EXCEPT ![r] = q2]
    BY <1>1, <1>7 DEF q, q2
  <2> QED
    BY <1>2, <1>6, <2>3, <2>4, OneRequest DEF SubmitRead, TypeOK
<1>8. CASE ~MaySubmit(duels[d], q.user, q.attempt)
  <2> DEFINE q3 == IF q.rest = {} THEN Idle ELSE q
  <2>1. q3 \in Request /\ RequestOK(q3, duels, accepted)
    BY <1>4, <1>5, IdleOK
  <2>2. req' = [req EXCEPT ![r] = q3]
    BY <1>1, <1>8 DEF q
  <2> HIDE DEF q3
  <2> QED
    BY <1>2, <2>1, <2>2, OneRequest DEF SubmitRead, TypeOK
<1> QED
  BY <1>7, <1>8

\* The attempt is saved.
LEMMA EnsureSavedInv ==
  ASSUME IInv, NEW r \in Requests, EnsureSaved(r)
  PROVE  IInv'
<1> DEFINE q == [req[r] EXCEPT !.pc = "write"]
<1>1. /\ TypeOK /\ req[r] \in Request /\ RequestOK(req[r], duels, accepted)
      /\ req[r].pc \in UnderWay
  BY DEF IInv, TypeOK, EnsureSaved, UnderWay
<1>2. q \in Request /\ RequestOK(q, duels, accepted)
  BY <1>1, GotoRequest
<1>3. req' = [req EXCEPT ![r] = q]
  BY <1>1 DEF EnsureSaved, Goto, TypeOK
<1>4. saved' \in [Attempts -> Dances \cup {None, NotSaved}]
  BY <1>1 DEF EnsureSaved, TypeOK, Request, Row
<1> HIDE DEF q
<1> QED
  BY <1>1, <1>2, <1>3, <1>4, OneRequest DEF EnsureSaved, TypeOK

\* A handler ends or moves on without touching a duel.
LEMMA FinishInv ==
  ASSUME IInv, NEW r \in Requests, Finish(r),
         UNCHANGED <<duels, saved, accepted, recorded, catalog, job, credited>>,
         notes' \in SUBSET Notice, repeated' \in SUBSET Notice
  PROVE  IInv'
<1> DEFINE q == IF req[r].rest = {} THEN Idle ELSE [req[r] EXCEPT !.pc = "next"]
<1>1. TypeOK /\ req[r] \in Request /\ RequestOK(req[r], duels, accepted)
  BY DEF IInv, TypeOK
<1>2. q \in Request /\ RequestOK(q, duels, accepted)
  BY <1>1, FinishedRequest
<1>3. req' = [req EXCEPT ![r] = q]
  BY <1>1 DEF Finish, TypeOK
<1> HIDE DEF q
<1> QED
  BY <1>1, <1>2, <1>3, OneRequest DEF TypeOK

\* The row of a challenge is inserted.
LEMMA CreateInsertInv ==
  ASSUME IInv, NEW r \in Requests, CreateInsert(r)
  PROVE  IInv'
<1>1. /\ TypeOK /\ req[r] \in Request /\ RequestOK(req[r], duels, accepted)
      /\ req[r].pc = "insert"
  BY DEF IInv, TypeOK, CreateInsert
<1>2. CASE catalog[req[r].snap.dance] = "deleted"
  BY <1>1, <1>2, FinishInv DEF CreateInsert, TypeOK
<1>3. CASE catalog[req[r].snap.dance] # "deleted"
  <2> DEFINE q(d) == [req[r] EXCEPT !.pc = "notify", !.duel = d]
  <2>1. PICK d \in Duels :
          /\ duels[d].status = "none"
          /\ duels' = [duels EXCEPT ![d] = req[r].snap]
          /\ req' = [req EXCEPT ![r].pc = "notify", ![r].duel = d]
    BY <1>3 DEF CreateInsert
  <2>2. /\ q(d) \in Request /\ q(d).pc = "notify" /\ q(d).duel = d /\ q(d).op = req[r].op
        /\ q(d).snap = req[r].snap /\ q(d).rest = req[r].rest
    BY <1>1 DEF Request
  <2>3. req' = [req EXCEPT ![r] = q(d)]
    BY <1>1, <2>1 DEF TypeOK, Request
  <2> HIDE DEF q
  <2>4. /\ req[r].snap \in Row /\ RowOK(req[r].snap) /\ req[r].snap.status = "pending"
        /\ req[r].snap.score = BothNone
    BY <1>1 DEF RequestOK, Request
  <2>5. d \notin accepted
    BY <2>1 DEF IInv, AcceptedOK
  <2>6. AcceptedOK(req[r].snap, d \in accepted)
    BY <2>4, <2>5 DEF AcceptedOK, BothNone, PlayStatuses
  <2>7. req[r].op # "none" /\ req[r].op # "submit" /\ req[r].rest = {}
    BY <1>1 DEF RequestOK
  <2>8. RequestOK(q(d), duels', accepted')
    BY <2>2, <2>4, <2>7 DEF RequestOK, UnderWay
  <2>9. TypeOK'
    BY <1>1, <2>1, <2>2, <2>3, <2>4 DEF TypeOK, CreateInsert
  <2>10. \A i \in Requests : req'[i] = req[i] \/ RequestOK(req'[i], duels', accepted')
    BY <1>1, <2>3, <2>8 DEF TypeOK
  <2>11. \A e \in Duels : /\ RowOK(duels'[e])
                          /\ AcceptedOK(duels'[e], e \in accepted')
                          /\ duels[e].status # "none" =>
                               /\ duels'[e].status # "none"
                               /\ duels'[e].player = duels[e].player
    BY <1>1, <2>1, <2>4, <2>6 DEF IInv, TypeOK, CreateInsert
  <2> QED
    BY <2>9, <2>10, <2>11, Preserved DEF CreateInsert
<1> QED
  BY <1>2, <1>3

\* What a handler has written stays in the row's form, with its own slot moved on.
LEMMA WriteInv ==
  ASSUME IInv, NEW r \in Requests, NEW new \in Row, req[r].pc \in UnderWay,
         duels' = [duels EXCEPT ![req[r].duel] = new],
         new.player = duels[req[r].duel].player, new.status # "none",
         RowOK(new),
         accepted' \in SUBSET Duels, accepted \subseteq accepted',
         accepted' \subseteq accepted \cup {req[r].duel},
         AcceptedOK(new, req[r].duel \in accepted'),
         Goto(r, "notify"),
         credited' \in [Duels -> [Sides -> Attempts \cup {None}]],
         UNCHANGED <<saved, recorded, catalog, job, notes, repeated>>
  PROVE  IInv'
<1> DEFINE d == req[r].duel
           q == [req[r] EXCEPT !.pc = "notify"]
<1>1. /\ TypeOK /\ req[r] \in Request /\ RequestOK(req[r], duels, accepted) /\ d \in Duels
  BY DEF IInv, TypeOK, RequestOK
<1>2. q \in Request /\ RequestOK(q, duels, accepted)
  BY <1>1, GotoRequest
<1>3. req' = [req EXCEPT ![r] = q]
  BY <1>1 DEF Goto, TypeOK
<1> HIDE DEF q
<1>4. \A e \in Duels : /\ RowOK(duels'[e])
                       /\ AcceptedOK(duels'[e], e \in accepted')
                       /\ duels[e].status # "none" => duels'[e].status # "none"
                       /\ duels'[e].player = duels[e].player
  <2> SUFFICES ASSUME NEW e \in Duels
               PROVE  /\ RowOK(duels'[e])
                      /\ AcceptedOK(duels'[e], e \in accepted')
                      /\ duels[e].status # "none" => duels'[e].status # "none"
                      /\ duels'[e].player = duels[e].player
    OBVIOUS
  <2>1. CASE e = d
    BY <1>1, <2>1 DEF TypeOK
  <2>2. CASE e # d
    <3>1. duels'[e] = duels[e] /\ (e \in accepted' <=> e \in accepted)
      BY <1>1, <2>2 DEF TypeOK
    <3>2. RowOK(duels[e]) /\ AcceptedOK(duels[e], e \in accepted)
      BY DEF IInv
    <3>3. AcceptedOK(duels[e], e \in accepted')
      BY <3>1, <3>2 DEF AcceptedOK
    <3> QED
      BY <3>1, <3>2, <3>3
  <2> QED
    BY <2>1, <2>2
<1>5. RequestOK(q, duels', accepted')
  <2>1. \A e \in accepted : duels'[e].player = duels[e].player
    BY <1>1, <1>4 DEF TypeOK
  <2> QED
    BY <1>2, <2>1 DEF RequestOK, SubmitOK
<1>6. \A i \in Requests : req'[i] = req[i] \/ RequestOK(req'[i], duels', accepted')
  BY <1>1, <1>3, <1>5 DEF TypeOK
<1>7. TypeOK'
  BY <1>1, <1>2, <1>3 DEF TypeOK
<1> QED
  BY <1>4, <1>6, <1>7, Preserved

\* An answer is written, or conflicts.
LEMMA AnswerWriteInv ==
  ASSUME IInv, NEW r \in Requests, AnswerWrite(r)
  PROVE  IInv'
<1> DEFINE d  == req[r].duel
           st == IF req[r].op = "accept" THEN "active" ELSE "declined"
           new == Updated(duels[d], Answer(st), None, FALSE)
<1>1. /\ TypeOK /\ req[r] \in Request /\ RequestOK(req[r], duels, accepted)
      /\ req[r].pc = "write" /\ d \in Duels /\ req[r].op \in {"accept", "decline"}
  BY DEF IInv, TypeOK, AnswerWrite, RequestOK, UnderWay
<1>2. duels[d] \in Row /\ RowOK(duels[d]) /\ AcceptedOK(duels[d], d \in accepted)
  BY <1>1 DEF IInv, TypeOK
<1>3. CASE Updatable(duels[d], None)
  <2>1. /\ new \in Row /\ new.status = st /\ new.player = duels[d].player
        /\ new.score = BothNone /\ RowOK(new)
    BY <1>2, <1>3, AnsweredRow
  <2>2. duels' = [duels EXCEPT ![d] = new] /\ Goto(r, "notify")
    BY <1>3 DEF AnswerWrite
  <2>3. accepted' = IF req[r].op = "accept" THEN accepted \cup {d} ELSE accepted
    BY <1>3 DEF AnswerWrite
  <2>4. d \notin accepted
    BY <1>2, <1>3 DEF AcceptedOK, Updatable
  <2> HIDE DEF new
  <2>5. AcceptedOK(new, d \in accepted')
    BY <1>1, <2>1, <2>3, <2>4 DEF AcceptedOK, BothNone, PlayStatuses
  <2>6. accepted \in SUBSET Duels /\ credited \in [Duels -> [Sides -> Attempts \cup {None}]]
    BY <1>1 DEF TypeOK
  <2>7. /\ accepted' \in SUBSET Duels /\ accepted \subseteq accepted'
        /\ accepted' \subseteq accepted \cup {d}
    BY <1>1, <2>3, <2>6
  <2>8. UNCHANGED <<saved, recorded, catalog, job, notes, repeated, credited>>
    BY DEF AnswerWrite
  <2> QED
    BY <1>1, <2>1, <2>2, <2>5, <2>6, <2>7, <2>8, WriteInv DEF UnderWay
<1>4. CASE ~Updatable(duels[d], None)
  BY <1>1, <1>4, FinishInv DEF AnswerWrite, TypeOK
<1> QED
  BY <1>3, <1>4

\* A submission is written, or fails.
LEMMA SubmitWriteInv ==
  ASSUME IInv, NEW r \in Requests, SubmitWrite(r)
  PROVE  IInv'
<1> DEFINE q    == req[r]
           d    == q.duel
           side == SideOf(q.snap, q.user)
           sub  == Submission(q.snap, side, q.attempt)
           new  == Updated(duels[d], sub, side, q.consent)
           ok   == /\ Updatable(duels[d], side)
                   /\ \A s \in Sides : sub.attempt[s] # None => saved[sub.attempt[s]] # NotSaved
<1>1. /\ TypeOK /\ q \in Request /\ RequestOK(q, duels, accepted)
      /\ q.pc = "write" /\ d \in Duels /\ q.op = "submit"
  BY DEF IInv, TypeOK, SubmitWrite, RequestOK, UnderWay
<1>2. duels[d] \in Row /\ RowOK(duels[d]) /\ AcceptedOK(duels[d], d \in accepted)
  BY <1>1 DEF IInv, TypeOK
<1>3. /\ q.attempt \in Attempts /\ AttemptOwner[q.attempt] = q.user
      /\ IsPlayer(q.snap, q.user) /\ q.snap.status \in PlayStatuses
      /\ d \in accepted /\ duels[d].player = q.snap.player
      /\ RowOK(q.snap) /\ q.snap \in Row /\ q.consent \in BOOLEAN
  BY <1>1 DEF RequestOK, SubmitOK, UnderWay, Request
<1>4. side \in Sides /\ q.snap.player[side] = q.user
  BY <1>3, SideOfPlayer
<1>5. CASE ok
  <2> HIDE DEF side
  <2>1. /\ new \in Row /\ new.player = duels[d].player
        /\ new.status \in PlayStatuses \cup {"completed"}
        /\ RowOK(new)
    BY <1>2, <1>3, <1>4, <1>5, SubmittedRow
  <2>2. /\ duels' = [duels EXCEPT ![d] = new] /\ Goto(r, "notify")
        /\ credited' = [credited EXCEPT ![d][side] = q.attempt]
    BY <1>5 DEF SubmitWrite, SubmissionOf, side
  <2> HIDE DEF new, sub
  <2>3. credited' \in [Duels -> [Sides -> Attempts \cup {None}]]
    BY <1>1, <1>3, <1>4, <2>2 DEF TypeOK
  <2>4. new.status # "none" /\ AcceptedOK(new, d \in accepted)
    BY <1>3, <2>1 DEF AcceptedOK, PlayStatuses
  <2>5. UNCHANGED <<saved, recorded, catalog, job, notes, repeated, accepted>>
    BY DEF SubmitWrite
  <2>6. accepted \in SUBSET Duels
    BY <1>1 DEF TypeOK
  <2> QED
    BY <1>1, <2>1, <2>2, <2>3, <2>4, <2>5, <2>6, WriteInv DEF UnderWay
<1>6. CASE ~ok
  <2>1. Finish(r) /\ UNCHANGED <<duels, credited>>
    BY <1>6 DEF SubmitWrite, SubmissionOf
  <2> QED
    BY <1>1, <2>1, FinishInv DEF SubmitWrite, TypeOK
<1> QED
  BY <1>5, <1>6

\* What a handler announces has the form of a notice.
LEMMA NoticesType ==
  ASSUME NEW q \in Request, NEW rows, NEW acc, RequestOK(q, rows, acc), q.pc = "notify"
  PROVE  NoticesOf(q) \subseteq Notice
<1>1. /\ q.snap.status # "none" /\ q.snap \in Row /\ q.duel \in Duels
      /\ q.op \in {"create", "accept", "decline", "submit"} /\ PlayersOK(q.snap)
  BY DEF RequestOK, UnderWay, Request, RowOK
<1>2. q.snap.player \in [Sides -> Users]
  BY <1>1 DEF PlayersOK
<1>3. \A k \in Kinds, u \in Users : To(k, q.duel, u) \in Notice
  BY <1>1 DEF To, Notice
<1>4. /\ SideOf(q.snap, q.user) \in Sides /\ Other(SideOf(q.snap, q.user)) \in Sides
  BY SideOfPlayer, OtherSide
<1>5. CASE q.op = "create"
  BY <1>2, <1>3, <1>5 DEF NoticesOf, Kinds, Sides
<1>6. CASE q.op = "accept"
  BY <1>2, <1>3, <1>6 DEF NoticesOf, Kinds, Sides
<1>7. CASE q.op = "decline"
  BY <1>2, <1>3, <1>7 DEF NoticesOf, Kinds, Sides
<1>8. CASE q.op = "submit"
  <2> DEFINE side == SideOf(q.snap, q.user)
             out  == Outcome(q)
  <2>1. NoticesOf(q) = IF out.status = "completed"
               THEN {To("duel_completed", q.duel, q.snap.player[s]) : s \in Sides}
                      \cup {To("event_duel_completed", q.duel, out.winner)}
               ELSE {To(DoneNotif(side), q.duel, q.snap.player[Other(side)])}
    BY <1>8 DEF NoticesOf
  <2>2. out = Submission(q.snap, side, q.attempt)
    BY <1>8 DEF Outcome, SubmissionOf
  <2>3. q.attempt \in Attempts
    BY <1>8 DEF RequestOK, SubmitOK
  <2>4. out.status = "completed" => out.winner \in Users
    <3>1. out.status = "completed" => q.snap.status = DoneStatus(Other(side))
      BY <1>1, <1>4, <2>2, <2>3, SubmissionChange DEF DoneStatus
    <3> QED
      BY <3>1, <1>1, <1>2, <1>4, <2>2, <2>3, SubmissionChange
  <2>5. DoneNotif(side) \in Kinds
    BY DEF DoneNotif, Kinds
  <2> HIDE DEF out, side
  <2>6. CASE out.status = "completed"
    BY <1>2, <1>3, <2>1, <2>4, <2>6 DEF Kinds
  <2>7. CASE out.status # "completed"
    BY <1>2, <1>3, <1>4, <2>1, <2>5, <2>7 DEF side
  <2> QED
    BY <2>6, <2>7
<1> QED
  BY <1>1, <1>5, <1>6, <1>7, <1>8

\* A handler announces what it wrote.
LEMMA NotifyInv ==
  ASSUME IInv, NEW r \in Requests, Notify(r)
  PROVE  IInv'
<1>1. TypeOK /\ req[r] \in Request /\ RequestOK(req[r], duels, accepted) /\ req[r].pc = "notify"
  BY DEF IInv, TypeOK, Notify
<1>2. NoticesOf(req[r]) \subseteq Notice
  BY <1>1, NoticesType
<1>3. notes' \in SUBSET Notice /\ repeated' \in SUBSET Notice
  BY <1>1, <1>2 DEF Notify, HandOver, TypeOK
<1> QED
  BY <1>1, <1>3, FinishInv DEF Notify

\* A statement of a handler fails.
LEMMA RequestErrorInv ==
  ASSUME IInv, NEW r \in Requests, RequestError(r)
  PROVE  IInv'
<1>1. TypeOK
  BY DEF IInv
<1> QED
  BY <1>1, FinishInv DEF RequestError, TypeOK

\* A step that leaves requests, jobs and acceptances alone, and rewrites rows
\* without touching their results.
LEMMA RowsStep ==
  ASSUME IInv,
         duels' \in [Duels -> Row],
         \A d \in Duels : SameColumns(duels'[d], duels[d]),
         saved' \in [Attempts -> Dances \cup {None, NotSaved}],
         recorded' \in SUBSET Attempts,
         catalog' \in [Dances -> {"published", "private", "deleted"}],
         credited' \in [Duels -> [Sides -> Attempts \cup {None}]],
         UNCHANGED <<req, job, notes, repeated, accepted>>
  PROVE  IInv'
<1>1. TypeOK /\ duels \in [Duels -> Row]
  BY DEF IInv, TypeOK
<1>2. \A d \in Duels : RowOK(duels[d]) /\ AcceptedOK(duels[d], d \in accepted)
  BY DEF IInv
<1>3. \A d \in Duels : RowOK(duels'[d]) /\ AcceptedOK(duels'[d], d \in accepted)
  BY <1>1, <1>2, SameResult
<1>4. \A d \in Duels : duels'[d].status = duels[d].status /\ duels'[d].player = duels[d].player
  BY DEF SameColumns
<1>5. TypeOK'
  BY <1>1 DEF TypeOK
<1> QED
  BY <1>3, <1>4, <1>5, Preserved

\* The deadline of a duel passes: the row stays the same in all that matters.
LEMMA PassDeadlineRows ==
  ASSUME IInv, NEW d \in Duels, PassDeadline(d)
  PROVE  /\ duels' \in [Duels -> Row]
         /\ \A e \in Duels : SameColumns(duels'[e], duels[e])
<1>1. duels \in [Duels -> Row] /\ duels' = [duels EXCEPT ![d].overdue = TRUE]
  BY DEF IInv, TypeOK, PassDeadline
<1> QED
  BY <1>1 DEF Row, SameColumns

\* The invariant survives it.
LEMMA PassDeadlineInv ==
  ASSUME IInv, NEW d \in Duels, PassDeadline(d)
  PROVE  IInv'
  BY PassDeadlineRows, RowsStep DEF PassDeadline, IInv, TypeOK

\* An attempt is saved to the profile.
LEMMA SaveAttemptInv ==
  ASSUME IInv, NEW a \in Attempts, SaveAttempt(a)
  PROVE  IInv'
<1>1. TypeOK
  BY DEF IInv
<1>2. saved' \in [Attempts -> Dances \cup {None, NotSaved}]
  BY <1>1, DuelAssumption DEF SaveAttempt, Tables!Save, TypeOK
<1>3. \A d \in Duels : SameColumns(duels'[d], duels[d])
  BY DEF SaveAttempt, Tables!Save, SameColumns
<1> QED
  BY <1>1, <1>2, <1>3, RowsStep DEF SaveAttempt, Tables!Save, TypeOK

\* An attempt is recorded.
LEMMA RecordAttemptInv ==
  ASSUME IInv, NEW a \in Attempts, RecordAttempt(a)
  PROVE  IInv'
<1>1. TypeOK
  BY DEF IInv
<1>2. \A d \in Duels : SameColumns(duels'[d], duels[d])
  BY DEF RecordAttempt, Tables!Record, SameColumns
<1> QED
  BY <1>1, <1>2, RowsStep DEF RecordAttempt, Tables!Record, TypeOK

\* The rows that forget some attempts.
LEMMA ForgottenRows ==
  ASSUME NEW rows \in [Duels -> Row], NEW gone, NEW rows2,
         rows2 = [d \in Duels |-> Forget(rows[d], gone)]
  PROVE  /\ rows2 \in [Duels -> Row]
         /\ \A d \in Duels : SameColumns(rows2[d], rows[d])
<1>1. rows2 \in [Duels -> Row]
  BY ForgetRow
<1> SUFFICES ASSUME NEW d \in Duels
             PROVE  SameColumns(rows2[d], rows[d])
  BY <1>1
<1> DEFINE f == Forget(rows[d], gone)
<1>2. /\ f \in Row /\ f = [rows[d] EXCEPT !.attempt = f.attempt]
      /\ \A s \in Sides : f.attempt[s] = rows[d].attempt[s] \/ f.attempt[s] = None
  BY ForgetRow
<1>3. rows2[d] = f
  OBVIOUS
<1> HIDE DEF f
<1> QED
  BY <1>2, <1>3 DEF Row, SameColumns

\* The owner removes an attempt.
LEMMA UnsaveAttemptRows ==
  ASSUME IInv, NEW a \in Attempts, UnsaveAttempt(a)
  PROVE  /\ duels' \in [Duels -> Row]
         /\ \A d \in Duels : SameColumns(duels'[d], duels[d])
<1> DEFINE gone == {a}
           rows == [d \in Duels |-> Forget(duels[d], gone)]
<1>1. duels \in [Duels -> Row]
  BY DEF IInv, TypeOK
<1>2. duels' = rows /\ rows = [d \in Duels |-> Forget(duels[d], gone)]
  BY DEF UnsaveAttempt
<1> HIDE DEF rows, gone
<1>3. /\ rows \in [Duels -> Row]
      /\ \A d \in Duels : SameColumns(rows[d], duels[d])
  BY <1>1, <1>2, ForgottenRows
<1> QED
  BY <1>2, <1>3

\* The invariant survives it.
LEMMA UnsaveAttemptInv ==
  ASSUME IInv, NEW a \in Attempts, UnsaveAttempt(a)
  PROVE  IInv'
<1>1. TypeOK
  BY DEF IInv
<1>2. saved' \in [Attempts -> Dances \cup {None, NotSaved}]
  BY <1>1 DEF UnsaveAttempt, Tables!Unsave, TypeOK
<1>3. credited' \in [Duels -> [Sides -> Attempts \cup {None}]]
  BY <1>1 DEF UnsaveAttempt, Tables!Unsave, TypeOK
<1> QED
  BY <1>1, <1>2, <1>3, UnsaveAttemptRows, RowsStep DEF UnsaveAttempt, Tables!Unsave, TypeOK

\* A dance is published or withdrawn.
LEMMA SetDanceStatusInv ==
  ASSUME IInv, NEW dn \in Dances, SetDanceStatus(dn)
  PROVE  IInv'
<1>1. TypeOK
  BY DEF IInv
<1>2. \A d \in Duels : SameColumns(duels'[d], duels[d])
  BY DEF SetDanceStatus, Catalog!SetStatus, SameColumns
<1> QED
  BY <1>1, <1>2, RowsStep DEF SetDanceStatus, Catalog!SetStatus, TypeOK

\* A dance is deleted.
LEMMA DeleteDanceRows ==
  ASSUME IInv, NEW dn \in Dances, DeleteDance(dn)
  PROVE  /\ duels' \in [Duels -> Row]
         /\ \A d \in Duels : SameColumns(duels'[d], duels[d])
<1> DEFINE gone == {a \in Attempts : saved[a] = dn}
           rows == [d \in Duels |-> Forget(duels[d], gone)]
<1>1. duels \in [Duels -> Row]
  BY DEF IInv, TypeOK
<1>2. /\ duels' = [d \in Duels |-> [rows[d] EXCEPT !.dance = IF @ = dn THEN None ELSE @]]
      /\ rows = [d \in Duels |-> Forget(duels[d], gone)]
  BY DEF DeleteDance, Catalog!Delete
<1> HIDE DEF rows, gone
<1>3. /\ rows \in [Duels -> Row]
      /\ \A d \in Duels : SameColumns(rows[d], duels[d])
  BY <1>1, <1>2, ForgottenRows
<1>4. ASSUME NEW d \in Duels
      PROVE  duels'[d] \in Row /\ SameColumns(duels'[d], duels[d])
  <2>1. PICK x \in Dances \cup {None} : duels'[d] = [rows[d] EXCEPT !.dance = x]
    BY <1>2, <1>3 DEF Row
  <2>2. rows[d] \in Row /\ SameColumns(rows[d], duels[d])
    BY <1>3
  <2> QED
    BY <2>1, <2>2 DEF Row, SameColumns
<1> QED
  BY <1>2, <1>4

\* The invariant survives it.
LEMMA DeleteDanceInv ==
  ASSUME IInv, NEW dn \in Dances, DeleteDance(dn)
  PROVE  IInv'
<1>1. TypeOK
  BY DEF IInv
<1>2. saved' \in [Attempts -> Dances \cup {None, NotSaved}]
  BY <1>1 DEF DeleteDance, Catalog!Delete, TypeOK
<1>3. credited' \in [Duels -> [Sides -> Attempts \cup {None}]]
  BY <1>1 DEF DeleteDance, Catalog!Delete, TypeOK
<1>4. /\ recorded' \in SUBSET Attempts
      /\ catalog' \in [Dances -> {"published", "private", "deleted"}]
      /\ UNCHANGED <<req, job, notes, repeated, accepted>>
  BY <1>1 DEF DeleteDance, Catalog!Delete, TypeOK
<1> QED
  BY <1>2, <1>3, <1>4, DeleteDanceRows, RowsStep

\* One pass of an expiry job.
LEMMA ExpireDuelsInv ==
  ASSUME IInv, NEW p \in Replicas, ExpireDuels(p)
  PROVE  IInv'
<1>1. /\ TypeOK /\ duels \in [Duels -> Row]
      /\ \A d \in Duels : RowOK(duels[d]) /\ AcceptedOK(duels[d], d \in accepted)
  BY DEF IInv, TypeOK
<1>2. \A d \in Late : d \in Duels /\ duels[d].status \in OpenStatuses
  BY DEF Late
<1>3. /\ duels' = [d \in Duels |-> IF d \in Late THEN [duels[d] EXCEPT !.status = "expired"]
                                                 ELSE duels[d]]
      /\ job' = [job EXCEPT ![p] = Late]
      /\ UNCHANGED <<saved, recorded, catalog, req, notes, repeated, credited, accepted>>
  BY DEF ExpireDuels
<1>4. ASSUME NEW d \in Duels
      PROVE  /\ duels'[d] \in Row /\ RowOK(duels'[d])
             /\ AcceptedOK(duels'[d], d \in accepted)
             /\ duels'[d].player = duels[d].player
             /\ duels[d].status # "none" => duels'[d].status # "none"
             /\ d \in Late => duels'[d].status # "none"
  <2>1. CASE d \in Late
    BY <1>1, <1>2, <1>3, <2>1, ExpiredRow
  <2>2. CASE d \notin Late
    BY <1>1, <1>3, <2>2
  <2> QED
    BY <2>1, <2>2
<1>5. duels' \in [Duels -> Row]
  BY <1>3, <1>4
<1>6. job' \in [Replicas -> SUBSET Duels]
  BY <1>1, <1>2, <1>3 DEF TypeOK
<1>7. TypeOK'
  BY <1>1, <1>3, <1>5, <1>6 DEF TypeOK
<1>8. \A i \in Replicas : \A d \in job'[i] : d \in job[i] \/ duels'[d].status # "none"
  BY <1>1, <1>2, <1>3, <1>4 DEF TypeOK
<1> QED
  BY <1>3, <1>4, <1>7, <1>8, Preserved

\* Its notices.
LEMMA ExpireNotifyInv ==
  ASSUME IInv, NEW p \in Replicas, ExpireNotify(p)
  PROVE  IInv'
<1>1. /\ TypeOK /\ job[p] \subseteq Duels /\ job \in [Replicas -> SUBSET Duels]
      /\ \A d \in Duels : RowOK(duels[d]) /\ AcceptedOK(duels[d], d \in accepted)
      /\ \A d \in job[p] : duels[d].status # "none"
  BY DEF IInv, TypeOK
<1>2. \A d \in job[p], s \in Sides : To("duel_expired", d, duels[d].player[s]) \in Notice
  BY <1>1 DEF To, Notice, Kinds, RowOK, PlayersOK
<1>3. notes' \in SUBSET Notice /\ repeated' \in SUBSET Notice
  BY <1>1, <1>2 DEF ExpireNotify, HandOver, TypeOK
<1>4. job' = [job EXCEPT ![p] = {}]
  BY DEF ExpireNotify
<1>5. TypeOK'
  BY <1>1, <1>3, <1>4 DEF ExpireNotify, TypeOK
<1>6. \A i \in Replicas : \A d \in job'[i] : d \in job[i]
  BY <1>1, <1>4
<1> QED
  BY <1>1, <1>5, <1>6, Preserved DEF ExpireNotify

\* A replica stops.
LEMMA CrashInv ==
  ASSUME IInv, NEW p \in Replicas, Crash(p)
  PROVE  IInv'
<1>1. /\ TypeOK
      /\ \A d \in Duels : RowOK(duels[d]) /\ AcceptedOK(duels[d], d \in accepted)
  BY DEF IInv
<1>2. /\ \A r \in Requests : req'[r] = req[r] \/ req'[r] = Idle
      /\ DOMAIN req' = Requests
      /\ req' = [r \in Requests |-> req'[r]]
      /\ job' = [job EXCEPT ![p] = {}]
      /\ UNCHANGED <<duels, saved, recorded, catalog, notes, repeated, credited, accepted>>
  BY DEF Crash
<1>3. req' \in [Requests -> Request]
  BY <1>1, <1>2, IdleOK DEF TypeOK
<1>4. TypeOK'
  BY <1>1, <1>2, <1>3 DEF TypeOK
<1>5. \A r \in Requests : req'[r] = req[r] \/ RequestOK(req'[r], duels', accepted')
  BY <1>2, IdleOK
<1>6. \A i \in Replicas : \A d \in job'[i] : d \in job[i]
  BY <1>1, <1>2 DEF TypeOK
<1> QED
  BY <1>1, <1>2, <1>4, <1>5, <1>6, Preserved

-----------------------------------------------------------------------------
(* The safety theorems. *)

\* Every step keeps the invariant.
LEMMA NextInv == IInv /\ [Next]_vars => IInv'
<1> SUFFICES ASSUME IInv, [Next]_vars PROVE IInv'
  OBVIOUS
<1>1. CASE UNCHANGED vars
  <2>1. TypeOK /\ TypeOK'
    BY <1>1 DEF IInv, TypeOK, vars
  <2> QED
    BY <1>1, <2>1 DEF IInv, vars
<1>2. ASSUME NEW r \in Requests, RequestStep(r) PROVE IInv'
  BY <1>2, CreateCheckInv, CreateInsertInv, AnswerReadInv, AnswerWriteInv, SubmitBeginInv,
     SubmitReadInv, EnsureSavedInv, SubmitWriteInv, NotifyInv, RequestErrorInv
  DEF RequestStep
<1>3. ASSUME NEW p \in Replicas, ExpireDuels(p) \/ ExpireNotify(p) \/ Crash(p) PROVE IInv'
  BY <1>3, ExpireDuelsInv, ExpireNotifyInv, CrashInv
<1>4. ASSUME NEW d \in Duels, PassDeadline(d) PROVE IInv'
  BY <1>4, PassDeadlineInv
<1>5. ASSUME NEW a \in Attempts,
               RecordAttempt(a) \/ SaveAttempt(a) \/ UnsaveAttempt(a) PROVE IInv'
  BY <1>5, RecordAttemptInv, SaveAttemptInv, UnsaveAttemptInv
<1>6. ASSUME NEW dn \in Dances, SetDanceStatus(dn) \/ DeleteDance(dn) PROVE IInv'
  BY <1>6, SetDanceStatusInv, DeleteDanceInv
<1> QED
  BY <1>1, <1>2, <1>3, <1>4, <1>5, <1>6 DEF Next

\* The duel service keeps IInv: rows, and the copies of rows that requests carry
\* from SubmitDuelAttempt's read to its UPDATE, stay sound in every interleaving.
THEOREM Invariance == Spec => []IInv
  BY InitInv, NextInv, PTL DEF Spec

\* Every variable keeps its type.
THEOREM TypeCorrect == Spec => []TypeOK
<1>1. IInv => TypeOK
  BY DEF IInv
<1> QED
  BY <1>1, Invariance, PTL

\* SubmitDuelAttempt never completes a duel without both scores or for a loser.
THEOREM WinnerCorrect == Spec => []WinnerIsNotBeaten
<1>1. IInv => WinnerIsNotBeaten
  BY DEF IInv, WinnerIsNotBeaten, RowOK, ResultOK
<1> QED
  BY <1>1, Invariance, PTL

\* Scores and attempts of a duel are those of its own players, through carried
\* copies, overwriting UPDATEs and ON DELETE SET NULL.
THEOREM ScoresCorrect == Spec => []ScoresComeFromOwnAttempts
<1>1. IInv => ScoresComeFromOwnAttempts
  BY DEF IInv, ScoresComeFromOwnAttempts, RowOK, SourceOK
<1> QED
  BY <1>1, Invariance, PTL

\* A duel that was not accepted is never in play and never scored.
THEOREM AcceptedFirst == Spec => []NoScoreBeforeAcceptance
<1>1. IInv => NoScoreBeforeAcceptance
  BY DEF IInv, NoScoreBeforeAcceptance, AcceptedOK
<1> QED
  BY <1>1, Invariance, PTL

\* A duel becomes public only by completing it with the consent of both.
THEOREM PublicCorrect == Spec => []PublicNeedsBothConsents
<1>1. IInv => PublicNeedsBothConsents
  BY DEF IInv, PublicNeedsBothConsents, RowOK, PublicOK
<1> QED
  BY <1>1, Invariance, PTL

-----------------------------------------------------------------------------
(* Finished duels, and the refinement of DuelLifecycle. *)

\* What a rewrite of rows that spares their results means for both.
LEMMA SameBars ==
  ASSUME \A d \in Duels : SameColumns(duels'[d], duels[d])
  PROVE  /\ phaseBar' = phaseBar /\ resultBar' = resultBar
         /\ \A d \in Duels : Ending(duels'[d]) = Ending(duels[d])
<1>1. \A d \in Duels : /\ PhaseOf(duels'[d]) = PhaseOf(duels[d])
                       /\ ResultOf(duels'[d]) = ResultOf(duels[d])
                       /\ Ending(duels'[d]) = Ending(duels[d])
  BY DEF SameColumns, PhaseOf, ResultOf, Ending
<1> QED
  BY <1>1 DEF phaseBar, resultBar

\* What writing one row means.
LEMMA OneRow ==
  ASSUME duels \in [Duels -> Row], NEW d \in Duels, NEW new,
         duels' = [duels EXCEPT ![d] = new]
  PROVE  /\ phaseBar' = [phaseBar EXCEPT ![d] = PhaseOf(new)]
         /\ resultBar' = [resultBar EXCEPT ![d] = ResultOf(new)]
         /\ \A e \in Duels \ {d} : duels'[e] = duels[e]
  BY DEF phaseBar, resultBar

\* The step of a duel's life that one action takes, and what it leaves alone.
LifeStep == /\ [Lifecycle!Next]_(Lifecycle!lifeVars)
            /\ \A d \in Duels : duels[d].status \in Terminal =>
                 Ending(duels'[d]) = Ending(duels[d])

\* None, when the results of all duels stay the same.
LEMMA QuietLife ==
  ASSUME \A d \in Duels : SameColumns(duels'[d], duels[d])
  PROVE  LifeStep
  BY SameBars DEF LifeStep, Lifecycle!lifeVars

\* Inserting a challenge.
LEMMA CreateInsertLife ==
  ASSUME IInv, NEW r \in Requests, CreateInsert(r)
  PROVE  LifeStep
<1>1. duels \in [Duels -> Row] /\ RequestOK(req[r], duels, accepted) /\ req[r].pc = "insert"
  BY DEF IInv, TypeOK, CreateInsert
<1>2. CASE UNCHANGED duels
  BY <1>2, QuietLife DEF SameColumns
<1>3. CASE ~UNCHANGED duels
  <2>1. PICK d \in Duels : /\ duels[d].status = "none"
                           /\ duels' = [duels EXCEPT ![d] = req[r].snap]
    BY <1>3 DEF CreateInsert
  <2>2. req[r].snap.status = "pending"
    BY <1>1 DEF RequestOK
  <2>3. /\ PhaseOf(req[r].snap) = "pending" /\ ResultOf(req[r].snap) = None
        /\ phaseBar[d] = "none" /\ resultBar[d] = None /\ resultBar \in [Duels -> {resultBar[e] : e \in Duels}]
    BY <2>1, <2>2 DEF PhaseOf, ResultOf, phaseBar, resultBar, PlayStatuses
  <2>4. /\ phaseBar' = [phaseBar EXCEPT ![d] = PhaseOf(req[r].snap)]
        /\ resultBar' = [resultBar EXCEPT ![d] = ResultOf(req[r].snap)]
        /\ \A e \in Duels \ {d} : duels'[e] = duels[e]
    BY <1>1, <2>1, OneRow
  <2>5. resultBar' = resultBar
    BY <2>3, <2>4
  <2>6. Lifecycle!Challenge(d)
    BY <2>3, <2>4, <2>5 DEF Lifecycle!Challenge, Lifecycle!Move
  <2> QED
    BY <2>1, <2>4, <2>6 DEF LifeStep, Lifecycle!Next, Terminal
<1> QED
  BY <1>2, <1>3

\* Accepting and declining.
LEMMA AnswerWriteLife ==
  ASSUME IInv, NEW r \in Requests, AnswerWrite(r)
  PROVE  LifeStep
<1> DEFINE d  == req[r].duel
           st == IF req[r].op = "accept" THEN "active" ELSE "declined"
           new == Updated(duels[d], Answer(st), None, FALSE)
<1>1. /\ duels \in [Duels -> Row] /\ RequestOK(req[r], duels, accepted)
      /\ d \in Duels
  BY DEF IInv, TypeOK, AnswerWrite, RequestOK, UnderWay
<1>2. CASE Updatable(duels[d], None)
  <2>1. new.status = st
    BY <1>1, <1>2, AnsweredRow DEF IInv
  <2>2. duels' = [duels EXCEPT ![d] = new] /\ duels[d].status = "pending"
    BY <1>2 DEF AnswerWrite, Updatable
  <2> HIDE DEF new
  <2>3. /\ PhaseOf(new) = IF req[r].op = "accept" THEN "live" ELSE "declined"
        /\ ResultOf(new) = None
        /\ phaseBar[d] = "pending" /\ resultBar[d] = None
        /\ resultBar \in [Duels -> {resultBar[e] : e \in Duels}]
    BY <1>1, <2>1, <2>2 DEF PhaseOf, ResultOf, phaseBar, resultBar, PlayStatuses
  <2>4. /\ phaseBar' = [phaseBar EXCEPT ![d] = PhaseOf(new)]
        /\ resultBar' = [resultBar EXCEPT ![d] = ResultOf(new)]
        /\ \A e \in Duels \ {d} : duels'[e] = duels[e]
    BY <1>1, <2>2, OneRow
  <2>5. resultBar' = resultBar
    BY <2>3, <2>4
  <2>6. Lifecycle!Accept(d) \/ Lifecycle!Decline(d)
    BY <2>3, <2>4, <2>5 DEF Lifecycle!Accept, Lifecycle!Decline, Lifecycle!Move
  <2> QED
    BY <1>1, <2>2, <2>4, <2>6 DEF LifeStep, Lifecycle!Next, Terminal
<1>3. CASE ~Updatable(duels[d], None)
  BY <1>3, QuietLife DEF AnswerWrite, SameColumns
<1> QED
  BY <1>2, <1>3

\* A result the service may record is a result of the abstract life cycle.
LEMMA ResultIsResult ==
  ASSUME NEW row \in Row, RowOK(row), row.status = "completed"
  PROVE  ResultOf(row) \in Lifecycle!Results
<1>1. /\ row.player \in [Sides -> Users]
      /\ row.score \in [Sides -> Nat]
  BY DEF RowOK, PlayersOK, ResultOK, Row
<1>2. PICK s \in Sides : /\ row.winner = row.player[s]
                         /\ row.score[Other(s)] <= row.score[s]
  BY DEF RowOK, ResultOK
<1>3. \A o \in Sides : row.score[o] <= row.score[s]
  BY <1>1, <1>2, OtherSide
<1>4. row.winner \in Users
  BY <1>1, <1>2
<1>5. ResultOf(row) = [player |-> row.player, score |-> row.score, winner |-> row.winner]
  BY DEF ResultOf
<1> QED
  BY <1>1, <1>2, <1>3, <1>4, <1>5 DEF Lifecycle!Results, Lifecycle!Sides, Sides

\* Submitting: the duel stays in play, or is completed with a proper result.
LEMMA SubmitWriteLife ==
  ASSUME IInv, IInv', NEW r \in Requests, SubmitWrite(r)
  PROVE  LifeStep
<1> DEFINE q    == req[r]
           d    == q.duel
           side == SideOf(q.snap, q.user)
           sub  == Submission(q.snap, side, q.attempt)
           new  == Updated(duels[d], sub, side, q.consent)
           ok   == /\ Updatable(duels[d], side)
                   /\ \A s \in Sides : sub.attempt[s] # None => saved[sub.attempt[s]] # NotSaved
<1>1. /\ duels \in [Duels -> Row] /\ q \in Request /\ RequestOK(q, duels, accepted)
      /\ q.pc = "write" /\ d \in Duels /\ q.op = "submit"
  BY DEF IInv, TypeOK, SubmitWrite, RequestOK, UnderWay
<1>2. duels[d] \in Row /\ RowOK(duels[d]) /\ AcceptedOK(duels[d], d \in accepted)
  BY <1>1 DEF IInv
<1>3. /\ q.attempt \in Attempts /\ AttemptOwner[q.attempt] = q.user
      /\ IsPlayer(q.snap, q.user) /\ q.snap.status \in PlayStatuses
      /\ d \in accepted /\ duels[d].player = q.snap.player
      /\ RowOK(q.snap) /\ q.snap \in Row /\ q.consent \in BOOLEAN
  BY <1>1 DEF RequestOK, SubmitOK, UnderWay, Request
<1>4. side \in Sides /\ q.snap.player[side] = q.user
  BY <1>3, SideOfPlayer
<1>5. CASE ok
  <2>1. duels[d].status \in PlayStatuses
    BY <1>2, <1>3, <1>5 DEF AcceptedOK, Updatable, OpenStatuses, PlayStatuses
  <2> HIDE DEF side
  <2>2. /\ new \in Row /\ RowOK(new) /\ new.status \in PlayStatuses \cup {"completed"}
    BY <1>2, <1>3, <1>4, <1>5, SubmittedRow
  <2>3. duels' = [duels EXCEPT ![d] = new]
    BY <1>5 DEF SubmitWrite, SubmissionOf, side
  <2> HIDE DEF new, sub
  <2>4. /\ phaseBar' = [phaseBar EXCEPT ![d] = PhaseOf(new)]
        /\ resultBar' = [resultBar EXCEPT ![d] = ResultOf(new)]
        /\ \A e \in Duels \ {d} : duels'[e] = duels[e]
    BY <1>1, <2>3, OneRow
  <2>5. /\ phaseBar[d] = "live" /\ resultBar[d] = None
        /\ phaseBar \in [Duels -> {phaseBar[e] : e \in Duels}]
        /\ resultBar \in [Duels -> {resultBar[e] : e \in Duels}]
    BY <1>1, <2>1 DEF PhaseOf, ResultOf, phaseBar, resultBar, PlayStatuses
  <2>6. CASE new.status = "completed"
    <3>1. PhaseOf(new) = "completed" /\ ResultOf(new) \in Lifecycle!Results
      BY <2>2, <2>6, ResultIsResult DEF PhaseOf, PlayStatuses
    <3>2. resultBar'[d] = ResultOf(new)
      BY <1>1, <2>4, <2>5
    <3>3. Lifecycle!Complete(d)
      BY <2>4, <2>5, <3>1, <3>2 DEF Lifecycle!Complete
    <3> QED
      BY <1>1, <2>1, <2>4, <3>3 DEF LifeStep, Lifecycle!Next, Terminal, PlayStatuses
  <2>7. CASE new.status # "completed"
    <3>1. PhaseOf(new) = "live" /\ ResultOf(new) = None
      BY <2>2, <2>7 DEF PhaseOf, ResultOf
    <3>2. phaseBar' = phaseBar /\ resultBar' = resultBar
      BY <2>4, <2>5, <3>1
    <3> QED
      BY <1>1, <2>1, <2>4, <3>2 DEF LifeStep, Lifecycle!lifeVars, Terminal, PlayStatuses
  <2> QED
    BY <2>6, <2>7
<1>6. CASE ~ok
  <2>1. UNCHANGED duels
    BY <1>6 DEF SubmitWrite, SubmissionOf
  <2> QED
    BY <2>1, QuietLife DEF SameColumns
<1> QED
  BY <1>5, <1>6

\* Expiring.
LEMMA ExpireDuelsLife ==
  ASSUME IInv, NEW p \in Replicas, ExpireDuels(p)
  PROVE  LifeStep
<1>1. duels \in [Duels -> Row]
  BY DEF IInv, TypeOK
<1>2. /\ Late \subseteq Duels
      /\ \A d \in Late : duels[d].status \in OpenStatuses
  BY DEF Late
<1>3. \A d \in Duels : duels'[d] = IF d \in Late THEN [duels[d] EXCEPT !.status = "expired"]
                                                 ELSE duels[d]
  BY DEF ExpireDuels
<1>4. \A d \in Duels : /\ d \in Late => phaseBar[d] \in {"pending", "live"}
                       /\ PhaseOf(duels'[d]) = IF d \in Late THEN "expired" ELSE phaseBar[d]
                       /\ ResultOf(duels'[d]) = ResultOf(duels[d])
  <2> SUFFICES ASSUME NEW d \in Duels
               PROVE  /\ d \in Late => phaseBar[d] \in {"pending", "live"}
                      /\ PhaseOf(duels'[d]) = IF d \in Late THEN "expired" ELSE phaseBar[d]
                      /\ ResultOf(duels'[d]) = ResultOf(duels[d])
    OBVIOUS
  <2>1. CASE d \in Late
    <3>1. duels'[d].status = "expired" /\ duels[d].status \in OpenStatuses
      BY <1>1, <1>2, <1>3, <2>1 DEF Row
    <3> QED
      BY <2>1, <3>1 DEF PhaseOf, ResultOf, phaseBar, PlayStatuses, OpenStatuses
  <2>2. CASE d \notin Late
    BY <1>3, <2>2 DEF phaseBar
  <2> QED
    BY <2>1, <2>2
<1>5. phaseBar' = [d \in Duels |-> IF d \in Late THEN "expired" ELSE phaseBar[d]]
  BY <1>4 DEF phaseBar
<1>6. resultBar' = resultBar
  BY <1>4 DEF resultBar
<1>7. Late \in SUBSET {d \in Duels : phaseBar[d] \in {"pending", "live"}}
  BY <1>2, <1>4
<1>8. Lifecycle!Expire
  BY <1>5, <1>6, <1>7 DEF Lifecycle!Expire
<1>9. \A d \in Duels : duels[d].status \in Terminal => duels'[d] = duels[d]
  BY <1>2, <1>3 DEF Terminal, OpenStatuses
<1> QED
  BY <1>8, <1>9 DEF LifeStep, Lifecycle!Next

\* Every step of the service is a step of the life cycle or none of its business.
LEMMA NextLife == IInv /\ IInv' /\ [Next]_vars => LifeStep
<1> SUFFICES ASSUME IInv, IInv', [Next]_vars PROVE LifeStep
  OBVIOUS
<1>1. CASE UNCHANGED duels
  BY <1>1, QuietLife DEF SameColumns
<1>2. ASSUME NEW r \in Requests, RequestStep(r) PROVE LifeStep
  <2>1. UNCHANGED duels \/ CreateInsert(r) \/ AnswerWrite(r) \/ SubmitWrite(r)
    BY <1>2 DEF RequestStep, CreateCheck, AnswerRead, SubmitBegin, SubmitRead, EnsureSaved,
                Notify, RequestError
  <2> QED
    BY <1>1, <2>1, CreateInsertLife, AnswerWriteLife, SubmitWriteLife
<1>3. ASSUME NEW p \in Replicas, ExpireDuels(p) \/ ExpireNotify(p) \/ Crash(p) PROVE LifeStep
  BY <1>1, <1>3, ExpireDuelsLife DEF ExpireNotify, Crash
<1>4. ASSUME NEW d \in Duels, PassDeadline(d) PROVE LifeStep
  BY <1>4, PassDeadlineRows, QuietLife
<1>5. ASSUME NEW a \in Attempts,
               RecordAttempt(a) \/ SaveAttempt(a) \/ UnsaveAttempt(a) PROVE LifeStep
  BY <1>1, <1>5, UnsaveAttemptRows, QuietLife DEF RecordAttempt, SaveAttempt
<1>6. ASSUME NEW dn \in Dances, SetDanceStatus(dn) \/ DeleteDance(dn) PROVE LifeStep
  BY <1>1, <1>6, DeleteDanceRows, QuietLife DEF SetDanceStatus
<1> QED
  BY <1>1, <1>2, <1>3, <1>4, <1>5, <1>6 DEF Next, vars

\* The WHERE clauses of update_duel_status.sql and expire_duels.sql keep every
\* stale write away from a duel that is over.
THEOREM EndingsKept == Spec => EndedDuelsKeepTheirEnding
<1>1. IInv /\ IInv' /\ [Next]_vars =>
        [\A d \in Duels : duels[d].status \in Terminal =>
           Ending(duels'[d]) = Ending(duels[d])]_vars
  BY NextLife DEF LifeStep
<1> QED
  BY <1>1, Invariance, PTL DEF Spec, EndedDuelsKeepTheirEnding

\* The duel service implements the abstract life cycle of DuelLifecycle.
THEOREM Refinement == Spec => LifecycleSpec
<1>1. Init => Lifecycle!Init
  BY DEF Init, Tables!Init, Catalog!Init, Lifecycle!Init, phaseBar, resultBar, PhaseOf,
         ResultOf, NoRow, PlayStatuses
<1>2. IInv /\ IInv' /\ [Next]_vars => [Lifecycle!Next]_(Lifecycle!lifeVars)
  BY NextLife DEF LifeStep
<1> QED
  BY <1>1, <1>2, Invariance, PTL DEF Spec, LifecycleSpec, Lifecycle!Spec

-----------------------------------------------------------------------------
(* Open twins: duels of one challenger against one opponent on one dance.  *)

Twins(u, o, dn) ==
  {d \in Duels : /\ duels[d].status \in OpenStatuses
                 /\ duels[d].player["challenger"] = u
                 /\ duels[d].player["opponent"] = o
                 /\ duels[d].dance = dn}

\* The requests that have found no such duel and will insert one.
Inserting(u, o, dn) ==
  {r \in Requests : /\ req[r].pc = "insert"
                    /\ req[r].snap.player["challenger"] = u
                    /\ req[r].snap.player["opponent"] = o
                    /\ req[r].snap.dance = dn}

\* Whoever passes CreateDuel's check finds no twin, so the twins there are and will be never
\* outnumber the slots.
TwinsOK(u, o, dn) ==
  /\ IsFiniteSet(Twins(u, o, dn))
  /\ Cardinality(Twins(u, o, dn)) + Cardinality(Inserting(u, o, dn)) <= Cardinality(Requests)

TwinInv == IInv /\ \A u \in Users, o \in Users, dn \in Dances : TwinsOK(u, o, dn)

\* A step makes no twin of a duel that was none, and gives no open duel more time.
SameDuel(new, row) == new.status \in OpenStatuses =>
  /\ row.status \in OpenStatuses
  /\ new.player = row.player
  /\ new.dance \in {row.dance, None}
  /\ row.overdue => new.overdue

\* Requests that insert are finitely many.
LEMMA InsertingFinite ==
  ASSUME NEW u, NEW o, NEW dn
  PROVE  /\ IsFiniteSet(Inserting(u, o, dn))
         /\ Cardinality(Inserting(u, o, dn)) \in Nat
         /\ Cardinality(Inserting(u, o, dn)) <= Cardinality(Requests)
         /\ Cardinality(Requests) \in Nat
  BY FS_Subset, FS_CardinalityType, DuelAssumption DEF Inserting

\* Where neither gets larger, the bound stays.
LEMMA FewerTwins ==
  ASSUME NEW u, NEW o, NEW dn, TwinsOK(u, o, dn),
         Twins(u, o, dn)' \subseteq Twins(u, o, dn),
         Inserting(u, o, dn)' \subseteq Inserting(u, o, dn)
  PROVE  TwinsOK(u, o, dn)'
<1> DEFINE T == Twins(u, o, dn)
           I == Inserting(u, o, dn)
<1>1. /\ IsFiniteSet(T) /\ IsFiniteSet(I)
      /\ Cardinality(T) + Cardinality(I) <= Cardinality(Requests)
      /\ T' \subseteq T /\ I' \subseteq I
  BY InsertingFinite DEF TwinsOK
<1>2. IsFiniteSet(T') /\ Cardinality(T') <= Cardinality(T) /\ Cardinality(I') <= Cardinality(I)
  BY <1>1, FS_Subset
<1>3. /\ Cardinality(T) \in Nat /\ Cardinality(T') \in Nat /\ Cardinality(Requests) \in Nat
      /\ Cardinality(I) \in Nat /\ Cardinality(I') \in Nat
  <2>1. IsFiniteSet(I')
    BY <1>1, FS_Subset
  <2> QED
    BY <1>1, <1>2, <2>1, FS_CardinalityType, DuelAssumption
<1> HIDE DEF T, I
<1>4. Cardinality(T') + Cardinality(I') <= Cardinality(Requests)
  BY <1>1, <1>2, <1>3
<1> QED
  BY <1>2, <1>4 DEF TwinsOK, T, I

\* An UPDATE of duels leaves the dance and the deadline of a row alone.
LEMMA UpdatedDance ==
  ASSUME NEW row \in Row, NEW new, NEW side, NEW c \in BOOLEAN
  PROVE  /\ Updated(row, new, side, c).dance = row.dance
         /\ Updated(row, new, side, c).overdue = row.overdue
<1>1. PICK consent, pub :
        Updated(row, new, side, c) =
          [row EXCEPT !.status = new.status, !.attempt = new.attempt, !.score = new.score,
                      !.winner = new.winner, !.consent = consent, !.isPublic = pub]
  BY Zenon DEF Updated
<1> QED
  BY <1>1 DEF Row

\* Only an INSERT makes an open duel out of nothing, and no step gives a duel other players.
LEMMA RowsKeepTheirDuel ==
  ASSUME IInv, [Next]_vars, \A r \in Requests : ~CreateInsert(r), NEW d \in Duels
  PROVE  SameDuel(duels'[d], duels[d])
<1>1. TypeOK /\ duels \in [Duels -> Row]
  BY DEF IInv, TypeOK
<1>2. CASE UNCHANGED duels
  BY <1>2 DEF SameDuel
<1>3. ASSUME NEW r \in Requests, AnswerWrite(r) PROVE SameDuel(duels'[d], duels[d])
  <2> DEFINE e  == req[r].duel
             st == IF req[r].op = "accept" THEN "active" ELSE "declined"
             new == Updated(duels[e], Answer(st), None, FALSE)
  <2>1. CASE Updatable(duels[e], None)
    <3>1. e \in Duels /\ RowOK(duels[e]) /\ duels[e] \in Row
      BY <1>1, <1>3 DEF IInv, AnswerWrite, RequestOK, UnderWay
    <3>3. new.player = duels[e].player
      BY <2>1, <3>1, AnsweredRow
    <3>4. new.dance = duels[e].dance /\ new.overdue = duels[e].overdue
      <4> DEFINE ans == Answer(st)
      <4> HIDE DEF ans
      <4>1. LET up == Updated(duels[e], ans, None, FALSE) IN
            up.dance = duels[e].dance /\ up.overdue = duels[e].overdue
        BY <3>1, UpdatedDance
      <4> QED
        BY <4>1 DEF ans
    <3>5. duels' = [duels EXCEPT ![e] = new] /\ duels[e].status \in OpenStatuses
      BY <1>3, <2>1 DEF AnswerWrite, Updatable
    <3> HIDE DEF new
    <3> QED
      BY <1>1, <3>3, <3>4, <3>5 DEF SameDuel
  <2>2. CASE ~Updatable(duels[e], None)
    BY <1>2, <1>3, <2>2 DEF AnswerWrite
  <2> QED
    BY <2>1, <2>2
<1>4. ASSUME NEW r \in Requests, SubmitWrite(r) PROVE SameDuel(duels'[d], duels[d])
  <2> DEFINE q    == req[r]
             e    == q.duel
             side == SideOf(q.snap, q.user)
             sub  == Submission(q.snap, side, q.attempt)
             new  == Updated(duels[e], sub, side, q.consent)
  <2>1. CASE UNCHANGED duels
    BY <1>2, <2>1
  <2>2. CASE duels' = [duels EXCEPT ![e] = new] /\ Updatable(duels[e], side)
    <3>1. /\ q \in Request /\ RequestOK(q, duels, accepted) /\ q.pc = "write"
          /\ q.op = "submit" /\ e \in Duels
      BY <1>1, <1>4 DEF IInv, TypeOK, SubmitWrite, RequestOK, UnderWay
    <3>2. /\ q.attempt \in Attempts /\ IsPlayer(q.snap, q.user)
          /\ q.snap.status \in PlayStatuses /\ q.snap \in Row
          /\ q.consent \in BOOLEAN /\ duels[e] \in Row
      BY <1>1, <3>1 DEF RequestOK, SubmitOK, UnderWay, Request
    <3>3. side \in Sides
      BY <3>2, SideOfPlayer
    <3>4. sub \in Change
      BY <3>2, <3>3, SubmissionChange
    <3>5. /\ new.player = duels[e].player /\ new.dance = duels[e].dance
          /\ new.overdue = duels[e].overdue
      BY <3>2, <3>3, <3>4, UpdatedRow, UpdatedDance
    <3>6. duels[e].status \in OpenStatuses
      BY <2>2 DEF Updatable
    <3> HIDE DEF new
    <3> QED
      BY <1>1, <2>2, <3>5, <3>6 DEF SameDuel
  <2> QED
    BY <1>4, <2>1, <2>2 DEF SubmitWrite, SubmissionOf
<1>5. ASSUME NEW r \in Requests, RequestStep(r) PROVE SameDuel(duels'[d], duels[d])
  <2>1. UNCHANGED duels \/ AnswerWrite(r) \/ SubmitWrite(r)
    BY <1>5 DEF RequestStep, CreateCheck, AnswerRead, SubmitBegin, SubmitRead, EnsureSaved,
                Notify, RequestError
  <2> QED
    BY <1>2, <1>3, <1>4, <2>1
<1>6. ASSUME NEW p \in Replicas, ExpireDuels(p) PROVE SameDuel(duels'[d], duels[d])
  <2>1. duels'[d] = IF d \in Late THEN [duels[d] EXCEPT !.status = "expired"] ELSE duels[d]
    BY <1>6 DEF ExpireDuels
  <2>2. duels'[d].status = "expired" \/ duels'[d] = duels[d]
    BY <1>1, <2>1 DEF Row
  <2> QED
    BY <2>2 DEF SameDuel, OpenStatuses
<1>7. ASSUME NEW e \in Duels, PassDeadline(e) PROVE SameDuel(duels'[d], duels[d])
  <2>1. duels' = [duels EXCEPT ![e].overdue = TRUE]
    BY <1>7 DEF PassDeadline
  <2>2. duels'[d] \in {duels[d], [duels[d] EXCEPT !.overdue = TRUE]}
    BY <1>1, <2>1
  <2> QED
    BY <1>1, <2>2 DEF SameDuel, Row
<1>8. \A gone : LET f == Forget(duels[d], gone) IN
        /\ f \in Row /\ f.status = duels[d].status
        /\ f.player = duels[d].player /\ f.dance = duels[d].dance
        /\ f.overdue = duels[d].overdue
  <2> SUFFICES ASSUME NEW gone
               PROVE  LET f == Forget(duels[d], gone) IN
                      /\ f \in Row /\ f.status = duels[d].status
                      /\ f.player = duels[d].player /\ f.dance = duels[d].dance
                      /\ f.overdue = duels[d].overdue
    OBVIOUS
  <2> DEFINE f == Forget(duels[d], gone)
  <2>1. f \in Row /\ f = [duels[d] EXCEPT !.attempt = f.attempt]
    BY <1>1, ForgetRow
  <2> HIDE DEF f
  <2>2. /\ f.status = duels[d].status /\ f.player = duels[d].player
        /\ f.dance = duels[d].dance /\ f.overdue = duels[d].overdue
    BY <1>1, <2>1 DEF Row
  <2> QED
    BY <2>1, <2>2 DEF f
<1>9. ASSUME NEW a \in Attempts, UnsaveAttempt(a) PROVE SameDuel(duels'[d], duels[d])
  <2>1. duels'[d] = Forget(duels[d], {a})
    BY <1>9 DEF UnsaveAttempt
  <2> QED
    BY <1>8, <2>1 DEF SameDuel
<1>10. ASSUME NEW dn \in Dances, DeleteDance(dn) PROVE SameDuel(duels'[d], duels[d])
  <2> DEFINE gone == {a \in Attempts : saved[a] = dn}
             f    == Forget(duels[d], gone)
  <2>1. /\ f \in Row /\ f.status = duels[d].status
        /\ f.player = duels[d].player /\ f.dance = duels[d].dance
        /\ f.overdue = duels[d].overdue
    BY <1>8
  <2>2. duels'[d] = [f EXCEPT !.dance = IF @ = dn THEN None ELSE @]
    BY <1>10 DEF DeleteDance
  <2> HIDE DEF f, gone
  <2> QED
    BY <2>1, <2>2 DEF SameDuel, Row
<1>11. CASE UNCHANGED vars
  BY <1>2, <1>11 DEF vars
<1>12. ASSUME NEW p \in Replicas, ExpireNotify(p) \/ Crash(p) PROVE SameDuel(duels'[d], duels[d])
  BY <1>2, <1>12 DEF ExpireNotify, Crash
<1>13. ASSUME NEW a \in Attempts, RecordAttempt(a) \/ SaveAttempt(a)
       PROVE  SameDuel(duels'[d], duels[d])
  BY <1>2, <1>13 DEF RecordAttempt, SaveAttempt
<1>14. ASSUME NEW dn \in Dances, SetDanceStatus(dn) PROVE SameDuel(duels'[d], duels[d])
  BY <1>2, <1>14 DEF SetDanceStatus
<1> QED
  BY <1>5, <1>6, <1>7, <1>9, <1>10, <1>11, <1>12, <1>13, <1>14 DEF Next

\* Only CreateDuel's check lets a request insert.
LEMMA OnlyChecksInsert ==
  ASSUME IInv, [Next]_vars, \A r \in Requests : ~CreateCheck(r), NEW s \in Requests
  PROVE  req'[s].pc = "insert" => req'[s] = req[s]
<1>1. req \in [Requests -> Request]
  BY DEF IInv, TypeOK
<1>2. CASE UNCHANGED req
  BY <1>2
<1>3. \A r \in Requests : \A q : (req' = [req EXCEPT ![r] = q] /\ q.pc # "insert") =>
        (req'[s].pc = "insert" => req'[s] = req[s])
  BY <1>1
<1>4. ASSUME NEW r \in Requests, RequestStep(r) PROVE req'[s].pc = "insert" => req'[s] = req[s]
  <2>1. \A pc \in {"write", "notify", "next"} : [req[r] EXCEPT !.pc = pc].pc = pc
    BY <1>1 DEF Request
  <2>2. ASSUME Finish(r) PROVE req'[s].pc = "insert" => req'[s] = req[s]
    <3>1. req' = [req EXCEPT ![r] = IF req[r].rest = {} THEN Idle
                                                        ELSE [req[r] EXCEPT !.pc = "next"]]
      BY <1>1, <2>2 DEF Finish
    <3>2. (IF req[r].rest = {} THEN Idle ELSE [req[r] EXCEPT !.pc = "next"]).pc # "insert"
      BY <2>1 DEF Idle
    <3> QED
      BY <1>3, <3>1, <3>2
  <2>3. ASSUME NEW pc \in {"write", "notify"}, Goto(r, pc)
        PROVE  req'[s].pc = "insert" => req'[s] = req[s]
    <3>1. req' = [req EXCEPT ![r] = [req[r] EXCEPT !.pc = pc]]
      BY <1>1, <2>3 DEF Goto
    <3> QED
      BY <1>3, <2>1, <3>1
  <2>4. CASE CreateInsert(r)
    <3>1. CASE Finish(r)
      BY <2>2, <3>1
    <3>2. ASSUME NEW d \in Duels, req' = [req EXCEPT ![r].pc = "notify", ![r].duel = d]
          PROVE  req'[s].pc = "insert" => req'[s] = req[s]
      <4>1. req'[r].pc = "notify" /\ (s # r => req'[s] = req[s])
        BY <1>1, <3>2 DEF Request
      <4> QED
        BY <4>1
    <3> QED
      BY <2>4, <3>1, <3>2 DEF CreateInsert
  <2>5. CASE AnswerRead(r)
    <3>1. (s # r => req'[s] = req[s]) /\ req'[r].pc = "write"
      BY <1>1, <2>5 DEF AnswerRead, Idle
    <3> QED
      BY <3>1
  <2>6. CASE SubmitBegin(r)
    <3>1. (s # r => req'[s] = req[s]) /\ req'[r].pc = "next"
      BY <1>1, <2>6 DEF SubmitBegin, Idle
    <3> QED
      BY <3>1
  <2>7. CASE SubmitRead(r)
    <3>1. PICK d \in req[r].rest :
            LET q == [req[r] EXCEPT !.rest = @ \ {d}] IN
            req' = [req EXCEPT ![r] =
              IF MaySubmit(duels[d], q.user, q.attempt)
                THEN [q EXCEPT !.pc = "save", !.duel = d, !.snap = duels[d]]
                ELSE IF q.rest = {} THEN Idle ELSE q]
      BY <2>7 DEF SubmitRead
    <3> DEFINE q  == [req[r] EXCEPT !.rest = @ \ {d}]
               to == [q EXCEPT !.pc = "save", !.duel = d, !.snap = duels[d]]
    <3>2. q.pc = "next" /\ to.pc = "save"
      BY <1>1, <2>7 DEF SubmitRead, Request
    <3>3. (s # r => req'[s] = req[s]) /\ req'[r] \in {to, Idle, q}
      BY <1>1, <3>1
    <3> HIDE DEF q, to
    <3> QED
      BY <3>2, <3>3 DEF Idle
  <2>8. CASE AnswerWrite(r)
    BY <2>2, <2>3, <2>8 DEF AnswerWrite
  <2>9. CASE EnsureSaved(r)
    BY <2>3, <2>9 DEF EnsureSaved
  <2>10. CASE SubmitWrite(r)
    BY <2>2, <2>3, <2>10 DEF SubmitWrite
  <2>11. CASE Notify(r) \/ RequestError(r)
    BY <2>2, <2>11 DEF Notify, RequestError
  <2> QED
    BY <1>4, <2>4, <2>5, <2>6, <2>7, <2>8, <2>9, <2>10, <2>11 DEF RequestStep
<1>5. ASSUME NEW p \in Replicas, Crash(p) PROVE req'[s].pc = "insert" => req'[s] = req[s]
  <2>1. req'[s] \in {req[s], Idle}
    BY <1>5 DEF Crash
  <2> QED
    BY <2>1 DEF Idle
<1>6. CASE UNCHANGED vars
  BY <1>2, <1>6 DEF vars
<1>7. ASSUME NEW p \in Replicas, ExpireDuels(p) \/ ExpireNotify(p)
      PROVE  req'[s].pc = "insert" => req'[s] = req[s]
  BY <1>2, <1>7 DEF ExpireDuels, ExpireNotify
<1>8. ASSUME NEW d \in Duels, PassDeadline(d) PROVE req'[s].pc = "insert" => req'[s] = req[s]
  BY <1>2, <1>8 DEF PassDeadline
<1>9. ASSUME NEW a \in Attempts,
               RecordAttempt(a) \/ SaveAttempt(a) \/ UnsaveAttempt(a)
      PROVE  req'[s].pc = "insert" => req'[s] = req[s]
  BY <1>2, <1>9 DEF RecordAttempt, SaveAttempt, UnsaveAttempt
<1>10. ASSUME NEW dn \in Dances, SetDanceStatus(dn) \/ DeleteDance(dn)
       PROVE  req'[s].pc = "insert" => req'[s] = req[s]
  BY <1>2, <1>10 DEF SetDanceStatus, DeleteDance
<1> QED
  BY <1>4, <1>5, <1>6, <1>7, <1>8, <1>9, <1>10 DEF Next

\* A step that is no INSERT makes no twin.
LEMMA NoNewTwin ==
  ASSUME IInv, [Next]_vars, \A r \in Requests : ~CreateInsert(r),
         NEW u, NEW o, NEW dn \in Dances
  PROVE  Twins(u, o, dn)' \subseteq Twins(u, o, dn)
  BY RowsKeepTheirDuel, DuelAssumption DEF Twins, SameDuel

\* The check, and the INSERT.
LEMMA CreateCheckTwins ==
  ASSUME TwinInv, NEW r \in Requests, CreateCheck(r),
         NEW u \in Users, NEW o \in Users, NEW dn \in Dances
  PROVE  TwinsOK(u, o, dn)'
<1>1. /\ IInv /\ TwinsOK(u, o, dn) /\ req \in [Requests -> Request]
      /\ UNCHANGED duels
  BY DEF TwinInv, IInv, TypeOK, CreateCheck
<1>2. /\ Twins(u, o, dn)' = Twins(u, o, dn)
  BY <1>1 DEF Twins
<1>3. CASE r \in Inserting(u, o, dn)'
  <2>1. PICK x \in Users, y \in Users, z \in Dances :
          /\ x # y
          /\ catalog[z] = "published"
          /\ ~HasOpenDuel(x, y, z)
          /\ req' = [req EXCEPT ![r] =
               [Idle EXCEPT !.pc = "insert", !.op = "create", !.user = x,
                         !.snap = [NoRow EXCEPT !.status = "pending", !.dance = z,
                                    !.player = [s \in Sides |-> IF s = "challenger" THEN x
                                                                                    ELSE y]]]]
    <3> HIDE DEF TwinInv
    <3> QED
      BY Zenon DEF CreateCheck
  <2>2. /\ req'[r].snap.player["challenger"] = x
        /\ req'[r].snap.player["opponent"] = y
        /\ req'[r].snap.dance = z
    BY <1>1, <2>1 DEF Idle, NoRow, Sides
  <2>3. x = u /\ y = o /\ z = dn
    BY <1>3, <2>2 DEF Inserting
  <2>4. Twins(u, o, dn) = {}
    BY <2>1, <2>3 DEF HasOpenDuel, Twins
  <2>5. IsFiniteSet({}) /\ Cardinality({}) = 0
    BY FS_EmptySet
  <2>6. /\ Cardinality(Inserting(u, o, dn)') \in Nat
        /\ Cardinality(Inserting(u, o, dn)') <= Cardinality(Requests)
    BY FS_Subset, FS_CardinalityType, DuelAssumption DEF Inserting
  <2>7. Twins(u, o, dn)' = {}
    BY <1>2, <2>4
  <2> HIDE DEF TwinInv
  <2> QED
    BY <2>5, <2>6, <2>7 DEF TwinsOK
<1>4. CASE r \notin Inserting(u, o, dn)'
  <2>1. \A s \in Requests \ {r} : req'[s] = req[s]
    BY <1>1 DEF CreateCheck
  <2>2. Inserting(u, o, dn)' \subseteq Inserting(u, o, dn)
    BY <1>4, <2>1 DEF Inserting
  <2> QED
    BY <1>1, <1>2, <2>2, FewerTwins
<1> QED
  BY <1>3, <1>4

\* The request that inserts a twin no longer waits to do so.
LEMMA CreateInsertTwins ==
  ASSUME TwinInv, NEW r \in Requests, CreateInsert(r), [Next]_vars,
         NEW u \in Users, NEW o \in Users, NEW dn \in Dances
  PROVE  TwinsOK(u, o, dn)'
<1> DEFINE T == Twins(u, o, dn)
           I == Inserting(u, o, dn)
<1>1. /\ IInv /\ TwinsOK(u, o, dn) /\ req \in [Requests -> Request] /\ duels \in [Duels -> Row]
      /\ req[r].pc = "insert"
  BY DEF TwinInv, IInv, TypeOK, CreateInsert
<1>2. ~\E s \in Requests : CreateCheck(s)
  <2>1. req'[r].pc # "insert"
    <3>1. CASE Finish(r)
      <4>1. req'[r] = IF req[r].rest = {} THEN Idle ELSE [req[r] EXCEPT !.pc = "next"]
        BY <1>1, <3>1 DEF Finish
      <4>2. [req[r] EXCEPT !.pc = "next"].pc = "next"
        BY <1>1 DEF Request
      <4> QED
        BY <4>1, <4>2 DEF Idle
    <3>2. ASSUME NEW d \in Duels, req' = [req EXCEPT ![r].pc = "notify", ![r].duel = d]
          PROVE  req'[r].pc # "insert"
      BY <1>1, <3>2 DEF Request
    <3> QED
      BY <3>1, <3>2 DEF CreateInsert
  <2>2. ASSUME NEW s \in Requests, CreateCheck(s) PROVE FALSE
    <3>1. req[s].pc = "idle" /\ (s # r => req'[r] = req[r])
      BY <1>1, <2>2 DEF CreateCheck
    <3> QED
      BY <1>1, <2>1, <3>1
  <2> QED
    BY <2>2
<1>3. I' \subseteq I
  BY <1>1, <1>2, OnlyChecksInsert DEF Inserting
<1>4. CASE UNCHANGED duels
  <2>1. T' = T
    BY <1>4 DEF Twins
  <2> QED
    BY <1>1, <1>3, <2>1, FewerTwins
<1>5. CASE ~UNCHANGED duels
  <2>1. PICK d \in Duels :
          /\ duels[d].status = "none"
          /\ duels' = [duels EXCEPT ![d] = req[r].snap]
          /\ req' = [req EXCEPT ![r].pc = "notify", ![r].duel = d]
    BY <1>5 DEF CreateInsert
  <2>2. req'[r].pc = "notify"
    BY <1>1, <2>1 DEF Request
  <2>3. CASE d \notin T'
    <3>1. T' \subseteq T
      BY <1>1, <2>1, <2>3 DEF Twins
    <3> QED
      BY <1>1, <1>3, <3>1, FewerTwins
  <2>4. CASE d \in T'
    <3>1. r \in I
      BY <1>1, <2>1, <2>4 DEF Inserting, Twins
    <3>2. I' \subseteq I \ {r}
      BY <1>3, <2>2 DEF Inserting
    <3>3. d \notin T /\ T' = T \cup {d}
      BY <1>1, <2>1, <2>4 DEF Twins, OpenStatuses
    <3>4. /\ IsFiniteSet(T) /\ IsFiniteSet(I) /\ Cardinality(I) \in Nat
          /\ Cardinality(T) + Cardinality(I) <= Cardinality(Requests)
      BY <1>1, InsertingFinite DEF TwinsOK
    <3> HIDE DEF T, I
    <3>5. /\ IsFiniteSet(T') /\ Cardinality(T') = Cardinality(T) + 1 /\ Cardinality(T) \in Nat
      BY <3>3, <3>4, FS_AddElement, FS_CardinalityType
    <3>6. IsFiniteSet(I \ {r}) /\ Cardinality(I \ {r}) = Cardinality(I) - 1
      BY <3>1, <3>4, FS_RemoveElement
    <3>7. /\ IsFiniteSet(I') /\ Cardinality(I') <= Cardinality(I) - 1 /\ Cardinality(I') \in Nat
      BY <3>2, <3>6, FS_Subset, FS_CardinalityType
    <3>8. Cardinality(Requests) \in Nat
      BY FS_CardinalityType, DuelAssumption
    <3>9. Cardinality(T') + Cardinality(I') <= Cardinality(Requests)
      BY <3>4, <3>5, <3>7, <3>8
    <3> QED
      BY <3>5, <3>9 DEF TwinsOK, T, I
  <2> QED
    BY <2>3, <2>4
<1> QED
  BY <1>4, <1>5

\* Every step keeps the bound.
LEMMA NextTwins == TwinInv /\ [Next]_vars => TwinInv'
<1> SUFFICES ASSUME TwinInv, [Next]_vars,
                    NEW u \in Users, NEW o \in Users, NEW dn \in Dances
             PROVE  TwinsOK(u, o, dn)'
  BY NextInv DEF TwinInv
<1>1. IInv /\ TwinsOK(u, o, dn)
  BY DEF TwinInv
<1>2. ASSUME NEW r \in Requests, CreateCheck(r) PROVE TwinsOK(u, o, dn)'
  BY <1>2, CreateCheckTwins
<1>3. ASSUME NEW r \in Requests, CreateInsert(r) PROVE TwinsOK(u, o, dn)'
  BY <1>3, CreateInsertTwins
<1>4. CASE ~\E r \in Requests : CreateCheck(r) \/ CreateInsert(r)
  <2>1. Twins(u, o, dn)' \subseteq Twins(u, o, dn)
    BY <1>1, <1>4, NoNewTwin
  <2>2. \A s \in Requests : req'[s].pc = "insert" => req'[s] = req[s]
    BY <1>1, <1>4, OnlyChecksInsert
  <2>3. Inserting(u, o, dn)' \subseteq Inserting(u, o, dn)
    BY <2>2 DEF Inserting
  <2> QED
    BY <1>1, <2>1, <2>3, FewerTwins
<1> QED
  BY <1>2, <1>3, <1>4

\* However many requests pass CreateDuel's check before one of them inserts, one challenger
\* has no more open duels against one opponent on one dance than requests run at a time.
THEOREM TwinsBounded == Spec => []OpenTwinsBounded
<1>1. Init => TwinInv
  <2> SUFFICES ASSUME Init, NEW u \in Users, NEW o \in Users, NEW dn \in Dances
               PROVE  TwinsOK(u, o, dn)
    BY InitInv DEF TwinInv
  <2>1. Twins(u, o, dn) = {} /\ Inserting(u, o, dn) = {}
    BY DEF Init, Tables!Init, Catalog!Init, Twins, Inserting, NoRow, OpenStatuses, Idle
  <2>2. IsFiniteSet({}) /\ Cardinality({}) = 0
    BY FS_EmptySet
  <2>3. Cardinality(Requests) \in Nat
    BY FS_CardinalityType, DuelAssumption
  <2> QED
    BY <2>1, <2>2, <2>3 DEF TwinsOK
<1>2. TwinInv => OpenTwinsBounded
  <2> SUFFICES ASSUME TwinInv, NEW u \in Users, NEW o \in Users, NEW dn \in Dances
               PROVE  Cardinality(Twins(u, o, dn)) <= Cardinality(Requests)
    BY DEF OpenTwinsBounded, Twins
  <2>1. TwinsOK(u, o, dn)
    BY DEF TwinInv
  <2>2. Cardinality(Twins(u, o, dn)) \in Nat
    BY <2>1, FS_CardinalityType DEF TwinsOK
  <2> QED
    BY <2>1, <2>2, InsertingFinite DEF TwinsOK
<1> QED
  BY <1>1, <1>2, NextTwins, PTL DEF Spec

-----------------------------------------------------------------------------
(***************************************************************************)
(* What players and consumers are told of a duel: the truth, and once.     *)
(* Notices are handed over some time after the UPDATE they are about, by   *)
(* handlers and by the expiry jobs of any number of replicas.  Two facts   *)
(* carry the proof: what an outcome notice says does not become false      *)
(* again, and it was false before the one UPDATE that caused it; so nobody *)
(* else can be about to say the same.                                      *)
(***************************************************************************)
\* The notices that are told once.
Once == Kinds \ {"duel_challenger_done", "duel_opponent_done"}

\* What notice n says is so.
NoticeOK(n) ==
  /\ n.kind = "duel_challenge_received" => duels[n.duel].status # "none"
  /\ n.kind = "duel_accepted" => n.duel \in accepted
  /\ n.kind = "duel_declined" => duels[n.duel].status = "declined"
  /\ n.kind = "duel_expired" => duels[n.duel].status = "expired"
  /\ n.kind \in {"duel_completed", "event_duel_completed"} =>
       duels[n.duel].status = "completed"
  /\ n.kind = "event_duel_completed" => n.to = duels[n.duel].winner

\* What request r is about to tell.
ToTell(r) == {n \in NoticesOf(req[r]) : req[r].pc = "notify"}

\* The inductive invariant, besides IInv: what was told and what will be is true; an
\* outcome that is still to be told was not told, and has one teller.
NotesOK == /\ \A n \in notes : NoticeOK(n)
           /\ \A n \in repeated : n.kind \notin Once

TellersOK == \A r \in Requests : \A n \in ToTell(r) :
  /\ NoticeOK(n)
  /\ n.kind \in Once => /\ n \notin notes
                        /\ \A s \in Requests \ {r} : n \notin ToTell(s)

JobsOK == \A p \in Replicas : \A d \in job[p] :
  /\ duels[d].status = "expired"
  /\ \A n \in notes : n.kind = "duel_expired" => n.duel # d
  /\ \A o \in Replicas \ {p} : d \notin job[o]

TInv == IInv /\ NotesOK /\ TellersOK /\ JobsOK

-----------------------------------------------------------------------------
(* Facts about notices. *)

\* A handler never tells that a duel has expired, and depends on nothing but the
\* duel, the copy and the arguments it carries.
LEMMA HandlerNotices ==
  ASSUME NEW q
  PROVE  /\ \A n \in NoticesOf(q) : n.kind # "duel_expired"
         /\ \A o : (/\ o.op = q.op /\ o.user = q.user /\ o.duel = q.duel
                    /\ o.attempt = q.attempt /\ o.snap = q.snap) => NoticesOf(o) = NoticesOf(q)
<1>1. CASE q.op = "create"
  BY <1>1 DEF NoticesOf, To
<1>2. CASE q.op = "accept"
  BY <1>2 DEF NoticesOf, To
<1>3. CASE q.op = "decline"
  BY <1>3 DEF NoticesOf, To
<1>4. CASE q.op \notin {"create", "accept", "decline"}
  <2> DEFINE Told(o, out) ==
        IF out.status = "completed"
          THEN {To("duel_completed", o.duel, o.snap.player[s]) : s \in Sides}
                 \cup {To("event_duel_completed", o.duel, out.winner)}
          ELSE {To(DoneNotif(SideOf(o.snap, o.user)), o.duel,
                   o.snap.player[Other(SideOf(o.snap, o.user))])}
  <2>1. \A o : o.op = q.op => NoticesOf(o) = Told(o, Outcome(o))
    BY <1>4 DEF NoticesOf
  <2>2. \A o : (/\ o.op = q.op /\ o.user = q.user /\ o.attempt = q.attempt
                /\ o.snap = q.snap) => Outcome(o) = Outcome(q)
    BY DEF Outcome, SubmissionOf
  <2>3. \A n \in Told(q, Outcome(q)) : n.kind # "duel_expired"
    BY DEF To, DoneNotif
  <2>4. \A o : (o.user = q.user /\ o.duel = q.duel /\ o.snap = q.snap) =>
                Told(o, Outcome(q)) = Told(q, Outcome(q))
    OBVIOUS
  <2> HIDE DEF Told
  <2> QED
    BY <2>1, <2>2, <2>3, <2>4
<1> QED
  BY <1>1, <1>2, <1>3, <1>4

\* What a notice says does not become false: rows do not disappear, acceptances stay,
\* and a duel that is over stays as it ended.
LEMMA TrueNoticesStay ==
  ASSUME IInv, IInv', [Next]_vars, NEW n, n.duel \in Duels, NoticeOK(n)
  PROVE  NoticeOK(n)'
<1>1. LifeStep
  BY NextLife
<1>2. duels[n.duel].status \in Terminal =>
        /\ duels'[n.duel].status = duels[n.duel].status
        /\ duels'[n.duel].winner = duels[n.duel].winner
  BY <1>1 DEF LifeStep, Ending
<1>3. phaseBar[n.duel] # "none" => phaseBar'[n.duel] # "none"
  BY <1>1 DEF LifeStep, Lifecycle!lifeVars, Lifecycle!Next, Lifecycle!Challenge,
     Lifecycle!Accept, Lifecycle!Decline, Lifecycle!Complete, Lifecycle!Expire,
     Lifecycle!Move, phaseBar
<1>4. duels[n.duel].status # "none" => duels'[n.duel].status # "none"
  BY <1>3 DEF phaseBar, PhaseOf, PlayStatuses
<1>5. accepted \subseteq accepted'
  <2>1. ASSUME NEW r \in Requests, RequestStep(r) PROVE accepted \subseteq accepted'
    <3>1. CASE AnswerWrite(r)
      <4>1. accepted' \in {accepted, accepted \cup {req[r].duel}}
        BY <3>1, Zenon DEF AnswerWrite
      <4> QED
        BY <4>1
    <3>2. CASE ~AnswerWrite(r)
      <4>1. UNCHANGED accepted
        BY <2>1, <3>2 DEF RequestStep, CreateCheck, CreateInsert, AnswerRead, SubmitBegin,
           SubmitRead, EnsureSaved, SubmitWrite, Notify, RequestError
      <4> QED
        BY <4>1
    <3> QED
      BY <3>1, <3>2
  <2>2. ASSUME NEW p \in Replicas, ExpireDuels(p) \/ ExpireNotify(p) \/ Crash(p)
        PROVE  UNCHANGED accepted
    BY <2>2 DEF ExpireDuels, ExpireNotify, Crash
  <2>3. ASSUME NEW d \in Duels, PassDeadline(d) PROVE UNCHANGED accepted
    BY <2>3 DEF PassDeadline
  <2>4. ASSUME NEW a \in Attempts,
               RecordAttempt(a) \/ SaveAttempt(a) \/ UnsaveAttempt(a) PROVE UNCHANGED accepted
    BY <2>4 DEF RecordAttempt, SaveAttempt, UnsaveAttempt
  <2>5. ASSUME NEW dn \in Dances, SetDanceStatus(dn) \/ DeleteDance(dn)
        PROVE  UNCHANGED accepted
    BY <2>5 DEF SetDanceStatus, DeleteDance
  <2>6. CASE UNCHANGED vars
    BY <2>6 DEF vars
  <2> QED
    BY <2>1, <2>2, <2>3, <2>4, <2>5, <2>6 DEF Next
<1> QED
  BY <1>2, <1>4, <1>5 DEF NoticeOK, Terminal

\* Everything that was or will be told is about a duel.
LEMMA NoticesAreTyped ==
  ASSUME IInv
  PROVE  /\ notes \subseteq Notice /\ repeated \subseteq Notice
         /\ \A r \in Requests : \A n \in ToTell(r) : n.duel \in Duels
<1>1. TypeOK
  BY DEF IInv
<1>2. ASSUME NEW r \in Requests, NEW n \in ToTell(r) PROVE n.duel \in Duels
  <2>1. /\ req[r] \in Request /\ RequestOK(req[r], duels, accepted)
        /\ req[r].pc = "notify" /\ n \in NoticesOf(req[r])
    BY <1>1, <1>2 DEF IInv, TypeOK, ToTell
  <2>2. n \in Notice
    BY <2>1, NoticesType
  <2> QED
    BY <2>2 DEF Notice
<1> QED
  BY <1>1, <1>2 DEF TypeOK

-----------------------------------------------------------------------------
(* The kinds of steps. *)

\* A step after which nobody has anything new to tell, and nothing was told.
LEMMA QuietStep ==
  ASSUME TInv, IInv', [Next]_vars,
         UNCHANGED <<notes, repeated>>,
         \A r \in Requests : req'[r] = req[r] \/ req'[r].pc # "notify",
         \A p \in Replicas : job'[p] \subseteq job[p]
  PROVE  TInv'
<1>1. IInv /\ NotesOK /\ TellersOK /\ JobsOK
  BY DEF TInv
<1>2. \A n : n.duel \in Duels /\ NoticeOK(n) => NoticeOK(n)'
  BY <1>1, TrueNoticesStay
<1>3. NotesOK'
  BY <1>1, <1>2, NoticesAreTyped DEF NotesOK, Notice
<1>4. \A r \in Requests : ToTell(r)' \subseteq ToTell(r)
  BY DEF ToTell
<1>5. TellersOK'
  BY <1>1, <1>2, <1>4, NoticesAreTyped DEF TellersOK
<1>6. JobsOK'
  <2> SUFFICES ASSUME NEW p \in Replicas, NEW d \in job'[p]
               PROVE  /\ duels'[d].status = "expired"
                      /\ \A n \in notes' : n.kind = "duel_expired" => n.duel # d
                      /\ \A o \in Replicas \ {p} : d \notin job'[o]
    BY DEF JobsOK
  <2>1. /\ d \in job[p] /\ duels[d].status = "expired" /\ d \in Duels
        /\ \A n \in notes : n.kind = "duel_expired" => n.duel # d
        /\ \A o \in Replicas \ {p} : d \notin job[o]
    BY <1>1 DEF JobsOK, IInv, TypeOK
  <2>2. LifeStep
    BY <1>1, NextLife
  <2>3. duels'[d].status = "expired"
    BY <2>1, <2>2 DEF LifeStep, Ending, Terminal
  <2> QED
    BY <2>1, <2>3
<1> QED
  BY <1>3, <1>5, <1>6 DEF TInv

\* A step after which request r tells what was not so before.
LEMMA NewsStep ==
  ASSUME TInv, IInv', [Next]_vars, NEW r \in Requests,
         UNCHANGED <<notes, repeated, job>>,
         \A s \in Requests \ {r} : req'[s] = req[s],
         \A n \in ToTell(r)' : /\ NoticeOK(n)'
                               /\ n.kind \in Once => ~NoticeOK(n)
  PROVE  TInv'
<1>1. IInv /\ NotesOK /\ TellersOK /\ JobsOK
  BY DEF TInv
<1>2. \A n : n.duel \in Duels /\ NoticeOK(n) => NoticeOK(n)'
  BY <1>1, TrueNoticesStay
<1>3. NotesOK'
  BY <1>1, <1>2, NoticesAreTyped DEF NotesOK, Notice
<1>4. \A s \in Requests \ {r} : ToTell(s)' = ToTell(s)
  BY DEF ToTell
<1>5. TellersOK'
  <2> SUFFICES ASSUME NEW t \in Requests, NEW n \in ToTell(t)'
               PROVE  /\ NoticeOK(n)'
                      /\ n.kind \in Once => /\ n \notin notes
                                            /\ \A s \in Requests \ {t} : n \notin ToTell(s)'
    BY DEF TellersOK
  <2>1. CASE t = r
    BY <1>1, <1>4, <2>1 DEF NotesOK, TellersOK
  <2>2. CASE t # r
    <3>1. n \in ToTell(t) /\ NoticeOK(n) /\ NoticeOK(n)'
      BY <1>1, <1>2, <1>4, <2>2, NoticesAreTyped DEF TellersOK
    <3>2. n.kind \in Once => n \notin ToTell(r)'
      BY <3>1
    <3> QED
      BY <1>1, <1>4, <2>2, <3>1, <3>2 DEF TellersOK
  <2> QED
    BY <2>1, <2>2
<1>6. JobsOK'
  <2>1. LifeStep
    BY <1>1, NextLife
  <2>2. \A p \in Replicas : job[p] \subseteq Duels
    BY <1>1 DEF IInv, TypeOK
  <2>3. \A d \in Duels : duels[d].status = "expired" => duels'[d].status = "expired"
    BY <2>1 DEF LifeStep, Ending, Terminal
  <2> QED
    BY <1>1, <2>2, <2>3 DEF JobsOK
<1> QED
  BY <1>3, <1>5, <1>6 DEF TInv

-----------------------------------------------------------------------------
(* The actions. *)

\* Ending one duel's part of a handler leaves it with nothing to tell.
LEMMA FinishTells ==
  ASSUME IInv, NEW r \in Requests, Finish(r)
  PROVE  /\ \A s \in Requests \ {r} : req'[s] = req[s]
         /\ req'[r].pc # "notify"
<1>1. req \in [Requests -> Request]
  BY DEF IInv, TypeOK
<1>2. req'[r] = IF req[r].rest = {} THEN Idle ELSE [req[r] EXCEPT !.pc = "next"]
  BY <1>1 DEF Finish
<1>3. req'[r].pc # "notify"
  BY <1>1, <1>2 DEF Idle, Request
<1> QED
  BY <1>1, <1>3 DEF Finish

\* A challenge was not there before it is inserted.
LEMMA CreateInsertTells ==
  ASSUME TInv, IInv', NEW r \in Requests, CreateInsert(r), [Next]_vars
  PROVE  TInv'
<1>1. /\ IInv /\ req \in [Requests -> Request] /\ duels \in [Duels -> Row]
      /\ RequestOK(req[r], duels, accepted) /\ req[r].pc = "insert"
  BY DEF TInv, IInv, TypeOK, CreateInsert
<1>2. CASE catalog[req[r].snap.dance] = "deleted"
  BY <1>1, <1>2, FinishTells, QuietStep DEF CreateInsert
<1>3. CASE catalog[req[r].snap.dance] # "deleted"
  <2>1. PICK d \in Duels :
          /\ duels[d].status = "none"
          /\ duels' = [duels EXCEPT ![d] = req[r].snap]
          /\ req' = [req EXCEPT ![r].pc = "notify", ![r].duel = d]
    BY <1>3 DEF CreateInsert
  <2>2. /\ req'[r].op = "create" /\ req'[r].duel = d
        /\ \A s \in Requests \ {r} : req'[s] = req[s]
    BY <1>1, <2>1 DEF RequestOK, Request
  <2>3. duels'[d].status = "pending"
    BY <1>1, <2>1 DEF RequestOK
  <2>4. \A n \in NoticesOf(req'[r]) : n.kind = "duel_challenge_received" /\ n.duel = d
    BY <2>2 DEF NoticesOf, To
  <2>5. \A n \in ToTell(r)' : NoticeOK(n)' /\ ~NoticeOK(n)
    BY <2>1, <2>3, <2>4 DEF ToTell, NoticeOK
  <2> QED
    BY <2>2, <2>5, NewsStep DEF CreateInsert
<1> QED
  BY <1>2, <1>3

\* A duel is answered once.
LEMMA AnswerWriteTells ==
  ASSUME TInv, IInv', NEW r \in Requests, AnswerWrite(r), [Next]_vars
  PROVE  TInv'
<1> DEFINE d  == req[r].duel
           st == IF req[r].op = "accept" THEN "active" ELSE "declined"
           new == Updated(duels[d], Answer(st), None, FALSE)
<1>1. /\ IInv /\ req \in [Requests -> Request] /\ duels \in [Duels -> Row]
      /\ RequestOK(req[r], duels, accepted) /\ d \in Duels
      /\ req[r].op \in {"accept", "decline"} /\ RowOK(duels[d])
      /\ AcceptedOK(duels[d], d \in accepted)
  BY DEF TInv, IInv, TypeOK, AnswerWrite, RequestOK, UnderWay
<1>2. CASE Updatable(duels[d], None)
  <2>1. new.status = st
    BY <1>1, <1>2, AnsweredRow
  <2>2. duels' = [duels EXCEPT ![d] = new] /\ Goto(r, "notify") /\ duels[d].status = "pending"
    BY <1>2 DEF AnswerWrite, Updatable
  <2> HIDE DEF new
  <2>3. /\ req'[r].op = req[r].op /\ req'[r].duel = d
        /\ \A s \in Requests \ {r} : req'[s] = req[s]
    BY <1>1, <2>2 DEF Goto, Request
  <2>4. duels'[d].status = st /\ d \notin accepted
    BY <1>1, <2>1, <2>2 DEF AcceptedOK
  <2>5. CASE req[r].op = "accept"
    <3>1. d \in accepted'
      BY <1>2, <2>5 DEF AnswerWrite
    <3>2. \A n \in NoticesOf(req'[r]) : n.kind = "duel_accepted" /\ n.duel = d
      BY <2>3, <2>5 DEF NoticesOf, To
    <3>3. \A n \in ToTell(r)' : NoticeOK(n)' /\ ~NoticeOK(n)
      BY <2>4, <3>1, <3>2 DEF ToTell, NoticeOK
    <3> QED
      BY <2>3, <3>3, NewsStep DEF AnswerWrite
  <2>6. CASE req[r].op = "decline"
    <3>1. \A n \in NoticesOf(req'[r]) : n.kind = "duel_declined" /\ n.duel = d
      BY <2>3, <2>6 DEF NoticesOf, To
    <3>2. \A n \in ToTell(r)' : NoticeOK(n)' /\ ~NoticeOK(n)
      BY <2>2, <2>4, <2>6, <3>1 DEF ToTell, NoticeOK
    <3> QED
      BY <2>3, <3>2, NewsStep DEF AnswerWrite
  <2> QED
    BY <1>1, <2>5, <2>6
<1>3. CASE ~Updatable(duels[d], None)
  <2>1. Finish(r) /\ UNCHANGED <<notes, repeated, job>>
    BY <1>3 DEF AnswerWrite
  <2> QED
    BY <1>1, <2>1, FinishTells, QuietStep
<1> QED
  BY <1>2, <1>3

\* A duel is completed once, with the winner that the submission has computed.
LEMMA SubmitWriteTells ==
  ASSUME TInv, IInv', NEW r \in Requests, SubmitWrite(r), [Next]_vars
  PROVE  TInv'
<1> DEFINE q    == req[r]
           d    == q.duel
           side == SideOf(q.snap, q.user)
           sub  == Submission(q.snap, side, q.attempt)
           new  == Updated(duels[d], sub, side, q.consent)
           ok   == /\ Updatable(duels[d], side)
                   /\ \A s \in Sides : sub.attempt[s] # None => saved[sub.attempt[s]] # NotSaved
<1>1. /\ IInv /\ req \in [Requests -> Request] /\ duels \in [Duels -> Row]
      /\ q \in Request /\ RequestOK(q, duels, accepted)
      /\ q.pc = "write" /\ d \in Duels /\ q.op = "submit"
  BY DEF TInv, IInv, TypeOK, SubmitWrite, RequestOK, UnderWay
<1>2. /\ q.attempt \in Attempts /\ IsPlayer(q.snap, q.user)
      /\ q.snap.status \in PlayStatuses /\ RowOK(q.snap) /\ q.snap \in Row
      /\ q.consent \in BOOLEAN
  BY <1>1 DEF RequestOK, SubmitOK, UnderWay, Request
<1>3. side \in Sides
  BY <1>2, SideOfPlayer
<1>4. CASE ok
  <2>1. duels' = [duels EXCEPT ![d] = new] /\ Goto(r, "notify")
    BY <1>4 DEF SubmitWrite, SubmissionOf
  <2>2. duels[d].status \in OpenStatuses
    BY <1>4 DEF Updatable
  <2>3. /\ req'[r].op = "submit" /\ req'[r].user = q.user /\ req'[r].duel = d
        /\ req'[r].attempt = q.attempt /\ req'[r].snap = q.snap
        /\ \A s \in Requests \ {r} : req'[s] = req[s]
    BY <1>1, <2>1 DEF Goto, Request
  <2>4. NoticesOf(req'[r]) = NoticesOf(q)
    BY <1>1, <2>3, HandlerNotices
  <2>5. NoticesOf(q) = IF sub.status = "completed"
               THEN {To("duel_completed", d, q.snap.player[s]) : s \in Sides}
                      \cup {To("event_duel_completed", d, sub.winner)}
               ELSE {To(DoneNotif(side), d, q.snap.player[Other(side)])}
    BY <1>1 DEF NoticesOf, Outcome, SubmissionOf
  <2>6. sub \in Change
    BY <1>2, <1>3, SubmissionChange
  <2>7. new.status = sub.status /\ new.winner = sub.winner
    BY <1>1, <1>2, <1>3, <2>6, UpdatedRow
  <2>8. duels'[d].status = sub.status /\ duels'[d].winner = sub.winner
    BY <1>1, <2>1, <2>7
  <2> HIDE DEF sub, new, side
  <2>9. \A n \in ToTell(r)' : NoticeOK(n)' /\ (n.kind \in Once => ~NoticeOK(n))
    <3>1. CASE sub.status = "completed"
      <4>1. \A n \in NoticesOf(q) :
              /\ n.duel = d /\ n.kind \in {"duel_completed", "event_duel_completed"}
              /\ n.kind = "event_duel_completed" => n.to = sub.winner
        BY <2>5, <3>1 DEF To
      <4> QED
        BY <2>2, <2>4, <2>8, <3>1, <4>1 DEF ToTell, NoticeOK, OpenStatuses
    <3>2. CASE sub.status # "completed"
      <4>1. \A n \in NoticesOf(q) : n.kind \in {"duel_challenger_done", "duel_opponent_done"}
        BY <2>5, <3>2 DEF To, DoneNotif
      <4> QED
        BY <2>4, <4>1 DEF ToTell, NoticeOK, Once
    <3> QED
      BY <3>1, <3>2
  <2> QED
    BY <2>3, <2>9, NewsStep DEF SubmitWrite
<1>5. CASE ~ok
  <2>1. Finish(r) /\ UNCHANGED <<notes, repeated, job>>
    BY <1>5 DEF SubmitWrite, SubmissionOf
  <2> QED
    BY <1>1, <2>1, FinishTells, QuietStep
<1> QED
  BY <1>4, <1>5

\* A handler tells what nobody told and nobody else will tell.
LEMMA NotifyTells ==
  ASSUME TInv, IInv', NEW r \in Requests, Notify(r), [Next]_vars
  PROVE  TInv'
<1>1. IInv /\ NotesOK /\ TellersOK /\ JobsOK
  BY DEF TInv
<1>2. \A n : n.duel \in Duels /\ NoticeOK(n) => NoticeOK(n)'
  BY <1>1, TrueNoticesStay
<1>3. /\ notes' = notes \cup ToTell(r)
      /\ repeated' = repeated \cup (notes \cap ToTell(r))
  BY DEF Notify, HandOver, ToTell
<1>4. /\ \A s \in Requests \ {r} : ToTell(s)' = ToTell(s)
      /\ ToTell(r)' = {}
  BY <1>1, FinishTells DEF Notify, ToTell
<1>5. NotesOK'
  BY <1>1, <1>2, <1>3, NoticesAreTyped DEF NotesOK, TellersOK, Notice
<1>6. TellersOK'
  BY <1>1, <1>2, <1>3, <1>4, NoticesAreTyped DEF TellersOK
<1>7. JobsOK'
  <2>1. \A n \in ToTell(r) : n.kind # "duel_expired"
    BY HandlerNotices DEF ToTell
  <2> QED
    BY <1>1, <1>3, <2>1 DEF JobsOK, Notify
<1> QED
  BY <1>5, <1>6, <1>7 DEF TInv

\* A pass of the expiry job takes duels that nobody else has expired.
LEMMA ExpireDuelsTells ==
  ASSUME TInv, IInv', NEW p \in Replicas, ExpireDuels(p), [Next]_vars
  PROVE  TInv'
<1>1. IInv /\ NotesOK /\ TellersOK /\ JobsOK /\ TypeOK
  BY DEF TInv, IInv
<1>2. \A n : n.duel \in Duels /\ NoticeOK(n) => NoticeOK(n)'
  BY <1>1, TrueNoticesStay
<1>3. /\ UNCHANGED <<req, notes, repeated>>
      /\ job' = [job EXCEPT ![p] = Late]
      /\ \A d \in Late : d \in Duels /\ duels[d].status \in OpenStatuses
  BY DEF ExpireDuels, Late
<1>4. NotesOK'
  BY <1>1, <1>2, <1>3, NoticesAreTyped DEF NotesOK, Notice
<1>5. \A r \in Requests : ToTell(r)' = ToTell(r)
  BY <1>3 DEF ToTell
<1>6. TellersOK'
  BY <1>1, <1>2, <1>3, <1>5, NoticesAreTyped DEF TellersOK
<1>7. \A d \in Duels : duels[d].status = "expired" => duels'[d].status = "expired"
  BY <1>1, NextLife DEF LifeStep, Ending, Terminal
<1>8. \A d \in Late : duels'[d].status = "expired"
  BY <1>1, <1>3 DEF ExpireDuels, TypeOK, Row
<1>9. JobsOK'
  <2> SUFFICES ASSUME NEW i \in Replicas, NEW d \in job'[i]
               PROVE  /\ duels'[d].status = "expired"
                      /\ \A n \in notes' : n.kind = "duel_expired" => n.duel # d
                      /\ \A o \in Replicas \ {i} : d \notin job'[o]
    BY DEF JobsOK
  <2>1. /\ job'[p] = Late /\ \A o \in Replicas \ {p} : job'[o] = job[o]
        /\ \A o \in Replicas : job[o] \subseteq Duels
    BY <1>1, <1>3 DEF TypeOK
  <2>2. \A o \in Replicas \ {p} : \A e \in job[o] : duels[e].status = "expired" /\ e \notin Late
    BY <1>1, <1>3 DEF JobsOK, OpenStatuses
  <2>3. \A n \in notes : n.kind = "duel_expired" => n.duel \notin Late
    BY <1>1, <1>3 DEF NotesOK, NoticeOK, OpenStatuses
  <2>4. CASE i = p
    BY <1>3, <1>8, <2>1, <2>2, <2>3, <2>4
  <2>5. CASE i # p
    BY <1>1, <1>3, <1>7, <2>1, <2>2, <2>5 DEF JobsOK
  <2> QED
    BY <2>4, <2>5
<1> QED
  BY <1>4, <1>6, <1>9 DEF TInv

\* Its players are told once of each duel.
LEMMA ExpireNotifyTells ==
  ASSUME TInv, IInv', NEW p \in Replicas, ExpireNotify(p), [Next]_vars
  PROVE  TInv'
<1> DEFINE ns == {To("duel_expired", d, duels[d].player[s]) : d \in job[p], s \in Sides}
<1>1. IInv /\ NotesOK /\ TellersOK /\ JobsOK /\ TypeOK
  BY DEF TInv, IInv
<1>2. UNCHANGED <<duels, req, accepted>> /\ job' = [job EXCEPT ![p] = {}]
  BY DEF ExpireNotify
<1>3. CASE UNCHANGED <<notes, repeated>>
  BY <1>1, <1>2, <1>3, QuietStep DEF TypeOK
<1>4. CASE HandOver(ns)
  <2>1. notes' = notes \cup ns /\ repeated' = repeated \cup (notes \cap ns)
    BY <1>4 DEF HandOver
  <2>2. \A n \in ns : n.kind = "duel_expired" /\ n.duel \in job[p]
    BY DEF To
  <2> HIDE DEF ns
  <2>3. \A n \in ns : NoticeOK(n) /\ n \notin notes
    BY <1>1, <2>2 DEF JobsOK, NoticeOK
  <2>4. NotesOK'
    BY <1>1, <1>2, <2>1, <2>3 DEF NotesOK, NoticeOK
  <2>5. \A r \in Requests : ToTell(r)' = ToTell(r) /\ ToTell(r) \cap ns = {}
    BY <1>2, <2>2, HandlerNotices DEF ToTell
  <2>6. TellersOK'
    BY <1>1, <1>2, <2>1, <2>5 DEF TellersOK, NoticeOK
  <2>7. JobsOK'
    <3>1. \A o \in Replicas : job'[o] = IF o = p THEN {} ELSE job[o]
      BY <1>1, <1>2 DEF TypeOK
    <3> QED
      BY <1>1, <1>2, <2>1, <2>2, <3>1 DEF JobsOK
  <2> QED
    BY <2>4, <2>6, <2>7 DEF TInv
<1> QED
  BY <1>3, <1>4 DEF ExpireNotify

\* The other steps of a request tell nothing and prepare nothing to tell.
LEMMA OtherRequestTells ==
  ASSUME TInv, IInv', NEW r \in Requests, [Next]_vars,
         \/ CreateCheck(r) \/ AnswerRead(r) \/ SubmitBegin(r)
         \/ SubmitRead(r) \/ EnsureSaved(r) \/ RequestError(r)
  PROVE  TInv'
<1>1. /\ IInv /\ req \in [Requests -> Request]
      /\ UNCHANGED <<notes, repeated, job>>
  BY DEF TInv, IInv, TypeOK, CreateCheck, AnswerRead, SubmitBegin, SubmitRead, EnsureSaved,
         RequestError
<1>2. /\ \A s \in Requests \ {r} : req'[s] = req[s]
      /\ req'[r].pc # "notify"
  <2>1. CASE CreateCheck(r)
    BY <1>1, <2>1 DEF CreateCheck, Idle
  <2>2. CASE AnswerRead(r)
    BY <1>1, <2>2 DEF AnswerRead, Idle
  <2>3. CASE SubmitBegin(r)
    BY <1>1, <2>3 DEF SubmitBegin, Idle
  <2>4. CASE SubmitRead(r)
    <3>1. PICK d \in req[r].rest :
            LET q == [req[r] EXCEPT !.rest = @ \ {d}] IN
            req' = [req EXCEPT ![r] =
              IF MaySubmit(duels[d], q.user, q.attempt)
                THEN [q EXCEPT !.pc = "save", !.duel = d, !.snap = duels[d]]
                ELSE IF q.rest = {} THEN Idle ELSE q]
      BY <2>4 DEF SubmitRead
    <3> DEFINE q  == [req[r] EXCEPT !.rest = @ \ {d}]
               to == [q EXCEPT !.pc = "save", !.duel = d, !.snap = duels[d]]
    <3>2. q.pc = "next" /\ to.pc = "save"
      BY <1>1, <2>4 DEF SubmitRead, Request
    <3>3. /\ \A s \in Requests \ {r} : req'[s] = req[s]
          /\ req'[r] \in {to, Idle, q}
      BY <1>1, <3>1
    <3> HIDE DEF q, to
    <3> QED
      BY <3>2, <3>3 DEF Idle
  <2>5. CASE EnsureSaved(r)
    <3>1. req' = [req EXCEPT ![r].pc = "write"]
      BY <2>5 DEF EnsureSaved, Goto
    <3>2. req[r] \in Request
      BY <1>1
    <3>3. req'[r] = [req[r] EXCEPT !.pc = "write"]
      BY <1>1, <3>1
    <3>4. req'[r].pc = "write"
      BY <3>2, <3>3 DEF Request
    <3> QED
      BY <1>1, <3>1, <3>4
  <2>6. CASE RequestError(r)
    BY <1>1, <2>6, FinishTells DEF RequestError
  <2> QED
    BY <2>1, <2>2, <2>3, <2>4, <2>5, <2>6
<1> QED
  BY <1>1, <1>2, QuietStep

-----------------------------------------------------------------------------
(* The theorems. *)

\* The initial state.
LEMMA InitTells == Init => TInv
<1> SUFFICES ASSUME Init PROVE TInv
  OBVIOUS
<1>1. IInv
  BY InitInv
<1>2. \A r \in Requests : ToTell(r) = {}
  BY DEF Init, Tables!Init, Catalog!Init, ToTell, Idle
<1> QED
  BY <1>1, <1>2 DEF Init, Tables!Init, Catalog!Init, TInv, NotesOK, TellersOK, JobsOK

\* Every step keeps the invariant.
LEMMA NextTells == TInv /\ [Next]_vars => TInv'
<1> SUFFICES ASSUME TInv, [Next]_vars PROVE TInv'
  OBVIOUS
<1>1. IInv /\ IInv' /\ TypeOK
  BY NextInv DEF TInv, IInv
<1>2. CASE UNCHANGED <<req, job, notes, repeated>>
  BY <1>1, <1>2, QuietStep
<1>3. ASSUME NEW r \in Requests, RequestStep(r) PROVE TInv'
  BY <1>1, <1>3, CreateInsertTells, AnswerWriteTells, SubmitWriteTells, NotifyTells,
     OtherRequestTells DEF RequestStep
<1>4. ASSUME NEW p \in Replicas, ExpireDuels(p) \/ ExpireNotify(p) PROVE TInv'
  BY <1>1, <1>4, ExpireDuelsTells, ExpireNotifyTells
<1>5. ASSUME NEW p \in Replicas, Crash(p) PROVE TInv'
  <2>1. /\ \A r \in Requests : req'[r] = req[r] \/ req'[r].pc # "notify"
        /\ \A o \in Replicas : job'[o] \subseteq job[o]
        /\ UNCHANGED <<notes, repeated>>
    BY <1>1, <1>5 DEF Crash, TypeOK, Idle
  <2> QED
    BY <1>1, <2>1, QuietStep
<1>6. ASSUME NEW d \in Duels, PassDeadline(d) PROVE TInv'
  BY <1>2, <1>6 DEF PassDeadline
<1>7. ASSUME NEW a \in Attempts,
               RecordAttempt(a) \/ SaveAttempt(a) \/ UnsaveAttempt(a) PROVE TInv'
  BY <1>2, <1>7 DEF RecordAttempt, SaveAttempt, UnsaveAttempt
<1>8. ASSUME NEW dn \in Dances, SetDanceStatus(dn) \/ DeleteDance(dn) PROVE TInv'
  BY <1>2, <1>8 DEF SetDanceStatus, DeleteDance
<1> QED
  BY <1>2, <1>3, <1>4, <1>5, <1>6, <1>7, <1>8 DEF Next, vars

\* What players and consumers were told of a duel's outcome stays what its row says, although
\* handlers and expiry jobs tell it from their own copies some time after their UPDATE.
THEOREM NoticesTrue == Spec => []NoticesTellTheOutcome
<1>1. TInv => NoticesTellTheOutcome
  BY DEF TInv, NotesOK, NoticeOK, NoticesTellTheOutcome
<1> QED
  BY <1>1, InitTells, NextTells, PTL DEF Spec

\* No request and no replica's job tells again that a duel was proposed, accepted or how it
\* ended, whatever else runs at the same time.
THEOREM ToldOnce == Spec => []OutcomeToldOnce
<1>1. TInv => OutcomeToldOnce
  <2> SUFFICES ASSUME TInv PROVE OutcomeToldOnce
    OBVIOUS
  <2>1. \A n \in repeated : n.kind \in Kinds /\ n.kind \notin Once
    BY NoticesAreTyped DEF TInv, NotesOK, Notice
  <2> QED
    BY <2>1 DEF OutcomeToldOnce, Once
<1> QED
  BY <1>1, InitTells, NextTells, PTL DEF Spec

-----------------------------------------------------------------------------
(* Every duel ends.  Time passes for an open duel; once it is overdue it   *)
(* stays so while it is open, hence among the Late; and the job of any one *)
(* replica, which does not stay busy with its notices, expires the Late.   *)

Open(d)  == duels[d].status \in OpenStatuses
Over(d)  == duels[d].status \in Terminal
Aged(d)  == Open(d) /\ duels[d].overdue

\* The fairness assumed is WF of the job's two steps and of the deadline, where the guards
\* of these actions are what enables them.
LEMMA FairnessIsWeak ==
  ASSUME NEW p \in Replicas, NEW d \in Duels
  PROVE  /\ [](MayExpire(p) <=> ENABLED <<ExpireDuels(p)>>_vars) =>
              (([]<>~MayExpire(p) \/ []<><<ExpireDuels(p)>>_vars) <=> WF_vars(ExpireDuels(p)))
         /\ [](MayTell(p) <=> ENABLED <<ExpireNotify(p)>>_vars) =>
              (([]<>~MayTell(p) \/ []<><<ExpireNotify(p)>>_vars) <=> WF_vars(ExpireNotify(p)))
         /\ [](MayPass(d) <=> ENABLED <<PassDeadline(d)>>_vars) =>
              (([]<>~MayPass(d) \/ []<><<PassDeadline(d)>>_vars) <=> WF_vars(PassDeadline(d)))
  BY PTL

\* An open duel stays open until it is over.
LEMMA OpenUntilOver ==
  ASSUME IInv, IInv', [Next]_vars, NEW d \in Duels, Open(d)
  PROVE  Open(d)' \/ Over(d)'
<1>1. [Lifecycle!Next]_(Lifecycle!lifeVars)
  BY NextLife DEF LifeStep
<1>2. /\ phaseBar[d] = PhaseOf(duels[d]) /\ phaseBar'[d] = PhaseOf(duels'[d])
      /\ duels[d] \in Row /\ duels'[d] \in Row
  BY DEF phaseBar, IInv, TypeOK
<1>3. phaseBar[d] # "none"
  BY <1>2 DEF Open, PhaseOf, OpenStatuses, PlayStatuses
<1>4. phaseBar'[d] # "none"
  BY <1>1, <1>3 DEF Lifecycle!Next, Lifecycle!lifeVars, Lifecycle!Challenge, Lifecycle!Accept,
                    Lifecycle!Decline, Lifecycle!Complete, Lifecycle!Expire, Lifecycle!Move, phaseBar
<1> QED
  BY <1>2, <1>4 DEF PhaseOf, PlayStatuses, Row, Open, Over, OpenStatuses, Terminal

\* Nothing sets the deadline of an open duel back.
LEMMA AgedUntilOver ==
  ASSUME IInv, IInv', [Next]_vars, NEW d \in Duels, Aged(d)
  PROVE  Aged(d)' \/ Over(d)'
<1>1. Open(d)' \/ Over(d)'
  BY OpenUntilOver DEF Aged
<1>2. CASE \A r \in Requests : ~CreateInsert(r)
  BY <1>1, <1>2, RowsKeepTheirDuel DEF SameDuel, Aged, Open
<1>3. ASSUME NEW r \in Requests, CreateInsert(r) PROVE Aged(d)' \/ Over(d)'
  <2>1. duels'[d] = duels[d]
    BY <1>3 DEF CreateInsert, Aged, Open, OpenStatuses, IInv, TypeOK
  <2> QED
    BY <2>1 DEF Aged, Open
<1> QED
  BY <1>2, <1>3

\* Every duel that is created ends, however its requests fail and whichever replicas stop,
\* as long as one replica's ticker goes on and time passes.
THEOREM DuelsEnd == Replicas # {} /\ FairSpec => EveryDuelEnds
<1> SUFFICES ASSUME Replicas # {}, NEW d \in Duels
             PROVE  FairSpec => (duels[d].status # "none" ~> duels[d].status \in Terminal)
  BY DEF EveryDuelEnds
<1>1. PICK p \in Replicas : TRUE
  OBVIOUS
<1>2. FairSpec => /\ Spec
                  /\ []<>~MayPass(d) \/ []<><<PassDeadline(d)>>_vars
                  /\ []<>~MayTell(p) \/ []<><<ExpireNotify(p)>>_vars
                  /\ []<>~MayExpire(p) \/ []<><<ExpireDuels(p)>>_vars
  BY DEF FairSpec, Fairness
<1>3. IInv /\ duels[d].status # "none" => Open(d) \/ Over(d)
  BY DEF IInv, TypeOK, Row, Open, Over
<1>4. IInv /\ IInv' /\ [Next]_vars /\ Open(d) => Open(d)' \/ Over(d)'
  BY OpenUntilOver
<1>5. IInv /\ IInv' /\ [Next]_vars /\ Aged(d) => Aged(d)' \/ Over(d)'
  BY AgedUntilOver
<1>6. Open(d) => MayPass(d) \/ Aged(d)
  BY DEF Aged, MayPass, Open
<1>7. IInv /\ <<PassDeadline(d)>>_vars => Aged(d)'
  BY DEF PassDeadline, MayPass, Aged, Open, IInv, TypeOK, Row
<1>8. ~MayTell(p) <=> job[p] = {}
  BY DEF MayTell
<1>9. IInv /\ <<ExpireNotify(p)>>_vars => (job[p] = {})'
  BY DEF ExpireNotify, IInv, TypeOK
<1>10. IInv /\ [Next]_vars /\ job[p] = {} => (job[p] = {})' \/ <<ExpireDuels(p)>>_vars
  <2> SUFFICES ASSUME IInv, [Next]_vars, job[p] = {}, ~ExpireDuels(p)
               PROVE  job'[p] = {}
    BY DEF ExpireDuels, MayExpire, vars, IInv, TypeOK
  <2>1. ASSUME NEW o \in Replicas, ExpireDuels(o) \/ ExpireNotify(o) \/ Crash(o)
        PROVE  job'[p] = {}
    BY <2>1 DEF ExpireDuels, ExpireNotify, Crash, IInv, TypeOK
  <2>2. ASSUME NEW r \in Requests, RequestStep(r)
        PROVE  job'[p] = {}
    BY <2>2 DEF RequestStep, CreateCheck, CreateInsert, AnswerRead, AnswerWrite, SubmitBegin,
                SubmitRead, EnsureSaved, SubmitWrite, Notify, RequestError
  <2> QED
    BY <2>1, <2>2 DEF Next, vars, PassDeadline, RecordAttempt, SaveAttempt,
                      UnsaveAttempt, SetDanceStatus, DeleteDance
<1>11. Aged(d) /\ job[p] = {} => MayExpire(p)
  BY DEF Aged, Open, MayExpire, Late
<1>12. IInv /\ Aged(d) /\ <<ExpireDuels(p)>>_vars => Over(d)'
  BY DEF ExpireDuels, Aged, Open, Over, Late, Terminal, IInv, TypeOK, Row
<1>13. Over(d) <=> duels[d].status \in Terminal
  BY DEF Over
<1> QED
  BY <1>2, <1>3, <1>4, <1>5, <1>6, <1>7, <1>8, <1>9, <1>10, <1>11, <1>12, <1>13,
     Invariance, PTL DEF Spec
=============================================================================
