-------------------------- MODULE AttemptsProofs --------------------------
(***************************************************************************)
(* Proofs about Attempts, for any number of users, attempts, requests and  *)
(* replicas.  What is proved of types, rows, videos and the sweep holds    *)
(* whatever calls fail.  Each theorem about scores, records and            *)
(* announcements names the one kind of call that must not fail for it,     *)
(* and holds whatever else does: without that it is wrong, as the run      *)
(* attempts_claimed shows of the first.                                    *)
(***************************************************************************)
EXTENDS Attempts, FiniteSetTheorems, TLAPS

\* The attempts of which some save found no result though none of its reads failed.
Unfound == unmeasured \cup foreign

\* Both are only short for the variables they stand for.
USE DEF histories, Unfound

-----------------------------------------------------------------------------
(* Types. *)

Pcs == {"idle", "enqueue", "task", "discard", "claimed", "load", "note", "look",
        "upsert", "prune", "tell", "delete", "erase"}

\* A busy slot works on an attempt, and after an upload it does so for a user.
Working(q) == /\ q.pc # "idle" => q.att \in Attempts
              /\ q.pc \notin {"idle", "enqueue", "task", "discard"} => q.user \in Users

SlotsOK == req \in [Slots -> Request] /\ \A s \in Slots : Working(req[s])

TypeInv == TypeOK /\ SlotsOK

\* A request begins proper if its fields are.
LEMMA NewRequestType ==
  ASSUME NEW pc \in Pcs, NEW u \in Users \cup {None}, NEW a \in Attempts \cup {None},
         NEW v \in BOOLEAN, NEW c \in Claims \cup {None}, NEW score \in Nat,
         pc # "idle" => a \in Attempts,
         pc \notin {"idle", "enqueue", "task", "discard"} => u \in Users
  PROVE  /\ NewRequest(pc, u, a, v, c, score) \in Request
         /\ Working(NewRequest(pc, u, a, v, c, score))
  BY DEF NewRequest, Request, Working, Pcs

\* An idle slot is a request without work.
LEMMA IdleRequest == Idle \in Request /\ Working(Idle)
  BY NewRequestType DEF Idle, Pcs

\* A request that goes on to another step keeps everything else.
LEMMA StepOfRequest ==
  ASSUME NEW q \in Request, NEW pc \in Pcs, q.pc # "idle",
         q.pc \in {"enqueue", "task", "discard"} => pc \in {"idle", "enqueue", "task", "discard"},
         Working(q)
  PROVE  [q EXCEPT !.pc = pc] \in Request /\ Working([q EXCEPT !.pc = pc])
  BY DEF Request, Working, Pcs

\* What SaveLoad leaves behind is a request of the same user.
LEMMA LoadedType ==
  ASSUME NEW q \in Request, q.pc = "load", Working(q), NEW found \in BOOLEAN
  PROVE  Loaded(q, found) \in Request /\ Working(Loaded(q, found))
  <1>1. q.att \in Attempts /\ q.user \in Users
    BY DEF Working
  <1>2. Score[q.att] \in Nat
    BY <1>1, AttemptsAssumption
  <1>3. q.claim # None => q.claim \in Nat
    BY AttemptsAssumption DEF Request
  <1>4. [q EXCEPT !.pc = "look"] \in Request /\ Working([q EXCEPT !.pc = "look"])
    BY <1>1 DEF Request, Working
  <1>5. \A x \in Nat : /\ [q EXCEPT !.pc = "note", !.score = x] \in Request
                       /\ Working([q EXCEPT !.pc = "note", !.score = x])
    BY <1>1 DEF Request, Working
  <1> QED
    BY <1>2, <1>3, <1>4, <1>5 DEF Loaded

\* Writing a saved attempt gives a row that has a user.
LEMMA UpsertedType ==
  ASSUME NEW row \in SavedRow, NEW q \in Request, q.user \in Users
  PROVE  /\ Upserted(row, q) \in SavedRow
         /\ Upserted(row, q) # NotSaved
         /\ Upserted(row, q).score = q.score
         /\ row # NotSaved => Upserted(row, q).user = row.user
  BY AttemptsAssumption DEF Upserted, SavedRow, NotSaved, Request

\* Recording an attempt fills its row and never changes one.
LEMMA RecordedType ==
  ASSUME recorded \in [Attempts -> RecordedRow],
         NEW a \in Attempts, NEW u \in Users, NEW score \in Nat
  PROVE  /\ Recorded(a, u, score) \in [Attempts -> RecordedRow]
         /\ Recorded(a, u, score)[a] # NoRow
         /\ recorded[a] = NoRow => Recorded(a, u, score)[a].score = score
         /\ \A b \in Attempts : b # a \/ recorded[b] # NoRow =>
                                  Recorded(a, u, score)[b] = recorded[b]
  BY AttemptsAssumption DEF Recorded, RecordedRow, NoRow

\* The best score of a user is a number.
LEMMA BestType ==
  ASSUME recorded \in [Attempts -> RecordedRow], NEW u \in Users
  PROVE  BestOf(u) \subseteq Nat
  BY AttemptsAssumption DEF BestOf, RecordedRow, NoRow

\* Giving one slot a proper request leaves the slots proper.
LEMMA SlotSet ==
  ASSUME SlotsOK, NEW s \in Slots, NEW q \in Request, Working(q),
         req' = [req EXCEPT ![s] = q]
  PROVE  SlotsOK'
  BY DEF SlotsOK

\* A request that goes on or ends leaves the slots proper.
LEMMA SlotGoes ==
  ASSUME SlotsOK, NEW s \in Slots, req[s].pc # "idle",
         \/ Done(s)
         \/ \E pc \in Pcs :
              /\ Goto(s, pc)
              /\ req[s].pc \in {"enqueue", "task", "discard"} =>
                   pc \in {"idle", "enqueue", "task", "discard"}
  PROVE  SlotsOK'
  <1>1. CASE Done(s)
    BY <1>1, IdleRequest, SlotSet DEF Done
  <1>2. ASSUME NEW pc \in Pcs, Goto(s, pc),
               req[s].pc \in {"enqueue", "task", "discard"} =>
                 pc \in {"idle", "enqueue", "task", "discard"}
        PROVE  SlotsOK'
    <2>1. req[s] \in Request /\ Working(req[s])
      BY DEF SlotsOK
    <2>2. [req[s] EXCEPT !.pc = pc] \in Request /\ Working([req[s] EXCEPT !.pc = pc])
      BY <1>2, <2>1, StepOfRequest
    <2>3. req' = [req EXCEPT ![s] = [req[s] EXCEPT !.pc = pc]]
      BY <1>2 DEF Goto
    <2> QED
      BY <2>2, <2>3, SlotSet
  <1> QED
    BY <1>1, <1>2

\* An announcement is counted for the user of the request and for nobody else.
LEMMA TellingStep ==
  ASSUME NEW s \in Slots, SaveTell(s), told \in [Attempts -> [Users -> Nat]],
         req[s].att \in Attempts, req[s].user \in Users
  PROVE  /\ told' \in [Attempts -> [Users -> Nat]]
         /\ \A a \in Attempts, u \in Users :
              \/ told'[a][u] = told[a][u]
              \/ /\ told'[a][u] = told[a][u] + 1
                 /\ a = req[s].att /\ u = req[s].user
                 /\ ~req[s].existed /\ saved[a] # NotSaved
  <1> DEFINE b == req[s].att
             w == req[s].user
             row == ToldAgain(b, w)
  <1>1. /\ req[s].existed \/ saved[b] = NotSaved => told' = told
        /\ ~req[s].existed /\ saved[b] # NotSaved => told' = [told EXCEPT ![b] = row]
    BY DEF SaveTell
  <1>2. told[b] \in [Users -> Nat]
    OBVIOUS
  <1>3. PICK n \in {told[b][w], told[b][w] + 1} : row = [told[b] EXCEPT ![w] = n]
    BY DEF ToldAgain
  <1> HIDE DEF row
  <1>4. told[b][w] \in Nat /\ n \in Nat
    BY <1>2, <1>3
  <1>5. /\ row \in [Users -> Nat]
        /\ \A u \in Users : row[u] = IF u = w THEN n ELSE told[b][u]
    BY <1>2, <1>3, <1>4
  <1>6. told' \in [Attempts -> [Users -> Nat]]
    BY <1>1, <1>5
  <1>7. ASSUME NEW a \in Attempts, NEW u \in Users, told'[a][u] # told[a][u]
        PROVE  /\ told'[a][u] = told[a][u] + 1
               /\ a = b /\ u = w /\ ~req[s].existed /\ saved[a] # NotSaved
    <2>1. a = b /\ ~req[s].existed /\ saved[a] # NotSaved /\ told'[a] = row
      BY <1>1, <1>7
    <2>2. u = w /\ told'[a][u] = n
      BY <1>5, <1>7, <2>1
    <2> QED
      BY <1>3, <1>7, <2>1, <2>2
  <1> QED
    BY <1>6, <1>7

\* The initial state has its types.
LEMMA TypeInit == Init => TypeInv
  BY AttemptsAssumption, IdleRequest
  DEF Init, TypeInv, TypeOK, SlotsOK, RecordedRow, SavedRow, NobodyTold

\* Every step keeps the types.
LEMMA TypeStep == TypeInv /\ [Next]_vars => TypeInv'
  <1> SUFFICES ASSUME TypeInv, [Next]_vars
               PROVE  TypeInv'
    OBVIOUS
  <1> USE DEF TypeInv
  <1>1. ASSUME NEW s \in Slots, Upload(s)
        PROVE  TypeInv'
    <2>1. PICK a \in Attempts :
            /\ video' = [video EXCEPT ![a] = TRUE]
            /\ req' = [req EXCEPT ![s] = NewRequest("enqueue", None, a, FALSE, None, 0)]
      BY <1>1 DEF Upload
    <2>2. /\ NewRequest("enqueue", None, a, FALSE, None, 0) \in Request
          /\ Working(NewRequest("enqueue", None, a, FALSE, None, 0))
      BY NewRequestType DEF Pcs
    <2>3. SlotsOK'
      BY <2>1, <2>2, SlotSet
    <2>4. video' \in [Attempts -> BOOLEAN]
      BY <2>1 DEF TypeOK
    <2> QED
      BY <1>1, <2>3, <2>4 DEF Upload, TypeOK, SlotsOK
  <1>2. ASSUME NEW s \in Slots, Enqueue(s)
        PROVE  TypeInv'
    <2>1. SlotsOK'
      BY <1>2, SlotGoes DEF Enqueue, Pcs
    <2>2. ml' \in [Attempts -> {"none", "queued", "done", "failed"}]
      BY <1>2 DEF Enqueue, TypeOK
    <2> QED
      BY <1>2, <2>1, <2>2 DEF Enqueue, TypeOK, SlotsOK
  <1>3. ASSUME NEW s \in Slots, PersistTask(s)
        PROVE  TypeInv'
    <2>1. SlotsOK'
      BY <1>3, SlotGoes DEF PersistTask
    <2>2. task' \in [Attempts -> {"none", "open", "finalized"}]
      BY <1>3 DEF PersistTask, TypeOK
    <2> QED
      BY <1>3, <2>1, <2>2 DEF PersistTask, TypeOK, SlotsOK
  <1>4. ASSUME NEW s \in Slots, DiscardVideo(s)
        PROVE  TypeInv'
    <2>1. SlotsOK'
      BY <1>4, SlotGoes DEF DiscardVideo
    <2>2. video' \in [Attempts -> BOOLEAN]
      BY <1>4 DEF DiscardVideo, TypeOK
    <2> QED
      BY <1>4, <2>1, <2>2 DEF DiscardVideo, TypeOK, SlotsOK
  <1>5. ASSUME NEW s \in Slots, PollClaim(s)
        PROVE  TypeInv'
    <2>1. PICK a \in Attempts, u \in Users \cup {None} :
            /\ task' = [task EXCEPT ![a] = "finalized"]
            /\ claimedBy' = [claimedBy EXCEPT ![a] = u]
            /\ req' = [req EXCEPT ![s] =
                    IF AfterClaim(a, u) = "idle" THEN Idle
                    ELSE NewRequest(AfterClaim(a, u), u, a, FALSE, None, 0)]
      BY <1>5 DEF PollClaim
    <2>2. u # None => /\ NewRequest("claimed", u, a, FALSE, None, 0) \in Request
                      /\ Working(NewRequest("claimed", u, a, FALSE, None, 0))
      BY NewRequestType DEF Pcs
    <2>3. SlotsOK'
      BY <2>1, <2>2, IdleRequest, SlotSet DEF AfterClaim
    <2>4. /\ task' \in [Attempts -> {"none", "open", "finalized"}]
          /\ claimedBy' \in [Attempts -> Users \cup {None}]
      BY <2>1 DEF TypeOK
    <2> QED
      BY <1>5, <2>3, <2>4 DEF PollClaim, TypeOK, SlotsOK
  <1>6. ASSUME NEW s \in Slots, RecordPolled(s)
        PROVE  TypeInv'
    <2>1. SlotsOK'
      BY <1>6, SlotGoes DEF RecordPolled
    <2>2. req[s].att \in Attempts /\ req[s].user \in Users
      BY <1>6 DEF RecordPolled, SlotsOK, Working
    <2>3. Score[req[s].att] \in Nat
      BY <2>2, AttemptsAssumption
    <2>4. recorded' \in [Attempts -> RecordedRow]
      BY <1>6, <2>2, <2>3, RecordedType DEF RecordPolled, TypeOK
    <2> QED
      BY <1>6, <2>1, <2>4 DEF RecordPolled, TypeOK, SlotsOK
  <1>7. ASSUME NEW s \in Slots, SaveBegin(s)
        PROVE  TypeInv'
    <2>1. PICK a \in Attempts, u \in Users, v \in BOOLEAN, c \in Claims \cup {None} :
            \E best \in BestOf(u) \cup IfFailing(s, 0) :
              req' = [req EXCEPT ![s] = NewRequest("load", u, a, v, c, best)]
      BY <1>7 DEF SaveBegin
    <2>2. BestOf(u) \cup IfFailing(s, 0) \subseteq Nat
      BY BestType DEF TypeOK, IfFailing
    <2>3. PICK best \in Nat : req' = [req EXCEPT ![s] = NewRequest("load", u, a, v, c, best)]
      BY <2>1, <2>2
    <2>4. /\ NewRequest("load", u, a, v, c, best) \in Request
          /\ Working(NewRequest("load", u, a, v, c, best))
      BY NewRequestType DEF Pcs
    <2>6. SlotsOK'
      BY <2>3, <2>4, SlotSet
    <2>7. overtaken' \in SUBSET (Slots \cup Sweepers)
      BY <1>7 DEF SaveBegin, TypeOK
    <2> QED
      BY <1>7, <2>6, <2>7 DEF SaveBegin, TypeOK, SlotsOK
  <1>8. ASSUME NEW s \in Slots, SaveLoad(s)
        PROVE  TypeInv'
    <2>1. req[s] \in Request /\ Working(req[s]) /\ req[s].pc = "load"
      BY <1>8 DEF SaveLoad, SlotsOK
    <2>2. PICK found \in BOOLEAN : req' = [req EXCEPT ![s] = Loaded(req[s], found)]
      BY <1>8 DEF SaveLoad
    <2>3. SlotsOK'
      BY <2>1, <2>2, LoadedType, SlotSet
    <2>4. req[s].att \in Attempts
      BY <2>1 DEF Working
    <2>5. unmeasured' \in SUBSET Attempts /\ foreign' \in SUBSET Attempts
      BY <1>8, <2>4 DEF SaveLoad, TypeOK
    <2> QED
      BY <1>8, <2>3, <2>5 DEF SaveLoad, TypeOK, SlotsOK
  <1>9. ASSUME NEW s \in Slots, SaveNote(s)
        PROVE  TypeInv'
    <2>1. SlotsOK'
      BY <1>9, SlotGoes DEF SaveNote, Pcs
    <2>2. req[s].att \in Attempts /\ req[s].user \in Users /\ req[s].score \in Nat
      BY <1>9 DEF SaveNote, SlotsOK, Working, Request
    <2>3. recorded' \in [Attempts -> RecordedRow]
      BY <1>9, <2>2, RecordedType DEF SaveNote, Noted, TypeOK
    <2> QED
      BY <1>9, <2>1, <2>3 DEF SaveNote, TypeOK, SlotsOK
  <1>10. ASSUME NEW s \in Slots, SaveLook(s)
         PROVE  TypeInv'
    <2>1. req[s] \in Request /\ Working(req[s]) /\ req[s].pc = "look"
      BY <1>10 DEF SaveLook, SlotsOK
    <2>2. PICK e \in BOOLEAN :
            req' = [req EXCEPT ![s] = [req[s] EXCEPT !.pc = "upsert", !.existed = e]]
      BY <1>10 DEF SaveLook, Existed, IfFailing
    <2>3. /\ [req[s] EXCEPT !.pc = "upsert", !.existed = e] \in Request
          /\ Working([req[s] EXCEPT !.pc = "upsert", !.existed = e])
      BY <2>1 DEF Request, Working
    <2>4. SlotsOK'
      BY <2>2, <2>3, SlotSet
    <2> QED
      BY <1>10, <2>4 DEF SaveLook, TypeOK, SlotsOK
  <1>11. ASSUME NEW s \in Slots, SaveUpsert(s)
         PROVE  TypeInv'
    <2>1. SlotsOK'
      BY <1>11, SlotGoes DEF SaveUpsert, Pcs
    <2>2. req[s] \in Request /\ req[s].att \in Attempts /\ req[s].user \in Users
      BY <1>11 DEF SaveUpsert, SlotsOK, Working
    <2>3. Upserted(saved[req[s].att], req[s]) \in SavedRow
      BY <2>2, UpsertedType DEF TypeOK
    <2>4. saved' \in [Attempts -> SavedRow]
      BY <1>11, <2>2, <2>3 DEF SaveUpsert, TypeOK
    <2>5. overtaken' \in SUBSET (Slots \cup Sweepers)
      BY <1>11 DEF SaveUpsert, WorkingOn, TypeOK
    <2> QED
      BY <1>11, <2>1, <2>4, <2>5 DEF SaveUpsert, TypeOK, SlotsOK
  <1>12. ASSUME NEW s \in Slots, SavePrune(s)
         PROVE  TypeInv'
    <2>1. SlotsOK'
      BY <1>12, SlotGoes DEF SavePrune, DropVideo, Pcs
    <2>2. video' \in [Attempts -> BOOLEAN]
      BY <1>12 DEF SavePrune, DropVideo, InFolderOf, TypeOK
    <2> QED
      BY <1>12, <2>1, <2>2 DEF SavePrune, TypeOK, SlotsOK
  <1>13. ASSUME NEW s \in Slots, SaveTell(s)
         PROVE  TypeInv'
    <2>1. SlotsOK'
      BY <1>13, SlotGoes DEF SaveTell
    <2>2. told' \in [Attempts -> [Users -> Nat]]
      BY <1>13, TellingStep DEF SaveTell, TypeOK, SlotsOK, Working
    <2> QED
      BY <1>13, <2>1, <2>2 DEF SaveTell, TypeOK, SlotsOK
  <1>14. ASSUME NEW s \in Slots, UnsaveBegin(s)
         PROVE  TypeInv'
    <2>1. PICK a \in Attempts, u \in Users, v \in BOOLEAN :
            req' = [req EXCEPT ![s] = NewRequest("delete", u, a, v, None, 0)]
      <3>1. PICK a \in Attempts, u \in Users :
              \E v \in {saved[a].user = u /\ saved[a].video} \cup IfFailing(s, FALSE) :
                req' = [req EXCEPT ![s] = NewRequest("delete", u, a, v, None, 0)]
        BY <1>14 DEF UnsaveBegin
      <3>2. saved[a] \in SavedRow
        BY DEF TypeOK
      <3>3. (saved[a].user = u /\ saved[a].video) \in BOOLEAN
        OBVIOUS
      <3> QED
        BY <3>1, <3>3 DEF IfFailing
    <2>2. /\ NewRequest("delete", u, a, v, None, 0) \in Request
          /\ Working(NewRequest("delete", u, a, v, None, 0))
      BY NewRequestType DEF Pcs
    <2>3. SlotsOK'
      BY <2>1, <2>2, SlotSet
    <2>4. overtaken' \in SUBSET (Slots \cup Sweepers)
      BY <1>14 DEF UnsaveBegin, TypeOK
    <2> QED
      BY <1>14, <2>3, <2>4 DEF UnsaveBegin, TypeOK, SlotsOK
  <1>15. ASSUME NEW s \in Slots, UnsaveDelete(s)
         PROVE  TypeInv'
    <2>1. SlotsOK'
      BY <1>15, SlotGoes DEF UnsaveDelete, Pcs
    <2>2. saved' \in [Attempts -> SavedRow] /\ told' \in [Attempts -> [Users -> Nat]]
      <3>1. NotSaved \in SavedRow /\ NobodyTold \in [Users -> Nat]
        BY DEF SavedRow, NobodyTold
      <3> HIDE DEF histories
      <3> QED
        BY <1>15, <3>1 DEF UnsaveDelete, TypeOK
    <2> QED
      BY <1>15, <2>1, <2>2 DEF UnsaveDelete, TypeOK, SlotsOK
  <1>16. ASSUME NEW s \in Slots, UnsaveErase(s)
         PROVE  TypeInv'
    <2>1. SlotsOK'
      BY <1>16, SlotGoes DEF UnsaveErase, DropVideo
    <2>2. video' \in [Attempts -> BOOLEAN]
      BY <1>16 DEF UnsaveErase, DropVideo, InFolderOf, TypeOK
    <2> QED
      BY <1>16, <2>1, <2>2 DEF UnsaveErase, TypeOK, SlotsOK
  <1>17. ASSUME NEW s \in Slots, Fail(s)
         PROVE  TypeInv'
    <2>1. SlotsOK'
      BY <1>17, SlotGoes DEF Fail
    <2> QED
      BY <1>17, <2>1 DEF Fail, TypeOK, SlotsOK
  <1>18. ASSUME NEW p \in Sweepers, NEW a \in Attempts, SweepCheck(p, a)
         PROVE  TypeInv'
    BY <1>18 DEF SweepCheck, TypeOK, SlotsOK
  <1>19. ASSUME NEW p \in Sweepers, SweepDelete(p) \/ SweepFail(p)
         PROVE  TypeInv'
    BY <1>19 DEF SweepDelete, SweepFail, TypeOK, SlotsOK
  <1>20. ASSUME NEW a \in Attempts, MLFinish(a) \/ Age(a)
         PROVE  TypeInv'
    BY <1>20 DEF MLFinish, Age, TypeOK, SlotsOK
  <1>21. ASSUME NEW a \in Attempts, EnsureSaved(a)
         PROVE  TypeInv'
    <2>1. recorded[a].user \in Users
      BY <1>21 DEF EnsureSaved, TypeOK, RecordedRow, NoRow
    <2>2. [user |-> recorded[a].user, score |-> Score[a], video |-> TRUE] \in SavedRow
      BY <2>1, AttemptsAssumption DEF SavedRow
    <2>3. saved' \in [Attempts -> SavedRow]
      BY <1>21, <2>2 DEF EnsureSaved, TypeOK
    <2>4. overtaken' \in SUBSET (Slots \cup Sweepers)
      BY <1>21 DEF EnsureSaved, WorkingOn, TypeOK
    <2> QED
      BY <1>21, <2>3, <2>4 DEF EnsureSaved, TypeOK, SlotsOK
  <1>22. CASE UNCHANGED vars
    BY <1>22 DEF vars, TypeOK, SlotsOK
  <1> QED
    BY <1>1, <1>2, <1>3, <1>4, <1>5, <1>6, <1>7, <1>8, <1>9, <1>10, <1>11, <1>12, <1>13,
       <1>14, <1>15, <1>16, <1>17, <1>18, <1>19, <1>20, <1>21, <1>22
    DEF Next, Save

-----------------------------------------------------------------------------
(* Theorems that hold whatever fails. *)

\* TypeInv is an invariant.
LEMMA TypeAlways == Spec => []TypeInv
  <1>1. Init => TypeInv
    BY TypeInit
  <1>2. TypeInv /\ [Next]_vars => TypeInv'
    BY TypeStep
  <1> QED
    BY <1>1, <1>2, PTL DEF Spec

\* Every variable keeps its type.
THEOREM TypeCorrect == Spec => []TypeOK
  <1>1. TypeInv => TypeOK
    BY DEF TypeInv
  <1> QED
    BY <1>1, TypeAlways, PTL

\* The steps that change a row of dance_attempts or saved_attempts.
LEMMA RowSteps ==
  ASSUME [Next]_vars
  PROVE  \/ UNCHANGED <<recorded, saved>>
         \/ \E s \in Slots : RecordPolled(s) \/ SaveNote(s) \/ SaveUpsert(s) \/ UnsaveDelete(s)
         \/ \E a \in Attempts : EnsureSaved(a)
  <1>1. ASSUME NEW s \in Slots,
               Upload(s) \/ Enqueue(s) \/ PersistTask(s) \/ DiscardVideo(s) \/ PollClaim(s)
        PROVE  UNCHANGED <<recorded, saved>>
    BY <1>1 DEF Upload, Enqueue, PersistTask, DiscardVideo, PollClaim
  <1>2. ASSUME NEW s \in Slots,
               SaveBegin(s) \/ SaveLoad(s) \/ SaveLook(s) \/ SavePrune(s) \/ SaveTell(s)
        PROVE  UNCHANGED <<recorded, saved>>
    BY <1>2 DEF SaveBegin, SaveLoad, SaveLook, SavePrune, SaveTell
  <1>3. ASSUME NEW s \in Slots, UnsaveBegin(s) \/ UnsaveErase(s) \/ Fail(s)
        PROVE  UNCHANGED <<recorded, saved>>
    BY <1>3 DEF UnsaveBegin, UnsaveErase, Fail
  <1>4. ASSUME NEW p \in Sweepers,
               (\E a \in Attempts : SweepCheck(p, a)) \/ SweepDelete(p) \/ SweepFail(p)
        PROVE  UNCHANGED <<recorded, saved>>
    BY <1>4 DEF SweepCheck, SweepDelete, SweepFail
  <1>5. ASSUME NEW a \in Attempts, MLFinish(a) \/ Age(a)
        PROVE  UNCHANGED <<recorded, saved>>
    BY <1>5 DEF MLFinish, Age
  <1>6. CASE UNCHANGED vars
    BY <1>6 DEF vars
  <1> QED
    BY <1>1, <1>2, <1>3, <1>4, <1>5, <1>6 DEF Next, Save

\* What a step does to rows that exist.
RowsKept == \A a \in Attempts :
  /\ recorded[a] # NoRow => recorded'[a] = recorded[a]
  /\ saved[a] # NotSaved /\ saved'[a] # NotSaved => saved'[a].user = saved[a].user

\* No step changes a recorded attempt, or the user of a saved one.
LEMMA RowsStep == TypeInv /\ [Next]_vars => RowsKept
  <1> SUFFICES ASSUME TypeInv, [Next]_vars
               PROVE  RowsKept
    OBVIOUS
  <1>1. CASE UNCHANGED <<recorded, saved>>
    BY <1>1 DEF RowsKept
  <1>2. ASSUME NEW s \in Slots, RecordPolled(s) \/ SaveNote(s)
        PROVE  RowsKept
    <2>1. /\ req[s].att \in Attempts /\ req[s].user \in Users /\ req[s].score \in Nat
          /\ recorded \in [Attempts -> RecordedRow]
      BY <1>2 DEF RecordPolled, SaveNote, TypeInv, TypeOK, SlotsOK, Working, Request
    <2>2. Score[req[s].att] \in Nat
      BY <2>1, AttemptsAssumption
    <2>3. \/ UNCHANGED recorded
          \/ \E score \in Nat : recorded' = Recorded(req[s].att, req[s].user, score)
      BY <1>2, <2>1, <2>2 DEF RecordPolled, SaveNote, Noted
    <2>4. UNCHANGED saved
      BY <1>2 DEF RecordPolled, SaveNote
    <2> QED
      BY <2>1, <2>3, <2>4, RecordedType DEF RowsKept
  <1>3. ASSUME NEW s \in Slots, SaveUpsert(s)
        PROVE  RowsKept
    <2>1. req[s] \in Request /\ req[s].att \in Attempts /\ req[s].user \in Users
      BY <1>3 DEF SaveUpsert, TypeInv, SlotsOK, Working
    <2>2. saved[req[s].att] # NotSaved =>
            Upserted(saved[req[s].att], req[s]).user = saved[req[s].att].user
      BY <2>1, UpsertedType DEF TypeInv, TypeOK
    <2> QED
      BY <1>3, <2>1, <2>2 DEF SaveUpsert, RowsKept, TypeInv, TypeOK
  <1>4. ASSUME NEW s \in Slots, UnsaveDelete(s)
        PROVE  RowsKept
    BY <1>4 DEF UnsaveDelete, RowsKept, TypeInv, TypeOK
  <1>5. ASSUME NEW a \in Attempts, EnsureSaved(a)
        PROVE  RowsKept
    BY <1>5 DEF EnsureSaved, RowsKept, TypeInv, TypeOK
  <1> QED
    BY <1>1, <1>2, <1>3, <1>4, <1>5, RowSteps

\* No row changes hands and no recorded attempt changes.
THEOREM RowsCorrect == Spec => RowsKeepTheirUser
  <1>1. TypeInv /\ [Next]_vars => RowsKept
    BY RowsStep
  <1> QED
    BY <1>1, TypeAlways, PTL DEF Spec, RowsKeepTheirUser, RowsKept

\* Recording is one step of the tables, or none where the attempt has its row.
LEMMA RecordingStep ==
  ASSUME TypeInv, NEW a \in Attempts, NEW u \in Users, NEW score \in Nat,
         recorded' = Recorded(a, u, score), UNCHANGED saved
  PROVE  [Tables!Next]_(Tables!rows)
  <1>1. recorded \in [Attempts -> RecordedRow]
    BY DEF TypeInv, TypeOK
  <1>2. UNCHANGED savedUnder
    BY DEF savedUnder
  <1>3. /\ Recorded(a, u, score)[a] # NoRow
        /\ \A b \in Attempts : b # a \/ recorded[b] # NoRow =>
                                 Recorded(a, u, score)[b] = recorded[b]
    BY <1>1, RecordedType
  <1>4. recordedAttempts' = recordedAttempts \cup {a}
    BY <1>3 DEF recordedAttempts
  <1>5. CASE a \in recordedAttempts
    BY <1>2, <1>4, <1>5 DEF Tables!rows
  <1>6. CASE a \notin recordedAttempts
    BY <1>2, <1>4, <1>6 DEF Tables!Next, Tables!Record
  <1> QED
    BY <1>5, <1>6

\* Writing a row of saved_attempts saves the attempt, or changes nothing the duels see.
LEMMA SavingRowStep ==
  ASSUME TypeInv, NEW a \in Attempts, NEW row \in SavedRow, row # NotSaved,
         saved' = [saved EXCEPT ![a] = row], UNCHANGED recorded
  PROVE  [Tables!Next]_(Tables!rows)
  <1>1. saved \in [Attempts -> SavedRow] /\ UNCHANGED recordedAttempts
    BY DEF TypeInv, TypeOK, recordedAttempts
  <1>2. savedUnder' = [savedUnder EXCEPT ![a] = theDance]
    BY <1>1 DEF savedUnder
  <1>3. CASE saved[a] = NotSaved
    <2>1. Tables!Save(a)
      BY <1>1, <1>2, <1>3 DEF Tables!Save, savedUnder
    <2> QED
      BY <2>1 DEF Tables!Next
  <1>4. CASE saved[a] # NotSaved
    <2>1. UNCHANGED savedUnder
      BY <1>2, <1>4 DEF savedUnder
    <2> QED
      BY <1>1, <2>1 DEF Tables!rows
  <1> QED
    BY <1>3, <1>4

\* Deleting a row removes the attempt from the profile, if it was there.
LEMMA RemovingRowStep ==
  ASSUME TypeInv, NEW a \in Attempts,
         saved' = [saved EXCEPT ![a] = NotSaved], UNCHANGED recorded
  PROVE  [Tables!Next]_(Tables!rows)
  <1>1. saved \in [Attempts -> SavedRow] /\ UNCHANGED recordedAttempts
    BY DEF TypeInv, TypeOK, recordedAttempts
  <1>2. savedUnder' = [savedUnder EXCEPT ![a] = "not_saved"]
    BY <1>1 DEF savedUnder
  <1>3. CASE saved[a] # NotSaved
    <2>1. Tables!Unsave(a)
      BY <1>1, <1>2, <1>3 DEF Tables!Unsave, savedUnder, theDance
    <2> QED
      BY <2>1 DEF Tables!Next
  <1>4. CASE saved[a] = NotSaved
    <2>1. UNCHANGED savedUnder
      BY <1>2, <1>4 DEF savedUnder
    <2> QED
      BY <1>1, <2>1 DEF Tables!rows
  <1> QED
    BY <1>3, <1>4

\* Every step is one step of the tables, or does not show in them.
LEMMA TablesStep == TypeInv /\ [Next]_vars => [Tables!Next]_(Tables!rows)
  <1> SUFFICES ASSUME TypeInv, [Next]_vars
               PROVE  [Tables!Next]_(Tables!rows)
    OBVIOUS
  <1>1. CASE UNCHANGED <<recorded, saved>>
    BY <1>1 DEF Tables!rows, recordedAttempts, savedUnder
  <1>2. ASSUME NEW s \in Slots, RecordPolled(s) \/ SaveNote(s)
        PROVE  [Tables!Next]_(Tables!rows)
    <2>1. req[s].att \in Attempts /\ req[s].user \in Users /\ req[s].score \in Nat
      BY <1>2 DEF RecordPolled, SaveNote, TypeInv, TypeOK, SlotsOK, Working, Request
    <2>2. Score[req[s].att] \in Nat
      BY <2>1, AttemptsAssumption
    <2>3. /\ UNCHANGED saved
          /\ \/ UNCHANGED recorded
             \/ \E score \in Nat : recorded' = Recorded(req[s].att, req[s].user, score)
      BY <1>2, <2>1, <2>2 DEF RecordPolled, SaveNote, Noted
    <2> QED
      BY <1>1, <2>1, <2>3, RecordingStep
  <1>3. ASSUME NEW s \in Slots, SaveUpsert(s)
        PROVE  [Tables!Next]_(Tables!rows)
    <2>1. req[s] \in Request /\ req[s].att \in Attempts /\ req[s].user \in Users
      BY <1>3 DEF SaveUpsert, TypeInv, SlotsOK, Working
    <2>2. /\ Upserted(saved[req[s].att], req[s]) \in SavedRow
          /\ Upserted(saved[req[s].att], req[s]) # NotSaved
      BY <2>1, UpsertedType DEF TypeInv, TypeOK
    <2>3. /\ saved' = [saved EXCEPT ![req[s].att] = Upserted(saved[req[s].att], req[s])]
          /\ UNCHANGED recorded
      BY <1>3 DEF SaveUpsert
    <2> QED
      BY <2>1, <2>2, <2>3, SavingRowStep
  <1>4. ASSUME NEW s \in Slots, UnsaveDelete(s)
        PROVE  [Tables!Next]_(Tables!rows)
    <2>1. req[s].att \in Attempts
      BY <1>4 DEF UnsaveDelete, TypeInv, SlotsOK, Working
    <2> QED
      BY <1>1, <1>4, <2>1, RemovingRowStep DEF UnsaveDelete
  <1>5. ASSUME NEW a \in Attempts, EnsureSaved(a)
        PROVE  [Tables!Next]_(Tables!rows)
    <2> DEFINE row == [user |-> recorded[a].user, score |-> Score[a], video |-> TRUE]
    <2>1. recorded[a] \in RecordedRow /\ recorded[a].user # None
      BY <1>5 DEF EnsureSaved, TypeInv, TypeOK
    <2>2. recorded[a].user \in Users /\ Score[a] \in Nat
      BY <2>1, AttemptsAssumption DEF RecordedRow, NoRow
    <2>3. row \in SavedRow /\ row.user # None
      BY <2>1, <2>2 DEF SavedRow
    <2>4. row # NotSaved
      BY <2>3 DEF NotSaved
    <2>5. saved' = [saved EXCEPT ![a] = row] /\ UNCHANGED recorded
      BY <1>5 DEF EnsureSaved
    <2> QED
      BY <2>3, <2>4, <2>5, SavingRowStep
  <1> QED
    BY <1>1, <1>2, <1>3, <1>4, <1>5, RowSteps

\* Attempts implements AttemptRows: whichever polls, saves, removals and duels work on an
\* attempt and whatever fails, one statement at a time records it, once and for good, or
\* saves it or removes it, as the duels expect of the tables they share.
THEOREM TablesImplemented == Spec => Tables!Spec
  <1>1. Init => Tables!Init
    BY DEF Init, Tables!Init, recordedAttempts, savedUnder
  <1>2. TypeInv /\ [Next]_vars => [Tables!Next]_(Tables!rows)
    BY TablesStep
  <1> QED
    BY <1>1, <1>2, TypeAlways, PTL DEF Spec, Tables!Spec

-----------------------------------------------------------------------------
(* The calls that must not fail: each of the properties that follow        *)
(* survives every failure but that of the calls it is about.               *)

\* A save reads the result ML has stored where the save looks for it.
ResultsAreRead == \A s \in Slots : SaveLoad(s) /\ ResultThere(req[s]) =>
  req' = [req EXCEPT ![s] = Loaded(req[s], TRUE)]

\* A save records the score it has read.
ScoresAreNoted == \A s \in Slots : SaveNote(s) => recorded' = Noted(s)

\* A poll that has claimed a task goes on to record its attempt.
ClaimsAreKept == \A s \in Slots : req[s].pc = "claimed" => ~Fail(s)

\* A save learns whether its row is there.
RowsAreFound == \A s \in Slots : SaveLook(s) =>
  req' = [req EXCEPT ![s] = [req[s] EXCEPT !.pc = "upsert", !.existed = Existed(req[s])]]

\* Where no call fails, these do not.
LEMMA NoneFails ==
  ASSUME Fragile = {}
  PROVE  ResultsAreRead /\ ScoresAreNoted /\ ClaimsAreKept /\ RowsAreFound
  BY DEF ResultsAreRead, ScoresAreNoted, ClaimsAreKept, RowsAreFound, SaveLoad, SaveNote, Fail,
         SaveLook, IfFailing

-----------------------------------------------------------------------------
(* Scores, records and claims. *)

\* A row of an attempt all of whose saves found a result holds that result.
MeasuredOK == \A a \in Attempts : a \notin Unfound =>
  /\ saved[a] # NotSaved => saved[a].score = Score[a]
  /\ recorded[a] # NoRow => recorded[a].score = Score[a]

\* A save on its way to such a row carries the result ...
SavingOK(s) ==
  req[s].att \notin Unfound /\ req[s].pc \in {"note", "look", "upsert"} =>
    req[s].score = Score[req[s].att]

ScoreInv == TypeInv /\ MeasuredOK /\ \A s \in Slots : SavingOK(s)

\* ... and has recorded it.
NotedOK(s) == req[s].att \notin Unfound /\ req[s].pc \in {"look", "upsert"} =>
  recorded[req[s].att] # NoRow

CountInv == TypeInv /\ SavedIsRecorded /\ \A s \in Slots : NotedOK(s)

ClaimInv == TypeInv /\ ClaimedIsRecorded

Saving == {"note", "look", "upsert", "prune", "tell"}

\* What a step does to a slot that is saving.
LEMMA SlotSteps ==
  ASSUME TypeInv, [Next]_vars, NEW t \in Slots
  PROVE  /\ \/ req'[t] = req[t]
            \/ req'[t].pc \notin Saving
            \/ SaveLoad(t) \/ SaveNote(t) \/ SaveLook(t) \/ SaveUpsert(t) \/ SavePrune(t)
         /\ req[t].pc = "claimed" => req'[t] = req[t] \/ RecordPolled(t) \/ Fail(t)
         /\ Unfound \subseteq Unfound'
  <1> DEFINE Goal == /\ \/ req'[t] = req[t]
                        \/ req'[t].pc \notin Saving
                        \/ SaveLoad(t) \/ SaveNote(t) \/ SaveLook(t)
                        \/ SaveUpsert(t) \/ SavePrune(t)
                     /\ req[t].pc = "claimed" =>
                          req'[t] = req[t] \/ RecordPolled(t) \/ Fail(t)
                     /\ Unfound \subseteq Unfound'
  <1> USE DEF Saving
  <1>0. req \in [Slots -> Request]
    BY DEF TypeInv, SlotsOK
  <1>1. ASSUME NEW s \in Slots, NEW pc \in Pcs, Goto(s, pc) \/ Done(s),
               pc \notin Saving, req[s].pc # "claimed",
               UNCHANGED Unfound
        PROVE  Goal
    BY <1>0, <1>1 DEF Goto, Done, Idle, NewRequest, Request
  <1>2. ASSUME NEW s \in Slots, Enqueue(s) \/ PersistTask(s) \/ DiscardVideo(s)
        PROVE  Goal
    BY <1>1, <1>2 DEF Enqueue, PersistTask, DiscardVideo, Pcs
  <1>3. ASSUME NEW s \in Slots, SaveTell(s)
        PROVE  Goal
    BY <1>1, <1>3 DEF SaveTell, Pcs
  <1>4. ASSUME NEW s \in Slots, UnsaveDelete(s) \/ UnsaveErase(s)
        PROVE  Goal
    BY <1>1, <1>4 DEF UnsaveDelete, UnsaveErase, DropVideo, Pcs
  <1>5. ASSUME NEW s \in Slots, RecordPolled(s) \/ Fail(s)
        PROVE  Goal
    BY <1>0, <1>5 DEF RecordPolled, Fail, Done, Idle, NewRequest
  <1>6. ASSUME NEW s \in Slots, Upload(s) \/ SaveBegin(s) \/ UnsaveBegin(s)
        PROVE  Goal
    <2>1. req[s].pc = "idle" /\ UNCHANGED Unfound
      BY <1>6 DEF Upload, SaveBegin, UnsaveBegin
    <2>2. CASE Upload(s)
      <3>1. PICK a \in Attempts :
              req' = [req EXCEPT ![s] = NewRequest("enqueue", None, a, FALSE, None, 0)]
        BY <2>2 DEF Upload
      <3>2. NewRequest("enqueue", None, a, FALSE, None, 0).pc = "enqueue"
        BY DEF NewRequest
      <3> QED
        BY <1>0, <2>1, <3>1, <3>2
    <2>3. CASE SaveBegin(s)
      <3>1. PICK a \in Attempts, u \in Users, v \in BOOLEAN, c \in Claims \cup {None} :
              \E best \in BestOf(u) \cup IfFailing(s, 0) :
                req' = [req EXCEPT ![s] = NewRequest("load", u, a, v, c, best)]
        BY <2>3 DEF SaveBegin
      <3>2. PICK best : req' = [req EXCEPT ![s] = NewRequest("load", u, a, v, c, best)]
        BY <3>1
      <3>3. NewRequest("load", u, a, v, c, best).pc = "load"
        BY DEF NewRequest
      <3> QED
        BY <1>0, <2>1, <3>2, <3>3
    <2>4. CASE UnsaveBegin(s)
      <3>1. PICK a \in Attempts, u \in Users :
              \E v \in {saved[a].user = u /\ saved[a].video} \cup IfFailing(s, FALSE) :
                req' = [req EXCEPT ![s] = NewRequest("delete", u, a, v, None, 0)]
        BY <2>4 DEF UnsaveBegin
      <3>2. PICK v : req' = [req EXCEPT ![s] = NewRequest("delete", u, a, v, None, 0)]
        BY <3>1
      <3>3. NewRequest("delete", u, a, v, None, 0).pc = "delete"
        BY DEF NewRequest
      <3> QED
        BY <1>0, <2>1, <3>2, <3>3
    <2> QED
      BY <1>6, <2>2, <2>3, <2>4
  <1>7. ASSUME NEW s \in Slots, PollClaim(s)
        PROVE  Goal
    BY <1>0, <1>7 DEF PollClaim, AfterClaim, Idle, NewRequest
  <1>8. ASSUME NEW s \in Slots,
               SaveLoad(s) \/ SaveNote(s) \/ SaveLook(s) \/ SaveUpsert(s) \/ SavePrune(s)
        PROVE  Goal
    BY <1>0, <1>8 DEF SaveLoad, SaveNote, SaveLook, SaveUpsert, SavePrune, DropVideo, Goto
  <1>9. ASSUME NEW p \in Sweepers,
               (\E a \in Attempts : SweepCheck(p, a)) \/ SweepDelete(p) \/ SweepFail(p)
        PROVE  Goal
    BY <1>9 DEF SweepCheck, SweepDelete, SweepFail
  <1>10. ASSUME NEW a \in Attempts, MLFinish(a) \/ EnsureSaved(a) \/ Age(a)
         PROVE  Goal
    BY <1>10 DEF MLFinish, EnsureSaved, Age
  <1>11. CASE UNCHANGED vars
    BY <1>11 DEF vars
  <1> QED
    BY <1>2, <1>3, <1>4, <1>5, <1>6, <1>7, <1>8, <1>9, <1>10, <1>11 DEF Next, Save

\* What a save carries over its next step.
LEMMA SavingFields ==
  ASSUME TypeInv, [Next]_vars, NEW t \in Slots
  PROVE  /\ SaveLoad(t) \/ SaveNote(t) \/ SaveLook(t) => req'[t].att = req[t].att
         /\ SaveNote(t) \/ SaveLook(t) => req'[t].score = req[t].score
         /\ SaveLoad(t) /\ ~ResultThere(req[t]) => req[t].att \in Unfound'
         /\ SaveLoad(t) /\ ResultThere(req[t]) /\ ResultsAreRead =>
              req'[t].pc = "note" /\ req'[t].score = Score[req[t].att]
         /\ SaveNote(t) => req[t].pc = "note" /\ Unfound' = Unfound
         /\ SaveLook(t) => req[t].pc = "look" /\ UNCHANGED <<recorded, Unfound>>
         /\ SaveUpsert(t) \/ SavePrune(t) => req'[t].pc \notin {"note", "look", "upsert"}
  <1>1. req \in [Slots -> Request]
    BY DEF TypeInv, SlotsOK
  <1>2. CASE SaveLoad(t)
    <2>1. req'[t].att = req[t].att
      BY <1>1, <1>2 DEF SaveLoad, Loaded, Request
    <2>2. ~ResultThere(req[t]) => req[t].att \in Unfound'
      BY <1>2 DEF SaveLoad, ResultThere
    <2>3. ASSUME ResultThere(req[t]), ResultsAreRead
          PROVE  req'[t].pc = "note" /\ req'[t].score = Score[req[t].att]
      <3>1. req'[t] = [req[t] EXCEPT !.pc = "note", !.score = Score[req[t].att]]
        BY <1>1, <1>2, <2>3 DEF ResultsAreRead, Loaded
      <3> QED
        BY <1>1, <3>1 DEF Request
    <2>4. req[t].pc = "load"
      BY <1>2 DEF SaveLoad
    <2> QED
      BY <2>1, <2>2, <2>3, <2>4 DEF SaveNote, SaveLook, SaveUpsert, SavePrune
  <1>3. CASE SaveNote(t)
    <2>1. req[t].pc = "note" /\ req' = [req EXCEPT ![t] = [req[t] EXCEPT !.pc = "look"]]
      BY <1>1, <1>3 DEF SaveNote, Goto
    <2>2. req'[t].att = req[t].att /\ req'[t].score = req[t].score
      BY <1>1, <2>1 DEF Request
    <2>3. Unfound' = Unfound
      BY <1>3 DEF SaveNote
    <2> QED
      BY <2>1, <2>2, <2>3 DEF SaveLoad, SaveLook, SaveUpsert, SavePrune
  <1>4. CASE SaveLook(t)
    <2>1. req[t].pc = "look" /\ UNCHANGED <<recorded, Unfound>>
      BY <1>4 DEF SaveLook
    <2>2. req'[t].att = req[t].att /\ req'[t].score = req[t].score
      BY <1>1, <1>4 DEF SaveLook, Request
    <2> QED
      BY <2>1, <2>2 DEF SaveLoad, SaveNote, SaveUpsert, SavePrune
  <1>5. CASE SaveUpsert(t) \/ SavePrune(t)
    <2>1. req[t].pc \in {"upsert", "prune"}
      BY <1>5 DEF SaveUpsert, SavePrune
    <2>2. req'[t].pc \in {"tell", "prune"}
      BY <1>1, <1>5 DEF SaveUpsert, SavePrune, DropVideo, Goto, Request
    <2> QED
      BY <2>1, <2>2 DEF SaveLoad, SaveNote, SaveLook
  <1> QED
    BY <1>2, <1>3, <1>4, <1>5

\* The saves under way keep their scores.
LEMMA SavingStep ==
  ASSUME ScoreInv, ResultsAreRead, [Next]_vars, NEW t \in Slots
  PROVE  SavingOK(t)'
  <1>1. TypeInv /\ SavingOK(t)
    BY DEF ScoreInv
  <1>2. Unfound \subseteq Unfound'
    BY <1>1, SlotSteps
  <1>3. CASE req'[t] = req[t] \/ SaveNote(t) \/ SaveLook(t)
    BY <1>1, <1>2, <1>3, SavingFields DEF SavingOK
  <1>4. CASE SaveLoad(t)
    BY <1>1, <1>4, SavingFields DEF SavingOK
  <1>5. CASE req'[t].pc \notin {"note", "look", "upsert"}
    BY <1>5 DEF SavingOK
  <1> QED
    BY <1>1, <1>3, <1>4, <1>5, SlotSteps, SavingFields DEF Saving

\* The saves under way have their attempts recorded, and so have the rows they write.
LEMMA CountStep ==
  ASSUME CountInv, ResultsAreRead, ScoresAreNoted, [Next]_vars
  PROVE  SavedIsRecorded' /\ \A t \in Slots : NotedOK(t)'
  <1>1. /\ TypeInv /\ SavedIsRecorded
        /\ recorded \in [Attempts -> RecordedRow] /\ saved \in [Attempts -> SavedRow]
        /\ \A t \in Slots : NotedOK(t) /\ Working(req[t]) /\ req[t] \in Request
    BY DEF CountInv, TypeInv, TypeOK, SlotsOK
  <1>2. \A a \in Attempts : recorded[a] # NoRow => recorded'[a] # NoRow
    BY <1>1, RowsStep DEF RowsKept
  <1>3. Unfound \subseteq Unfound'
    <2>1. CASE Slots = {}
      BY <2>1 DEF Next, vars, SweepCheck, SweepDelete, SweepFail, MLFinish, EnsureSaved, Age
    <2> QED
      BY <1>1, <2>1, SlotSteps
  <1>4. ASSUME NEW t \in Slots PROVE NotedOK(t)'
    <2>1. CASE req'[t] = req[t] \/ SaveLook(t)
      BY <1>1, <1>2, <1>3, <2>1, SavingFields DEF NotedOK, Working
    <2>2. CASE SaveLoad(t)
      BY <1>1, <2>2, SavingFields DEF NotedOK
    <2>3. CASE SaveNote(t)
      <3>1. req[t].att \in Attempts /\ req[t].user \in Users /\ req[t].score \in Nat
        BY <1>1, <2>3, SavingFields DEF Working, Request
      <3>2. recorded' = Recorded(req[t].att, req[t].user, req[t].score)
        BY <2>3 DEF ScoresAreNoted, Noted
      <3>3. recorded'[req[t].att] # NoRow
        BY <1>1, <3>1, <3>2, RecordedType
      <3> QED
        BY <1>1, <2>3, <3>3, SavingFields DEF NotedOK
    <2>4. CASE req'[t].pc \notin {"note", "look", "upsert"}
      BY <2>4 DEF NotedOK
    <2> QED
      BY <1>1, <2>1, <2>2, <2>3, <2>4, SlotSteps, SavingFields DEF Saving
  <1>5. SavedIsRecorded'
    <2> SUFFICES ASSUME NEW a \in Attempts, saved'[a] # NotSaved, a \notin Unfound'
                 PROVE  recorded'[a] # NoRow
      BY DEF SavedIsRecorded
    <2>1. CASE saved[a] # NotSaved
      BY <1>1, <1>2, <1>3, <2>1 DEF SavedIsRecorded
    <2>2. ASSUME saved[a] = NotSaved, NEW s \in Slots, SaveUpsert(s)
          PROVE  recorded[a] # NoRow
      <3>1. a = req[s].att /\ req[s].pc = "upsert"
        BY <1>1, <2>2 DEF SaveUpsert
      <3> QED
        BY <1>1, <1>3, <3>1 DEF NotedOK
    <2>3. ASSUME saved[a] = NotSaved, NEW b \in Attempts, EnsureSaved(b)
          PROVE  recorded[a] # NoRow
      BY <1>1, <2>3 DEF EnsureSaved, NoRow
    <2>4. ASSUME NEW s \in Slots, UnsaveDelete(s)
          PROVE  saved[a] # NotSaved
      BY <1>1, <2>4 DEF UnsaveDelete
    <2>5. ASSUME NEW s \in Slots, RecordPolled(s) \/ SaveNote(s)
          PROVE  saved[a] # NotSaved
      BY <1>1, <2>5 DEF RecordPolled, SaveNote
    <2> QED
      BY <1>2, <2>1, <2>2, <2>3, <2>4, <2>5, RowSteps
  <1> QED
    BY <1>4, <1>5

\* The rows keep the measured score.
LEMMA MeasuredStep ==
  ASSUME ScoreInv, [Next]_vars
  PROVE  MeasuredOK'
  <1> USE DEF ScoreInv, TypeInv
  <1>1. /\ MeasuredOK /\ \A s \in Slots : SavingOK(s) /\ Working(req[s]) /\ req[s] \in Request
        /\ recorded \in [Attempts -> RecordedRow] /\ saved \in [Attempts -> SavedRow]
    BY DEF TypeOK, SlotsOK
  <1>2. \A a \in Attempts : recorded[a] # NoRow => recorded'[a] = recorded[a]
    BY RowsStep DEF RowsKept
  <1>3. CASE UNCHANGED <<recorded, saved>>
    <2>1. CASE Slots = {}
      BY <1>1, <1>3, <2>1 DEF MeasuredOK, Next, vars, SweepCheck, SweepDelete, SweepFail,
                              MLFinish, EnsureSaved, Age
    <2>2. CASE Slots # {}
      <3>1. Unfound \subseteq Unfound'
        BY <2>2, SlotSteps
      <3> QED
        BY <1>1, <1>3, <3>1 DEF MeasuredOK
    <2> QED
      BY <2>1, <2>2
  <1>4. ASSUME NEW s \in Slots, RecordPolled(s) \/ SaveNote(s), recorded' # recorded
        PROVE  MeasuredOK'
    <2>1. req[s].att \in Attempts /\ req[s].user \in Users /\ req[s].score \in Nat
      BY <1>1, <1>4 DEF RecordPolled, SaveNote, Working, Request
    <2>2. Score[req[s].att] \in Nat
      BY <2>1, AttemptsAssumption
    <2>3. PICK score \in Nat :
            /\ recorded' = Recorded(req[s].att, req[s].user, score)
            /\ req[s].att \notin Unfound => score = Score[req[s].att]
      BY <1>1, <1>4, <2>1, <2>2 DEF RecordPolled, SaveNote, Noted, SavingOK
    <2>4. UNCHANGED <<saved, Unfound>>
      BY <1>4 DEF RecordPolled, SaveNote
    <2>5. \A b \in Attempts : b # req[s].att => recorded'[b] = recorded[b]
      BY <1>1, <2>1, <2>3, RecordedType
    <2>6. recorded[req[s].att] = NoRow => recorded'[req[s].att].score = score
      BY <1>1, <2>1, <2>3, RecordedType
    <2> QED
      BY <1>1, <1>2, <2>1, <2>3, <2>4, <2>5, <2>6 DEF MeasuredOK
  <1>5. ASSUME NEW s \in Slots, SaveUpsert(s)
        PROVE  MeasuredOK'
    <2>1. /\ req[s].att \in Attempts /\ req[s].user \in Users /\ req[s] \in Request
          /\ req[s].pc = "upsert"
      BY <1>1, <1>5 DEF SaveUpsert, Working
    <2>2. /\ \A b \in Attempts : b # req[s].att => saved'[b] = saved[b]
          /\ saved'[req[s].att] = Upserted(saved[req[s].att], req[s])
          /\ UNCHANGED <<recorded, Unfound>>
      BY <1>1, <1>5, <2>1 DEF SaveUpsert
    <2>3. saved'[req[s].att].score = req[s].score
      BY <1>1, <2>1, <2>2, UpsertedType
    <2> QED
      BY <1>1, <2>1, <2>2, <2>3 DEF MeasuredOK, SavingOK
  <1>6. ASSUME NEW s \in Slots, UnsaveDelete(s)
        PROVE  MeasuredOK'
    BY <1>1, <1>6 DEF UnsaveDelete, MeasuredOK
  <1>7. ASSUME NEW a \in Attempts, EnsureSaved(a)
        PROVE  MeasuredOK'
    <2>1. recorded[a] # NoRow
      BY <1>7 DEF EnsureSaved, NoRow
    <2> QED
      BY <1>1, <1>7, <2>1 DEF EnsureSaved, MeasuredOK
  <1>8. \A s \in Slots : RecordPolled(s) \/ SaveNote(s) => UNCHANGED saved
    BY DEF RecordPolled, SaveNote
  <1> QED
    BY <1>3, <1>4, <1>5, <1>6, <1>7, <1>8, RowSteps

\* A claimed task keeps its poll, or has its attempt recorded.
LEMMA ClaimedStep ==
  ASSUME ClaimInv, ClaimsAreKept, [Next]_vars
  PROVE  ClaimedIsRecorded'
  <1> SUFFICES ASSUME NEW a \in Attempts, claimedBy'[a] # None
               PROVE  \/ recorded'[a] # NoRow
                      \/ \E s \in Slots : req'[s].pc = "claimed" /\ req'[s].att = a
    BY DEF ClaimedIsRecorded
  <1>1. /\ req \in [Slots -> Request] /\ claimedBy \in [Attempts -> Users \cup {None}]
        /\ recorded \in [Attempts -> RecordedRow] /\ \A s \in Slots : Working(req[s])
    BY DEF ClaimInv, TypeInv, TypeOK, SlotsOK
  <1>2. recorded[a] # NoRow => recorded'[a] = recorded[a]
    BY RowsStep DEF RowsKept, ClaimInv
  <1>3. CASE claimedBy'[a] = claimedBy[a]
    <2>1. CASE recorded[a] # NoRow
      BY <1>2, <2>1
    <2>2. CASE recorded[a] = NoRow
      <3>1. PICK s \in Slots : req[s].pc = "claimed" /\ req[s].att = a
        BY <1>3, <2>2 DEF ClaimInv, ClaimedIsRecorded
      <3>2. CASE req'[s] = req[s]
        BY <3>1, <3>2
      <3>3. CASE RecordPolled(s)
        <4>1. recorded' = Recorded(a, req[s].user, Score[a])
          BY <3>1, <3>3 DEF RecordPolled
        <4>2. req[s].user \in Users /\ Score[a] \in Nat
          BY <1>1, <3>1, AttemptsAssumption DEF Working
        <4> QED
          BY <1>1, <4>1, <4>2, RecordedType
      <3> QED
        BY <3>1, <3>2, <3>3, SlotSteps DEF ClaimInv, ClaimsAreKept
    <2> QED
      BY <2>1, <2>2
  <1>4. CASE claimedBy'[a] # claimedBy[a]
    <2>1. PICK s \in Slots : PollClaim(s)
      <3>1. ASSUME NEW s \in Slots, Upload(s) \/ Enqueue(s) \/ PersistTask(s) \/ DiscardVideo(s)
            PROVE  UNCHANGED claimedBy
        BY <3>1 DEF Upload, Enqueue, PersistTask, DiscardVideo
      <3>2. ASSUME NEW s \in Slots, Save(s)
            PROVE  UNCHANGED claimedBy
        BY <3>2 DEF Save, SaveBegin, SaveLoad, SaveNote, SaveLook, SaveUpsert, SavePrune, SaveTell
      <3>3. ASSUME NEW s \in Slots,
                   RecordPolled(s) \/ UnsaveBegin(s) \/ UnsaveDelete(s) \/ UnsaveErase(s) \/ Fail(s)
            PROVE  UNCHANGED claimedBy
        BY <3>3 DEF RecordPolled, UnsaveBegin, UnsaveDelete, UnsaveErase, Fail
      <3>4. ASSUME NEW p \in Sweepers,
                   (\E b \in Attempts : SweepCheck(p, b)) \/ SweepDelete(p) \/ SweepFail(p)
            PROVE  UNCHANGED claimedBy
        BY <3>4 DEF SweepCheck, SweepDelete, SweepFail
      <3>5. ASSUME NEW b \in Attempts, MLFinish(b) \/ EnsureSaved(b) \/ Age(b)
            PROVE  UNCHANGED claimedBy
        BY <3>5 DEF MLFinish, EnsureSaved, Age
      <3> QED
        BY <1>4, <3>1, <3>2, <3>3, <3>4, <3>5 DEF Next, vars
    <2>2. PICK b \in Attempts, u \in Users \cup {None} :
            /\ claimedBy' = [claimedBy EXCEPT ![b] = u]
            /\ req' = [req EXCEPT ![s] =
                         IF AfterClaim(b, u) = "idle" THEN Idle
                         ELSE NewRequest(AfterClaim(b, u), u, b, FALSE, None, 0)]
      BY <2>1 DEF PollClaim
    <2>3. b = a /\ u # None
      BY <1>1, <1>4, <2>2
    <2>4. req'[s] = NewRequest("claimed", u, a, FALSE, None, 0)
      BY <1>1, <2>2, <2>3 DEF AfterClaim
    <2> QED
      BY <2>4 DEF NewRequest
  <1> QED
    BY <1>3, <1>4

\* Whatever else fails: while saves read the results that are there, no score but the
\* measured one is ever stored for an attempt, unless somebody saved it before it was
\* measured, or saved it out of the folder of another account.
THEOREM MeasuredCorrect == Spec /\ [][ResultsAreRead]_vars => []MeasuredScoresStay
  <1>1. Init => ScoreInv
    BY TypeInit, AttemptsAssumption
    DEF Init, ScoreInv, MeasuredOK, SavingOK, Idle, NewRequest
  <1>2. ScoreInv /\ [Next]_vars /\ [ResultsAreRead]_vars => ScoreInv'
    <2>1. CASE UNCHANGED vars
      BY <2>1 DEF ScoreInv, TypeInv, TypeOK, SlotsOK, MeasuredOK, SavingOK, vars
    <2> QED
      BY <2>1, TypeStep, MeasuredStep, SavingStep DEF ScoreInv
  <1>3. ScoreInv => MeasuredScoresStay
    BY DEF ScoreInv, MeasuredOK, MeasuredScoresStay, Measured
  <1> QED
    BY <1>1, <1>2, <1>3, PTL DEF Spec

\* Whatever else fails: while saves read the results that are there and record what they
\* have read, an attempt that is saved counts, unless somebody saved it before it was
\* measured, or saved it out of the folder of another account.
THEOREM SavedCorrect ==
  Spec /\ [][ResultsAreRead /\ ScoresAreNoted]_vars => []SavedIsRecorded
  <1>1. Init => CountInv
    BY TypeInit, AttemptsAssumption
    DEF Init, CountInv, SavedIsRecorded, NotedOK, Idle, NewRequest
  <1>2. CountInv /\ [Next]_vars /\ [ResultsAreRead /\ ScoresAreNoted]_vars => CountInv'
    <2>1. CASE UNCHANGED vars
      BY <2>1 DEF CountInv, TypeInv, TypeOK, SlotsOK, SavedIsRecorded, NotedOK, vars
    <2> QED
      BY <2>1, TypeStep, CountStep DEF CountInv
  <1>3. CountInv => SavedIsRecorded
    BY DEF CountInv
  <1> QED
    BY <1>1, <1>2, <1>3, PTL DEF Spec

\* Whatever else fails: while polls that have claimed a task go on to record its attempt,
\* a task claimed for a user has its attempt recorded, or is having it recorded.
THEOREM ClaimedCorrect == Spec /\ [][ClaimsAreKept]_vars => []ClaimedIsRecorded
  <1>1. Init => ClaimInv
    BY TypeInit DEF Init, ClaimInv, ClaimedIsRecorded
  <1>2. ClaimInv /\ [Next]_vars /\ [ClaimsAreKept]_vars => ClaimInv'
    <2>1. CASE UNCHANGED vars
      BY <2>1 DEF ClaimInv, TypeInv, TypeOK, SlotsOK, ClaimedIsRecorded, vars
    <2> QED
      BY <2>1, TypeStep, ClaimedStep DEF ClaimInv
  <1>3. ClaimInv => ClaimedIsRecorded
    BY DEF ClaimInv
  <1> QED
    BY <1>1, <1>2, <1>3, PTL DEF Spec

-----------------------------------------------------------------------------
(* The videos the profile shows, whatever fails. *)

\* Only an attempt that was uploaded before ML knows it is being enqueued, by one request.
MLOK(s) == /\ req[s].pc = "enqueue" =>
                /\ ml[req[s].att] = "none"
                /\ \A t \in Slots \ {s} : req[t].att # req[s].att
           /\ req[s].pc \notin {"idle", "enqueue"} => ml[req[s].att] # "none"

SavedML == \A a \in Attempts : saved[a] # NotSaved => ml[a] # "none"

\* A request that is about to take the video of attempt a.
Takes(q, a) == /\ q.att = a
               /\ \/ q.pc = "discard"
                  \/ q.pc \in {"prune", "erase"} /\ InFolderOf(a, q.user)

\* A call that is about to take a video the profile shows was overtaken by a save.
TakersOK(a) == Promised(a) =>
  /\ \A s \in Slots : Takes(req[s], a) => s \in overtaken
  /\ \A p \in Sweepers : sweep[p] = a => p \in overtaken

VideoInv == /\ TypeInv
            /\ \A s \in Slots : MLOK(s)
            /\ SavedML
            /\ \A a \in Attempts : TakersOK(a)

\* What Goto and Done make of a slot.
LEMMA GotoFields ==
  ASSUME SlotsOK, NEW s \in Slots, NEW pc, Goto(s, pc)
  PROVE  \E q : /\ req' = [req EXCEPT ![s] = q]
                /\ q.pc = pc /\ q.att = req[s].att /\ q.user = req[s].user
                /\ q.video = req[s].video /\ q.existed = req[s].existed
<1> DEFINE q == [req[s] EXCEPT !.pc = pc]
<1>1. /\ q.pc = pc /\ q.att = req[s].att /\ q.user = req[s].user
      /\ q.video = req[s].video /\ q.existed = req[s].existed
  BY DEF SlotsOK, Request
<1>2. req' = [req EXCEPT ![s] = q]
  BY DEF Goto
<1> HIDE DEF q
<1> QED
  BY <1>1, <1>2

\* A slot whose request ends is idle.
LEMMA DoneFields ==
  ASSUME NEW s \in Slots, Done(s)
  PROVE  \E q : req' = [req EXCEPT ![s] = q] /\ q.pc = "idle" /\ q.att = None
<1>1. Idle.pc = "idle" /\ Idle.att = None
  BY DEF Idle, NewRequest
<1>2. req' = [req EXCEPT ![s] = Idle]
  BY DEF Done
<1> QED
  BY <1>1, <1>2

\* A request that goes on or ends, without taking a video next.
LEMMA QuietStep ==
  ASSUME VideoInv, TypeInv', NEW s \in Slots, NEW q, req' = [req EXCEPT ![s] = q],
         UNCHANGED <<ml, saved, sweep, overtaken>>,
         q.pc \notin {"enqueue", "discard", "prune", "erase"},
         \/ q.pc = "idle" /\ q.att = None
         \/ q.att = req[s].att /\ req[s].pc \notin {"idle", "enqueue"}
         \/ q.att \in Attempts /\ ml[q.att] # "none" /\ req[s].pc = "idle"
  PROVE  VideoInv'
<1>1. /\ req \in [Slots -> Request] /\ req'[s] = q
      /\ \A t \in Slots \ {s} : req'[t] = req[t]
      /\ \A t \in Slots : Working(req[t])
  BY DEF VideoInv, TypeInv, SlotsOK
<1>2. ASSUME NEW t \in Slots PROVE MLOK(t)'
  <2>1. CASE t = s
    BY <1>1, <2>1 DEF VideoInv, MLOK
  <2>2. CASE t # s
    <3>1. req'[t] = req[t] /\ MLOK(t)
      BY <1>1, <2>2 DEF VideoInv
    <3>2. ASSUME req[t].pc = "enqueue" PROVE req'[s].att # req[t].att
      <4>1. req[t].att \in Attempts /\ ml[req[t].att] = "none" /\ req[s].att # req[t].att
        BY <1>1, <2>2, <3>1, <3>2 DEF MLOK, Working
      <4> QED BY <1>1, <4>1, AttemptsAssumption
    <3> QED BY <1>1, <3>1, <3>2 DEF MLOK
  <2> QED BY <2>1, <2>2
<1>3. SavedML'
  BY DEF VideoInv, SavedML
<1>4. ASSUME NEW a \in Attempts PROVE TakersOK(a)'
  <2>1. Promised(a)' => Promised(a)
    BY DEF Promised
  <2>2. \A t \in Slots : Takes(req'[t], a) => Takes(req[t], a)
    BY <1>1 DEF Takes
  <2> QED BY <2>1, <2>2 DEF VideoInv, TakersOK
<1> QED
  BY <1>2, <1>3, <1>4 DEF VideoInv

\* The same, of the steps made of Goto and Done.
LEMMA QuietGoes ==
  ASSUME VideoInv, TypeInv', NEW s \in Slots, req[s].pc \notin {"idle", "enqueue"},
         UNCHANGED <<ml, saved, sweep, overtaken>>,
         Done(s) \/ \E pc \in Pcs \ {"enqueue", "discard", "prune", "erase"} : Goto(s, pc)
  PROVE  VideoInv'
<1>1. CASE Done(s)
  BY <1>1, DoneFields, QuietStep
<1>2. ASSUME NEW pc \in Pcs \ {"enqueue", "discard", "prune", "erase"}, Goto(s, pc)
      PROVE  VideoInv'
  <2>1. PICK q : /\ req' = [req EXCEPT ![s] = q]
                 /\ q.pc = pc /\ q.att = req[s].att /\ q.user = req[s].user
                 /\ q.video = req[s].video /\ q.existed = req[s].existed
    BY <1>2, GotoFields DEF VideoInv, TypeInv
  <2> QED BY <2>1, QuietStep
<1> QED
  BY <1>1, <1>2

\* Only SaveBegin and UnsaveBegin, and the check of a sweep, take a call out of overtaken;
\* and it takes no video the profile shows.
LEMMA BeginStep ==
  ASSUME VideoInv, TypeInv', NEW s \in Slots, NEW q, req' = [req EXCEPT ![s] = q],
         UNCHANGED <<ml, saved, sweep>>, overtaken' = overtaken \ {s},
         q.pc \in {"load", "delete"}, q.att \in Attempts, ml[q.att] # "none",
         req[s].pc = "idle"
  PROVE  VideoInv'
<1>1. /\ req \in [Slots -> Request] /\ req'[s] = q
      /\ \A t \in Slots \ {s} : req'[t] = req[t]
      /\ \A t \in Slots : Working(req[t])
  BY DEF VideoInv, TypeInv, SlotsOK
<1>2. ASSUME NEW t \in Slots PROVE MLOK(t)'
  <2>1. CASE t = s
    BY <1>1, <2>1 DEF VideoInv, MLOK
  <2>2. CASE t # s
    BY <1>1, <2>2 DEF VideoInv, MLOK
  <2> QED BY <2>1, <2>2
<1>3. SavedML'
  BY DEF VideoInv, SavedML
<1>4. ASSUME NEW a \in Attempts PROVE TakersOK(a)'
  <2>1. Promised(a)' => Promised(a)
    BY DEF Promised
  <2>2. ~Takes(req'[s], a) /\ \A t \in Slots \ {s} : Takes(req'[t], a) => Takes(req[t], a)
    BY <1>1 DEF Takes
  <2>3. s \notin Sweepers
    BY AttemptsAssumption
  <2> QED BY <2>1, <2>2, <2>3 DEF VideoInv, TakersOK
<1> QED
  BY <1>2, <1>3, <1>4 DEF VideoInv

\* A row that is written overtakes every other call on its attempt.
LEMMA WriteStep ==
  ASSUME VideoInv, TypeInv', NEW a \in Attempts, NEW row, NEW S \in SUBSET Slots,
         saved' = [saved EXCEPT ![a] = row], ml[a] # "none", UNCHANGED <<ml, sweep>>,
         overtaken' = overtaken \cup (WorkingOn(a) \ S),
         \A t \in Slots \ S : req'[t] = req[t],
         \A t \in S : /\ req'[t].att = a /\ req[t].pc \notin {"idle", "enqueue"}
                      /\ req[t].att = a
                      /\ req'[t].pc \notin {"enqueue", "discard", "erase"}
                      /\ req'[t].pc = "prune" => ~row.video
  PROVE  VideoInv'
<1>1. /\ req \in [Slots -> Request] /\ saved \in [Attempts -> SavedRow]
      /\ \A t \in Slots : Working(req[t]) /\ MLOK(t)
  BY DEF VideoInv, TypeInv, TypeOK, SlotsOK
<1>2. ASSUME NEW t \in Slots PROVE MLOK(t)'
  BY <1>1 DEF MLOK
<1>3. SavedML'
  BY <1>1 DEF VideoInv, SavedML
<1>4. ASSUME NEW b \in Attempts PROVE TakersOK(b)'
  <2>1. CASE b # a
    <3>1. saved'[b] = saved[b]
      BY <1>1, <2>1
    <3>2. \A t \in Slots : Takes(req'[t], b) => Takes(req[t], b)
      BY <2>1 DEF Takes
    <3> QED BY <3>1, <3>2 DEF VideoInv, TakersOK, Promised
  <2>2. CASE b = a
    <3>1. saved'[a] = row
      BY <1>1
    <3>2. \A t \in Slots \ S : Takes(req'[t], a) => t \in overtaken'
      BY DEF WorkingOn, Takes
    <3>3. \A p \in Sweepers : sweep'[p] = a => p \in overtaken'
      BY AttemptsAssumption DEF WorkingOn
    <3>4. \A t \in S : ~(Takes(req'[t], a) /\ Promised(a)')
      BY <3>1 DEF Takes, Promised
    <3> QED BY <2>2, <3>2, <3>3, <3>4 DEF TakersOK
  <2> QED BY <2>1, <2>2
<1> QED
  BY <1>2, <1>3, <1>4 DEF VideoInv

\* Every step keeps the invariant of the videos.
LEMMA VideoStep == ASSUME VideoInv, [Next]_vars PROVE VideoInv'
<1>0. /\ TypeInv' /\ req \in [Slots -> Request] /\ saved \in [Attempts -> SavedRow]
      /\ ml \in [Attempts -> {"none", "queued", "done", "failed"}]
      /\ sweep \in [Sweepers -> Attempts \cup {None}]
      /\ \A t \in Slots : Working(req[t]) /\ MLOK(t)
  BY TypeStep DEF VideoInv, TypeInv, TypeOK, SlotsOK
<1>1. ASSUME NEW s \in Slots, Upload(s) PROVE VideoInv'
  <2>1. PICK a \in Attempts :
          /\ ml[a] = "none"
          /\ \A t \in Slots : req[t].att # a
          /\ req' = [req EXCEPT ![s] = NewRequest("enqueue", None, a, FALSE, None, 0)]
    BY <1>1 DEF Upload
  <2> DEFINE q == NewRequest("enqueue", None, a, FALSE, None, 0)
  <2>2. q.pc = "enqueue" /\ q.att = a
    BY DEF NewRequest
  <2>3. req'[s] = q /\ \A t \in Slots \ {s} : req'[t] = req[t]
    BY <1>0, <2>1
  <2> HIDE DEF q
  <2>4. UNCHANGED <<ml, saved, sweep, overtaken>>
    BY <1>1 DEF Upload
  <2>5. ASSUME NEW t \in Slots PROVE MLOK(t)'
    <3>1. CASE t = s
      BY <2>1, <2>2, <2>3, <2>4, <3>1 DEF MLOK
    <3>2. CASE t # s
      <4>1. req'[t] = req[t] /\ req'[s].att # req[t].att
        BY <2>1, <2>2, <2>3, <3>2
      <4> QED BY <1>0, <2>3, <2>4, <4>1 DEF MLOK
    <3> QED BY <3>1, <3>2
  <2>6. SavedML'
    BY <2>4 DEF VideoInv, SavedML
  <2>7. ASSUME NEW b \in Attempts PROVE TakersOK(b)'
    <3>1. \A t \in Slots : Takes(req'[t], b) => Takes(req[t], b)
      BY <2>2, <2>3 DEF Takes
    <3> QED BY <2>4, <3>1 DEF VideoInv, TakersOK, Promised
  <2> QED BY <1>0, <2>5, <2>6, <2>7 DEF VideoInv
<1>2. ASSUME NEW s \in Slots, Enqueue(s) PROVE VideoInv'
  <2>1. PICK m \in {"queued", "failed"} : ml' = [ml EXCEPT ![req[s].att] = m]
    BY <1>2 DEF Enqueue
  <2>2. PICK pc \in {"task", "discard"} : Goto(s, pc)
    BY <1>2 DEF Enqueue
  <2>3. PICK q : /\ req' = [req EXCEPT ![s] = q]
                 /\ q.pc = pc /\ q.att = req[s].att /\ q.user = req[s].user
                 /\ q.video = req[s].video /\ q.existed = req[s].existed
    BY <2>2, GotoFields DEF VideoInv, TypeInv
  <2>4. req'[s] = q /\ \A t \in Slots \ {s} : req'[t] = req[t]
    BY <1>0, <2>3
  <2>5. req[s].pc = "enqueue" /\ req[s].att \in Attempts /\ ml[req[s].att] = "none"
    BY <1>0, <1>2 DEF Enqueue, Working, MLOK
  <2>6. UNCHANGED <<saved, sweep, overtaken>>
    BY <1>2 DEF Enqueue
  <2>7. \A b \in Attempts : ml'[b] = (IF b = req[s].att THEN m ELSE ml[b])
    BY <1>0, <2>1
  <2>8. ASSUME NEW t \in Slots PROVE MLOK(t)'
    <3>1. CASE t = s
      BY <2>3, <2>4, <2>5, <2>7, <3>1 DEF MLOK
    <3>2. CASE t # s
      <4>1. req'[t] = req[t] /\ req[s].att # req[t].att
        BY <1>0, <2>4, <2>5, <3>2 DEF MLOK
      <4>2. req[t].pc # "idle" => ml'[req[t].att] = ml[req[t].att]
        BY <1>0, <2>7, <4>1 DEF Working
      <4>3. \A x \in Slots \ {t} : req'[x].att = req[x].att
        BY <2>3, <2>4
      <4> QED BY <1>0, <4>1, <4>2, <4>3 DEF MLOK
    <3> QED BY <3>1, <3>2
  <2>9. SavedML'
    BY <2>6, <2>7 DEF VideoInv, SavedML
  <2>10. ASSUME NEW b \in Attempts PROVE TakersOK(b)'
    <3>1. CASE b = req[s].att
      <4>1. saved[b] = NotSaved
        BY <2>5, <3>1 DEF VideoInv, SavedML
      <4>2. ~Promised(b)'
        BY <2>6, <4>1 DEF Promised, NotSaved
      <4> QED BY <4>2 DEF TakersOK
    <3>2. CASE b # req[s].att
      <4>1. \A t \in Slots : Takes(req'[t], b) => Takes(req[t], b)
        BY <2>3, <2>4, <3>2 DEF Takes
      <4> QED BY <2>6, <4>1 DEF VideoInv, TakersOK, Promised
    <3> QED BY <3>1, <3>2
  <2> QED BY <1>0, <2>8, <2>9, <2>10 DEF VideoInv
<1>3. ASSUME NEW s \in Slots, PersistTask(s) \/ DiscardVideo(s) \/ RecordPolled(s) \/ Fail(s)
      PROVE  VideoInv'
  <2>1. Done(s) /\ UNCHANGED <<ml, saved, sweep, overtaken>> /\ req[s].pc # "idle"
    BY <1>3 DEF PersistTask, DiscardVideo, RecordPolled, Fail
  <2> QED BY <1>0, <2>1, DoneFields, QuietStep
<1>4. ASSUME NEW s \in Slots, SaveNote(s) \/ SavePrune(s) \/ SaveTell(s) \/ UnsaveErase(s)
      PROVE  VideoInv'
  <2>1. /\ UNCHANGED <<ml, saved, sweep, overtaken>>
        /\ req[s].pc \notin {"idle", "enqueue"}
        /\ Done(s) \/ \E pc \in Pcs \ {"enqueue", "discard", "prune", "erase"} : Goto(s, pc)
    BY <1>4 DEF SaveNote, SavePrune, SaveTell, UnsaveErase, DropVideo, Pcs
  <2> QED BY <1>0, <2>1, QuietGoes
<1>5. ASSUME NEW s \in Slots, PollClaim(s) PROVE VideoInv'
  <2>1. PICK a \in Attempts, u \in Users \cup {None} :
          /\ ml[a] = "done"
          /\ req' = [req EXCEPT ![s] =
                       IF AfterClaim(a, u) = "idle" THEN Idle
                       ELSE NewRequest(AfterClaim(a, u), u, a, FALSE, None, 0)]
    BY <1>5 DEF PollClaim
  <2> DEFINE q == NewRequest("claimed", u, a, FALSE, None, 0)
  <2>2. q.pc = "claimed" /\ q.att = a
    BY DEF NewRequest
  <2>3. Idle.pc = "idle" /\ Idle.att = None
    BY DEF Idle, NewRequest
  <2>4. req' = [req EXCEPT ![s] = Idle] \/ req' = [req EXCEPT ![s] = q]
    BY <2>1 DEF AfterClaim
  <2> HIDE DEF q
  <2>5. UNCHANGED <<ml, saved, sweep, overtaken>> /\ req[s].pc = "idle"
    BY <1>5 DEF PollClaim
  <2> QED BY <1>0, <2>1, <2>2, <2>3, <2>4, <2>5, QuietStep
<1>6. ASSUME NEW s \in Slots, SaveBegin(s) PROVE VideoInv'
  <2>1. PICK a \in Attempts, u \in Users, v \in BOOLEAN, c \in Claims \cup {None} :
          /\ ml[a] # "none"
          /\ \E best \in BestOf(u) \cup IfFailing(s, 0) :
               req' = [req EXCEPT ![s] = NewRequest("load", u, a, v, c, best)]
    BY <1>6 DEF SaveBegin
  <2>2. PICK best : req' = [req EXCEPT ![s] = NewRequest("load", u, a, v, c, best)]
    BY <2>1
  <2> DEFINE q == NewRequest("load", u, a, v, c, best)
  <2>3. q.pc = "load" /\ q.att = a
    BY DEF NewRequest
  <2>4. req' = [req EXCEPT ![s] = q]
    BY <2>2
  <2> HIDE DEF q
  <2>5. UNCHANGED <<ml, saved, sweep>> /\ overtaken' = overtaken \ {s} /\ req[s].pc = "idle"
    BY <1>6 DEF SaveBegin
  <2> QED BY <1>0, <2>1, <2>3, <2>4, <2>5, BeginStep
<1>7. ASSUME NEW s \in Slots, UnsaveBegin(s) PROVE VideoInv'
  <2>1. PICK a \in Attempts, u \in Users :
          /\ ml[a] # "none"
          /\ \E v \in {saved[a].user = u /\ saved[a].video} \cup IfFailing(s, FALSE) :
               req' = [req EXCEPT ![s] = NewRequest("delete", u, a, v, None, 0)]
    BY <1>7 DEF UnsaveBegin
  <2>2. PICK v : req' = [req EXCEPT ![s] = NewRequest("delete", u, a, v, None, 0)]
    BY <2>1
  <2> DEFINE q == NewRequest("delete", u, a, v, None, 0)
  <2>3. q.pc = "delete" /\ q.att = a
    BY DEF NewRequest
  <2>4. req' = [req EXCEPT ![s] = q]
    BY <2>2
  <2> HIDE DEF q
  <2>5. UNCHANGED <<ml, saved, sweep>> /\ overtaken' = overtaken \ {s} /\ req[s].pc = "idle"
    BY <1>7 DEF UnsaveBegin
  <2> QED BY <1>0, <2>1, <2>3, <2>4, <2>5, BeginStep
<1>8. ASSUME NEW s \in Slots, SaveLoad(s) PROVE VideoInv'
  <2>1. PICK found \in BOOLEAN : req' = [req EXCEPT ![s] = Loaded(req[s], found)]
    BY <1>8 DEF SaveLoad
  <2> DEFINE q == Loaded(req[s], found)
  <2>2. q.pc \in {"note", "look"} /\ q.att = req[s].att
    BY <1>0 DEF Loaded, Request
  <2>3. req' = [req EXCEPT ![s] = q]
    BY <2>1
  <2> HIDE DEF q
  <2>4. UNCHANGED <<ml, saved, sweep, overtaken>> /\ req[s].pc = "load"
    BY <1>8 DEF SaveLoad
  <2> QED BY <1>0, <2>2, <2>3, <2>4, QuietStep
<1>9. ASSUME NEW s \in Slots, SaveLook(s) PROVE VideoInv'
  <2>1. PICK e \in {Existed(req[s])} \cup IfFailing(s, FALSE) :
          req' = [req EXCEPT ![s] = [req[s] EXCEPT !.pc = "upsert", !.existed = e]]
    BY <1>9 DEF SaveLook
  <2> DEFINE q == [req[s] EXCEPT !.pc = "upsert", !.existed = e]
  <2>2. q.pc = "upsert" /\ q.att = req[s].att
    BY <1>0 DEF Request
  <2>3. req' = [req EXCEPT ![s] = q]
    BY <2>1
  <2> HIDE DEF q
  <2>4. UNCHANGED <<ml, saved, sweep, overtaken>> /\ req[s].pc = "look"
    BY <1>9 DEF SaveLook
  <2> QED BY <1>0, <2>2, <2>3, <2>4, QuietStep
<1>10. ASSUME NEW s \in Slots, SaveUpsert(s) PROVE VideoInv'
  <2> DEFINE a   == req[s].att
             row == Upserted(saved[a], req[s])
  <2>1. PICK q : /\ req' = [req EXCEPT ![s] = q]
                 /\ q.pc = (IF req[s].video THEN "tell" ELSE "prune")
                 /\ q.att = req[s].att /\ q.user = req[s].user
                 /\ q.video = req[s].video /\ q.existed = req[s].existed
    BY <1>10, GotoFields DEF SaveUpsert, VideoInv, TypeInv
  <2>2. req'[s] = q /\ \A t \in Slots \ {s} : req'[t] = req[t]
    BY <1>0, <2>1
  <2>3. req[s].pc = "upsert" /\ a \in Attempts /\ ml[a] # "none"
    BY <1>0, <1>10 DEF SaveUpsert, Working, MLOK
  <2>4. row.video = req[s].video
    BY <1>0, <2>3 DEF Upserted, SavedRow, NotSaved
  <2>5. /\ saved' = [saved EXCEPT ![a] = row]
        /\ overtaken' = overtaken \cup (WorkingOn(a) \ {s})
        /\ UNCHANGED <<ml, sweep>>
    BY <1>10 DEF SaveUpsert
  <2> HIDE DEF row
  <2>6. /\ q.att = a /\ q.pc \notin {"enqueue", "discard", "erase"}
        /\ q.pc = "prune" => ~row.video
    BY <2>1, <2>4
  <2> DEFINE S == {s}
  <2>7. /\ S \in SUBSET Slots
        /\ \A t \in Slots \ S : req'[t] = req[t]
        /\ \A t \in S : /\ req'[t].att = a /\ req[t].pc \notin {"idle", "enqueue"}
                        /\ req[t].att = a
                        /\ req'[t].pc \notin {"enqueue", "discard", "erase"}
                        /\ req'[t].pc = "prune" => ~row.video
    BY <2>2, <2>3, <2>6
  <2>8. overtaken' = overtaken \cup (WorkingOn(a) \ S)
    BY <2>5
  <2> HIDE DEF S, a
  <2> QED BY <1>0, <2>3, <2>5, <2>7, <2>8, WriteStep
<1>11. ASSUME NEW s \in Slots, UnsaveDelete(s) PROVE VideoInv'
  <2> DEFINE a == req[s].att
  <2>1. PICK q : /\ req' = [req EXCEPT ![s] = q]
                 /\ \/ q.pc = "idle" /\ q.att = None
                    \/ q.pc = "erase" /\ q.att = a /\ q.user = req[s].user
    BY <1>11, DoneFields, GotoFields DEF UnsaveDelete, VideoInv, TypeInv
  <2>2. req'[s] = q /\ \A t \in Slots \ {s} : req'[t] = req[t]
    BY <1>0, <2>1
  <2>3. req[s].pc = "delete" /\ a \in Attempts /\ ml[a] # "none" /\ req[s].user \in Users
    BY <1>0, <1>11 DEF UnsaveDelete, Working, MLOK
  <2>4. UNCHANGED <<ml, sweep, overtaken>>
    BY <1>11 DEF UnsaveDelete
  <2>5. \A b \in Attempts : saved'[b] = saved[b] \/ (b = a /\ saved'[b] = NotSaved)
    BY <1>0, <1>11 DEF UnsaveDelete
  <2>6. saved[a].user = req[s].user => saved'[a] = NotSaved
    BY <1>0, <1>11, <2>3 DEF UnsaveDelete
  <2>7. ASSUME NEW t \in Slots PROVE MLOK(t)'
    <3>1. CASE t = s
      BY <2>1, <2>2, <2>3, <2>4, <3>1 DEF MLOK
    <3>2. CASE t # s
      <4>1. req'[t] = req[t]
        BY <2>2, <3>2
      <4>2. req[t].pc = "enqueue" => req'[s].att # req[t].att
        BY <1>0, <2>1, <2>2, <2>3, AttemptsAssumption DEF MLOK, Working
      <4> QED BY <1>0, <2>2, <2>4, <4>1, <4>2 DEF MLOK
    <3> QED BY <3>1, <3>2
  <2>8. SavedML'
    BY <2>4, <2>5 DEF VideoInv, SavedML
  <2>9. ASSUME NEW b \in Attempts PROVE TakersOK(b)'
    <3>1. Promised(b)' => Promised(b) /\ saved'[b] = saved[b]
      BY <2>5 DEF Promised, NotSaved
    <3>2. \A t \in Slots \ {s} : Takes(req'[t], b) => Takes(req[t], b)
      BY <2>2
    <3>3. ASSUME Takes(req'[s], b), Promised(b)' PROVE FALSE
      <4>1. b = a /\ Maker[a] = req[s].user
        BY <2>1, <2>2, <3>3, AttemptsAssumption DEF Takes, InFolderOf
      <4>2. saved[a].user = req[s].user
        BY <3>1, <3>3, <4>1 DEF Promised, InFolderOf
      <4> QED BY <2>6, <3>3, <4>1, <4>2 DEF Promised, NotSaved
    <3> QED BY <2>4, <3>1, <3>2, <3>3 DEF VideoInv, TakersOK
  <2> QED BY <1>0, <2>7, <2>8, <2>9 DEF VideoInv
<1>12. ASSUME NEW a \in Attempts, EnsureSaved(a) PROVE VideoInv'
  <2> DEFINE row == [user |-> recorded[a].user, score |-> Score[a], video |-> TRUE]
  <2>1. /\ saved' = [saved EXCEPT ![a] = row] /\ ml[a] # "none"
        /\ UNCHANGED <<ml, sweep, req>>
        /\ overtaken' = overtaken \cup (WorkingOn(a) \ {})
    BY <1>12 DEF EnsureSaved
  <2>2. {} \in SUBSET Slots /\ \A t \in Slots \ {} : req'[t] = req[t]
    BY <2>1
  <2> HIDE DEF row
  <2> QED BY <1>0, <2>1, <2>2, WriteStep
<1>13. ASSUME NEW p \in Sweepers, NEW a \in Attempts, SweepCheck(p, a) PROVE VideoInv'
  <2>1. /\ UNCHANGED <<ml, saved, req>> /\ ~Promised(a)
        /\ overtaken' = overtaken \ {p} /\ sweep' = [sweep EXCEPT ![p] = a]
    BY <1>13 DEF SweepCheck, MayCheck, Spared, Promised
  <2>2. ASSUME NEW b \in Attempts PROVE TakersOK(b)'
    <3>1. Promised(b)' => Promised(b) /\ b # a
      BY <2>1 DEF Promised
    <3>2. \A x \in Sweepers : sweep'[x] = b /\ b # a => sweep[x] = b /\ x # p
      BY <1>0, <2>1
    <3>3. p \notin Slots
      BY AttemptsAssumption
    <3> QED BY <2>1, <3>1, <3>2, <3>3 DEF VideoInv, TakersOK
  <2>3. (\A t \in Slots : MLOK(t)') /\ SavedML'
    BY <1>0, <2>1 DEF VideoInv, MLOK, SavedML
  <2> QED BY <1>0, <2>2, <2>3 DEF VideoInv
<1>14. ASSUME NEW p \in Sweepers, SweepDelete(p) \/ SweepFail(p) PROVE VideoInv'
  <2>1. UNCHANGED <<ml, saved, req, overtaken>> /\ sweep' = [sweep EXCEPT ![p] = None]
    BY <1>14 DEF SweepDelete, SweepFail
  <2>2. ASSUME NEW b \in Attempts PROVE TakersOK(b)'
    <3>1. \A x \in Sweepers : sweep'[x] = b => sweep[x] = b
      BY <1>0, <2>1, AttemptsAssumption
    <3> QED BY <2>1, <3>1 DEF VideoInv, TakersOK, Promised
  <2>3. (\A t \in Slots : MLOK(t)') /\ SavedML'
    BY <1>0, <2>1 DEF VideoInv, MLOK, SavedML
  <2> QED BY <1>0, <2>2, <2>3 DEF VideoInv
<1>15. ASSUME NEW a \in Attempts, MLFinish(a) PROVE VideoInv'
  <2>1. PICK m \in {"done", "failed"} : ml' = [ml EXCEPT ![a] = m]
    BY <1>15 DEF MLFinish
  <2>2. UNCHANGED <<saved, req, sweep, overtaken>> /\ ml[a] = "queued"
    BY <1>15 DEF MLFinish
  <2>3. \A b \in Attempts : (ml'[b] = "none") <=> (ml[b] = "none")
    BY <1>0, <2>1, <2>2
  <2>4. (\A t \in Slots : MLOK(t)') /\ SavedML'
    BY <1>0, <2>2, <2>3 DEF VideoInv, MLOK, SavedML, Working
  <2>5. \A b \in Attempts : TakersOK(b)'
    BY <2>2 DEF VideoInv, TakersOK, Promised
  <2> QED BY <1>0, <2>4, <2>5 DEF VideoInv
<1>16. ASSUME UNCHANGED <<ml, saved, req, sweep, overtaken>> PROVE VideoInv'
  <2>1. (\A t \in Slots : MLOK(t)') /\ SavedML'
    BY <1>0, <1>16 DEF VideoInv, MLOK, SavedML
  <2>2. \A b \in Attempts : TakersOK(b)'
    BY <1>16 DEF VideoInv, TakersOK, Promised
  <2> QED BY <1>0, <2>1, <2>2 DEF VideoInv
<1>17. ASSUME NEW a \in Attempts, Age(a) PROVE VideoInv'
  BY <1>16, <1>17 DEF Age
<1>18. CASE UNCHANGED vars
  BY <1>16, <1>18 DEF vars
<1> QED
  BY <1>1, <1>2, <1>3, <1>4, <1>5, <1>6, <1>7, <1>8, <1>9, <1>10, <1>11, <1>12, <1>13, <1>14,
     <1>15, <1>17, <1>18 DEF Next, Save

\* The steps that take a video, and which.
LEMMA TakingSteps ==
  ASSUME TypeInv, [Next]_vars, NEW a \in Attempts, video[a], ~video'[a]
  PROVE  \/ \E s \in Slots : Takes(req[s], a)
         \/ \E p \in Sweepers : sweep[p] = a
<1>0. video \in [Attempts -> BOOLEAN] /\ \A s \in Slots : Working(req[s])
  BY DEF TypeInv, TypeOK, SlotsOK
<1>1. ASSUME NEW s \in Slots, Upload(s) PROVE FALSE
  BY <1>0, <1>1 DEF Upload
<1>2. ASSUME NEW s \in Slots,
             Enqueue(s) \/ PersistTask(s) \/ PollClaim(s) \/ RecordPolled(s) \/ Fail(s)
      PROVE  FALSE
  BY <1>2 DEF Enqueue, PersistTask, PollClaim, RecordPolled, Fail
<1>3. ASSUME NEW s \in Slots,
             SaveBegin(s) \/ SaveLoad(s) \/ SaveNote(s) \/ SaveLook(s) \/ SaveUpsert(s) \/ SaveTell(s)
      PROVE  FALSE
  BY <1>3 DEF SaveBegin, SaveLoad, SaveNote, SaveLook, SaveUpsert, SaveTell
<1>4. ASSUME NEW s \in Slots, UnsaveBegin(s) \/ UnsaveDelete(s) PROVE FALSE
  BY <1>4 DEF UnsaveBegin, UnsaveDelete
<1>5. ASSUME NEW s \in Slots, DiscardVideo(s) PROVE Takes(req[s], a)
  BY <1>0, <1>5 DEF DiscardVideo, Takes, Working
<1>6. ASSUME NEW s \in Slots, SavePrune(s) \/ UnsaveErase(s) PROVE Takes(req[s], a)
  <2>1. req[s].pc \in {"prune", "erase"}
    BY <1>6 DEF SavePrune, UnsaveErase
  <2>2. video' = [video EXCEPT ![req[s].att] = @ /\ ~InFolderOf(req[s].att, req[s].user)]
    BY <1>6 DEF SavePrune, UnsaveErase, DropVideo
  <2>3. req[s].att = a
    BY <1>0, <2>1, <2>2 DEF Working
  <2>4. video'[a] = (video[a] /\ ~InFolderOf(a, req[s].user))
    BY <1>0, <2>2, <2>3
  <2> QED BY <2>1, <2>3, <2>4 DEF Takes
<1>7. ASSUME NEW p \in Sweepers, SweepDelete(p) PROVE sweep[p] = a
  BY <1>0, <1>7 DEF SweepDelete
<1>8. ASSUME NEW p \in Sweepers, (\E b \in Attempts : SweepCheck(p, b)) \/ SweepFail(p)
      PROVE  FALSE
  BY <1>8 DEF SweepCheck, SweepFail
<1>9. ASSUME NEW b \in Attempts, MLFinish(b) \/ EnsureSaved(b) \/ Age(b) PROVE FALSE
  BY <1>9 DEF MLFinish, EnsureSaved, Age
<1>10. CASE UNCHANGED vars
  BY <1>10 DEF vars
<1> QED
  BY <1>1, <1>2, <1>3, <1>4, <1>5, <1>6, <1>7, <1>8, <1>9, <1>10 DEF Next, Save

\* A video the profile shows is only taken by a call that a save overtook, whatever calls
\* fail, and however many requests and sweeps work on it.
THEOREM VideosCorrect == Spec => ShownVideosTakenOnlyByOvertaken
<1>1. Init => VideoInv
  BY TypeInit, AttemptsAssumption
  DEF Init, VideoInv, MLOK, SavedML, TakersOK, Promised, NotSaved, Idle, NewRequest
<1>2. VideoInv /\ [Next]_vars =>
        \A a \in Attempts : video[a] /\ ~video'[a] /\ Promised(a) =>
          WorkingOn(a) \cap overtaken # {}
  <2> SUFFICES ASSUME VideoInv, [Next]_vars, NEW a \in Attempts, video[a], ~video'[a],
                      Promised(a)
               PROVE  WorkingOn(a) \cap overtaken # {}
    OBVIOUS
  <2>1. \/ \E s \in Slots : Takes(req[s], a)
        \/ \E p \in Sweepers : sweep[p] = a
    BY TakingSteps DEF VideoInv
  <2> QED BY <2>1 DEF VideoInv, TakersOK, Takes, WorkingOn
<1> QED
  BY <1>1, <1>2, VideoStep, PTL DEF Spec, ShownVideosTakenOnlyByOvertaken

-----------------------------------------------------------------------------
(* The announcements. *)

\* The requests of the user of the saved row that may still announce it to the user.
Tellers(a) == {s \in Slots : /\ req[s].att = a /\ req[s].pc \in {"upsert", "prune", "tell"}
                             /\ ~req[s].existed /\ req[s].user = saved[a].user}

\* Each request that found no row announces it at most once: those that have and those
\* that will are no more than the slots.
ToldOK(a) == /\ saved[a] = NotSaved => told[a] = NobodyTold
             /\ saved[a] # NotSaved =>
                  told[a][saved[a].user] + Cardinality(Tellers(a)) <= Cardinality(Slots)

ToldInv == TypeInv /\ \A a \in Attempts : ToldOK(a)

\* The tellers are finitely many, and fewer tellers are no more.
LEMMA TellersFinite ==
  ASSUME NEW S \in SUBSET Slots
  PROVE  /\ IsFiniteSet(S) /\ Cardinality(S) \in Nat /\ Cardinality(Slots) \in Nat
         /\ Cardinality(S) <= Cardinality(Slots)
         /\ \A T \in SUBSET S : Cardinality(T) <= Cardinality(S)
         /\ \A s \in S : Cardinality(S \ {s}) = Cardinality(S) - 1
<1>1. IsFiniteSet(Slots)
  BY AttemptsAssumption
<1>2. IsFiniteSet(S) /\ Cardinality(S) <= Cardinality(Slots)
  BY <1>1, FS_Subset
<1>3. \A T \in SUBSET S : Cardinality(T) <= Cardinality(S)
  BY <1>2, FS_Subset
<1>4. \A s \in S : Cardinality(S \ {s}) = Cardinality(S) - 1
  BY <1>2, FS_RemoveElement
<1>5. Cardinality(S) \in Nat /\ Cardinality(Slots) \in Nat
  BY <1>1, <1>2, FS_CardinalityType
<1> QED
  BY <1>2, <1>3, <1>4, <1>5

\* While a row exists nobody begins to tell of it, and it keeps its user.
LEMMA NoNewTellers ==
  ASSUME ToldInv, RowsAreFound, [Next]_vars, NEW a \in Attempts, saved[a] # NotSaved,
         saved'[a] # NotSaved
  PROVE  Tellers(a)' \subseteq Tellers(a)
<1>1. saved'[a].user = saved[a].user
  BY RowsStep DEF ToldInv, RowsKept
<1> SUFFICES ASSUME NEW t \in Slots, t \in Tellers(a)'
             PROVE  t \in Tellers(a)
  BY DEF Tellers
<1>2. /\ req'[t].att = a /\ req'[t].pc \in {"upsert", "prune", "tell"}
      /\ ~req'[t].existed /\ req'[t].user = saved[a].user
  BY <1>1 DEF Tellers
<1>3. req \in [Slots -> Request]
  BY DEF ToldInv, TypeInv, SlotsOK
<1>4. CASE req'[t] = req[t]
  BY <1>2, <1>4 DEF Tellers
<1>5. CASE SaveLoad(t) \/ SaveNote(t)
  <2>1. CASE SaveLoad(t)
    <3>1. PICK found \in BOOLEAN : req'[t] = Loaded(req[t], found)
      BY <1>3, <2>1 DEF SaveLoad
    <3>2. Loaded(req[t], found).pc \in {"note", "look"}
      BY <1>3 DEF Loaded, Request
    <3> QED BY <1>2, <3>1, <3>2
  <2>2. CASE SaveNote(t)
    <3>1. req'[t].pc = "look"
      BY <1>3, <2>2 DEF SaveNote, Goto, Request
    <3> QED BY <1>2, <3>1
  <2> QED BY <1>5, <2>1, <2>2
<1>6. CASE SaveLook(t)
  <2>1. req'[t] = [req[t] EXCEPT !.pc = "upsert", !.existed = Existed(req[t])]
    BY <1>3, <1>6 DEF RowsAreFound
  <2>2. /\ req'[t].existed = Existed(req[t]) /\ req'[t].att = req[t].att
        /\ req'[t].user = req[t].user
    BY <1>3, <2>1 DEF Request
  <2> QED BY <1>2, <2>2 DEF Existed
<1>7. CASE SaveUpsert(t) \/ SavePrune(t)
  <2>1. /\ req[t].pc \in {"upsert", "prune"} /\ req'[t].existed = req[t].existed
        /\ req'[t].att = req[t].att /\ req'[t].user = req[t].user
    BY <1>3, <1>7 DEF SaveUpsert, SavePrune, DropVideo, Goto, Request
  <2> QED BY <1>2, <2>1 DEF Tellers
<1>8. TypeInv
  BY DEF ToldInv
<1>9. \/ req'[t] = req[t]
      \/ req'[t].pc \notin Saving
      \/ SaveLoad(t) \/ SaveNote(t) \/ SaveLook(t) \/ SaveUpsert(t) \/ SavePrune(t)
  BY <1>8, SlotSteps
<1>10. req'[t].pc \in Saving
  BY <1>2 DEF Saving
<1> QED
  BY <1>4, <1>5, <1>6, <1>7, <1>9, <1>10

\* The steps that save a row, remove it or announce it.
LEMMA TellSteps ==
  ASSUME [Next]_vars
  PROVE  \/ UNCHANGED <<told, saved>>
         \/ \E s \in Slots : SaveUpsert(s) \/ SaveTell(s) \/ UnsaveDelete(s)
         \/ \E a \in Attempts : EnsureSaved(a)
<1>1. ASSUME NEW s \in Slots,
             Upload(s) \/ Enqueue(s) \/ PersistTask(s) \/ DiscardVideo(s) \/ PollClaim(s)
      PROVE  UNCHANGED <<told, saved>>
  BY <1>1 DEF Upload, Enqueue, PersistTask, DiscardVideo, PollClaim
<1>2. ASSUME NEW s \in Slots,
             SaveBegin(s) \/ SaveLoad(s) \/ SaveNote(s) \/ SaveLook(s) \/ SavePrune(s)
      PROVE  UNCHANGED <<told, saved>>
  BY <1>2 DEF SaveBegin, SaveLoad, SaveNote, SaveLook, SavePrune
<1>3. ASSUME NEW s \in Slots, RecordPolled(s) \/ UnsaveBegin(s) \/ UnsaveErase(s) \/ Fail(s)
      PROVE  UNCHANGED <<told, saved>>
  BY <1>3 DEF RecordPolled, UnsaveBegin, UnsaveErase, Fail
<1>4. ASSUME NEW p \in Sweepers,
             (\E a \in Attempts : SweepCheck(p, a)) \/ SweepDelete(p) \/ SweepFail(p)
      PROVE  UNCHANGED <<told, saved>>
  BY <1>4 DEF SweepCheck, SweepDelete, SweepFail
<1>5. ASSUME NEW a \in Attempts, MLFinish(a) \/ Age(a) PROVE UNCHANGED <<told, saved>>
  BY <1>5 DEF MLFinish, Age
<1>6. CASE UNCHANGED vars
  BY <1>6 DEF vars
<1> QED
  BY <1>1, <1>2, <1>3, <1>4, <1>5, <1>6 DEF Next, Save

\* Every step keeps the count of announcements.
LEMMA ToldStep ==
  ASSUME ToldInv, RowsAreFound, [Next]_vars, NEW a \in Attempts
  PROVE  ToldOK(a)'
<1>1. /\ req \in [Slots -> Request] /\ saved \in [Attempts -> SavedRow]
      /\ told \in [Attempts -> [Users -> Nat]] /\ ToldOK(a)
      /\ \A s \in Slots : Working(req[s])
  BY DEF ToldInv, TypeInv, TypeOK, SlotsOK
<1>0. /\ saved[a] # NotSaved => saved[a].user \in Users
      /\ saved'[a] # NotSaved => saved'[a].user \in Users
      /\ saved[a] # NotSaved /\ saved'[a] # NotSaved => saved'[a].user = saved[a].user
  <2>1. saved' \in [Attempts -> SavedRow]
    BY TypeStep DEF ToldInv, TypeInv, TypeOK
  <2> QED BY <1>1, <2>1, RowsStep DEF ToldInv, RowsKept, SavedRow
<1>2. Tellers(a) \in SUBSET Slots /\ Tellers(a)' \in SUBSET Slots
  BY DEF Tellers
<1>3. ASSUME saved'[a] # NotSaved,
             saved[a] # NotSaved => told'[a][saved[a].user] = told[a][saved[a].user],
             saved[a] = NotSaved => told'[a] = told[a]
      PROVE  ToldOK(a)'
  <2>1. CASE saved[a] # NotSaved
    <3>1. Cardinality(Tellers(a)') <= Cardinality(Tellers(a))
      BY <1>2, <1>3, <2>1, NoNewTellers, TellersFinite
    <3>2. /\ Cardinality(Tellers(a)') \in Nat /\ Cardinality(Tellers(a)) \in Nat
          /\ Cardinality(Slots) \in Nat
      BY <1>2, TellersFinite
    <3>3. /\ told[a][saved[a].user] \in Nat /\ saved'[a].user = saved[a].user
          /\ told'[a][saved[a].user] = told[a][saved[a].user]
      BY <1>0, <1>1, <1>3, <2>1
    <3>4. told[a][saved[a].user] + Cardinality(Tellers(a)) <= Cardinality(Slots)
      BY <1>1, <2>1 DEF ToldOK
    <3>5. told'[a][saved'[a].user] + Cardinality(Tellers(a)') <= Cardinality(Slots)
      BY <3>1, <3>2, <3>3, <3>4
    <3> QED BY <1>3, <3>5 DEF ToldOK
  <2>2. CASE saved[a] = NotSaved
    <3>1. told'[a][saved'[a].user] = 0
      BY <1>0, <1>1, <1>3, <2>2 DEF ToldOK, NobodyTold
    <3>2. Cardinality(Tellers(a)') <= Cardinality(Slots) /\ Cardinality(Tellers(a)') \in Nat
      BY <1>2, TellersFinite
    <3> QED BY <1>3, <3>1, <3>2 DEF ToldOK
  <2> QED BY <2>1, <2>2
<1>4. CASE UNCHANGED <<told, saved>>
  BY <1>1, <1>3, <1>4 DEF ToldOK
<1>5. ASSUME NEW s \in Slots, SaveUpsert(s) PROVE ToldOK(a)'
  <2>1. told' = told
    BY <1>5 DEF SaveUpsert
  <2>2. CASE a = req[s].att
    <3>1. /\ req[s] \in Request /\ req[s].user \in Users
          /\ saved'[a] = Upserted(saved[a], req[s])
      BY <1>1, <1>5, <2>2 DEF SaveUpsert, Working
    <3>2. saved'[a] # NotSaved
      BY <1>1, <3>1, UpsertedType
    <3> QED BY <1>3, <2>1, <3>2
  <2>3. CASE a # req[s].att
    <3>1. saved'[a] = saved[a]
      BY <1>1, <1>5, <2>3 DEF SaveUpsert
    <3> QED BY <1>1, <1>3, <2>1, <3>1 DEF ToldOK
  <2> QED BY <2>2, <2>3
<1>6. ASSUME NEW b \in Attempts, EnsureSaved(b) PROVE ToldOK(a)'
  <2>1. told' = told
    BY <1>6 DEF EnsureSaved
  <2>2. saved'[a] = saved[a] \/ saved'[a] # NotSaved
    BY <1>1, <1>6, AttemptsAssumption DEF EnsureSaved, NotSaved
  <2> QED BY <1>1, <1>3, <2>1, <2>2 DEF ToldOK
<1>7. ASSUME NEW s \in Slots, UnsaveDelete(s) PROVE ToldOK(a)'
  <2>1. \/ saved'[a] = saved[a] /\ told'[a] = told[a]
        \/ saved'[a] = NotSaved /\ told'[a] = NobodyTold
    BY <1>1, <1>7 DEF UnsaveDelete
  <2> QED BY <1>1, <1>3, <2>1 DEF ToldOK
<1>8. ASSUME NEW s \in Slots, SaveTell(s) PROVE ToldOK(a)'
  <2> DEFINE u == saved[a].user
  <2>1. saved' = saved /\ req[s].pc = "tell" /\ Done(s)
    BY <1>8 DEF SaveTell
  <2>2. CASE saved[a] # NotSaved => told'[a][u] = told[a][u]
    <3>1. CASE saved[a] # NotSaved
      BY <1>3, <2>1, <2>2, <3>1
    <3>2. CASE saved[a] = NotSaved
      <4>1. \/ told' = told
            \/ /\ told' = [told EXCEPT ![req[s].att] = ToldAgain(req[s].att, req[s].user)]
               /\ saved[req[s].att] # NotSaved
        BY <1>8 DEF SaveTell
      <4>2. told'[a] = told[a]
        BY <1>1, <3>2, <4>1
      <4> QED BY <1>1, <2>1, <3>2, <4>2 DEF ToldOK
    <3> QED BY <3>1, <3>2
  <2>3. CASE saved[a] # NotSaved /\ told'[a][u] # told[a][u]
    <3>1. /\ a = req[s].att /\ ~req[s].existed /\ u = req[s].user
          /\ told'[a][u] = told[a][u] + 1
      <4>1. req[s].att \in Attempts /\ req[s].user \in Users
        BY <1>1, <2>1 DEF Working
      <4> QED BY <1>0, <1>1, <1>8, <2>3, <4>1, TellingStep
    <3>2. s \in Tellers(a)
      BY <2>1, <3>1 DEF Tellers
    <3>3. saved[a] # NotSaved
      BY <2>3
    <3>4. s \notin Tellers(a)'
      BY <1>1, <2>1 DEF Tellers, Done, Idle, NewRequest
    <3>5. Tellers(a)' \subseteq Tellers(a) \ {s}
      BY <2>1, <3>3, <3>4, NoNewTellers
    <3>6. Cardinality(Tellers(a) \ {s}) = Cardinality(Tellers(a)) - 1
      BY <1>2, <3>2, TellersFinite
    <3>7. Tellers(a) \ {s} \in SUBSET Slots
      BY <1>2
    <3>8. Cardinality(Tellers(a)') <= Cardinality(Tellers(a) \ {s})
      BY <3>5, <3>7, TellersFinite
    <3>9. /\ Cardinality(Tellers(a)') \in Nat /\ Cardinality(Tellers(a)) \in Nat
          /\ Cardinality(Slots) \in Nat
      BY <1>2, TellersFinite
    <3>10. told[a][u] \in Nat /\ told[a][u] + Cardinality(Tellers(a)) <= Cardinality(Slots)
      BY <1>0, <1>1, <3>3 DEF ToldOK
    <3>11. told'[a][u] + Cardinality(Tellers(a)') <= Cardinality(Slots)
      BY <3>1, <3>6, <3>8, <3>9, <3>10
    <3> QED BY <2>1, <3>3, <3>11 DEF ToldOK
  <2> QED BY <2>2, <2>3
<1> QED
  BY <1>4, <1>5, <1>6, <1>7, <1>8, TellSteps

\* Whatever else fails: while saves learn whether their row is there, the user whose row it
\* is is not told of it more often than requests run at a time, however many save the
\* attempt at once.  Of users who save another's attempt it says nothing: they are told
\* with every save.
THEOREM ToldCorrect == Spec /\ [][RowsAreFound]_vars => []ResultToldBounded
<1>1. Init => ToldInv
  BY TypeInit DEF Init, ToldInv, ToldOK
<1>2. ToldInv /\ [Next]_vars /\ [RowsAreFound]_vars => ToldInv'
  <2>1. CASE UNCHANGED vars
    BY <2>1 DEF ToldInv, TypeInv, TypeOK, SlotsOK, ToldOK, Tellers, vars
  <2> QED
    BY <2>1, TypeStep, ToldStep DEF ToldInv
<1>3. ToldInv => ResultToldBounded
  <2> SUFFICES ASSUME ToldInv, NEW a \in Attempts, NEW u \in Users, saved[a].user = u
               PROVE  told[a][u] <= Cardinality(Slots)
    BY DEF ResultToldBounded
  <2>0. saved[a] # NotSaved
    BY AttemptsAssumption DEF NotSaved
  <2>1. told[a][u] \in Nat /\ ToldOK(a)
    BY DEF ToldInv, TypeInv, TypeOK
  <2>2. Tellers(a) \in SUBSET Slots
    BY DEF Tellers
  <2>3. Cardinality(Tellers(a)) \in Nat /\ Cardinality(Slots) \in Nat
    BY <2>2, TellersFinite
  <2> QED BY <2>0, <2>1, <2>3 DEF ToldOK
<1> QED
  BY <1>1, <1>2, <1>3, PTL DEF Spec

-----------------------------------------------------------------------------
(* Videos no profile shows are swept.  Such a video ages; any one sweeper, *)
(* whose deletions all end, comes back to it again and again, and one of   *)
(* its deletions does not fail.                                            *)

\* The fairness assumed is WF of growing old and of ending a deletion, and SF of looking at
\* a video and of deleting it, where the guards of these actions are what enables them.
LEMMA FairnessIsWeakAndStrong ==
  ASSUME NEW p \in Sweepers, NEW a \in Attempts
  PROVE  /\ [](MayAge(a) <=> ENABLED <<Age(a)>>_vars) =>
              (([]<>~MayAge(a) \/ []<><<Age(a)>>_vars) <=> WF_vars(Age(a)))
         /\ [](sweep[p] # None <=> ENABLED <<SweepDelete(p) \/ SweepFail(p)>>_vars) =>
              (([]<>~(sweep[p] # None) \/ []<><<SweepDelete(p) \/ SweepFail(p)>>_vars)
                <=> WF_vars(SweepDelete(p) \/ SweepFail(p)))
         /\ [](MayCheck(p, a) <=> ENABLED <<SweepCheck(p, a)>>_vars) =>
              ((<>[]~MayCheck(p, a) \/ []<><<SweepCheck(p, a)>>_vars)
                <=> SF_vars(SweepCheck(p, a)))
         /\ [](sweep[p] = a <=> ENABLED <<sweep[p] = a /\ SweepDelete(p)>>_vars) =>
              ((<>[]~(sweep[p] = a) \/ []<><<sweep[p] = a /\ SweepDelete(p)>>_vars)
                <=> SF_vars(sweep[p] = a /\ SweepDelete(p)))
  BY PTL

\* The video of an attempt does not stay for ever unless the profile shows it, whatever
\* else is uploaded, saved, removed and swept, and whichever calls fail.
THEOREM VideosSwept == Sweepers # {} /\ FairSpec => VideosAreSwept
<1> SUFFICES ASSUME NEW p \in Sweepers
             PROVE  FairSpec => VideosAreSwept
  OBVIOUS
<1> SUFFICES ASSUME NEW a \in Attempts
             PROVE  FairSpec => (video[a] ~> ~video[a] \/ Promised(a))
  BY DEF VideosAreSwept
<1>2. FairSpec =>
        /\ Spec
        /\ []<>~MayAge(a) \/ []<><<Age(a)>>_vars
        /\ []<>(sweep[p] = None) \/ []<><<SweepDelete(p) \/ SweepFail(p)>>_vars
        /\ <>[]~MayCheck(p, a) \/ []<><<SweepCheck(p, a)>>_vars
        /\ <>[](sweep[p] # a) \/ []<><<sweep[p] = a /\ SweepDelete(p)>>_vars
  BY DEF FairSpec, Fairness
<1>3. video[a] => MayAge(a) \/ a \in aged
  BY DEF MayAge
<1>4. <<Age(a)>>_vars => (a \in aged)'
  BY DEF Age
<1>5. a \in aged /\ [Next]_vars => (a \in aged)'
  BY DEF Next, vars, Upload, Enqueue, PersistTask, DiscardVideo, PollClaim, RecordPolled, Save,
         SaveBegin, SaveLoad, SaveNote, SaveLook, SaveUpsert, SavePrune, SaveTell, UnsaveBegin,
         UnsaveDelete, UnsaveErase, Fail, SweepCheck, SweepDelete, SweepFail, MLFinish,
         EnsureSaved, Age
<1>6. TypeOK /\ <<SweepDelete(p) \/ SweepFail(p)>>_vars => (sweep[p] = None)'
  BY DEF SweepDelete, SweepFail, TypeOK
<1>7. sweep[p] = None /\ video[a] /\ a \in aged /\ ~Promised(a) => MayCheck(p, a)
  BY DEF MayCheck, Spared, Promised
<1>8. TypeOK /\ <<SweepCheck(p, a)>>_vars => ~(sweep[p] # a)'
  BY DEF SweepCheck, TypeOK
<1>9. TypeOK /\ <<sweep[p] = a /\ SweepDelete(p)>>_vars => ~video[a]'
  BY DEF SweepDelete, TypeOK
<1> QED
  BY <1>2, <1>3, <1>4, <1>5, <1>6, <1>7, <1>8, <1>9, TypeCorrect, PTL DEF Spec
=============================================================================
