----------------------------- MODULE LikesProofs -----------------------------
(***************************************************************************)
(* Proofs about Likes, for any number of accounts, dances, events,         *)
(* requests and checks, and whatever calls fail.                           *)
(***************************************************************************)
EXTENDS Likes, DeliveryProofs, FiniteSetTheorems

\* Group g has an event that it is handling.
Busy(g) == hand[g].event # None /\ ~hand[g].done

\* Events on their way to group g.
Underway(g) == sending \cup queued[g] \cup held[g] \cup {hand[g].event}

\* A request that is not idle has a like, and events tell of likes of dances with an author.
LikesOK ==
  /\ \A s \in Slots : req[s] # Idle => req[s].pc # "idle" /\ req[s].like \in Like
  /\ \A g \in Groups, e \in Events :
       e \in Underway(g) => about[e] \in Like /\ Author[about[e][2]] # None
  /\ \A g \in Groups : hand[g].done => hand[g].event # None

\* The consumer of likes is checking an author exactly while it handles a like of theirs.
CheckerOK ==
  /\ Busy(Checker) <=> check[Checker].pc # "idle"
  /\ Busy(Checker) => check[Checker].user = Author[about[hand[Checker].event][2]]

\* Checks that run have a user, and no two have unlocked the same or what was told.
ChecksOK ==
  /\ told \subseteq unlocked
  /\ \A p \in Checks :
       /\ check[p].pc # "idle" => check[p].user \in Users
       /\ \A n \in check[p].fresh :
            /\ check[p].pc = "unlock"
            /\ <<check[p].user, n>> \in unlocked \ told
            /\ \A q \in Checks \ {p} : check[q].user = check[p].user => n \notin check[q].fresh

\* ReachedIsUnlocked for every part of the likes of an author, which deletions leave true.
PartsAreUnlocked ==
  \A u \in Users, n \in Levels : \A T \in SUBSET LikesOf(u) :
    Cardinality(T) >= n /\ T \cap missed[Checker] = {} =>
      <<u, n>> \in unlocked \/ \E l \in T : MayUnlock(l, n)

IInv == /\ TypeOK /\ LikesOK /\ CheckerOK /\ ChecksOK
        /\ LikesAreShown /\ PartsAreUnlocked /\ AchievementToldOnce

-----------------------------------------------------------------------------
(* Types. *)

\* A handler that returns leaves the consumers as they are.
LEMMA ReturnType ==
  ASSUME hand \in [Groups -> Hand], NEW g \in Groups, Return(g)
  PROVE  hand' \in [Groups -> Hand]
<1>1. hand[g] \in Hand
  OBVIOUS
<1>2. [hand[g] EXCEPT !.done = TRUE] \in Hand
  BY <1>1 DEF Hand
<1>3. hand' = [hand EXCEPT ![g] = [hand[g] EXCEPT !.done = TRUE]]
  BY DEF Return
<1> HIDE DEF Hand
<1> QED BY <1>2, <1>3

\* Every step keeps the types.
LEMMA TypeStep == ASSUME TypeOK, LikesOK, CheckerOK, ChecksOK, [Next]_vars PROVE TypeOK'
<1> USE LikesAssumption DEF Hand, NoHand, NoLike, toggling, checking
<1>1. DeliveryTypeOK /\ Checker \in Groups /\ Feeder \in Groups
  BY DEF TypeOK
<1> DEFINE Rest == /\ likes \in SUBSET Like
                   /\ req \in [Slots -> Request]
                   /\ about \in [Events -> Like \cup {NoLike}]
                   /\ hand \in [Groups -> Hand]
                   /\ feed \in SUBSET Like
                   /\ check \in [Checks -> Check]
                   /\ unlocked \in SUBSET (Users \X Levels)
                   /\ told \in SUBSET (Users \X Levels)
                   /\ repeated \in SUBSET (Users \X Levels)
                   /\ missed \in [Groups -> SUBSET Like]
<1>2. Rest
  BY DEF TypeOK
<1>3. SUFFICES DeliveryTypeOK' /\ Rest'
  BY DEF TypeOK
<1>4. ASSUME NEW s \in Slots, ToggleInsert(s) PROVE DeliveryTypeOK' /\ Rest'
  BY <1>1, <1>2, <1>4, DeliveryStepType DEF ToggleInsert, Idle, Request
<1>5. ASSUME NEW s \in Slots, ToggleDelete(s) PROVE DeliveryTypeOK' /\ Rest'
  BY <1>1, <1>2, <1>5, DeliveryStepType DEF ToggleDelete, Idle, Request
<1>6. ASSUME NEW s \in Slots, ToggleAnnounce(s) PROVE DeliveryTypeOK' /\ Rest'
  <2>1. req[s].like \in Like
    BY <1>6 DEF ToggleAnnounce, LikesOK, Idle
  <2>2. Rest'
    BY <1>2, <1>6, <2>1 DEF ToggleAnnounce, Idle, Request
  <2>3. \/ \E es \in SUBSET Events : Published(es) /\ UNCHANGED <<queued, held>>
        \/ UNCHANGED deliveryVars
    BY <1>6 DEF ToggleAnnounce
  <2> QED BY <1>1, <2>2, <2>3, DeliveryStepType
<1>7. ASSUME NEW s \in Slots, ToggleFail(s) PROVE DeliveryTypeOK' /\ Rest'
  <2>1. req[s].like \in Like
    BY <1>7 DEF ToggleFail, LikesOK
  <2> QED BY <1>1, <1>2, <1>7, <2>1, DeliveryStepType DEF ToggleFail, MissedByAll, Idle, Request
<1>8. ASSUME NEW e \in Events, Arrives(e) PROVE DeliveryTypeOK' /\ Rest'
  BY <1>1, <1>2, <1>8, DeliveryStepType DEF Arrives
<1>9. ASSUME NEW e \in Events, Lost(e) PROVE DeliveryTypeOK' /\ Rest'
  <2>1. about[e] \in Like
    BY <1>1, <1>9 DEF Lost, GiveUp, LikesOK, Underway
  <2> QED BY <1>1, <1>2, <1>9, <2>1, DeliveryStepType DEF Lost, MissedByAll
<1>10. ASSUME NEW g \in Groups, NEW e \in Events, Take(g, e) PROVE DeliveryTypeOK' /\ Rest'
  <2>1. Author[about[e][2]] \in Users
    BY <1>2, <1>10 DEF Take, Taken, LikesOK, Underway, Like
  <2>2. check' \in [Checks -> Check]
    BY <1>2, <1>10, <2>1 DEF Take, Check, NoCheck
  <2> QED BY <1>1, <1>2, <1>10, <2>2, DeliveryStepType DEF Take
<1>11. ASSUME NEW g \in Groups, hand[g].event # None, Fails(g) PROVE missed' \in [Groups -> SUBSET Like]
  <2>1. hand[g].event \in Events
    BY <1>2, <1>11
  <2>2. about[hand[g].event] \in Like
    BY <2>1 DEF LikesOK, Underway
  <2> QED BY <1>2, <1>11, <2>2 DEF Fails
<1>12. CASE FeedInsert
  <2>1. hand[Feeder].event \in Events
    BY <1>1, <1>2, <1>12 DEF FeedInsert
  <2>2. about[hand[Feeder].event] \in Like
    BY <1>1, <2>1 DEF LikesOK, Underway
  <2>3. missed' \in [Groups -> SUBSET Like]
    BY <1>1, <1>2, <1>11, <1>12 DEF FeedInsert
  <2>4. UNCHANGED deliveryVars /\ UNCHANGED <<toggling, checking>>
    BY <1>12 DEF FeedInsert
  <2>5. hand' \in [Groups -> Hand] /\ feed' \in SUBSET Like
    BY <1>1, <1>2, <1>12, <2>2, ReturnType DEF FeedInsert
  <2> QED BY <1>1, <1>2, <2>3, <2>4, <2>5, DeliveryStepType
<1>13. ASSUME NEW g \in Groups, Commit(g) PROVE DeliveryTypeOK' /\ Rest'
  <2>1. hand[g].event \in Events
    BY <1>2, <1>13 DEF Commit, LikesOK
  <2> QED BY <1>1, <1>2, <1>13, <2>1, DeliveryStepType DEF Commit
<1>14. ASSUME NEW g \in Groups, Restart(g) PROVE DeliveryTypeOK' /\ Rest'
  <2>1. Unfinished(g) \in SUBSET Events
    BY <1>2 DEF Unfinished
  <2>2. check' \in [Checks -> Check]
    BY <1>2, <1>14 DEF Restart, Check, NoCheck
  <2> QED BY <1>1, <1>2, <1>14, <2>1, <2>2, DeliveryStepType DEF Restart
<1>15. CASE UNCHANGED vars
  BY <1>1, <1>2, <1>15, DeliveryStepType DEF vars, deliveryVars
<1>16. ASSUME NEW p \in Checks, CheckStep(p) PROVE DeliveryTypeOK' /\ Rest'
  <2>1. check[p] \in Check /\ UNCHANGED <<deliveryVars, toggling, feed>>
    BY <1>2, <1>16 DEF CheckStep, CheckStart, CheckStats, CheckUnlock, CheckTell
  <2>2. ASSUME check[p].pc # "idle", FailsIn(p) PROVE missed' \in [Groups -> SUBSET Like]
    <3>1. CASE p = Checker
      BY <1>1, <1>11, <2>2, <3>1 DEF FailsIn, CheckerOK, Busy
    <3>2. CASE p # Checker
      BY <1>2, <2>2, <3>2 DEF FailsIn
    <3> QED BY <3>1, <3>2
  <2>3. ASSUME End(p) PROVE hand' \in [Groups -> Hand] /\ check' \in [Checks -> Check]
    <3>1. hand' \in [Groups -> Hand]
      BY <1>1, <1>2, <2>3, ReturnType DEF End
    <3>2. NoCheck \in Check
      BY DEF Check, NoCheck
    <3> QED BY <1>2, <2>3, <3>1, <3>2 DEF End
  <2>4. CASE CheckStart(p)
    <3>1. PICK u \in Users : check' = [check EXCEPT ![p] = [NoCheck EXCEPT !.pc = "stats", !.user = u]]
      BY <2>4 DEF CheckStart
    <3>2. [NoCheck EXCEPT !.pc = "stats", !.user = u] \in Check
      BY DEF Check, NoCheck
    <3>3. UNCHANGED <<hand, unlocked, told, repeated, missed>>
      BY <2>4 DEF CheckStart
    <3> QED BY <1>1, <1>2, <2>1, <3>1, <3>2, <3>3, DeliveryStepType
  <2>5. CASE CheckStats(p)
    <3>1. CASE FailsIn(p) /\ End(p)
      BY <1>1, <1>2, <2>1, <2>2, <2>3, <2>5, <3>1, DeliveryStepType DEF CheckStats
    <3>2. CASE ~(FailsIn(p) /\ End(p))
      <4>1. Reached(check[p].user) \in SUBSET Levels
        BY DEF Reached
      <4>2. check' = [check EXCEPT ![p] = [check[p] EXCEPT !.pc = "unlock",
                                                          !.todo = Reached(check[p].user)]]
        BY <2>5, <3>2 DEF CheckStats
      <4>3. check' \in [Checks -> Check]
        BY <1>2, <2>1, <4>1, <4>2 DEF Check
      <4>4. UNCHANGED <<hand, unlocked, told, repeated, missed>>
        BY <2>5, <3>2 DEF CheckStats
      <4> QED BY <1>1, <1>2, <2>1, <4>3, <4>4, DeliveryStepType
    <3> QED BY <3>1, <3>2
  <2>6. ASSUME NEW n \in Levels, CheckUnlock(p, n) PROVE DeliveryTypeOK' /\ Rest'
    <3>1. check[p].user \in Users /\ check[p].pc # "idle"
      BY <2>6 DEF CheckUnlock, ChecksOK
    <3>2. missed' \in [Groups -> SUBSET Like]
      BY <1>2, <2>2, <2>6, <3>1 DEF CheckUnlock
    <3>3. unlocked' \in SUBSET (Users \X Levels)
      BY <1>2, <2>6, <3>1 DEF CheckUnlock
    <3>4. PICK fresh \in SUBSET Levels :
            check' = [check EXCEPT ![p] = [check[p] EXCEPT !.todo = check[p].todo \ {n},
                                                          !.fresh = check[p].fresh \cup fresh]]
      BY <2>6 DEF CheckUnlock, Fresh
    <3>5. check' \in [Checks -> Check]
      BY <1>2, <2>1, <3>4 DEF Check
    <3>6. UNCHANGED <<hand, told, repeated>>
      BY <2>6 DEF CheckUnlock
    <3> QED BY <1>1, <1>2, <2>1, <3>2, <3>3, <3>5, <3>6, DeliveryStepType
  <2>7. CASE CheckTell(p)
    <3>1. {check[p].user} \X check[p].fresh \subseteq Users \X Levels
      BY <2>1, <2>7 DEF CheckTell, ChecksOK, Check
    <3>2. told' \in SUBSET (Users \X Levels) /\ repeated' \in SUBSET (Users \X Levels)
      BY <1>2, <2>7, <3>1 DEF CheckTell
    <3>3. UNCHANGED <<unlocked, missed>> /\ End(p)
      BY <2>7 DEF CheckTell
    <3> QED BY <1>1, <1>2, <2>1, <2>3, <3>2, <3>3, DeliveryStepType
  <2> QED BY <1>16, <2>4, <2>5, <2>6, <2>7 DEF CheckStep
<1> QED BY <1>4, <1>5, <1>6, <1>7, <1>8, <1>9, <1>10, <1>12, <1>13, <1>14, <1>15, <1>16
        DEF Next, Toggle

-----------------------------------------------------------------------------
(* Requests and events. *)

\* What every step needs of the types.
LEMMA Shapes ==
  ASSUME TypeOK
  PROVE  /\ Checker \in Groups /\ Feeder \in Groups /\ Checker # Feeder
         /\ sending \in SUBSET Events
         /\ queued \in [Groups -> SUBSET Events] /\ held \in [Groups -> SUBSET Events]
         /\ req \in [Slots -> Request] /\ about \in [Events -> Like \cup {NoLike}]
         /\ hand \in [Groups -> Hand] /\ check \in [Checks -> Check]
         /\ missed \in [Groups -> SUBSET Like]
         /\ likes \in SUBSET Like
         /\ None \notin Events /\ NoLike \notin Like
BY LikesAssumption DEF TypeOK, DeliveryTypeOK, Checker, Feeder, NoLike, Like

\* Events that are underway have been announced, and stay so.
LEMMA LikesOKStep == ASSUME TypeOK, LikesOK, CheckerOK, [Next]_vars PROVE LikesOK'
<1> USE Shapes DEF NoHand, Idle, toggling, checking, deliveryVars
<1> DEFINE RequestsOK == \A s \in Slots :
             req[s] # Idle => req[s].pc # "idle" /\ req[s].like \in Like
           EventsOK == \A g \in Groups, e \in Events :
             e \in Underway(g) => about[e] \in Like /\ Author[about[e][2]] # None
           HandsOK == \A g \in Groups : hand[g].done => hand[g].event # None
<1>1. RequestsOK /\ EventsOK /\ HandsOK
  BY DEF LikesOK
<1>2. SUFFICES RequestsOK' /\ EventsOK' /\ HandsOK'
  BY DEF LikesOK
<1>3. ASSUME UNCHANGED <<about, req, hand>>, \A g \in Groups : Underway(g)' \subseteq Underway(g)
      PROVE  RequestsOK' /\ EventsOK' /\ HandsOK'
  BY <1>1, <1>3
<1>4. ASSUME NEW s \in Slots, ToggleInsert(s) \/ ToggleDelete(s) \/ ToggleFail(s)
      PROVE  RequestsOK' /\ EventsOK' /\ HandsOK'
  <2>1. UNCHANGED <<sending, queued, held, hand, about>>
    BY <1>4 DEF ToggleInsert, ToggleDelete, ToggleFail
  <2>2. EventsOK' /\ HandsOK'
    BY <1>1, <2>1 DEF Underway
  <2>3. RequestsOK'
    BY <1>1, <1>4 DEF ToggleInsert, ToggleDelete, ToggleFail
  <2> QED BY <2>2, <2>3
<1>5. ASSUME NEW s \in Slots, ToggleAnnounce(s) PROVE RequestsOK' /\ EventsOK' /\ HandsOK'
  <2>1. RequestsOK' /\ HandsOK'
    BY <1>1, <1>5 DEF ToggleAnnounce
  <2>2. req[s].like \in Like
    BY <1>1, <1>5 DEF ToggleAnnounce
  <2>3. CASE UNCHANGED <<sending, queued, held, about>>
    BY <1>1, <1>5, <2>3 DEF ToggleAnnounce, Underway
  <2>4. CASE ~UNCHANGED <<sending, queued, held, about>>
    <3>1. PICK e \in Events : /\ about' = [about EXCEPT ![e] = req[s].like]
                              /\ sending' = sending \cup {e}
      BY <1>5, <2>4 DEF ToggleAnnounce, Published
    <3>2. Author[req[s].like[2]] # None /\ UNCHANGED <<queued, held, hand>>
      BY <1>5, <2>4 DEF ToggleAnnounce, Announced
    <3> QED BY <1>1, <2>1, <2>2, <3>1, <3>2 DEF Underway
  <2> QED BY <2>1, <2>3, <2>4
<1>6. ASSUME NEW e \in Events, Arrives(e) PROVE RequestsOK' /\ EventsOK' /\ HandsOK'
  <2>1. UNCHANGED <<about, req, hand>>
    BY <1>6 DEF Arrives
  <2>2. \A g \in Groups : Underway(g)' \subseteq Underway(g)
    BY <1>6, <2>1 DEF Arrives, Arrive, Underway
  <2> QED BY <1>3, <2>1, <2>2
<1>7. ASSUME NEW e \in Events, Lost(e) PROVE RequestsOK' /\ EventsOK' /\ HandsOK'
  BY <1>3, <1>7 DEF Lost, GiveUp, Underway
<1>8. ASSUME NEW g \in Groups, NEW e \in Events, Take(g, e)
      PROVE  RequestsOK' /\ EventsOK' /\ HandsOK'
  <2>1. UNCHANGED <<about, req, sending, held>> /\ hand' = [hand EXCEPT ![g] = [event |-> e, done |-> FALSE]]
    BY <1>8 DEF Take, Taken
  <2>2. \A h \in Groups : Underway(h)' \subseteq Underway(h)
    BY <1>8, <2>1 DEF Take, Taken, Underway
  <2> QED BY <1>1, <2>1, <2>2
<1>9. ASSUME NEW g \in Groups, hand[g].event # None, Return(g), UNCHANGED <<about, req, sending, queued, held>>
      PROVE  RequestsOK' /\ EventsOK' /\ HandsOK'
  <2>1. \A h \in Groups : hand'[h].event = hand[h].event /\ (h # g => hand'[h] = hand[h])
    BY <1>9 DEF Return, Hand
  <2> QED BY <1>1, <1>9, <2>1 DEF Underway
<1>10. CASE FeedInsert
  BY <1>9, <1>10 DEF FeedInsert
<1>11. ASSUME NEW g \in Groups, Commit(g) PROVE RequestsOK' /\ EventsOK' /\ HandsOK'
  <2>1. UNCHANGED <<about, req, sending, queued>> /\ hand' = [hand EXCEPT ![g] = NoHand]
    BY <1>11 DEF Commit, Committed
  <2>2. \A h \in Groups : held'[h] \subseteq held[h] \cup {hand[h].event}
    BY <1>11 DEF Commit, Committed
  <2>3. \A h \in Groups, x \in Events : x \in Underway(h)' => x \in Underway(h)
    BY <2>1, <2>2 DEF Underway
  <2> QED BY <1>1, <2>1, <2>3
<1>12. ASSUME NEW g \in Groups, Restart(g) PROVE RequestsOK' /\ EventsOK' /\ HandsOK'
  <2>1. UNCHANGED <<about, req, sending>> /\ hand' = [hand EXCEPT ![g] = NoHand]
    BY <1>12 DEF Restart, Reread
  <2>2. \A h \in Groups, x \in Events : x \in Underway(h)' => x \in Underway(h)
    BY <1>12, <2>1 DEF Restart, Reread, Unfinished, Underway
  <2> QED BY <1>1, <2>1, <2>2
<1>13. ASSUME NEW p \in Checks, CheckStep(p) PROVE RequestsOK' /\ EventsOK' /\ HandsOK'
  <2>1. UNCHANGED <<about, req, sending, queued, held>>
    BY <1>13 DEF CheckStep, CheckStart, CheckStats, CheckUnlock, CheckTell
  <2>2. CASE UNCHANGED hand
    BY <1>3, <2>1, <2>2 DEF Underway
  <2>3. CASE ~UNCHANGED hand
    <3>1. p = Checker /\ Return(p) /\ check[p].pc # "idle"
      BY <1>13, <2>3 DEF CheckStep, CheckStart, CheckStats, CheckUnlock, CheckTell, End
    <3>2. hand[p].event # None
      BY <3>1 DEF CheckerOK, Busy
    <3> QED BY <1>9, <2>1, <3>1, <3>2
  <2> QED BY <2>2, <2>3
<1>14. CASE UNCHANGED vars
  BY <1>3, <1>14 DEF vars, Underway
<1> QED BY <1>4, <1>5, <1>6, <1>7, <1>8, <1>10, <1>11, <1>12, <1>13, <1>14 DEF Next, Toggle

-----------------------------------------------------------------------------
(* The checks. *)

\* A check that has read the statistics goes on to unlock what was reached.
LEMMA StatsForm ==
  ASSUME TypeOK, NEW p \in Checks, CheckStats(p), ~(FailsIn(p) /\ End(p))
  PROVE  /\ UNCHANGED <<hand, missed>>
         /\ \A q \in Checks \ {p} : check'[q] = check[q]
         /\ check'[p].pc = "unlock" /\ check'[p].user = check[p].user
         /\ check'[p].todo = Reached(check[p].user) /\ check'[p].fresh = check[p].fresh
<1>1. UNCHANGED <<hand, missed>>
  BY DEF CheckStats
<1>2. PICK c : c = [check[p] EXCEPT !.pc = "unlock", !.todo = Reached(check[p].user)]
  OBVIOUS
<1>3. check' = [check EXCEPT ![p] = c]
  BY <1>2 DEF CheckStats
<1>4. check[p] \in Check /\ check \in [Checks -> Check]
  BY Shapes
<1>5. /\ c.pc = "unlock" /\ c.user = check[p].user
      /\ c.todo = Reached(check[p].user) /\ c.fresh = check[p].fresh
  BY <1>2, <1>4 DEF Check
<1> QED BY <1>1, <1>3, <1>4, <1>5

\* An unlocking takes a level off the list, and adds it to the news only if it was not
\* unlocked before.
LEMMA UnlockForm ==
  ASSUME TypeOK, NEW p \in Checks, NEW n \in Levels, CheckUnlock(p, n)
  PROVE  /\ UNCHANGED <<hand, told, repeated>> /\ check[p].pc = "unlock" /\ n \in check[p].todo
         /\ \A q \in Checks \ {p} : check'[q] = check[q]
         /\ check'[p].pc = "unlock" /\ check'[p].user = check[p].user
         /\ check'[p].todo = check[p].todo \ {n}
         /\ unlocked \subseteq unlocked'
         /\ \/ check'[p].fresh = check[p].fresh
            \/ /\ check'[p].fresh = check[p].fresh \cup {n}
               /\ <<check[p].user, n>> \in unlocked' \ unlocked
         /\ \/ <<check[p].user, n>> \in unlocked' /\ UNCHANGED missed
            \/ FailsIn(p)
<1>1. UNCHANGED <<hand, told, repeated>> /\ check[p].pc = "unlock" /\ n \in check[p].todo
  BY DEF CheckUnlock
<1>2. check[p] \in Check /\ check \in [Checks -> Check]
  BY Shapes
<1>3. ASSUME NEW fresh,
             check' = [check EXCEPT ![p] = [check[p] EXCEPT !.todo = check[p].todo \ {n},
                                                           !.fresh = check[p].fresh \cup fresh]]
      PROVE  /\ \A q \in Checks \ {p} : check'[q] = check[q]
             /\ check'[p].pc = check[p].pc /\ check'[p].user = check[p].user
             /\ check'[p].todo = check[p].todo \ {n}
             /\ check'[p].fresh = check[p].fresh \cup fresh
  <2>1. PICK c : c = [check[p] EXCEPT !.todo = check[p].todo \ {n},
                                      !.fresh = check[p].fresh \cup fresh]
    OBVIOUS
  <2>2. /\ c.pc = check[p].pc /\ c.user = check[p].user /\ c.todo = check[p].todo \ {n}
        /\ c.fresh = check[p].fresh \cup fresh
    BY <1>2, <2>1 DEF Check
  <2>3. check' = [check EXCEPT ![p] = c]
    BY <1>3, <2>1
  <2> QED BY <1>2, <2>2, <2>3
<1>4. CASE FailsIn(p) /\ check' = [check EXCEPT ![p] = [check[p] EXCEPT
             !.todo = check[p].todo \ {n}, !.fresh = check[p].fresh \cup {}]]
  <2>1. unlocked \subseteq unlocked'
    BY DEF CheckUnlock
  <2>2. /\ \A q \in Checks \ {p} : check'[q] = check[q]
        /\ check'[p].pc = check[p].pc /\ check'[p].user = check[p].user
        /\ check'[p].todo = check[p].todo \ {n}
        /\ check'[p].fresh = check[p].fresh \cup {}
    BY <1>3, <1>4
  <2>3. check'[p].fresh = check[p].fresh
    BY <2>2
  <2> QED BY <1>1, <1>4, <2>1, <2>2, <2>3
<1>5. CASE /\ unlocked' = unlocked \cup {<<check[p].user, n>>} /\ UNCHANGED missed
           /\ check' = [check EXCEPT ![p] = [check[p] EXCEPT !.todo = check[p].todo \ {n},
                          !.fresh = check[p].fresh \cup Fresh(check[p].user, n)]]
  <2>1. /\ \A q \in Checks \ {p} : check'[q] = check[q]
        /\ check'[p].pc = check[p].pc /\ check'[p].user = check[p].user
        /\ check'[p].todo = check[p].todo \ {n}
        /\ check'[p].fresh = check[p].fresh \cup Fresh(check[p].user, n)
    BY <1>3, <1>5
  <2>2. unlocked \subseteq unlocked' /\ <<check[p].user, n>> \in unlocked' /\ UNCHANGED missed
    BY <1>5
  <2>3. \/ check'[p].fresh = check[p].fresh
        \/ /\ check'[p].fresh = check[p].fresh \cup {n}
           /\ <<check[p].user, n>> \in unlocked' \ unlocked
    <3>1. CASE <<check[p].user, n>> \in unlocked
      BY <2>1, <3>1 DEF Fresh
    <3>2. CASE <<check[p].user, n>> \notin unlocked
      <4>1. Fresh(check[p].user, n) = {n}
        BY <3>2 DEF Fresh
      <4> QED BY <2>1, <2>2, <3>2, <4>1
    <3> QED BY <3>1, <3>2
  <2>4. check'[p].pc = "unlock"
    BY <1>1, <2>1
  <2> QED BY <1>1, <2>1, <2>2, <2>3, <2>4
<1>6. \/ FailsIn(p) /\ check' = [check EXCEPT ![p] = [check[p] EXCEPT
             !.todo = check[p].todo \ {n}, !.fresh = check[p].fresh \cup {}]]
      \/ /\ unlocked' = unlocked \cup {<<check[p].user, n>>} /\ UNCHANGED missed
         /\ check' = [check EXCEPT ![p] = [check[p] EXCEPT !.todo = check[p].todo \ {n},
                          !.fresh = check[p].fresh \cup Fresh(check[p].user, n)]]
  BY Zenon DEF CheckUnlock
<1> QED BY <1>4, <1>5, <1>6

\* The consumer of likes checks whom its event is about, until its handler returns.
LEMMA CheckerStep == ASSUME TypeOK, LikesOK, CheckerOK, [Next]_vars PROVE CheckerOK'
<1> USE Shapes DEF NoHand, toggling, checking, deliveryVars
<1>1. ASSUME UNCHANGED <<about, hand, check>> PROVE CheckerOK'
  BY <1>1 DEF CheckerOK, Busy
<1>2. ASSUME NEW s \in Slots, Toggle(s) PROVE CheckerOK'
  <2>1. UNCHANGED <<hand, check>>
    BY <1>2 DEF Toggle, ToggleInsert, ToggleDelete, ToggleAnnounce, ToggleFail
  <2>2. CASE UNCHANGED about
    BY <1>1, <2>1, <2>2
  <2>3. CASE ~UNCHANGED about
    <3>1. PICK e \in Events : about[e] = NoLike /\ about' = [about EXCEPT ![e] = req[s].like]
      BY <1>2, <2>3 DEF Toggle, ToggleInsert, ToggleDelete, ToggleAnnounce, ToggleFail
    <3>2. Busy(Checker) => about[hand[Checker].event] \in Like /\ hand[Checker].event \in Events
      BY DEF Busy, LikesOK, Underway, Hand
    <3>3. Busy(Checker) => about'[hand[Checker].event] = about[hand[Checker].event]
      BY <3>1, <3>2
    <3> QED BY <2>1, <3>3 DEF CheckerOK, Busy
  <2> QED BY <2>2, <2>3
<1>3. ASSUME NEW g \in Groups, NEW e \in Events, Take(g, e) PROVE CheckerOK'
  BY <1>3 DEF Take, CheckerOK, Busy, NoCheck, Checks
<1>4. CASE FeedInsert
  <2>1. hand'[Checker] = hand[Checker] /\ UNCHANGED <<about, check>>
    BY <1>4 DEF FeedInsert, Return
  <2> QED BY <2>1 DEF CheckerOK, Busy
<1>5. ASSUME NEW g \in Groups, Commit(g) PROVE CheckerOK'
  BY <1>5 DEF Commit, CheckerOK, Busy
<1>6. ASSUME NEW g \in Groups, Restart(g) PROVE CheckerOK'
  BY <1>6 DEF Restart, CheckerOK, Busy, NoCheck, Checks
<1>7. ASSUME NEW p \in Checks, CheckStep(p) PROVE CheckerOK'
  <2>1. UNCHANGED about
    BY <1>7 DEF CheckStep, CheckStart, CheckStats, CheckUnlock, CheckTell
  <2>2. CASE p # Checker
    <3>1. check'[Checker] = check[Checker] /\ UNCHANGED hand
      BY <1>7, <2>2 DEF CheckStep, CheckStart, CheckStats, CheckUnlock, CheckTell, End, Checks
    <3> QED BY <2>1, <3>1 DEF CheckerOK, Busy
  <2>3. CASE p = Checker
    <3>1. CASE End(p)
      <4>1. check'[Checker].pc = "idle" /\ hand'[Checker].done
        BY <2>3, <3>1 DEF End, Return, NoCheck, Checks, Hand
      <4> QED BY <4>1 DEF CheckerOK, Busy
    <3>2. CASE ~End(p)
      <4>1. UNCHANGED hand /\ check[p].pc \in {"stats", "unlock"}
        BY <1>7, <2>3, <3>2 DEF CheckStep, CheckStart, CheckStats, CheckUnlock, CheckTell
      <4>2. check'[p].pc = "unlock" /\ check'[p].user = check[p].user
        <5>1. CASE CheckStats(p)
          BY <2>3, <3>2, <5>1, StatsForm
        <5>2. ASSUME NEW n \in Levels, CheckUnlock(p, n)
              PROVE  check'[p].pc = "unlock" /\ check'[p].user = check[p].user
          BY <5>2, UnlockForm
        <5> QED BY <1>7, <2>3, <3>2, <5>1, <5>2 DEF CheckStep, CheckStart, CheckTell
      <4> QED BY <2>1, <2>3, <4>1, <4>2 DEF CheckerOK, Busy
    <3> QED BY <3>1, <3>2
  <2> QED BY <2>2, <2>3
<1>8. CASE UNCHANGED vars
  BY <1>1, <1>8 DEF vars
<1>9. ASSUME NEW e \in Events, Arrives(e) \/ Lost(e) PROVE CheckerOK'
  BY <1>1, <1>9 DEF Arrives, Lost
<1> QED BY <1>2, <1>3, <1>4, <1>5, <1>6, <1>7, <1>8, <1>9 DEF Next

\* No two checks have the same to tell, and nothing is told again.
LEMMA ChecksStep ==
  ASSUME TypeOK, LikesOK, ChecksOK, AchievementToldOnce, [Next]_vars
  PROVE  ChecksOK' /\ AchievementToldOnce'
<1> USE Shapes, LikesAssumption DEF toggling, checking, AchievementToldOnce
<1>1. ASSUME UNCHANGED <<unlocked, told, repeated>>,
             \A p \in Checks :
               \/ check'[p] = check[p]
               \/ check'[p].fresh = {} /\ (check'[p].pc # "idle" => check'[p].user \in Users)
      PROVE  ChecksOK' /\ AchievementToldOnce'
  BY <1>1 DEF ChecksOK
<1>2. ASSUME NEW s \in Slots, Toggle(s) PROVE ChecksOK' /\ AchievementToldOnce'
  BY <1>1, <1>2 DEF Toggle, ToggleInsert, ToggleDelete, ToggleAnnounce, ToggleFail
<1>3. ASSUME NEW g \in Groups, NEW e \in Events, Take(g, e) PROVE ChecksOK' /\ AchievementToldOnce'
  <2>1. Author[about[e][2]] \in Users
    BY <1>3 DEF Take, Taken, LikesOK, Underway, Like
  <2> QED BY <1>1, <1>3, <2>1 DEF Take, NoCheck
<1>4. CASE FeedInsert \/ UNCHANGED vars
  BY <1>1, <1>4 DEF FeedInsert, vars
<1>5. ASSUME NEW g \in Groups, Commit(g) \/ Restart(g) PROVE ChecksOK' /\ AchievementToldOnce'
  BY <1>1, <1>5 DEF Commit, Restart, NoCheck
<1>6. ASSUME NEW e \in Events, Arrives(e) \/ Lost(e) PROVE ChecksOK' /\ AchievementToldOnce'
  BY <1>1, <1>6 DEF Arrives, Lost
<1>7. ASSUME NEW p \in Checks, CheckStart(p) PROVE ChecksOK' /\ AchievementToldOnce'
  BY <1>1, <1>7 DEF CheckStart, NoCheck
<1>8. ASSUME NEW p \in Checks, CheckStats(p) PROVE ChecksOK' /\ AchievementToldOnce'
  <2>1. check[p].fresh = {} /\ check[p].user \in Users
    BY <1>8 DEF CheckStats, ChecksOK
  <2>2. UNCHANGED <<unlocked, told, repeated>>
    BY <1>8 DEF CheckStats
  <2>3. \A q \in Checks \ {p} : check'[q] = check[q]
    BY <1>8 DEF CheckStats, End
  <2>4. check'[p].fresh = {} /\ (check'[p].pc # "idle" => check'[p].user \in Users)
    <3>1. CASE End(p)
      BY <3>1 DEF End, NoCheck
    <3>2. CASE ~End(p)
      BY <1>8, <2>1, <3>2, StatsForm
    <3> QED BY <3>1, <3>2
  <2> QED BY <1>1, <2>2, <2>3, <2>4
<1>9. ASSUME NEW p \in Checks, NEW n \in Levels, CheckUnlock(p, n)
      PROVE  ChecksOK' /\ AchievementToldOnce'
  <2> DEFINE fresh == check'[p].fresh \ check[p].fresh
  <2>1. /\ check'[p].fresh = check[p].fresh \cup fresh
        /\ \A m \in fresh : <<check[p].user, m>> \in unlocked' \ unlocked
    <3>1. \/ check'[p].fresh = check[p].fresh
          \/ /\ check'[p].fresh = check[p].fresh \cup {n}
             /\ <<check[p].user, n>> \in unlocked' \ unlocked
      BY <1>9, UnlockForm
    <3>2. CASE check'[p].fresh = check[p].fresh
      BY <3>2
    <3>3. CASE /\ check'[p].fresh = check[p].fresh \cup {n}
               /\ <<check[p].user, n>> \in unlocked' \ unlocked
      BY <3>3
    <3> QED BY <3>1, <3>2, <3>3
  <2>2. UNCHANGED <<told, repeated>> /\ check[p].pc = "unlock" /\ unlocked \subseteq unlocked'
    BY <1>9, UnlockForm
  <2>3. \A q \in Checks : check'[q].user = check[q].user /\ check'[q].pc = check[q].pc
    BY <1>9, UnlockForm
  <2>4. \A q \in Checks \ {p} : check'[q] = check[q]
    BY <1>9, UnlockForm
  <2>5. told \subseteq unlocked'
    BY <2>2 DEF ChecksOK
  <2>6. \A q \in Checks : check'[q].pc # "idle" => check'[q].user \in Users
    BY <2>3 DEF ChecksOK
  <2>7. \A q \in Checks : \A m \in check'[q].fresh :
          /\ check'[q].pc = "unlock"
          /\ <<check'[q].user, m>> \in unlocked' \ told
    BY <2>1, <2>2, <2>3, <2>4 DEF ChecksOK
  <2>8. \A m \in check[p].fresh \cup fresh :
          \A q \in Checks \ {p} : check[q].user = check[p].user => m \notin check[q].fresh
    BY <2>1 DEF ChecksOK
  <2>9. ASSUME NEW q \in Checks, NEW m \in check'[q].fresh,
               NEW r \in Checks \ {q}, check'[r].user = check'[q].user
        PROVE  m \notin check'[r].fresh
    <3>1. check[r].user = check[q].user
      BY <2>3, <2>9
    <3>2. CASE q = p
      BY <2>1, <2>4, <2>8, <3>1, <3>2
    <3>3. CASE r = p
      <4>1. m \in check[q].fresh /\ check'[r].fresh = check[p].fresh \cup fresh
        BY <2>1, <2>4, <2>9, <3>3
      <4> QED BY <2>8, <3>1, <3>3, <4>1
    <3>4. CASE q # p /\ r # p
      BY <2>4, <3>1, <3>4 DEF ChecksOK
    <3> QED BY <3>2, <3>3, <3>4
  <2> QED BY <2>2, <2>5, <2>6, <2>7, <2>9 DEF ChecksOK
<1>10. ASSUME NEW p \in Checks, CheckTell(p) PROVE ChecksOK' /\ AchievementToldOnce'
  <2> DEFINE news == {check[p].user} \X check[p].fresh
  <2>1. told' = told \cup news /\ repeated' = repeated \cup (told \cap news) /\ UNCHANGED unlocked
    BY <1>10 DEF CheckTell
  <2>2. news \subseteq unlocked \ told
    BY DEF ChecksOK
  <2>3. check'[p] = NoCheck /\ \A q \in Checks \ {p} : check'[q] = check[q]
    BY <1>10 DEF CheckTell, End
  <2>4. \A q \in Checks \ {p} : \A n \in check[q].fresh : <<check[q].user, n>> \notin news
    BY DEF ChecksOK
  <2> QED BY <2>1, <2>2, <2>3, <2>4 DEF ChecksOK, NoCheck
<1> QED BY <1>2, <1>3, <1>4, <1>5, <1>6, <1>7, <1>8, <1>9, <1>10 DEF Next, CheckStep
-----------------------------------------------------------------------------
(* Every like arrives. *)

\* A like that is to come to a group stays so until its consumer has it in hand.
LEMMA ToComeStep ==
  ASSUME TypeOK, LikesOK, CheckerOK, [Next]_vars, NEW g \in Groups, NEW l \in Like,
         Author[l[2]] # None, ToCome(g, l), l \notin missed'[g]
  PROVE  ToCome(g, l)' \/ (InHand(g, l)' /\ (g = Checker => check'[g].pc = "stats"))
<1> USE Shapes DEF toggling, checking, deliveryVars
<1> DEFINE Goal == ToCome(g, l)' \/ (InHand(g, l)' /\ (g = Checker => check'[g].pc = "stats"))
<1>1. ASSUME NEW s \in Slots, Toggle(s) PROVE Goal
  <2>1. UNCHANGED queued /\ sending \subseteq sending'
    BY <1>1 DEF Toggle, ToggleInsert, ToggleDelete, ToggleAnnounce, ToggleFail, Published
  <2>2. \A e \in Events : about[e] = l => about'[e] = l
    BY <1>1 DEF Toggle, ToggleInsert, ToggleDelete, ToggleAnnounce, ToggleFail
  <2>3. CASE \E e \in sending \cup queued[g] : about[e] = l
    BY <2>1, <2>2, <2>3 DEF ToCome
  <2>4. ASSUME NEW r \in Slots, req[r].pc = "announce", req[r].like = l PROVE Goal
    <3>1. CASE r # s
      <4>1. req'[r] = req[r]
        BY <1>1, <3>1 DEF Toggle, ToggleInsert, ToggleDelete, ToggleAnnounce, ToggleFail
      <4> QED BY <2>4, <4>1 DEF ToCome
    <3>2. CASE r = s
      <4>1. ~ToggleInsert(s) /\ ~ToggleDelete(s)
        BY <2>4, <3>2 DEF ToggleInsert, ToggleDelete, Idle
      <4>2. ~ToggleFail(s)
        BY <2>4, <3>2 DEF ToggleFail, MissedByAll
      <4>3. ToggleAnnounce(s)
        BY <1>1, <4>1, <4>2 DEF Toggle
      <4>4. PICK e \in Events : about' = [about EXCEPT ![e] = l] /\ sending' = sending \cup {e}
        BY <2>4, <3>2, <4>3 DEF ToggleAnnounce, Announced, Published
      <4> QED BY <4>4 DEF ToCome
    <3> QED BY <3>1, <3>2
  <2> QED BY <2>3, <2>4 DEF ToCome
<1>2. ASSUME UNCHANGED <<req, about>>, sending \subseteq sending', queued[g] \subseteq queued'[g]
      PROVE  Goal
  BY <1>2 DEF ToCome
<1>3. ASSUME NEW e \in Events, Arrives(e) PROVE Goal
  <2>1. UNCHANGED <<req, about>> /\ queued'[g] = queued[g] \cup {e} /\ sending \ {e} \subseteq sending'
    BY <1>3 DEF Arrives, Arrive
  <2> QED BY <2>1 DEF ToCome
<1>4. ASSUME NEW e \in Events, Lost(e) PROVE Goal
  <2>1. UNCHANGED <<req, about, queued>> /\ sending' = sending \ {e} /\ about[e] # l
    BY <1>4 DEF Lost, GiveUp, MissedByAll
  <2> QED BY <2>1 DEF ToCome
<1>5. ASSUME NEW h \in Groups, NEW e \in Events, Take(h, e) PROVE Goal
  <2>1. UNCHANGED <<req, about, sending>> /\ queued' = [queued EXCEPT ![h] = @ \ {e}]
    BY <1>5 DEF Take, Taken
  <2>2. CASE h = g /\ about[e] = l
    <3>1. InHand(g, l)'
      BY <1>5, <2>2 DEF Take, InHand
    <3>2. g = Checker => check'[g].pc = "stats"
      BY <1>5, <2>2 DEF Take, NoCheck, Checks
    <3> QED BY <3>1, <3>2
  <2>3. CASE ~(h = g /\ about[e] = l)
    BY <2>1, <2>3 DEF ToCome
  <2> QED BY <2>2, <2>3
<1>6. ASSUME NEW h \in Groups, Commit(h) \/ Restart(h) PROVE Goal
  <2>1. UNCHANGED <<req, about, sending>> /\ queued[g] \subseteq queued'[g]
    BY <1>6 DEF Commit, Committed, Restart, Reread
  <2> QED BY <1>2, <2>1
<1>7. CASE FeedInsert \/ UNCHANGED vars
  BY <1>2, <1>7 DEF FeedInsert, vars
<1>8. ASSUME NEW p \in Checks, CheckStep(p) PROVE Goal
  <2>1. UNCHANGED <<req, about, sending, queued>>
    BY <1>8 DEF CheckStep, CheckStart, CheckStats, CheckUnlock, CheckTell
  <2> QED BY <1>2, <2>1
<1> QED BY <1>1, <1>3, <1>4, <1>5, <1>6, <1>7, <1>8 DEF Next

\* A like that a consumer has in hand stays so until its handler returns, or comes again.
LEMMA InHandStep ==
  ASSUME TypeOK, LikesOK, CheckerOK, [Next]_vars, NEW g \in Groups, NEW l \in Like,
         InHand(g, l)
  PROVE  \/ ToCome(g, l)'
         \/ InHand(g, l)' /\ ((\E p \in Checks : CheckStep(p)) \/ (g = Checker => check'[g] = check[g]))
         \/ g = Feeder /\ FeedInsert
         \/ g = Checker /\ CheckStep(g)
<1> USE Shapes DEF toggling, checking, deliveryVars
<1> DEFINE Goal == \/ ToCome(g, l)'
                   \/ InHand(g, l)' /\ ((\E p \in Checks : CheckStep(p)) \/ (g = Checker => check'[g] = check[g]))
                   \/ g = Feeder /\ FeedInsert
                   \/ g = Checker /\ CheckStep(g)
<1>1. hand[g].event \in Events /\ about[hand[g].event] = l /\ hand[g] # NoHand /\ ~hand[g].done
  BY DEF InHand, Hand, NoHand
<1>2. ASSUME UNCHANGED <<about, check>>, hand'[g] = hand[g] PROVE Goal
  BY <1>2 DEF InHand
<1>3. ASSUME NEW s \in Slots, Toggle(s) PROVE Goal
  <2>1. UNCHANGED <<hand, check>>
    BY <1>3 DEF Toggle, ToggleInsert, ToggleDelete, ToggleAnnounce, ToggleFail
  <2>2. about'[hand[g].event] = l
    BY <1>1, <1>3 DEF Toggle, ToggleInsert, ToggleDelete, ToggleAnnounce, ToggleFail
  <2> QED BY <2>1, <2>2 DEF InHand
<1>4. ASSUME NEW e \in Events, Arrives(e) \/ Lost(e) PROVE Goal
  BY <1>2, <1>4 DEF Arrives, Lost
<1>5. ASSUME NEW h \in Groups, NEW e \in Events, Take(h, e) PROVE Goal
  <2>1. h # g
    BY <1>1, <1>5 DEF Take
  <2>2. hand'[g] = hand[g] /\ UNCHANGED about
    BY <1>5, <2>1 DEF Take
  <2>3. g = Checker => check'[g] = check[g]
    BY <1>5, <2>1 DEF Take
  <2> QED BY <2>2, <2>3 DEF InHand
<1>6. ASSUME NEW h \in Groups, Commit(h) PROVE Goal
  <2>1. h # g /\ hand' = [hand EXCEPT ![h] = NoHand] /\ UNCHANGED <<about, check>>
    BY <1>1, <1>6 DEF Commit
  <2> QED BY <1>2, <2>1
<1>7. ASSUME NEW h \in Groups, Restart(h) PROVE Goal
  <2>1. hand' = [hand EXCEPT ![h] = NoHand] /\ UNCHANGED about
    BY <1>7 DEF Restart
  <2>2. CASE h = g
    <3>1. hand[g].event \in queued'[g]
      BY <1>1, <1>7, <2>2 DEF Restart, Reread, Unfinished
    <3> QED BY <1>1, <2>1, <3>1 DEF ToCome
  <2>3. CASE h # g
    <3>1. g = Checker => check'[g] = check[g]
      BY <1>7, <2>3 DEF Restart
    <3> QED BY <2>1, <2>3, <3>1 DEF InHand
  <2> QED BY <2>2, <2>3
<1>8. CASE FeedInsert
  <2>1. CASE g # Feeder
    BY <1>2, <1>8, <2>1 DEF FeedInsert, Return
  <2> QED BY <1>8, <2>1
<1>9. ASSUME NEW p \in Checks, CheckStep(p) PROVE Goal
  <2>1. CASE g = Checker /\ p = Checker
    BY <1>9, <2>1
  <2>2. CASE ~(g = Checker /\ p = Checker)
    <3>1. UNCHANGED about
      BY <1>9 DEF CheckStep, CheckStart, CheckStats, CheckUnlock, CheckTell
    <3>2. hand'[g] = hand[g]
      BY <1>9, <2>2 DEF CheckStep, CheckStart, CheckStats, CheckUnlock, CheckTell, End, Return
    <3> QED BY <1>9, <3>1, <3>2 DEF InHand
  <2> QED BY <2>1, <2>2
<1>10. CASE UNCHANGED vars
  BY <1>2, <1>10 DEF vars
<1> QED BY <1>3, <1>4, <1>5, <1>6, <1>7, <1>8, <1>9, <1>10 DEF Next
\* What failed, was shown and was unlocked stays so, and a like that is set is to come.
LEMMA OnlyMoreStep ==
  ASSUME TypeOK, [Next]_vars
  PROVE  /\ \A g \in Groups : missed[g] \subseteq missed'[g]
         /\ feed \subseteq feed' /\ unlocked \subseteq unlocked'
         /\ \A l \in likes' \ likes, g \in Groups : ToCome(g, l)'
<1> USE Shapes DEF toggling, checking, deliveryVars
<1>1. \A g \in Groups : missed[g] \subseteq missed'[g]
  <2>1. ASSUME NEW l, MissedByAll(l) PROVE \A g \in Groups : missed[g] \subseteq missed'[g]
    BY <2>1 DEF MissedByAll
  <2>2. ASSUME NEW g \in Groups, Fails(g) PROVE \A h \in Groups : missed[h] \subseteq missed'[h]
    BY <2>2 DEF Fails
  <2>3. ASSUME NEW p \in Checks, CheckStep(p) PROVE \A h \in Groups : missed[h] \subseteq missed'[h]
    BY <2>2, <2>3 DEF CheckStep, CheckStart, CheckStats, CheckUnlock, CheckTell, FailsIn
  <2>4. CASE FeedInsert
    BY <2>2, <2>4 DEF FeedInsert
  <2>5. ASSUME NEW s \in Slots, Toggle(s) PROVE \A h \in Groups : missed[h] \subseteq missed'[h]
    BY <2>1, <2>5 DEF Toggle, ToggleInsert, ToggleDelete, ToggleAnnounce, ToggleFail
  <2>6. ASSUME NEW e \in Events, Arrives(e) \/ Lost(e)
        PROVE  \A h \in Groups : missed[h] \subseteq missed'[h]
    BY <2>1, <2>6 DEF Arrives, Lost
  <2>7. CASE \E g \in Groups : Commit(g) \/ Restart(g) \/ \E e \in Events : Take(g, e)
    BY <2>7 DEF Commit, Restart, Take
  <2> QED BY <2>3, <2>4, <2>5, <2>6, <2>7 DEF Next, vars
<1>2. feed \subseteq feed' /\ unlocked \subseteq unlocked'
  BY DEF Next, Toggle, ToggleInsert, ToggleDelete, ToggleAnnounce, ToggleFail, Arrives, Lost,
         Take, Commit, Restart, FeedInsert, CheckStep, CheckStart, CheckStats, CheckUnlock,
         CheckTell, vars
<1>3. ASSUME NEW l \in likes' \ likes, NEW g \in Groups PROVE ToCome(g, l)'
  <2>1. PICK s \in Slots : ToggleInsert(s)
    BY <1>3 DEF Next, Toggle, ToggleDelete, ToggleAnnounce, ToggleFail, Arrives, Lost,
                Take, Commit, Restart, FeedInsert, CheckStep, CheckStart, CheckStats,
                CheckUnlock, CheckTell, vars
  <2>2. req'[s].pc = "announce" /\ req'[s].like = l
    BY <1>3, <2>1 DEF ToggleInsert
  <2> QED BY <2>2 DEF ToCome
<1> QED BY <1>1, <1>2, <1>3

\* Every like gets into the feed or stays underway.
LEMMA ShownStep ==
  ASSUME TypeOK, LikesOK, CheckerOK, LikesAreShown, [Next]_vars
  PROVE  LikesAreShown'
<1> USE Shapes DEF toggling, checking, deliveryVars
<1>1. likes' \in SUBSET Like
  BY DEF Next, Toggle, ToggleInsert, ToggleDelete, ToggleAnnounce, ToggleFail, Arrives, Lost,
         Take, Commit, Restart, FeedInsert, CheckStep, CheckStart, CheckStats, CheckUnlock,
         CheckTell, vars
<1>4. SUFFICES ASSUME NEW l \in likes', l \notin missed'[Feeder], Author[l[2]] # None
               PROVE  (l \in feed \/ ToCome(Feeder, l) \/ InHand(Feeder, l))'
  BY DEF LikesAreShown
<1>5. CASE l \notin likes
  BY <1>5, OnlyMoreStep
<1>6. CASE l \in likes /\ l \in feed
  BY <1>6, OnlyMoreStep
<1>7. CASE l \in likes /\ ToCome(Feeder, l)
  BY <1>1, <1>4, <1>7, ToComeStep
<1>8. CASE l \in likes /\ InHand(Feeder, l)
  <2>1. CASE FeedInsert
    BY <1>4, <1>8, <2>1 DEF FeedInsert, Fails, InHand
  <2>2. CASE ~FeedInsert
    BY <1>1, <1>8, <2>2, InHandStep
  <2> QED BY <2>1, <2>2
<1> QED BY <1>4, <1>5, <1>6, <1>7, <1>8, OnlyMoreStep DEF LikesAreShown
\* The likes that an author is checked for are among those that are counted.
LEMMA TotalCounts ==
  ASSUME TypeOK, NEW u \in Users, NEW T \in SUBSET LikesOf(u)
  PROVE  Cardinality(T) <= Total(u) /\ Total(u) \in Nat /\ Cardinality(T) \in Nat
<1> DEFINE Counted == {l \in likes : u \in Uploaders[l[2]]}
<1>1. IsFiniteSet(likes)
  BY LikesAssumption, FS_Product, FS_Subset DEF TypeOK, Like
<1>2. T \subseteq Counted
  BY LikesAssumption DEF LikesOf, TypeOK, Like
<1>3. IsFiniteSet(Counted) /\ IsFiniteSet(T) /\ Cardinality(T) <= Cardinality(Counted)
  BY <1>1, <1>2, FS_Subset
<1>4. Cardinality(Counted) \in Nat /\ Cardinality(T) \in Nat
  BY <1>3, FS_CardinalityType
<1> QED BY <1>3, <1>4 DEF Total

\* Enough likes lead to their achievement, whichever of them are taken back.
LEMMA PartsStep ==
  ASSUME TypeOK, LikesOK, CheckerOK, PartsAreUnlocked, [Next]_vars
  PROVE  PartsAreUnlocked'
<1> USE Shapes DEF toggling, checking, deliveryVars
<1>1. likes' \in SUBSET Like
  BY DEF Next, Toggle, ToggleInsert, ToggleDelete, ToggleAnnounce, ToggleFail, Arrives, Lost,
         Take, Commit, Restart, FeedInsert, CheckStep, CheckStart, CheckStats, CheckUnlock,
         CheckTell, vars
<1>2. SUFFICES ASSUME NEW u \in Users, NEW n \in Levels, NEW T \in SUBSET LikesOf(u)',
                      Cardinality(T) >= n, T \cap missed'[Checker] = {}
               PROVE  <<u, n>> \in unlocked' \/ \E l \in T : MayUnlock(l, n)'
  BY DEF PartsAreUnlocked
<1>3. \A l \in T : l \in likes' /\ Author[l[2]] = u /\ Author[l[2]] # None
  BY LikesAssumption DEF LikesOf
<1>4. CASE \E l \in T : l \notin likes
  BY <1>3, <1>4, OnlyMoreStep DEF MayUnlock
<1>5. CASE T \subseteq likes
  <2>1. T \in SUBSET LikesOf(u) /\ T \cap missed[Checker] = {}
    BY <1>2, <1>3, <1>5, OnlyMoreStep DEF LikesOf
  <2>2. CASE <<u, n>> \in unlocked
    BY <2>2, OnlyMoreStep
  <2>3. ASSUME NEW l \in T, ToCome(Checker, l)
        PROVE  \E m \in T : MayUnlock(m, n)'
    <3>1. ToCome(Checker, l)' \/ (InHand(Checker, l)' /\ check'[Checker].pc = "stats")
      BY <1>1, <1>2, <1>3, <2>3, ToComeStep
    <3> QED BY <3>1 DEF MayUnlock
  <2>4. ASSUME NEW l \in T, InHand(Checker, l),
               check[Checker].pc = "unlock" => n \in check[Checker].todo
        PROVE  <<u, n>> \in unlocked' \/ \E m \in T : MayUnlock(m, n)'
    <3>1. CASE ToCome(Checker, l)'
      BY <3>1 DEF MayUnlock
    <3>2. CASE InHand(Checker, l)' /\ check'[Checker] = check[Checker]
      BY <2>4, <3>2 DEF MayUnlock
    <3>3. ASSUME NEW p \in Checks, CheckStep(p), p # Checker, InHand(Checker, l)'
          PROVE  check'[Checker] = check[Checker]
      BY <3>3 DEF CheckStep, CheckStart, CheckStats, CheckUnlock, CheckTell, End, Checks
    <3>4. CASE CheckStep(Checker)
      <4>1. check[Checker].user = u /\ hand[Checker].event # None /\ about[hand[Checker].event] = l
        BY <1>3, <2>4 DEF CheckerOK, InHand, Busy
      <4>2. ASSUME FailsIn(Checker) PROVE FALSE
        BY <1>2, <4>1, <4>2 DEF FailsIn, Fails
      <4>3. CASE CheckStats(Checker)
        <5>1. UNCHANGED hand /\ check'[Checker].todo = Reached(u)
          BY <4>1, <4>2, <4>3, StatsForm DEF Checks
        <5>2. n \in Reached(u)
          BY <1>2, <2>1, LikesAssumption, TotalCounts DEF Reached
        <5>3. UNCHANGED about
          BY <4>3 DEF CheckStats
        <5> QED BY <2>4, <5>1, <5>2, <5>3 DEF MayUnlock, InHand
      <4>4. ASSUME NEW m \in Levels, CheckUnlock(Checker, m)
            PROVE  <<u, n>> \in unlocked' \/ \E x \in T : MayUnlock(x, n)'
        <5>1. /\ UNCHANGED hand /\ check[Checker].pc = "unlock"
              /\ check'[Checker].todo = check[Checker].todo \ {m}
              /\ <<u, m>> \in unlocked'
          BY <4>1, <4>2, <4>4, UnlockForm DEF Checks
        <5>2. UNCHANGED about
          BY <4>4 DEF CheckUnlock
        <5> QED BY <2>4, <5>1, <5>2 DEF MayUnlock, InHand
      <4>5. ~CheckTell(Checker) /\ ~CheckStart(Checker)
        BY <2>4 DEF CheckTell, CheckStart
      <4> QED BY <3>4, <4>3, <4>4, <4>5 DEF CheckStep
    <3> QED BY <1>1, <1>3, <2>4, <3>1, <3>2, <3>3, <3>4, InHandStep
  <2> QED BY <1>2, <2>1, <2>2, <2>3, <2>4 DEF PartsAreUnlocked, MayUnlock
<1> QED BY <1>4, <1>5

-----------------------------------------------------------------------------
(* The theorems. *)

\* Every behaviour keeps the inductive invariant.
LEMMA IInvAlways == Spec => []IInv
<1>1. Init => IInv
  <2> SUFFICES ASSUME Init PROVE IInv
    OBVIOUS
  <2>1. TypeOK
    BY DeliveryInitType, LikesAssumption
       DEF Init, TypeOK, DeliveryInit, NoHand, Hand, Idle, Request, NoCheck, Check, NoLike
  <2>2. LikesOK /\ CheckerOK /\ ChecksOK
    BY LikesAssumption
       DEF Init, DeliveryInit, LikesOK, CheckerOK, ChecksOK, Busy, Underway, NoHand, Idle,
           NoCheck, Checks
  <2>3. LikesAreShown /\ AchievementToldOnce
    BY DEF Init, LikesAreShown, AchievementToldOnce
  <2>4. PartsAreUnlocked
    <3>1. \A u \in Users : LikesOf(u) = {}
      BY DEF Init, LikesOf
    <3>2. ASSUME NEW u \in Users, NEW n \in Levels, NEW T \in SUBSET LikesOf(u)
          PROVE  ~(Cardinality(T) >= n)
      <4>1. T = {}
        BY <3>1
      <4>2. Cardinality(T) = 0
        BY <4>1, FS_EmptySet
      <4>3. n \in Nat \ {0}
        BY LikesAssumption
      <4> QED BY <4>2, <4>3
    <3> QED BY <3>2 DEF PartsAreUnlocked
  <2> QED BY <2>1, <2>2, <2>3, <2>4 DEF IInv
<1>2. IInv /\ [Next]_vars => IInv'
  BY TypeStep, LikesOKStep, CheckerStep, ChecksStep, ShownStep, PartsStep DEF IInv
<1> QED BY <1>1, <1>2, PTL DEF Spec

\* Every variable has its type.
THEOREM TypeCorrect == Spec => []TypeOK
<1>1. IInv => TypeOK
  BY DEF IInv
<1> QED BY <1>1, IInvAlways, PTL

\* Every like of a dance with an author is in the feed, or on its way there, or some call
\* for it failed.
THEOREM LikesShown == Spec => []LikesAreShown
<1>1. IInv => LikesAreShown
  BY DEF IInv
<1> QED BY <1>1, IInvAlways, PTL

\* Whoever has the likes for an achievement, none of them missed, has it or will get it.
THEOREM AchievementsUnlocked == Spec => []ReachedIsUnlocked
<1>1. IInv => ReachedIsUnlocked
  BY DEF IInv, PartsAreUnlocked, ReachedIsUnlocked
<1> QED BY <1>1, IInvAlways, PTL

\* Nobody is told twice of an achievement, whatever checks run at the same time.
THEOREM ToldOnce == Spec => []AchievementToldOnce
<1>1. IInv => AchievementToldOnce
  BY DEF IInv
<1> QED BY <1>1, IInvAlways, PTL
=============================================================================
