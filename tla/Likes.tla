-------------------------------- MODULE Likes --------------------------------
(***************************************************************************)
(* Likes and what follows from them: social/usecase/usecase.go over the    *)
(* table dance_likes, the event like.toggled, and its two consumers, the   *)
(* feed of activities (cmd/activity-feed-worker) and the achievements      *)
(* (cmd/achievements-worker, users/usecase/achievement_usecase.go), which  *)
(* count the likes of an author anew for every event.                      *)
(***************************************************************************)
EXTENDS Delivery, Naturals, FiniteSets

CONSTANTS
  Users,     \* accounts
  Dances,    \* dances
  Uploaders, \* Uploaders[d]: who has uploaded dance d (bound: fixed)
  Author,    \* Author[d]: the first of them, None without one
  Levels,    \* the numbers of likes an achievement asks for: 1, 10 and 50
  Slots,     \* slots for requests running at a time
  Others,    \* other checks of achievements: consumers of other topics, requests
  Fragile,   \* bound: whether failing calls are explored
  None       \* no account, no event

Checker == "achievements"
Feeder == "feed"

ASSUME LikesAssumption ==
  /\ Uploaders \in [Dances -> SUBSET Users]
  /\ Author \in [Dances -> Users \cup {None}]
  /\ \A d \in Dances : Author[d] # None => Author[d] \in Uploaders[d]
  /\ Levels \in SUBSET (Nat \ {0})
  /\ Fragile \in BOOLEAN
  /\ Groups = {Checker, Feeder}
  /\ Checker \notin Others
  /\ None \notin Users \cup Events
  /\ IsFiniteSet(Users) /\ IsFiniteSet(Dances)

Like == Users \X Dances
NoLike == <<None, None>>

\* A request: what it has still to do about its like.
Request == [pc : {"idle", "delete", "announce"}, like : Like \cup {NoLike}]
Idle == [pc |-> "idle", like |-> NoLike]

\* The event a consumer has in hand, and whether its handler has returned.
Hand == [event : Events \cup {None}, done : BOOLEAN]
NoHand == [event |-> None, done |-> FALSE]

\* CheckAndUnlockAchievements: the levels it has still to unlock, and those it unlocked.
Check == [pc : {"idle", "stats", "unlock"},
          user : Users \cup {None},
          todo : SUBSET Levels,
          fresh : SUBSET Levels]
NoCheck == [pc |-> "idle", user |-> None, todo |-> {}, fresh |-> {}]
Checks == Others \cup {Checker}

VARIABLES
  likes,    \* dance_likes
  req,      \* req[s]: what slot s is doing
  about,    \* about[e]: the like event e tells of, NoLike before it is published
  hand,     \* hand[g]: what the consumer of group g is doing
  feed,     \* the likes in activity_feed
  check,    \* check[p]: a check of achievements
  unlocked, \* user_achievements
  told,     \* history: achievements their users were told of
  repeated, \* history: those of them told more than once
  missed    \* missed[g]: history: likes that group g was never told of or failed on

vars == <<sending, queued, held, likes, req, about, hand, feed, check, unlocked, told,
          repeated, missed>>

Init == /\ DeliveryInit
        /\ likes = {}
        /\ req = [s \in Slots |-> Idle]
        /\ about = [e \in Events |-> NoLike]
        /\ hand = [g \in Groups |-> NoHand]
        /\ feed = {}
        /\ check = [p \in Checks |-> NoCheck]
        /\ unlocked = {}
        /\ told = {}
        /\ repeated = {}
        /\ missed = [g \in Groups |-> {}]

toggling == <<likes, req, about>>
checking == <<check, unlocked, told, repeated>>

-----------------------------------------------------------------------------
(* ToggleLike. *)

\* INSERT ... ON CONFLICT DO NOTHING, which tells whether there was a row.
ToggleInsert(s) ==
  /\ req[s] = Idle
  /\ \E l \in Like :
       /\ likes' = likes \cup {l}
       /\ req' = [req EXCEPT ![s] =
                    [pc |-> IF l \in likes THEN "delete" ELSE "announce", like |-> l]]
  /\ UNCHANGED <<deliveryVars, about, hand, feed, checking, missed>>

\* The row that was found is deleted, whoever may have removed it or set it meanwhile.
ToggleDelete(s) ==
  /\ req[s].pc = "delete"
  /\ likes' = likes \ {req[s].like}
  /\ req' = [req EXCEPT ![s] = Idle]
  /\ UNCHANGED <<deliveryVars, about, hand, feed, checking, missed>>

\* Mutant of Announced: only a like that was never announced is.
AnnouncedFirst(l) == Author[l[2]] # None /\ \A e \in Events : about[e] # l

\* A like is announced to the first uploader; a dance without one has nobody to tell.
Announced(l) == Author[l[2]] # None

\* GetLikesCount and GetDanceAuthor only read; when one fails, ToggleFail ends the request.
ToggleAnnounce(s) ==
  LET l == req[s].like
  IN  /\ req[s].pc = "announce"
      /\ \/ /\ ~Announced(l)
            /\ UNCHANGED <<deliveryVars, about>>
         \/ /\ Announced(l)
            /\ \E e \in Events :
                 /\ about[e] = NoLike
                 /\ about' = [about EXCEPT ![e] = l]
                 /\ Published({e})
            /\ UNCHANGED <<queued, held>>
      /\ req' = [req EXCEPT ![s] = Idle]
      /\ UNCHANGED <<likes, hand, feed, checking, missed>>

MissedByAll(l) == missed' = [g \in Groups |-> missed[g] \cup {l}]

\* A statement fails and ends the request, or the process stops: a like that is set by
\* then is not announced.
ToggleFail(s) ==
  /\ Fragile
  /\ req[s] # Idle
  /\ req' = [req EXCEPT ![s] = Idle]
  /\ IF req[s].pc = "delete" THEN UNCHANGED missed ELSE MissedByAll(req[s].like)
  /\ UNCHANGED <<deliveryVars, likes, about, hand, feed, checking>>

Arrives(e) ==
  /\ Arrive(e)
  /\ UNCHANGED <<toggling, hand, feed, checking, missed>>

Lost(e) ==
  /\ Fragile
  /\ GiveUp(e)
  /\ MissedByAll(about[e])
  /\ UNCHANGED <<toggling, hand, feed, checking>>

-----------------------------------------------------------------------------
(* The consumers. *)

Take(g, e) ==
  /\ hand[g] = NoHand
  /\ Taken(g, e)
  /\ hand' = [hand EXCEPT ![g] = [event |-> e, done |-> FALSE]]
  /\ check' = IF g = Checker
                THEN [check EXCEPT ![g] = [NoCheck EXCEPT !.pc = "stats",
                                                          !.user = Author[about[e][2]]]]
                ELSE check
  /\ UNCHANGED <<toggling, feed, unlocked, told, repeated, missed>>

\* The handler returns, always without an error.
Return(g) == hand' = [hand EXCEPT ![g].done = TRUE]

\* What group g makes of the event in hand fails, which is only logged.
Fails(g) ==
  /\ Fragile
  /\ missed' = [missed EXCEPT ![g] = @ \cup {about[hand[g].event]}]

\* insertFeedEvent: a row per liker and dance, whatever happened to the like since.
FeedInsert ==
  /\ hand[Feeder].event # None
  /\ ~hand[Feeder].done
  /\ \/ /\ feed' = feed \cup {about[hand[Feeder].event]}
        /\ UNCHANGED missed
     \/ Fails(Feeder) /\ UNCHANGED feed
  /\ Return(Feeder)
  /\ UNCHANGED <<deliveryVars, toggling, checking>>

Commit(g) ==
  /\ hand[g].done
  /\ Committed(g, hand[g].event)
  /\ hand' = [hand EXCEPT ![g] = NoHand]
  /\ UNCHANGED <<toggling, feed, checking, missed>>

\* Mutants of Unfinished: the event is committed before it is handled; there always is one.
UnfinishedNone(g) == {}
UnfinishedAlways(g) == {hand[g].event}

\* The event that is read again when the consumer of group g stops.
Unfinished(g) == {hand[g].event} \ {None}

\* The worker stops, or only reads again between two events; what it told was told.
Restart(g) ==
  /\ Fragile
  /\ Reread(g, Unfinished(g))
  /\ hand' = [hand EXCEPT ![g] = NoHand]
  /\ check' = IF g = Checker THEN [check EXCEPT ![g] = NoCheck] ELSE check
  /\ UNCHANGED <<toggling, feed, unlocked, told, repeated, missed>>

-----------------------------------------------------------------------------
(* CheckAndUnlockAchievements. *)

\* total_likes in get_user_stats_for_achievements.sql: of all dances u has uploaded, also
\* those somebody uploaded before.
Total(u) == Cardinality({l \in likes : u \in Uploaders[l[2]]})

\* meetsThreshold
Reached(u) == {n \in Levels : Total(u) >= n}

\* A consumer of another topic, or a request, checks a user at any time.
CheckStart(p) ==
  /\ check[p] = NoCheck
  /\ p # Checker
  /\ \E u \in Users : check' = [check EXCEPT ![p] = [NoCheck EXCEPT !.pc = "stats",
                                                                   !.user = u]]
  /\ UNCHANGED <<deliveryVars, toggling, hand, feed, unlocked, told, repeated, missed>>

\* The check of p ends: in the consumer of likes, its handler returns.
End(p) ==
  /\ check' = [check EXCEPT ![p] = NoCheck]
  /\ IF p = Checker THEN Return(p) ELSE UNCHANGED hand

FailsIn(p) == IF p = Checker THEN Fails(p) ELSE Fragile /\ UNCHANGED missed

CheckStats(p) ==
  /\ check[p].pc = "stats"
  /\ \/ /\ check' = [check EXCEPT ![p] = [@ EXCEPT !.pc = "unlock",
                                                    !.todo = Reached(check[p].user)]]
        /\ UNCHANGED <<hand, missed>>
     \/ FailsIn(p) /\ End(p)
  /\ UNCHANGED <<deliveryVars, toggling, feed, unlocked, told, repeated>>

\* Mutant of Fresh: what was reached is told.
FreshAll(u, n) == {n}

\* Whether INSERT ... ON CONFLICT DO NOTHING made a row.
Fresh(u, n) == IF <<u, n>> \in unlocked THEN {} ELSE {n}

\* UnlockAchievement, one level after the other; one that fails, with or without effect,
\* is passed over.
CheckUnlock(p, n) ==
  LET c == check[p]
      Passed(fresh) == check' = [check EXCEPT ![p] = [c EXCEPT !.todo = c.todo \ {n},
                                                              !.fresh = c.fresh \cup fresh]]
  IN  /\ c.pc = "unlock"
      /\ n \in c.todo
      /\ \/ /\ unlocked' = unlocked \cup {<<c.user, n>>}
            /\ Passed(Fresh(c.user, n))
            /\ UNCHANGED missed
         \/ /\ FailsIn(p)
            /\ Passed({})
            /\ \/ unlocked' = unlocked \cup {<<c.user, n>>}
               \/ UNCHANGED unlocked
      /\ UNCHANGED <<deliveryVars, toggling, hand, feed, told, repeated>>

\* The user is told of what this check has unlocked.
CheckTell(p) ==
  LET c == check[p]
      news == {c.user} \X c.fresh
  IN  /\ c.pc = "unlock"
      /\ c.todo = {}
      /\ told' = told \cup news
      /\ repeated' = repeated \cup (told \cap news)
      /\ End(p)
      /\ UNCHANGED <<deliveryVars, toggling, feed, unlocked, missed>>

-----------------------------------------------------------------------------
Toggle(s) == ToggleInsert(s) \/ ToggleDelete(s) \/ ToggleAnnounce(s) \/ ToggleFail(s)

CheckStep(p) == CheckStart(p) \/ CheckStats(p) \/ CheckTell(p)
                  \/ \E n \in Levels : CheckUnlock(p, n)

Next == \/ \E s \in Slots : Toggle(s)
        \/ \E e \in Events : Arrives(e) \/ Lost(e)
        \/ \E g \in Groups : Commit(g) \/ Restart(g) \/ \E e \in Events : Take(g, e)
        \/ FeedInsert
        \/ \E p \in Checks : CheckStep(p)

Spec == Init /\ [][Next]_vars

-----------------------------------------------------------------------------
(* Properties. *)

\* Every variable has its type.
TypeOK == /\ DeliveryTypeOK
          /\ likes \in SUBSET Like
          /\ req \in [Slots -> Request]
          /\ about \in [Events -> Like \cup {NoLike}]
          /\ hand \in [Groups -> Hand]
          /\ feed \in SUBSET Like
          /\ check \in [Checks -> Check]
          /\ unlocked \in SUBSET (Users \X Levels)
          /\ told \in SUBSET (Users \X Levels)
          /\ repeated \in SUBSET (Users \X Levels)
          /\ missed \in [Groups -> SUBSET Like]

\* Like l is still to come to group g: its request has not announced it yet, or its event
\* is on the way or queued.
ToCome(g, l) ==
  \/ \E s \in Slots : req[s].pc = "announce" /\ req[s].like = l
  \/ \E e \in sending \cup queued[g] : about[e] = l

\* Group g is handling like l.
InHand(g, l) == hand[g].event # None /\ ~hand[g].done /\ about[hand[g].event] = l

\* Every like of a dance with an author gets into the feed, though its event may come
\* late, twice or after the like was taken back and set again: it is there, or on its
\* way, or some call failed that nobody repeats.
LikesAreShown ==
  \A l \in likes \ missed[Feeder] :
    Author[l[2]] # None => l \in feed \/ ToCome(Feeder, l) \/ InHand(Feeder, l)

\* Like l may still unlock level n of its author: the consumer has not taken it, or has
\* not read the statistics for it, or has read them and will unlock n.
MayUnlock(l, n) ==
  \/ ToCome(Checker, l)
  \/ InHand(Checker, l) /\ (check[Checker].pc = "unlock" => n \in check[Checker].todo)

\* The likes u is checked for.
LikesOf(u) == {l \in likes : Author[l[2]] = u}

\* Whoever has the likes for an achievement has it, or is about to get it: the check
\* counts anew for each event, possibly before other likes, and unlikes, are written.
\* Likes of dances that somebody else has uploaded before are counted, but not checked.
ReachedIsUnlocked ==
  \A u \in Users, n \in Levels :
    Cardinality(LikesOf(u)) >= n /\ LikesOf(u) \cap missed[Checker] = {} =>
      <<u, n>> \in unlocked \/ \E l \in LikesOf(u) : MayUnlock(l, n)

\* Checks of one user run at the same time and again after a crash, but nobody is told
\* twice of an achievement.
AchievementToldOnce == repeated = {}
=============================================================================
