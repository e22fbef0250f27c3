------------------------------- MODULE Streaks -------------------------------
(***************************************************************************)
(* Streaks of days danced: src/cmd/streak-worker/main.go.  The worker      *)
(* counts the events attempt.saved with two Redis keys per user, the       *)
(* length of the streak and the last day that counted, and reminds users   *)
(* every hour of a streak that ends tonight.  The two keys are read and    *)
(* written by separate commands whose failures are mostly ignored, and the *)
(* reminders run beside the counting.  Each key has a time to live of its  *)
(* own, 48 hours from the SET or EXPIRE that gave it; INCR keeps the old   *)
(* one, so a streak outlives its third day only if EXPIRE renews it.       *)
(***************************************************************************)
EXTENDS Delivery, Integers

CONSTANTS
  Users,       \* accounts
  LastDay,     \* bound: the days that are explored
  Milestones,  \* lengths that are announced: 3, 7 and 30
  Fragile,     \* bound: whether failing calls are explored
  None         \* no event, no user

ASSUME StreaksAssumption ==
  /\ LastDay \in Nat
  /\ Milestones \in SUBSET (Nat \ {0, 1})
  /\ Fragile \in BOOLEAN
  /\ None \notin Events \cup Users

Worker == "streak-worker"
ASSUME GroupsAssumption == Groups = {Worker}

\* Days count from 1; a key that is missing reads as day -1.
Never == -1
Days == 1..LastDay

Hand == [pc : {"idle", "get", "incr", "reset", "note", "renew", "keep", "tell", "commit"},
         event : Events \cup {None},
         today : Nat,
         streak : Nat]

NoHand == [pc |-> "idle", event |-> None, today |-> 0, streak |-> 0]

Round == [pc : {"idle", "scan", "mark", "read", "tell"},
          today : Nat,
          user : Users \cup {None},
          streak : Nat]

NoRound == [pc |-> "idle", today |-> 0, user |-> None, streak |-> 0]

Notice == [kind : {"streak_milestone", "streak_reminder"},
           user : Users,
           day : Nat,
           streak : Nat]

VARIABLES
  day,      \* the date
  maker,    \* maker[e]: who saved the attempt that event e tells of, None before
  made,     \* made[e]: the day it was saved
  streak,   \* streak[u]: the key streak:<u>, 0 when it is missing
  streakTo, \* streakTo[u]: the day on which that key runs out, 0 when it has no time to live
  last,     \* last[u]: the key streak_last:<u>
  lastTo,   \* lastTo[u]: the day on which that key runs out
  marked,   \* the keys streak_notified:<u>:<day>
  hand,     \* what the consumer is doing
  round,    \* what the reminders are doing
  notices,  \* history: notices handed to the producer
  repeated, \* history: those of them handed over more than once
  spoiled,  \* history: users an event of whom was lost, late, or not handled to the end
  unrenewed \* history: users whose streak a count did not renew, or not before midnight

vars == <<sending, queued, held, day, maker, made, streak, streakTo, last, lastTo, marked,
          hand, round, notices, repeated, spoiled, unrenewed>>

Init == /\ DeliveryInit
        /\ day = 1
        /\ maker = [e \in Events |-> None]
        /\ made = [e \in Events |-> 0]
        /\ streak = [u \in Users |-> 0]
        /\ streakTo = [u \in Users |-> 0]
        /\ last = [u \in Users |-> Never]
        /\ lastTo = [u \in Users |-> 0]
        /\ marked = {}
        /\ hand = NoHand
        /\ round = NoRound
        /\ notices = {}
        /\ repeated = {}
        /\ spoiled = {}
        /\ unrenewed = {}

\* The worker has counted for u, but not yet noted the day.
Noting(u) == hand.pc = "note" /\ maker[hand.event] = u

\* What the counting leaves alone, and what the reminders leave alone.
calendar == <<day, maker, made>>
reminding == <<marked, round>>
keys == <<streak, streakTo, last, lastTo>>
excepted == <<spoiled, unrenewed>>
counting == <<keys, hand, excepted>>
telling == <<notices, repeated>>

\* A notice is handed to the producer.
Tell(n) == /\ notices' = notices \cup {n}
           /\ repeated' = repeated \cup ({n} \cap notices)

\* The day on which a key runs out that now gets 48 hours.
Until == day + 2

\* A key that runs out on day d goes in the course of that day.
Due(d) == d \in 1..day

-----------------------------------------------------------------------------
(* The days and the keys, and SaveAttempt publishing its event. *)

\* The user whose count is interrupted by a midnight after which the streak's key, not yet
\* renewed, may run out.
LateRenewal ==
  {u \in Users : hand.pc \in {"note", "renew"} /\ maker[hand.event] = u /\ streakTo[u] = day + 1}

PassDay ==
  /\ day < LastDay
  /\ \A u \in Users : ~Due(streakTo[u]) /\ ~Due(lastTo[u])
  /\ day' = day + 1
  /\ unrenewed' = unrenewed \cup LateRenewal
  /\ UNCHANGED <<deliveryVars, maker, made, keys, hand, spoiled, reminding, telling>>

ExpireStreak(u) ==
  /\ Due(streakTo[u])
  /\ streak' = [streak EXCEPT ![u] = 0]
  /\ streakTo' = [streakTo EXCEPT ![u] = 0]
  /\ UNCHANGED <<deliveryVars, calendar, last, lastTo, hand, excepted, reminding, telling>>

ExpireLast(u) ==
  /\ Due(lastTo[u])
  /\ last' = [last EXCEPT ![u] = Never]
  /\ lastTo' = [lastTo EXCEPT ![u] = 0]
  /\ UNCHANGED <<deliveryVars, calendar, streak, streakTo, hand, excepted, reminding, telling>>

Save(e) ==
  /\ maker[e] = None
  /\ \E u \in Users : maker' = [maker EXCEPT ![e] = u]
  /\ made' = [made EXCEPT ![e] = day]
  /\ Published({e})
  /\ UNCHANGED <<queued, held, day, counting, reminding, telling>>

Arrives(e) ==
  /\ Arrive(e)
  /\ UNCHANGED <<calendar, counting, reminding, telling>>

Lost(e) ==
  /\ Fragile
  /\ GiveUp(e)
  /\ spoiled' = spoiled \cup {maker[e]}
  /\ UNCHANGED <<calendar, keys, hand, unrenewed, reminding, telling>>

-----------------------------------------------------------------------------
(* handleAttemptSaved. *)

Goto(pc) == hand' = [hand EXCEPT !.pc = pc]

\* The handling of the event in hand goes wrong and will not be repeated.
Spoil == Fragile /\ spoiled' = spoiled \cup {maker[hand.event]}

\* An event that is still handled when its day is over is late.
OnItsDay ==
  LET e == hand.event
  IN  spoiled' = IF made[e] = day THEN spoiled ELSE spoiled \cup {maker[e]}

\* The handler starts with the date.
Take(e) ==
  /\ hand.pc = "idle"
  /\ Taken(Worker, e)
  /\ hand' = [pc |-> "get", event |-> e, today |-> day, streak |-> 0]
  /\ UNCHANGED <<calendar, keys, excepted, reminding, telling>>

\* Mutants of NextCount: today is not told from yesterday; a missed day does not matter.
NextCountAgain(lastDate, today, yesterday) ==
  IF lastDate \in {today, yesterday} THEN "incr" ELSE "reset"
NextCountGap(lastDate, today, yesterday) ==
  IF lastDate = today THEN "commit" ELSE IF lastDate = Never THEN "reset" ELSE "incr"

\* The switch of handleAttemptSaved.
NextCount(lastDate, today, yesterday) ==
  IF lastDate = today THEN "commit" ELSE IF lastDate = yesterday THEN "incr" ELSE "reset"

\* GET streak_last; yesterday's date is taken after it, when midnight may have passed.
Get ==
  LET u == maker[hand.event]
  IN  /\ hand.pc = "get"
      /\ \/ /\ Goto(NextCount(last[u], hand.today, day - 1))
            /\ OnItsDay
         \/ Spoil /\ Goto("commit")
      /\ UNCHANGED <<deliveryVars, calendar, keys, unrenewed, reminding, telling>>

\* INCR streak, which keeps its time to live and gives a new key none; it may fail, with or
\* without effect, and the handler returns.
Incr ==
  LET u == maker[hand.event]
  IN  /\ hand.pc = "incr"
      /\ \/ /\ streak' = [streak EXCEPT ![u] = @ + 1]
            /\ hand' = [hand EXCEPT !.pc = "note", !.streak = streak[u] + 1]
            /\ OnItsDay
         \/ /\ Spoil
            /\ Goto("commit")
            /\ \/ streak' = [streak EXCEPT ![u] = @ + 1]
               \/ UNCHANGED streak
      /\ UNCHANGED <<deliveryVars, calendar, streakTo, last, lastTo, unrenewed, reminding, telling>>

\* SET streak 1, 48 hours; its failure is ignored.
Reset ==
  LET u == maker[hand.event]
  IN  /\ hand.pc = "reset"
      /\ hand' = [hand EXCEPT !.pc = "note", !.streak = 1]
      /\ \/ /\ streak' = [streak EXCEPT ![u] = 1]
            /\ streakTo' = [streakTo EXCEPT ![u] = Until]
            /\ UNCHANGED spoiled
         \/ Spoil /\ UNCHANGED <<streak, streakTo>>
      /\ UNCHANGED <<deliveryVars, calendar, last, lastTo, unrenewed, reminding, telling>>

\* SET streak_last, 48 hours; its failure is ignored, too.
Note ==
  LET u == maker[hand.event]
  IN  /\ hand.pc = "note"
      /\ \/ /\ last' = [last EXCEPT ![u] = hand.today]
            /\ lastTo' = [lastTo EXCEPT ![u] = Until]
            /\ UNCHANGED spoiled
         \/ Spoil /\ UNCHANGED <<last, lastTo>>
      /\ Goto("renew")
      /\ UNCHANGED <<deliveryVars, calendar, streak, streakTo, unrenewed, reminding, telling>>

\* Mutant of Renewed: the streak keeps the time to live it has.
RenewedNever(u) == streakTo

\* What EXPIRE makes of the streak's time to live; it does nothing to a missing key.
Renewed(u) == [streakTo EXCEPT ![u] = IF streak[u] = 0 THEN @ ELSE Until]

\* EXPIRE streak; its failure is ignored.
Renew ==
  LET u == maker[hand.event]
  IN  /\ hand.pc = "renew"
      /\ \/ /\ streakTo' = Renewed(u)
            /\ UNCHANGED unrenewed
         \/ /\ Fragile
            /\ unrenewed' = unrenewed \cup {u}
            /\ UNCHANGED streakTo
      /\ Goto("keep")
      /\ UNCHANGED <<deliveryVars, calendar, streak, last, lastTo, spoiled, reminding, telling>>

\* EXPIRE streak_last; its failure is ignored.
Keep ==
  LET u == maker[hand.event]
  IN  /\ hand.pc = "keep"
      /\ \/ lastTo' = [lastTo EXCEPT ![u] = IF last[u] = Never THEN @ ELSE Until]
         \/ Fragile /\ UNCHANGED lastTo
      /\ Goto("tell")
      /\ UNCHANGED <<deliveryVars, calendar, streak, streakTo, last, excepted, reminding, telling>>

Milestone == [kind |-> "streak_milestone", user |-> maker[hand.event],
              day |-> hand.today, streak |-> hand.streak]

TellMilestone ==
  /\ hand.pc = "tell"
  /\ IF hand.streak \in Milestones THEN Tell(Milestone) ELSE UNCHANGED telling
  /\ Goto("commit")
  /\ UNCHANGED <<deliveryVars, calendar, keys, excepted, reminding>>

Commit ==
  /\ hand.pc = "commit"
  /\ Committed(Worker, hand.event)
  /\ hand' = NoHand
  /\ UNCHANGED <<calendar, keys, excepted, reminding, telling>>

\* Mutant of InHand: also when there is no event.
InHandAlways == {hand.event}

\* The event that is read again when the worker stops.
InHand == {hand.event} \ {None}

\* The consumer's connection breaks between two events.
Reconnect ==
  /\ Fragile
  /\ hand.pc = "idle"
  /\ held[Worker] # {}
  /\ Reread(Worker, {})
  /\ UNCHANGED <<calendar, counting, reminding, telling>>

\* The user of the event in hand, when the worker is at step pc.
HandAt(pc) == IF hand.pc = pc THEN {maker[hand.event]} ELSE {}

\* The worker stops and is started again.  Before the day is noted, the event in hand is
\* neither uncounted nor counted; once it is noted, the event that comes again finds its day
\* and renews nothing.
Restart ==
  /\ Fragile
  /\ Reread(Worker, InHand)
  /\ hand' = NoHand
  /\ round' = NoRound
  /\ spoiled' = spoiled \cup HandAt("note")
  /\ unrenewed' = unrenewed \cup HandAt("renew")
  /\ UNCHANGED <<calendar, keys, marked, telling>>

-----------------------------------------------------------------------------
(* runStreakReminders, once an hour. *)

RoundStart ==
  /\ round.pc = "idle"
  /\ round' = [NoRound EXCEPT !.pc = "scan", !.today = day]
  /\ UNCHANGED <<deliveryVars, calendar, counting, marked, telling>>

\* A key of the scan, which may show one twice, and GET streak_last.
RoundCheck(u) ==
  /\ round.pc = "scan"
  /\ streak[u] # 0
  /\ last[u] = round.today - 1
  /\ round' = [round EXCEPT !.pc = "mark", !.user = u]
  /\ UNCHANGED <<deliveryVars, calendar, counting, marked, telling>>

RoundEnd ==
  /\ round.pc = "scan"
  /\ round' = NoRound
  /\ UNCHANGED <<deliveryVars, calendar, counting, marked, telling>>

\* Mutant of MayRemind: the mark is not looked at.
MayRemindAgain(u, d) == TRUE

\* SETNX streak_notified
MayRemind(u, d) == <<u, d>> \notin marked

RoundMark ==
  LET key == <<round.user, round.today>>
  IN  /\ round.pc = "mark"
      /\ \/ /\ MayRemind(round.user, round.today)
            /\ marked' = marked \cup {key}
            /\ round' = [round EXCEPT !.pc = "read"]
         \/ /\ \/ ~MayRemind(round.user, round.today) /\ UNCHANGED marked
               \/ Fragile /\ marked' \in {marked, marked \cup {key}}
            /\ round' = [round EXCEPT !.pc = "scan"]
      /\ UNCHANGED <<deliveryVars, calendar, counting, telling>>

\* GET streak: when it fails or shows nothing, the mark stays and nobody is told.
RoundRead ==
  /\ round.pc = "read"
  /\ \/ /\ streak[round.user] # 0
        /\ round' = [round EXCEPT !.pc = "tell", !.streak = streak[round.user]]
     \/ /\ streak[round.user] = 0 \/ Fragile
        /\ round' = [round EXCEPT !.pc = "scan"]
  /\ UNCHANGED <<deliveryVars, calendar, counting, marked, telling>>

Reminder == [kind |-> "streak_reminder", user |-> round.user, day |-> round.today,
             streak |-> round.streak]

RoundTell ==
  /\ round.pc = "tell"
  /\ Tell(Reminder)
  /\ round' = [NoRound EXCEPT !.pc = "scan", !.today = round.today]
  /\ UNCHANGED <<deliveryVars, calendar, counting, marked>>

-----------------------------------------------------------------------------
Count == Get \/ Incr \/ Reset \/ Note \/ Renew \/ Keep \/ TellMilestone \/ Commit

Remind == \/ RoundStart \/ RoundEnd \/ RoundMark \/ RoundRead \/ RoundTell
          \/ \E u \in Users : RoundCheck(u)

Next ==
  \/ PassDay
  \/ \E e \in Events : Save(e) \/ Arrives(e) \/ Lost(e) \/ Take(e)
  \/ \E u \in Users : ExpireStreak(u) \/ ExpireLast(u)
  \/ Count
  \/ Reconnect \/ Restart
  \/ Remind

Spec == Init /\ [][Next]_vars

-----------------------------------------------------------------------------
(* Properties. *)

\* Every variable has its type.
TypeOK == /\ DeliveryTypeOK
          /\ day \in Nat
          /\ maker \in [Events -> Users \cup {None}]
          /\ made \in [Events -> Nat]
          /\ streak \in [Users -> Nat]
          /\ streakTo \in [Users -> Nat]
          /\ last \in [Users -> Nat \cup {Never}]
          /\ lastTo \in [Users -> Nat]
          /\ marked \in SUBSET (Users \X Nat)
          /\ hand \in Hand
          /\ round \in Round
          /\ notices \in SUBSET Notice
          /\ repeated \in SUBSET Notice
          /\ spoiled \in SUBSET Users
          /\ unrenewed \in SUBSET Users

\* The days on which u saved an attempt.
Danced(u) == {made[e] : e \in {x \in Events : maker[x] = u}}

\* The last day that counts for u, also while the worker is about to note it.
LastCounted(u) == IF Noting(u) THEN hand.today ELSE last[u]

\* A streak of n days that ends with day d was danced.
DancedFor(u, n, d) == \A x \in (d - n + 1)..d : x \in Danced(u)

\* No day counts that was not danced and no day twice, though events are handled again
\* after a crash or a failed commit: a second event of the day, and the same event again,
\* must find the day noted.  Excepted are users of whom an event was lost, was handled
\* past the end of its day, or was not handled to the end.
StreaksAreDanced ==
  \A u \in Users \ spoiled :
    LastCounted(u) # Never => DancedFor(u, streak[u], LastCounted(u))

\* The events of u that are still to be handled.
Waiting(u) ==
  \E e \in Events : maker[e] = u /\ (e \in sending \cup queued[Worker] \/ e = hand.event)

\* No danced day is missed: when nothing of a user is waiting, the last two days are noted
\* if they were danced, and a streak that can still be continued reaches back to a day that
\* was not danced.  Its key must therefore outlive the day after the last count, though the
\* INCR that counts does not renew it.  Excepted are the users that StreaksAreDanced excepts
\* and, for the streak, those it was once not renewed for before midnight: an EXPIRE
\* failed or the worker stopped before it, which nothing repairs until the streak is reset.
StreaksAreWhole ==
  \A u \in Users \ spoiled : ~Waiting(u) =>
    /\ \A d \in Danced(u) : d >= day - 1 => d <= last[u]
    /\ last[u] >= day - 1 /\ u \notin unrenewed => last[u] - streak[u] \notin Danced(u)

\* A reminder speaks of a streak that was danced and that ends no earlier than the day
\* before; it ends later when the user's attempt was counted in the meantime.
RemindersAreTrue ==
  \A n \in notices : n.kind = "streak_reminder" /\ n.user \notin spoiled =>
    \E d \in (n.day - 1)..day : DancedFor(n.user, n.streak, d)

\* Nobody is reminded twice of a day, whatever crashes, and a milestone is told twice only
\* to a user whose streak was once not renewed: it may then run out and be counted up again
\* on one day.
ToldOnce ==
  /\ \A n \in repeated : n.kind = "streak_milestone" /\ n.user \in unrenewed
  /\ \A n, m \in notices :
       n.kind = "streak_reminder" /\ m.kind = n.kind /\ m.user = n.user /\ m.day = n.day
         => m = n
=============================================================================
